------------------------------- MODULE Daemon -------------------------------
(***************************************************************************)
(* The search daemon while it serves: the connections of several clients,  *)
(* the cache of open projects, background compaction of a project's vector *)
(* store, and the shutdown that takes all of it down.  One step is one     *)
(* critical section (Daemon.mu, CompactionManager.mu) or one call between  *)
(* two of them.                                                            *)
(***************************************************************************)
EXTENDS Naturals, FiniteSets, Sequences, SequencesExt

CONSTANTS
    Project,         \* root paths a client may ask for
    Indexed,         \* those of them that have an index
    Client,          \* connections served at the same time
    MaxProjects,     \* Config.MaxProjects
    MaxLoads,        \* bound: project states ever created
    MaxCompactions,  \* bound: compactions ever started
    MaxRequests,     \* bound: search requests
    NoProject

ASSUME DaemonAssumption ==
    /\ Indexed \subseteq Project
    /\ NoProject \notin Project
    /\ MaxProjects \in Nat \ {0}
    /\ MaxLoads \in Nat
    /\ MaxCompactions \in Nat
    /\ MaxRequests \in Nat

State      == 1..MaxLoads         \* project states, in the order of their loading
NoState    == 0
Compaction == 1..MaxCompactions   \* compactions, in the order of their starts

VARIABLES
    life,       \* "running", "draining", "stopping", "waiting", "closing", "stopped"
    embedder,   \* whether the shared embedder could be made
    cached,     \* [Project -> State or NoState]: Daemon.projects
    projectOf,  \* [State -> Project or NoProject]: the project a state was loaded for
    byUse,      \* the cached states, least recently used first
    open,       \* states whose metadata and BM25 stores are open
    evicted,    \* states that were closed to make room for another
    vectorOf,   \* [State -> ...]: 0 for the vector store the engine was made
                \* with, or the compaction that made the one that replaced it
    closed,     \* <<state, vector store>> that have been closed
    orphaned,   \* states whose vector store was loaded with too many orphans
    fileOrphaned, \* projects whose vectors.hnsw has too many orphans
    conn,       \* [Client -> [at, root, ref]]: what the handler of a connection
                \* does next, SearchParams.RootPath, the state it works on
    requests,
    timer,      \* projects whose idle timer runs
    idle,       \* [Project -> Nat]: onIdle calls that have passed the flags
    eligible,   \* [Project -> Nat]: onIdle calls about to start a compaction
    compacting, \* projects whose compacting flag is set
    cancelOf,   \* [Project -> ...]: what cancelFunc cancels, 0 for nil
    cancelled,  \* compactions whose context is cancelled
    worker      \* [Compaction -> [at, project, state]]

cacheVars   == <<embedder, cached, projectOf, byUse, open, evicted, orphaned>>
vectorVars  == <<vectorOf, closed, fileOrphaned>>
clientVars  == <<conn, requests>>
compactVars == <<timer, idle, eligible, compacting, cancelOf, cancelled, worker>>
daemonVars  == <<life, cacheVars, vectorVars, clientVars, compactVars>>

WorkerAt == {"unborn", "starting", "project", "embeddings", "rebuild", "save",
             "swap", "close", "record", "end", "done"}

ConnAt   == {"none", "request", "interrupt", "lookup", "load", "touch", "search", "complete"}
NoConn   == [at |-> "none", root |-> NoProject, ref |-> NoState]

DaemonInit ==
    /\ life = "running"
    /\ embedder \in BOOLEAN
    /\ cached = [p \in Project |-> NoState]
    /\ projectOf = [s \in State |-> NoProject]
    /\ byUse = <<>>
    /\ open = {}
    /\ evicted = {}
    /\ vectorOf = [s \in State |-> 0]
    /\ closed = {}
    /\ orphaned = {}
    /\ fileOrphaned = Indexed
    /\ conn = [c \in Client |-> NoConn]
    /\ requests = 0
    /\ timer = {}
    /\ idle = [p \in Project |-> 0]
    /\ eligible = [p \in Project |-> 0]
    /\ compacting = {}
    /\ cancelOf = [p \in Project |-> 0]
    /\ cancelled = {}
    /\ worker = [w \in Compaction |-> [at |-> "unborn", project |-> NoProject, state |-> NoState]]

-----------------------------------------------------------------------------
(* A connection: accept, one search request, an answer.                    *)

\* The accept loop takes connections until the listener is closed.
Accept(c, p) ==
    /\ life = "running"
    /\ conn[c].at = "none"
    /\ requests < MaxRequests
    /\ requests' = requests + 1
    /\ conn' = [conn EXCEPT ![c] = [at |-> "request", root |-> p, ref |-> NoState]]
    /\ UNCHANGED <<life, cacheVars, vectorVars, compactVars>>

Answer(c) == conn' = [conn EXCEPT ![c] = NoConn]

\* handleConnection to handleSearch: one request is read within the deadline;
\* all but a valid search is answered at once.
HandleRequest(c) ==
    /\ conn[c].at = "request"
    /\ \/ conn' = [conn EXCEPT ![c].at = "interrupt"]
       \/ Answer(c)
    /\ UNCHANGED <<life, cacheVars, vectorVars, requests, compactVars>>

\* CompactionManager.InterruptCompaction
InterruptCompaction(c) ==
    /\ conn[c].at = "interrupt"
    /\ conn' = [conn EXCEPT ![c].at = "lookup"]
    /\ cancelled' = IF conn[c].root \in compacting THEN cancelled \cup ({cancelOf[conn[c].root]} \ {0})
                                              ELSE cancelled
    /\ UNCHANGED <<life, cacheVars, vectorVars, requests, timer, idle, eligible,
                   compacting, cancelOf, worker>>

\* getOrCreateProject, the read lock: the state is used after the lock is gone.
Lookup(c) ==
    /\ conn[c].at = "lookup"
    /\ LET s == cached[conn[c].root]
       IN  conn' = [conn EXCEPT ![c].at = IF s # NoState THEN "touch" ELSE "load",
                                ![c].ref = s]
    /\ UNCHANGED <<life, cacheVars, vectorVars, requests, compactVars>>

CachedStates == {cached[p] : p \in Project} \ {NoState}
Loaded       == {s \in State : projectOf[s] # NoProject}

\* evictLRU: which states leave the cache, and which stores it closes.
EvictLRU(full) ==
    LET lru == {s \in State : full /\ byUse # <<>> /\ s = Head(byUse)}
    IN  [left |-> lru, shut |-> lru]

\* getOrCreateProject, the write lock: looked up again, the embedder made when
\* startup could not, one project evicted when the cache is full, then loaded.
\* The room is made before the load, which may fail.
LoadProject(c) ==
    LET p     == conn[c].root
        out   == EvictLRU(Cardinality(CachedStates) >= MaxProjects)
        new   == Cardinality(Loaded) + 1
        keep  == [q \in Project |-> IF cached[q] \in out.left THEN NoState ELSE cached[q]]
        used  == IF out.left = {} THEN byUse ELSE Tail(byUse)
    IN  /\ conn[c].at = "load"
        /\ \/ /\ cached[p] # NoState
              /\ conn' = [conn EXCEPT ![c].at = "touch", ![c].ref = cached[p]]
              /\ UNCHANGED <<cacheVars, vectorVars>>
           \/ /\ cached[p] = NoState
              /\ ~embedder
              /\ Answer(c)
              /\ UNCHANGED <<cacheVars, vectorVars>>
           \/ /\ cached[p] = NoState
              /\ embedder' = TRUE
              /\ evicted' = evicted \cup out.left
              /\ closed' = closed \cup {<<s, vectorOf[s]>> : s \in out.shut}
              /\ \/ /\ p \in Indexed
                    /\ new <= MaxLoads
                    /\ cached' = [keep EXCEPT ![p] = new]
                    /\ projectOf' = [projectOf EXCEPT ![new] = p]
                    /\ byUse' = Append(used, new)
                    /\ open' = (open \ out.shut) \cup {new}
                    /\ orphaned' = IF p \in fileOrphaned THEN orphaned \cup {new} ELSE orphaned
                    /\ conn' = [conn EXCEPT ![c].at = "touch", ![c].ref = new]
                 \/ /\ p \notin Indexed
                    /\ cached' = keep
                    /\ byUse' = used
                    /\ open' = open \ out.shut
                    /\ Answer(c)
                    /\ UNCHANGED <<projectOf, orphaned>>
              /\ UNCHANGED <<vectorOf, fileOrphaned>>
        /\ UNCHANGED <<life, requests, compactVars>>

\* HandleSearch: lastUsed = now, which orders the cache only if it is in it.
Touch(c) ==
    /\ conn[c].at = "touch"
    /\ conn' = [conn EXCEPT ![c].at = "search"]
    /\ byUse' = IF conn[c].ref \in CachedStates
                THEN Append(RemoveFirst(byUse, conn[c].ref), conn[c].ref)
                ELSE byUse
    /\ UNCHANGED <<life, embedder, cached, projectOf, open, evicted, orphaned, vectorVars,
                   requests, compactVars>>

\* engine.Search: fails on closed stores, and may when shutdown cancels it.
Search(c) ==
    /\ conn[c].at = "search"
    /\ \/ conn[c].ref \in open /\ conn' = [conn EXCEPT ![c].at = "complete"]
       \/ (conn[c].ref \notin open \/ life # "running") /\ Answer(c)
    /\ UNCHANGED <<life, cacheVars, vectorVars, requests, compactVars>>

\* OnSearchComplete: the project's idle timer starts again.
OnSearchComplete(c) ==
    /\ conn[c].at = "complete"
    /\ Answer(c)
    /\ timer' = timer \cup {conn[c].root}
    /\ UNCHANGED <<life, cacheVars, vectorVars, requests, idle, eligible,
                   compacting, cancelOf, cancelled, worker>>

-----------------------------------------------------------------------------
(* Compaction.                                                             *)

ManagerCancelled == life \in {"waiting", "closing", "stopped"}
Interrupted(w)   == w \in cancelled \/ ManagerCancelled

\* The idle timer: onIdle and the first half of shouldCompact, which reads the
\* manager's own flags (the cooldown may or may not have passed).
OnIdle(p) ==
    /\ p \in timer
    /\ timer' = timer \ {p}
    /\ \/ idle' = idle
       \/ /\ ~ManagerCancelled
          /\ p \notin compacting
          /\ idle[p] < MaxRequests
          /\ idle' = [idle EXCEPT ![p] = @ + 1]
    /\ UNCHANGED <<life, cacheVars, vectorVars, clientVars, eligible, compacting, cancelOf,
                   cancelled, worker>>

\* The second half of shouldCompact: the project and its orphans.
ShouldCompact(p) ==
    LET s == cached[p]
    IN  /\ idle[p] > 0
        /\ idle' = [idle EXCEPT ![p] = @ - 1]
        /\ eligible' = IF s # NoState /\ s \in orphaned /\ vectorOf[s] = 0
                          /\ <<s, 0>> \notin closed /\ eligible[p] < MaxRequests
                       THEN [eligible EXCEPT ![p] = @ + 1]
                       ELSE eligible
        /\ UNCHANGED <<life, cacheVars, vectorVars, clientVars, timer, compacting, cancelOf,
                       cancelled, worker>>

Started == {w \in Compaction : worker[w].at # "unborn"}

Begin(p) ==
    LET w == Cardinality(Started) + 1
    IN  /\ w \in Compaction
        /\ compacting' = compacting \cup {p}
        /\ cancelOf' = [cancelOf EXCEPT ![p] = w]
        /\ worker' = [worker EXCEPT ![w] = [at |-> "starting", project |-> p, state |-> NoState]]

\* Mutation of StartCompaction: shouldCompact has looked at the flag already.
StartCompactionUnchecked(p) ==
    /\ eligible[p] > 0
    /\ eligible' = [eligible EXCEPT ![p] = @ - 1]
    /\ Begin(p)
    /\ UNCHANGED <<life, cacheVars, vectorVars, clientVars, timer, idle, cancelled>>

\* startCompaction, the critical section: the flag is looked at again.
StartCompaction(p) ==
    /\ eligible[p] > 0
    /\ eligible' = [eligible EXCEPT ![p] = @ - 1]
    /\ \/ p \notin compacting /\ Begin(p)
       \/ p \in compacting /\ UNCHANGED <<compacting, cancelOf, worker>>
    /\ UNCHANGED <<life, cacheVars, vectorVars, clientVars, timer, idle, cancelled>>

Go(w, from, to) ==
    /\ worker[w].at = from
    /\ worker' = [worker EXCEPT ![w].at = to]

\* wg.Add and the goroutine, after the critical section.
Spawn(w) ==
    /\ Go(w, "starting", "project")
    /\ UNCHANGED <<life, cacheVars, vectorVars, clientVars, timer, idle, eligible, compacting,
                   cancelOf, cancelled>>

\* runCompaction: the project state is read under the lock and used without it.
ReadProject(w) ==
    LET s == cached[worker[w].project]
    IN  /\ worker[w].at = "project"
        /\ worker' = [worker EXCEPT ![w].at = IF s = NoState THEN "end" ELSE "embeddings",
                                    ![w].state = s]
        /\ UNCHANGED <<life, cacheVars, vectorVars, clientVars, timer, idle, eligible,
                       compacting, cancelOf, cancelled>>

\* GetAllEmbeddings fails on a closed store or a cancelled context, and may.
ReadEmbeddings(w) ==
    /\ \/ Go(w, "embeddings", "end")
       \/ worker[w].state \in open /\ ~Interrupted(w) /\ Go(w, "embeddings", "rebuild")
    /\ UNCHANGED <<life, cacheVars, vectorVars, clientVars, timer, idle, eligible, compacting,
                   cancelOf, cancelled>>

\* The new graph is built in batches, with a look at the context before each
\* and a last one before the save.
Rebuild(w) ==
    /\ \/ Go(w, "rebuild", "end")
       \/ ~Interrupted(w) /\ Go(w, "rebuild", "save")
    /\ UNCHANGED <<life, cacheVars, vectorVars, clientVars, timer, idle, eligible, compacting,
                   cancelOf, cancelled>>

\* newVector.Save
SaveNew(w) ==
    /\ \/ Go(w, "save", "end") /\ UNCHANGED fileOrphaned
       \/ Go(w, "save", "swap") /\ fileOrphaned' = fileOrphaned \ {worker[w].project}
    /\ UNCHANGED <<life, cacheVars, vectorOf, closed, clientVars, timer, idle, eligible,
                   compacting, cancelOf, cancelled>>

\* The swap, and the close of the store that was swapped out: the one the
\* project state had, which is the one its engine searches.
Swap(w) ==
    LET s == worker[w].state
    IN  /\ Go(w, "swap", "record")
        /\ vectorOf' = [vectorOf EXCEPT ![s] = w]
        /\ closed' = closed \cup {<<s, vectorOf[s]>>}
        /\ UNCHANGED <<life, cacheVars, fileOrphaned, clientVars, timer, idle, eligible,
                       compacting, cancelOf, cancelled>>

\* lastCompact = now; ShouldCompact leaves the cooldown open.
RecordCompaction(w) ==
    /\ Go(w, "record", "end")
    /\ UNCHANGED <<life, cacheVars, vectorVars, clientVars, timer, idle, eligible, compacting,
                   cancelOf, cancelled>>

\* Mutation of EndCompaction: the group is not left.
EndCompactionStays(w) ==
    /\ Go(w, "end", "end")
    /\ compacting' = compacting \ {worker[w].project}
    /\ cancelOf' = [cancelOf EXCEPT ![worker[w].project] = 0]
    /\ UNCHANGED <<life, cacheVars, vectorVars, clientVars, timer, idle, eligible, cancelled>>

\* The deferred calls: the flag is taken back, the group is left.
EndCompaction(w) ==
    /\ Go(w, "end", "done")
    /\ compacting' = compacting \ {worker[w].project}
    /\ cancelOf' = [cancelOf EXCEPT ![worker[w].project] = 0]
    /\ UNCHANGED <<life, cacheVars, vectorVars, clientVars, timer, idle, eligible, cancelled>>

-----------------------------------------------------------------------------
(* Shutdown.                                                               *)

InGroup(w) == worker[w].at \notin {"unborn", "starting", "done"}

\* A signal cancels the server's context, which closes the listener.
Signal ==
    /\ life = "running"
    /\ life' = "draining"
    /\ UNCHANGED <<cacheVars, vectorVars, clientVars, compactVars>>

\* Mutation of Drain: the server does not wait for its connections.
DrainAtOnce ==
    /\ life = "draining"
    /\ life' = "stopping"
    /\ UNCHANGED <<cacheVars, vectorVars, clientVars, compactVars>>

\* ListenAndServe waits for the connections that are being served.
Drain ==
    /\ life = "draining"
    /\ \A c \in Client : conn[c] = NoConn
    /\ life' = "stopping"
    /\ UNCHANGED <<cacheVars, vectorVars, clientVars, compactVars>>

\* CompactionManager.Stop: cancel everything, stop the timers.
StopCompaction ==
    /\ life = "stopping"
    /\ life' = "waiting"
    /\ timer' = {}
    /\ cancelled' = cancelled \cup ({cancelOf[p] : p \in Project} \ {0})
    /\ UNCHANGED <<cacheVars, vectorVars, clientVars, idle, eligible, compacting, cancelOf,
                   worker>>

\* wg.Wait sees only the compactions that have joined the group.
WaitForCompactions ==
    /\ life = "waiting"
    /\ \A w \in Compaction : ~InGroup(w)
    /\ life' = "closing"
    /\ UNCHANGED <<cacheVars, vectorVars, clientVars, compactVars>>

\* cleanup: every project state, the embedder and the reranker.
CloseProjects ==
    /\ life = "closing"
    /\ life' = "stopped"
    /\ cached' = [p \in Project |-> NoState]
    /\ byUse' = <<>>
    /\ open' = open \ CachedStates
    /\ closed' = closed \cup {<<s, vectorOf[s]>> : s \in CachedStates}
    /\ embedder' = FALSE
    /\ UNCHANGED <<projectOf, evicted, orphaned, vectorOf, fileOrphaned, clientVars, compactVars>>

-----------------------------------------------------------------------------
Serve(c) == \/ HandleRequest(c) \/ InterruptCompaction(c) \/ Lookup(c) \/ LoadProject(c) \/ Touch(c)
            \/ Search(c) \/ OnSearchComplete(c)
IdleCall(p) == ShouldCompact(p) \/ StartCompaction(p)
Work(w)  == \/ Spawn(w) \/ ReadProject(w) \/ ReadEmbeddings(w) \/ Rebuild(w) \/ SaveNew(w)
            \/ Swap(w) \/ RecordCompaction(w) \/ EndCompaction(w)
Shutdown == Drain \/ StopCompaction \/ WaitForCompactions \/ CloseProjects

DaemonNext ==
    \/ \E c \in Client : Serve(c) \/ \E p \in Project : Accept(c, p)
    \/ \E p \in Project : OnIdle(p) \/ IdleCall(p)
    \/ \E w \in Compaction : Work(w)
    \/ Signal \/ Shutdown

DaemonSpec == DaemonInit /\ [][DaemonNext]_daemonVars

\* Every goroutine that can take a step does; the timer may run for ever.
DaemonFairness ==
    /\ \A c \in Client : WF_daemonVars(Serve(c))
    /\ \A p \in Project : WF_daemonVars(IdleCall(p))
    /\ \A w \in Compaction : WF_daemonVars(Work(w))
    /\ WF_daemonVars(Shutdown)

-----------------------------------------------------------------------------
(* Properties.                                                             *)

\* Stores are neither leaked nor closed under the cache: what is open is what
\* is cached, within the limit, whatever loads fail and whoever is evicted.
OnlyCachedAreOpen ==
    /\ open = CachedStates
    /\ Cardinality(CachedStates) <= MaxProjects
    /\ ToSet(byUse) = CachedStates

\* Shutdown waits for the searches: a handler finds its project closed only
\* when another project was loaded in its place.
ShutdownSparesSearches ==
    \A c \in Client :
        conn[c].at \in {"touch", "search"} => conn[c].ref \in open \cup evicted

\* Searches and evictions share the stores: what is open is what is cached, and
\* nobody's search is cut off but by the eviction of its project (daemon.go:
\* 318-400, 480-640).
StoresStayOpen == OnlyCachedAreOpen /\ ShutdownSparesSearches

\* A project is never compacted twice at a time, although the flag is looked
\* at and set in different critical sections.
OneCompaction ==
    \A v, w \in Compaction :
        worker[v].project = worker[w].project /\ worker[v].project # NoProject
            => v = w \/ worker[v].at = "done" \/ worker[w].at = "done"

\* A compaction that starts while Stop waits for the group, and so is not
\* waited for, does not replace the file of a daemon that is gone.
StoppedSavesNothing == life = "stopped" => UNCHANGED <<fileOrphaned, vectorOf>>

\* A project is compacted once at a time, and never by a daemon that has stopped
\* (compaction.go:160-300).
CompactionIsSafe == [][OneCompaction' /\ StoppedSavesNothing]_daemonVars

\* A signal ends the daemon, whatever searches and compactions are going on.
ShutdownEnds == life = "draining" ~> life = "stopped"

\* The engine of a cached project can search its vectors.
EngineHasVectors == \A s \in CachedStates : <<s, 0>> \notin closed

=============================================================================
