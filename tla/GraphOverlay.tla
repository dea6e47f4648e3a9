---------------------------- MODULE GraphOverlay ----------------------------
(***************************************************************************)
(* How the coordinator keeps the graph aligned with the index: the graph   *)
(* part of its handlers, the maintenance at startup and at intervals, and  *)
(* the rebuilds, which other commands run as well.                         *)
(*                                                                         *)
(* The writes of one file to the index are one step here (Coordinator has  *)
(* them one by one); the graph is a database of its own, written after.    *)
(* The server's steps hold the coordinator's lock, a rebuild holds it from *)
(* its first step to its last.                                             *)
(*                                                                         *)
(* A graph is [nodes, edges, runs, builds, last]: nodes by id, the edges   *)
(* with their owner and their staleness, the last extractor run of a path, *)
(* the last build of each kind, the kind recorded last.  SnapshotStatus    *)
(* reads the two tables that say what was built.                           *)
(***************************************************************************)
EXTENDS GraphExtraction

CONSTANTS StaleAfter,     \* age at which a build is stale
          Retention,      \* how long a stale edge is kept
          TextOf,         \* the contents a file may have
          HalfOf,         \* what a failure may leave of it in the index
          Absent,         \* none of them
          Source(_, _, _),\* the source of a path: its content, the text its chunks are of
          Chunkless,      \* texts that give no chunk
          Blocked,        \* texts the secret scanner blocks
          Faults,         \* the calls that may fail
          MaxClock

Text == UNION {TextOf[p] : p \in Path}
Content == {Absent} \cup UNION {TextOf[p] \cup HalfOf[p] : p \in Path}

\* A source has the path it is of, its chunks are those of its second text, and no
\* two files share a chunk; PathOrder lists every file.
ASSUME OverlayAssumption ==
    /\ NoPath \notin Path
    /\ \A p \in Path : Absent \notin TextOf[p] \cup HalfOf[p] /\ \E i \in DOMAIN PathOrder : PathOrder[i] = p
    /\ PathOrder \in Seq(Path)
    /\ \A p \in Path, t, u \in Content :
          Source(p, t, u).path = p /\ Source(p, t, u).chunks = Source(p, u, u).chunks
    /\ \A p, q \in Path : \A t \in TextOf[p] \cup HalfOf[p], u \in TextOf[q] \cup HalfOf[q] :
          \A c \in DOMAIN Source(p, t, t).chunks, d \in DOMAIN Source(q, u, u).chunks :
             Source(p, t, t).chunks[c].id = Source(q, u, u).chunks[d].id => p = q

-----------------------------------------------------------------------------
(* The graph repository: what each of its transactions does to the tables, *)
(* and the status a snapshot of them gives.                                *)

None == "none"

EmptyGraph == [nodes |-> <<>>, edges |-> {}, runs |-> <<>>, builds |-> <<>>, last |-> None]

\* ensureEdgeEndpoints
Anchored(nodes, e) == e.from \in DOMAIN nodes /\ e.to \in DOMAIN nodes

\* upsertNodeTx: one node per kind and key; what is written last stays.  The nodes
\* of one source that share both differ in their line alone.
Upsert(nodes, new) ==
    LET of(id) == {n \in new : n.id = id}
        row(id) == [src |-> (CHOOSE n \in of(id) : TRUE).src, line |-> Max({n.line : n \in of(id)})]
    IN  [id \in {n.id : n \in new} \cup DOMAIN nodes |-> IF of(id) # {} THEN row(id) ELSE nodes[id]]

\* execUpsertEdge: as it is stored, one edge per owner, kind and pair of nodes.
Stored(e, path, now) ==
    [kind |-> e.kind, from |-> e.from, to |-> e.to, conf |-> e.conf, heur |-> e.heur,
     src |-> path, stale |-> FALSE, at |-> now]
Outdated(e, now) ==
    [kind |-> e.kind, from |-> e.from, to |-> e.to, conf |-> e.conf, heur |-> e.heur,
     src |-> e.src, stale |-> TRUE, at |-> now]

\* Mutation of ReplaceEdges: the edges the path had are kept.
ReplaceEdgesKeeping(g, path, part, run, now) ==
    [g EXCEPT !.nodes = Upsert(@, part.nodes),
              !.edges = @ \cup {Stored(e, path, now) : e \in part.edges},
              !.runs  = With(@, path, run)]

\* ReplaceEdges, recordExtractorRun: the nodes, the path's edges and its run in
\* one transaction, which an edge without its nodes undoes.  No node is deleted.
ReplaceEdges(g, path, part, run, now) ==
    LET nodes == Upsert(g.nodes, part.nodes)
        other == {e \in g.edges : e.src # path}
    IN  IF \E e \in part.edges : ~Anchored(nodes, e) THEN g
        ELSE [g EXCEPT !.nodes = nodes,
                       !.edges = other \cup {Stored(e, path, now) : e \in part.edges},
                       !.runs  = With(@, path, run)]

\* Mutation of MarkEdgesToSourceStale: no edge is marked.
MarkNone(g, path, now) == g

\* MarkEdgesToSourceStale: the active edges to the nodes last written for a path.
MarkEdgesToSourceStale(g, path, now) ==
    LET into(e) == ~e.stale /\ e.to \in DOMAIN g.nodes /\ g.nodes[e.to].src = path
    IN  [g EXCEPT !.edges = {IF into(e) THEN Outdated(e, now) ELSE e : e \in @}]

\* PurgeStaleEdges
PurgeStaleEdges(g, now) ==
    [g EXCEPT !.edges = {e \in @ : ~(e.stale /\ e.at + Retention < now)}]

\* RecordBuild: one row per kind.
RecordBuild(g, kind, status, now) ==
    [g EXCEPT !.builds = With(@, kind, [status |-> status, at |-> now]), !.last = kind]

\* Reset
Reset(g) == EmptyGraph

\* Snapshot, latestBuildAny: the status of the build recorded last, of whatever
\* kind; without one, anything stored counts as fresh.
SnapshotStatus(g, now) ==
    LET hasData == g.nodes # <<>> \/ g.edges # {}
        age     == now - g.builds[g.last].at
    IN  CASE g.last = None /\ hasData  -> "fresh"
          [] g.last = None /\ ~hasData -> "empty"
          [] g.last # None             ->
                IF g.builds[g.last].status = "fresh" /\ age > StaleAfter THEN "stale"
                ELSE g.builds[g.last].status

\* graphSnapshotNeedsRebuild
NeedsRebuild(g, now) ==
    \/ SnapshotStatus(g, now) # "fresh"
    \/ g.nodes = <<>> /\ g.edges = {}

-----------------------------------------------------------------------------
(* The coordinator.                                                        *)

VARIABLES disk,           \* the text of each file
          index,          \* what the index holds of each file
          graph,
          known,          \* graphKnownSources: loaded or not, and the sources
          mode,           \* the server: down, starting, serving
          rebuild,        \* a rebuild under way: by whom, the paths left, the sources
          changed,        \* files whose last change is not in the index, or only in part
          behind,         \* files whose part of the graph was not written
          gone,           \* files out of the index whose deletion the graph was told
          bereft,         \* files that lost an edge with the deletion of another
          clock

overlayVars == <<disk, index, graph, known, mode, rebuild, changed, behind, gone, bereft, clock>>

Indexed == {p \in Path : index[p] # Absent}
Unloaded == [loaded |-> FALSE, sources |-> <<>>]
Loaded(sources) == [loaded |-> TRUE, sources |-> sources]
Idle == [by |-> None, left |-> {}, sources |-> <<>>]
Rebuilder == {"server", "index", "graph-only"}
Busy == rebuild.by # None
Locked == rebuild.by = "server"

\* A project that was never indexed.
OverlayInit ==
    /\ disk \in [Path -> Text \cup {Absent}] /\ \A p \in Path : disk[p] \in TextOf[p] \cup {Absent}
    /\ changed = {p \in Path : disk[p] # Absent} /\ index = [p \in Path |-> Absent]
    /\ graph = EmptyGraph /\ known = Unloaded /\ mode = "down" /\ rebuild = Idle
    /\ behind = {} /\ gone = {} /\ bereft = {} /\ clock = 0

-----------------------------------------------------------------------------
\* The sources a rebuild or the cache starts from.  graphSourceFromStoreFile: the
\* chunks are those of the index, the content is read from the disk.

\* BuildGraphSourcesFromMetadata, readIndexedSourceFile, guardGraphSourceContent:
\* files no longer there and files now blocked are left out.
SourcesFrom(ix) ==
    [p \in {q \in Path : ix[q] # Absent /\ disk[q] \notin {Absent} \cup Blocked}
        |-> Source(p, disk[p], ix[p])]

\* loadGraphKnownSources: only configuration files are read.
IsRead(p, ix) == IsConfig(Source(p, ix[p], ix[p]))
KnownFrom(ix) ==
    [p \in {q \in Path : ix[q] # Absent /\ (IsRead(q, ix) => disk[q] \notin {Absent} \cup Blocked)}
        |-> Source(p, IF IsRead(p, ix) THEN disk[p] ELSE Absent, ix[p])]

RunStatusOf(source) == IF IsConfig(source) /\ Unparsed(source) THEN "failed" ELSE "success"
BuildStatus(sources) ==
    IF \E p \in DOMAIN sources : RunStatusOf(sources[p]) = "failed" THEN "partial" ELSE "fresh"

\* removeGraphKnownSource
Forget(k, p) == IF k.loaded THEN Loaded([q \in DOMAIN k.sources \ {p} |-> k.sources[q]]) ELSE k

\* recordGraphUpdateFailure: the record of a failure may fail too.
Failed(g, fault) ==
    IF fault = "all" THEN g ELSE RecordBuild(g, "incremental", "partial", clock)

-----------------------------------------------------------------------------
\* The handlers of a file.

\* upsertGraphKnownSource
Remember(k, source) ==
    IF k.loaded THEN Loaded(WithSource(k.sources, source)) ELSE k

\* updateGraphSource and what follows its failure.
UpdateGraph(p, ix, fault) ==
    LET source == Source(p, disk[p], disk[p])
        cached == IF known.loaded THEN known ELSE Loaded(KnownFrom(ix))
        part   == Extract(source, WithSource(cached.sources, source))
        run    == RunStatusOf(source)
        replaced == ReplaceEdges(graph, p, part, run, clock)
        status == IF run = "failed" THEN "partial" ELSE "fresh"
    IN  CASE fault = "list" /\ ~known.loaded ->
                /\ graph' = Failed(graph, fault) /\ behind' = behind \cup {p}
                /\ UNCHANGED <<known, bereft>>
          [] fault \in {"replace", "all"} ->
                /\ graph' = Failed(graph, fault) /\ known' = Remember(cached, source)
                /\ behind' = behind \cup {p} /\ UNCHANGED bereft
          [] OTHER ->
                /\ graph' = IF fault = "record" THEN Failed(replaced, fault)
                            ELSE RecordBuild(replaced, "incremental", status, clock)
                /\ known' = Remember(cached, source)
                /\ behind' = behind \ {p} /\ bereft' = bereft \ {p}

\* What files share a node for: the edge of each leads to the node that one wrote last.
SharedKinds == {"file_declares_package", "file_imports"}
Sharing(g, p) ==
    {e.src : e \in {d \in g.edges : d.kind \in SharedKinds /\ ~d.stale /\ g.nodes[d.to].src = p}}

\* replaceGraphSourceWithEmptyEdges
DropGraph(p, markInboundStale, fault) ==
    LET emptied == ReplaceEdges(graph, p, Nothing, "success", clock)
        marked  == MarkEdgesToSourceStale(emptied, p, clock)
    IN  CASE fault \in {"replace", "all"} ->
                graph' = Failed(graph, fault) /\ behind' = behind \cup {p} /\ UNCHANGED <<gone, bereft>>
          [] fault = "mark" /\ markInboundStale ->
                /\ graph' = Failed(emptied, fault) /\ behind' = behind \ {p}
                /\ bereft' = bereft \ {p} /\ UNCHANGED gone
          [] OTHER ->
                /\ graph' = CASE ~markInboundStale -> emptied
                              [] markInboundStale /\ fault = "record" -> Failed(marked, fault)
                              [] OTHER -> RecordBuild(marked, "incremental", "fresh", clock)
                /\ behind' = behind \ {p}
                /\ gone' = IF markInboundStale /\ index'[p] = Absent THEN gone \cup {p} ELSE gone
                /\ bereft' = (bereft \ {p}) \cup IF markInboundStale THEN Sharing(emptied, p) ELSE {}

Serves == mode # "down" /\ ~Locked

\* A file to be indexed gives chunks, or is configuration.
Readable(p) == disk[p] \in Text \ (Chunkless \cup Blocked)

\* removeIndexedFile goes on when it cannot list what the index has of a file, or
\* cannot delete a row without chunks: what there was stays.
Stays(p, fault) == fault = "rows" /\ index[p] # Absent

\* indexFile, indexConfigFile, to their end: what stayed of an older text leaves the
\* index with chunks of both.
IndexFile(p, fault) ==
    /\ Serves /\ p \in changed /\ Readable(p)
    /\ \E held \in IF Stays(p, fault) THEN {disk[p]} \cup HalfOf[p] ELSE {disk[p]} :
          LET ix == [index EXCEPT ![p] = held]
          IN  /\ index' = ix /\ UpdateGraph(p, ix, fault)
              /\ changed' = IF held = disk[p] THEN changed \ {p} ELSE changed
    /\ gone' = gone \ {p}
    /\ UNCHANGED <<disk, mode, rebuild, clock>>

\* indexFile, indexConfigFile, removeFile: the handler returns an error before it comes
\* to the cache and the graph, and nothing calls it again.  By then the file may have
\* left the index (SaveFiles), have a row without chunks or some of its chunks (Delete,
\* DeleteFile, Index), or have all of them (SaveChunkEmbeddings).
FailHandling(p) ==
    /\ Serves /\ p \in changed
    /\ \E held \in HalfOf[p] \cup {Absent, disk[p]} :
          /\ Readable(p) \/ (index[p] # Absent /\ held \in HalfOf[p])
          /\ index' = [index EXCEPT ![p] = held]
    /\ gone' = {q \in gone : index'[q] = Absent}
    /\ UNCHANGED <<disk, graph, known, mode, rebuild, changed, behind, bereft, clock>>

\* indexFile: a file that is blocked stays as it was indexed before.
IgnoreBlocked(p) ==
    /\ Serves /\ p \in changed /\ disk[p] \in Blocked
    /\ changed' = changed \ {p}
    /\ UNCHANGED <<disk, index, graph, known, mode, rebuild, behind, gone, bereft, clock>>

\* removeIndexedFile: a file leaves the index, unless the index keeps it.
Leave(p, fault) ==
    /\ index' = IF Stays(p, fault) THEN index ELSE [index EXCEPT ![p] = Absent]
    /\ changed' = IF Stays(p, fault) \/ disk[p] \notin {Absent} \cup Chunkless THEN changed ELSE changed \ {p}
    /\ known' = Forget(known, p)

\* indexFile: a file that gives none leaves the index, and edges to it stay.
IndexNothing(p, fault) ==
    /\ Serves /\ p \in changed /\ disk[p] \in Chunkless
    /\ Leave(p, fault) /\ DropGraph(p, FALSE, fault)
    /\ UNCHANGED <<disk, mode, rebuild, clock>>

\* removeFile: a file deleted, or no longer to be indexed.
RemoveFile(p, fault) ==
    /\ Serves /\ p \in changed
    /\ Leave(p, fault) /\ DropGraph(p, TRUE, fault)
    /\ UNCHANGED <<disk, mode, rebuild, clock>>

\* The process is killed between the index and the graph.
IndexThenDie(p) ==
    /\ Serves /\ p \in changed /\ disk[p] \notin Blocked
    /\ index' = [index EXCEPT ![p] = IF disk[p] \in Chunkless THEN Absent ELSE disk[p]]
    /\ changed' = changed \ {p} /\ behind' = behind \cup {p}
    /\ mode' = "down" /\ known' = Unloaded /\ gone' = gone \ {p}
    /\ UNCHANGED <<disk, graph, rebuild, bereft, clock>>

-----------------------------------------------------------------------------
\* Maintenance and rebuilds.

Begin(by, sources) ==
    /\ rebuild' = [by |-> by, left |-> DOMAIN sources, sources |-> sources]
    /\ graph' = Reset(graph) /\ behind' = Indexed /\ bereft' = {}

\* ReconcileGraphOnStartup, RefreshGraph, purgeStaleGraphEdgesLocked,
\* rebuildGraphFromMetadataLocked up to its reset: the snapshot is read before
\* the purge, which fails the whole.
Maintain(fault) ==
    LET purged == PurgeStaleEdges(graph, clock)
    IN  /\ Serves /\ ~Busy
        /\ mode' = "serving"
        /\ CASE fault \in {"snapshot", "purge", "all"} ->
                    graph' = Failed(graph, fault) /\ UNCHANGED <<rebuild, behind, bereft>>
             [] fault \in {"list", "reset"} /\ NeedsRebuild(graph, clock) ->
                    graph' = Failed(purged, fault) /\ UNCHANGED <<rebuild, behind, bereft>>
             [] ~(fault \in {"snapshot", "purge", "all", "list", "reset"}) /\ NeedsRebuild(graph, clock) ->
                    Begin("server", SourcesFrom(index))
             [] OTHER -> graph' = purged /\ UNCHANGED <<rebuild, behind, bereft>>
        /\ UNCHANGED <<disk, index, known, changed, gone, clock>>

\* A command that rebuilds runs while no server does.  Runner.Run indexes the files
\* it can read, forgets none, and rebuilds the graph of what it read, unless no
\* file gave a chunk; --graph-only rebuilds the graph of the index.
BeginIndexCommand ==
    LET unread  == {p \in Path : disk[p] \in {Absent} \cup Blocked}
        sources == [p \in Path \ unread |-> Source(p, disk[p], disk[p])]
    IN  /\ mode = "down" /\ ~Busy
        /\ \E p \in DOMAIN sources : sources[p].chunks # <<>>
        /\ index' = [p \in Path |-> IF p \in unread THEN index[p] ELSE disk[p]]
        /\ rebuild' = [by |-> "index", left |-> DOMAIN sources, sources |-> sources]
        /\ graph' = Reset(graph) /\ behind' = {p \in Path : index'[p] # Absent}
        /\ changed' = changed \cap unread /\ gone' = gone \cap unread /\ bereft' = {}
        /\ UNCHANGED <<disk, known, mode, clock>>

BeginGraphOnly ==
    /\ mode = "down" /\ ~Busy /\ Indexed # {}
    /\ Begin("graph-only", SourcesFrom(index))
    /\ UNCHANGED <<disk, index, known, mode, changed, gone, clock>>

\* UpdateCheapEdgesWithSummary: the next source of a rebuild; a failure ends it,
\* recorded as a full build by the commands, as an update by the server.
RebuildSource(fault) ==
    LET p    == CHOOSE q \in rebuild.left : \A r \in rebuild.left : Rank(q) <= Rank(r)
        f    == rebuild.sources[p]
        part == Extract(f, rebuild.sources)
        kind == IF rebuild.by = "server" THEN "incremental" ELSE "full"
    IN  /\ Busy /\ rebuild.left # {}
        /\ IF fault \in {"replace", "all"}
           THEN /\ graph' = IF fault = "all" THEN graph ELSE RecordBuild(graph, kind, "partial", clock)
                /\ rebuild' = Idle /\ UNCHANGED behind
           ELSE /\ graph' = ReplaceEdges(graph, p, part, RunStatusOf(f), clock)
                /\ rebuild' = [rebuild EXCEPT !.left = @ \ {p}] /\ behind' = behind \ {p}
        /\ UNCHANGED <<disk, index, known, mode, changed, gone, bereft, clock>>

\* IndexCheapEdges, setGraphKnownSourcesFromSources
EndRebuild(fault) ==
    LET kind == IF rebuild.by = "server" THEN "incremental" ELSE "full"
    IN  /\ Busy /\ rebuild.left = {}
        /\ IF fault \in {"record", "all"}
           THEN /\ graph' = IF fault = "all" THEN graph ELSE RecordBuild(graph, kind, "partial", clock)
                /\ UNCHANGED known
           ELSE /\ graph' = RecordBuild(graph, "full", BuildStatus(rebuild.sources), clock)
                /\ known' = IF rebuild.by = "server" THEN Loaded(rebuild.sources) ELSE known
        /\ rebuild' = Idle
        /\ UNCHANGED <<disk, index, mode, changed, behind, gone, bereft, clock>>

\* A server starts; whatever was killed left its tables as they are.
Start ==
    /\ mode = "down" /\ ~Busy /\ mode' = "starting"
    /\ UNCHANGED <<disk, index, graph, known, rebuild, changed, behind, gone, bereft, clock>>

Kill ==
    /\ mode # "down" \/ Busy
    /\ mode' = "down" /\ known' = Unloaded /\ rebuild' = Idle
    /\ UNCHANGED <<disk, index, graph, changed, behind, gone, bereft, clock>>

Edit(p, t) ==
    /\ t # disk[p]
    /\ disk' = [disk EXCEPT ![p] = t] /\ changed' = changed \cup {p}
    /\ UNCHANGED <<index, graph, known, mode, rebuild, behind, gone, bereft, clock>>

Tick ==
    /\ clock' \in (clock + 1)..MaxClock
    /\ UNCHANGED <<disk, index, graph, known, mode, rebuild, changed, behind, gone, bereft>>

Handle(p, fault) == IndexFile(p, fault) \/ IndexNothing(p, fault) \/ RemoveFile(p, fault)
Work(fault)      == Maintain(fault) \/ RebuildSource(fault) \/ EndRebuild(fault)

Edits  == \E p \in Path : \E t \in TextOf[p] \cup {Absent} : Edit(p, t)
Calm   == \/ \E p \in Path : Handle(p, None) \/ IgnoreBlocked(p)
          \/ Work(None) \/ BeginIndexCommand \/ BeginGraphOnly \/ Start
Trouble == \/ \E p \in Path, fault \in Faults : Handle(p, fault)
           \/ \E p \in Path : IndexThenDie(p) \/ FailHandling(p)
           \/ \E fault \in Faults : Work(fault)
           \/ Kill \/ Tick

OverlayNext == Edits \/ Calm \/ Trouble

OverlaySpec == OverlayInit /\ [][OverlayNext]_overlayVars

-----------------------------------------------------------------------------
OwnKinds == {"project_contains_file", "file_declares_package", "file_imports",
             "file_defines_symbol", "symbol_has_chunk", "file_defines_config_key"}
OwnEdges == [p \in Path |-> [text \in TextOf[p] |-> Own(Source(p, text, text)).edges]]
Bare(e)  == [kind |-> e.kind, from |-> e.from, to |-> e.to, conf |-> e.conf, heur |-> e.heur]

\* The edges of p are its own, and the active ones are all of them but for some to
\* a package or an import that p shares with a file deleted since.
HasOwnEdges(p, own) ==
    LET stored == {e \in graph.edges : e.src = p /\ e.kind \in OwnKinds}
        active == {e \in stored : ~e.stale}
    IN  /\ {Bare(e) : e \in stored} \subseteq own
        /\ \A e \in own \ {Bare(d) : d \in active} : e.kind \in SharedKinds /\ p \in bereft

\* A file whose change was indexed and whose part of the graph was written has the
\* edges of its current text, and a file not indexed has none, whatever was killed,
\* failed, deleted or rebuilt in between (ReplaceEdges, Reset, the cache,
\* MarkEdgesToSourceStale).
EdgesFollowIndex ==
    \A p \in Path \ (changed \cup behind) :
        \/ disk[p] \in Blocked
        \/ index[p] = Absent /\ HasOwnEdges(p, {})
        \/ index[p] # Absent /\ HasOwnEdges(p, OwnEdges[p][index[p]])

\* Once the graph was told that a file is deleted, no active edge of any file leads
\* to it until it is indexed again (MarkEdgesToSourceStale, the cache of sources).
NoLiveEdgeToDeleted ==
    \A e \in graph.edges : ~e.stale => graph.nodes[e.to].src \notin gone

\* Of every file whose change is in the index the cache of known sources has the chunks
\* the index has, and of none that left it, whatever failed or was rebuilt since it was
\* loaded (upsertGraphKnownSource, removeGraphKnownSource).
KnownFollowsIndex ==
    known.loaded =>
        \A p \in Path \ changed :
            \/ disk[p] \in Blocked
            \/ index[p] = Absent /\ p \notin DOMAIN known.sources
            \/ /\ index[p] # Absent /\ p \in DOMAIN known.sources
               /\ known.sources[p].chunks = Source(p, index[p], index[p]).chunks

\* The graph and the sources it remembers keep to the index (the coordinator).
GraphFollowsIndex == EdgesFollowIndex /\ KnownFollowsIndex

=============================================================================
