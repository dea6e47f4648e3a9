---------------------------- MODULE Coordinator ----------------------------
(***************************************************************************)
(* The serve process keeping an index in step with a project directory:    *)
(* startup reconciliation (Coordinator.ReconcileFilesOnStartup), file      *)
(* events (Coordinator.HandleEvents), and the engine and store calls each  *)
(* of them makes, one call per step.  The user edits files at any moment;  *)
(* the process may be killed between any two calls and started again.      *)
(*                                                                         *)
(* One coordinator call runs at a time (Coordinator.mu), so the call in    *)
(* progress is described by plain variables: pc, op, path, and what the    *)
(* call has read so far.                                                   *)
(***************************************************************************)
EXTENDS IndexStores

CONSTANTS
    ServeModel,   \* the embedder this process was configured with
    MaxKills,     \* bound: how often the process is killed
    FaultyCalls,  \* the store and embedder calls that may fail
    MaxFaults     \* bound: how often one of them does

Calls == {"GetChunksByFile", "DeleteFile", "bm25.Delete", "DeleteChunks",
          "SaveFiles", "bm25.Index", "vector.Add", "SaveChunks",
          "SaveChunkEmbeddings", "SetState", "GetAllEmbeddings", "bm25.AllIDs"}

ASSUME ServeAssumption ==
    /\ ServeModel \in Model
    /\ FaultyCalls \subseteq Calls
    /\ MaxKills \in Nat
    /\ MaxFaults \in Nat

VARIABLES
    disk,        \* [Path -> [ver, exists]]: the user's files
    rows,        \* file rows of the metadata store
    chunks,      \* chunk rows of the metadata store
    indexModel,  \* the metadata store's index_model state
    bm25,        \* chunk IDs in the BM25 index (on disk)
    vector,      \* chunk IDs in the vector store (in memory)
    vectorFile,  \* chunk IDs in vectors.hnsw (on disk)
    phase,       \* "down", "starting", "reconciling" or "watching"
    pending,     \* [Path -> ...]: what the watcher last reported of a path
    todo,        \* [Path -> ...]: changes startup reconciliation has to apply
    pc,          \* the next call of the handler in progress, or "idle"
    op,          \* "index" (indexFile) or "remove" (removeFile)
    path,        \* the path the handler works on
    stamp,       \* the version whose mtime and size indexFile's Lstat saw
    content,     \* the version whose text indexFile's ReadFile saw
    doomed,      \* the chunk IDs removeIndexedFile found for the path
    kills,
    faults

storeVars   == <<rows, chunks, indexModel, bm25, vector>>
handlerVars == <<pc, op, path, stamp, content, doomed>>
vars == <<disk, rows, chunks, indexModel, bm25, vector, vectorFile, phase,
          pending, todo, pc, op, path, stamp, content, doomed, kills, faults>>

KindNow(p)   == Kind[p][disk[p].ver]
Fingerprint(p) == disk[p].ver     \* mtime and size, distinct for each edit

\* What Scanner.Scan lists: existing files that are neither binary nor oversized.
Listed(p) == disk[p].exists /\ KindNow(p) \notin {"binary", "oversized"}

TypeOK ==
    /\ disk \in [Path -> [ver : 0..MaxVersion, exists : BOOLEAN]]
    /\ \A p \in Path : disk[p].exists => disk[p].ver # 0
    /\ rows \in Rows
    /\ chunks \subseteq ChunkRow
    /\ indexModel \in Model
    /\ bm25 \subseteq ChunkID
    /\ vector \subseteq ChunkID
    /\ vectorFile \subseteq ChunkID
    /\ phase \in {"down", "starting", "reconciling", "watching"}
    /\ pending \in [Path -> {"none", "index", "remove", "rename"}]
    /\ todo \in [Path -> {"none", "deleted", "modified", "added"}]
    /\ pc \in {"idle", "stat", "read", "lookup", "rmBM25", "rmVector",
               "rmChunks", "rmRow", "saveRow", "ixBM25", "ixVector",
               "saveChunks", "saveEmbeddings"}
    /\ op \in {"index", "remove"}
    /\ path \in Path
    /\ stamp \in 0..MaxVersion
    /\ content \in 0..MaxVersion
    /\ doomed \subseteq ChunkID
    /\ kills \in 0..MaxKills
    /\ faults \in 0..MaxFaults

-----------------------------------------------------------------------------
(* The index `amanmcp index` leaves behind: version 1 of some of the files, *)
(* each file row keyed by the runner, every store complete and saved.      *)

Init ==
    \E indexed \in SUBSET {p \in Path : Kind[p][1] = "code"}, m \in Model :
        LET built == UNION {NewChunks("runner", p, 1) : p \in indexed}
        IN  /\ disk = [p \in Path |-> IF p \in indexed
                                      THEN [ver |-> 1, exists |-> TRUE]
                                      ELSE [ver |-> 0, exists |-> FALSE]]
            /\ rows = [id \in FileID |->
                          IF id[1] = "runner" /\ id[2] \in indexed THEN 1 ELSE NoRow]
            /\ chunks = SaveEmbeddings(built, IDs(built), m)
            /\ indexModel = m
            /\ bm25 = IDs(built)
            /\ vectorFile = IDs(built)
    /\ vector = {}
    /\ phase = "down"
    /\ pending = [p \in Path |-> "none"]
    /\ todo = [p \in Path |-> "none"]
    /\ pc = "idle"
    /\ op = "index"
    /\ path \in Path
    /\ stamp = 0
    /\ content = 0
    /\ doomed = {}
    /\ kills = 0
    /\ faults = 0

-----------------------------------------------------------------------------
(* The user.  The watcher reports what happens while it runs; its debouncer *)
(* keeps one pending operation per path.                                   *)

Report(p, what) ==
    pending' = IF phase = "watching" THEN [pending EXCEPT ![p] = what] ELSE pending

Edit(p) ==
    /\ disk[p].ver < MaxVersion
    /\ disk' = [disk EXCEPT ![p] = [ver |-> @.ver + 1, exists |-> TRUE]]
    /\ Report(p, "index")
    /\ UNCHANGED <<storeVars, vectorFile, phase, todo, handlerVars, kills, faults>>

Remove(p) ==
    /\ disk[p].exists
    /\ disk' = [disk EXCEPT ![p].exists = FALSE]
    /\ \E what \in {"remove", "rename"} : Report(p, what)
    /\ UNCHANGED <<storeVars, vectorFile, phase, todo, handlerVars, kills, faults>>

-----------------------------------------------------------------------------
(* Life of the process.                                                    *)

\* runServe: the vector store is loaded from its file, which nothing in this
\* process ever writes again.
Start ==
    /\ phase = "down"
    /\ vector' = vectorFile
    /\ phase' = "starting"
    /\ UNCHANGED <<disk, rows, chunks, indexModel, bm25, vectorFile, pending,
                   todo, handlerVars, kills, faults>>

\* Mutation of Change: files that are not indexed yet are not considered.
ChangeIgnoresNew(p) ==
    CASE IndexedVersion(rows, p) # NoRow /\ ~Listed(p) -> "deleted"
      [] IndexedVersion(rows, p) # NoRow /\ Listed(p)
         /\ IndexedVersion(rows, p) # Fingerprint(p)   -> "modified"
      [] OTHER                                         -> "none"

\* detectFileChanges, for one path.
Change(p) ==
    CASE IndexedVersion(rows, p) # NoRow /\ ~Listed(p) -> "deleted"
      [] IndexedVersion(rows, p) # NoRow /\ Listed(p)
         /\ IndexedVersion(rows, p) # Fingerprint(p)   -> "modified"
      [] IndexedVersion(rows, p) = NoRow /\ Listed(p)  -> "added"
      [] OTHER                                         -> "none"

\* ReconcileFilesOnStartup.  It is skipped when the index was built with
\* another model, and gives up when no file is indexed at all.
DetectChanges ==
    /\ phase = "starting"
    /\ phase' = "reconciling"
    /\ todo' = IF indexModel # ServeModel
                  \/ \A p \in Path : IndexedVersion(rows, p) = NoRow
               THEN todo
               ELSE [p \in Path |-> Change(p)]
    /\ UNCHANGED <<disk, storeVars, vectorFile, pending, handlerVars, kills, faults>>

\* applyFileChanges: deletions first, then modifications, then additions.
Rank == [none |-> 0, added |-> 1, modified |-> 2, deleted |-> 3]

ApplyChange(p) ==
    /\ phase = "reconciling"
    /\ pc = "idle"
    /\ todo[p] # "none"
    /\ \A q \in Path : Rank[todo[q]] <= Rank[todo[p]]
    /\ todo' = [todo EXCEPT ![p] = "none"]
    /\ op' = IF todo[p] = "deleted" THEN "remove" ELSE "index"
    /\ pc' = IF todo[p] = "deleted" THEN "lookup" ELSE "stat"
    /\ path' = p
    /\ UNCHANGED <<disk, storeVars, vectorFile, phase, pending, stamp, content,
                   doomed, kills, faults>>

\* The watcher starts only when reconciliation has returned.
StartWatcher ==
    /\ phase = "reconciling"
    /\ pc = "idle"
    /\ \A p \in Path : todo[p] = "none"
    /\ phase' = "watching"
    /\ UNCHANGED <<disk, storeVars, vectorFile, pending, todo, handlerVars,
                   kills, faults>>

\* Everything in memory is lost; a handler in progress stops where it is.
Kill ==
    /\ phase # "down"
    /\ kills < MaxKills
    /\ kills' = kills + 1
    /\ phase' = "down"
    /\ vector' = {}
    /\ pending' = [p \in Path |-> "none"]
    /\ todo' = [p \in Path |-> "none"]
    /\ pc' = "idle"
    /\ op' = "index"
    /\ stamp' = 0
    /\ content' = 0
    /\ doomed' = {}
    /\ UNCHANGED <<disk, rows, chunks, indexModel, bm25, vectorFile, path, faults>>

-----------------------------------------------------------------------------
(* handleEvent, indexFile, removeFile.  Step is the frame of one call of   *)
(* the handler, which succeeds or fails.                                   *)

Step(from) ==
    /\ pc = from
    /\ UNCHANGED <<disk, vectorFile, phase, pending, todo, op, path, kills>>

Return == pc' = "idle" /\ stamp' = 0 /\ content' = 0 /\ doomed' = {}

Fails(call) == /\ call \in FaultyCalls
               /\ faults < MaxFaults
               /\ faults' = faults + 1
Succeeds    == UNCHANGED faults

\* handleEvent: a file renamed away is removed, unless there is one again.
EventOp(p) ==
    CASE pending[p] # "rename" -> pending[p]
      [] pending[p] = "rename" /\ disk[p].exists  -> "index"
      [] pending[p] = "rename" /\ ~disk[p].exists -> "remove"

\* Mutation of HandleEvent: the rest of the batch goes with its first event.
HandleEventDropsBatch(p) ==
    /\ phase = "watching"
    /\ pc = "idle"
    /\ pending[p] # "none"
    /\ pending' = [q \in Path |-> "none"]
    /\ op' = EventOp(p)
    /\ pc' = IF EventOp(p) = "remove" THEN "lookup" ELSE "stat"
    /\ path' = p
    /\ UNCHANGED <<disk, storeVars, vectorFile, phase, todo, stamp, content,
                   doomed, kills, faults>>

HandleEvent(p) ==
    /\ phase = "watching"
    /\ pc = "idle"
    /\ pending[p] # "none"
    /\ pending' = [pending EXCEPT ![p] = "none"]
    /\ op' = EventOp(p)
    /\ pc' = IF EventOp(p) = "remove" THEN "lookup" ELSE "stat"
    /\ path' = p
    /\ UNCHANGED <<disk, storeVars, vectorFile, phase, todo, stamp, content,
                   doomed, kills, faults>>

\* os.Lstat: the mtime and size the file row will carry; the size check.
Stat ==
    /\ Step("stat")
    /\ IF disk[path].exists /\ KindNow(path) # "oversized"
       THEN /\ stamp' = Fingerprint(path)
            /\ pc' = "read"
            /\ UNCHANGED <<content, doomed>>
       ELSE Return
    /\ UNCHANGED <<storeVars, faults>>

\* os.ReadFile, the binary check, the secret guard and the chunker.
ReadAndChunk ==
    /\ Step("read")
    /\ IF disk[path].exists /\ KindNow(path) \notin {"refused", "binary"}
       THEN /\ content' = disk[path].ver
            /\ pc' = "lookup"
            /\ UNCHANGED <<stamp, doomed>>
       ELSE Return
    /\ UNCHANGED <<storeVars, faults>>

\* What indexFile and removeFile do when removeIndexedFile has succeeded.
AfterRemoval ==
    IF op = "index" /\ Kind[path][content] # "empty"
    THEN pc' = "saveRow" /\ doomed' = {} /\ UNCHANGED <<stamp, content>>
    ELSE Return

\* removeIndexedFile: the chunks of the coordinator's own row.  With none the
\* row may still be there: it is deleted, and an error is only logged.  An
\* error of the query itself counts as "nothing to remove".
Lookup ==
    LET own == IDs(ChunksByFile(chunks, "coordinator", path))
    IN  /\ Step("lookup")
        /\ \/ /\ own # {}
              /\ pc' = "rmBM25"
              /\ doomed' = own
              /\ Succeeds
              /\ UNCHANGED <<rows, stamp, content>>
           \/ /\ own = {}
              /\ AfterRemoval
              /\ \/ rows' = DropFileRow(rows, "coordinator", path) /\ Succeeds
                 \/ rows' = rows /\ Fails("DeleteFile")
           \/ AfterRemoval /\ rows' = rows /\ Fails("GetChunksByFile")
        /\ UNCHANGED <<chunks, indexModel, bm25, vector>>

\* Engine.Delete: BM25 and vector deletes are best effort.
DeleteFromBM25 ==
    /\ Step("rmBM25")
    /\ \/ bm25' = bm25 \ doomed /\ Succeeds
       \/ bm25' = bm25 /\ Fails("bm25.Delete")
    /\ pc' = "rmVector"
    /\ UNCHANGED <<rows, chunks, indexModel, vector, stamp, content, doomed>>

DeleteFromVector ==
    /\ Step("rmVector")
    /\ vector' = vector \ doomed
    /\ pc' = "rmChunks"
    /\ UNCHANGED <<rows, chunks, indexModel, bm25, stamp, content, doomed, faults>>

\* The metadata delete must succeed: on failure the handler returns.
DeleteFromMetadata ==
    /\ Step("rmChunks")
    /\ \/ /\ chunks' = DeleteChunks(chunks, doomed)
          /\ pc' = "rmRow"
          /\ Succeeds
          /\ UNCHANGED <<stamp, content, doomed>>
       \/ chunks' = chunks /\ Return /\ Fails("DeleteChunks")
    /\ UNCHANGED <<rows, indexModel, bm25, vector>>

DeleteRow ==
    /\ Step("rmRow")
    /\ \/ /\ rows' = DropFileRow(rows, "coordinator", path)
          /\ chunks' = CascadeDrop(chunks, "coordinator", path)
          /\ AfterRemoval
          /\ Succeeds
       \/ UNCHANGED <<rows, chunks>> /\ Return /\ Fails("DeleteFile")
    /\ UNCHANGED <<indexModel, bm25, vector>>

\* Mutation of SaveRow: the file is stated again when its row is written.
SaveRowStatsAgain ==
    /\ Step("saveRow")
    /\ \/ /\ rows' = SaveFileRow(rows, "coordinator", path, Fingerprint(path))
          /\ chunks' = CascadeSave(chunks, "coordinator", path)
          /\ IF Kind[path][content] = "config"
             THEN Return
             ELSE pc' = "ixBM25" /\ UNCHANGED <<stamp, content, doomed>>
          /\ Succeeds
       \/ UNCHANGED <<rows, chunks>> /\ Return /\ Fails("SaveFiles")
    /\ UNCHANGED <<indexModel, bm25, vector>>

\* SaveFiles: the coordinator's row replaces the runner's, whose chunks go.
SaveRow ==
    /\ Step("saveRow")
    /\ \/ /\ rows' = SaveFileRow(rows, "coordinator", path, stamp)
          /\ chunks' = CascadeSave(chunks, "coordinator", path)
          /\ IF Kind[path][content] = "config"
             THEN Return
             ELSE pc' = "ixBM25" /\ UNCHANGED <<stamp, content, doomed>>
          /\ Succeeds
       \/ UNCHANGED <<rows, chunks>> /\ Return /\ Fails("SaveFiles")
    /\ UNCHANGED <<indexModel, bm25, vector>>

New == NewChunks("coordinator", path, content)

\* Mutation of IndexBM25: chunks that have a vector are taken to be indexed.
IndexBM25SkipsKnown ==
    /\ Step("ixBM25")
    /\ \/ /\ bm25' = bm25 \cup (IDs(New) \ vector)
          /\ pc' = "ixVector"
          /\ Succeeds
          /\ UNCHANGED <<stamp, content, doomed>>
       \/ bm25' = bm25 /\ Return /\ Fails("bm25.Index")
    /\ UNCHANGED <<rows, chunks, indexModel, vector>>

\* Engine.Index: embed and add to BM25, add vectors, save chunks, save
\* embeddings.  A failure leaves what earlier calls did.
IndexBM25 ==
    /\ Step("ixBM25")
    /\ \/ /\ bm25' = bm25 \cup IDs(New)
          /\ pc' = "ixVector"
          /\ Succeeds
          /\ UNCHANGED <<stamp, content, doomed>>
       \/ bm25' = bm25 /\ Return /\ Fails("bm25.Index")
    /\ UNCHANGED <<rows, chunks, indexModel, vector>>

IndexVector ==
    /\ Step("ixVector")
    /\ \/ /\ vector' = vector \cup IDs(New)
          /\ pc' = "saveChunks"
          /\ Succeeds
          /\ UNCHANGED <<stamp, content, doomed>>
       \/ vector' = vector /\ Return /\ Fails("vector.Add")
    /\ UNCHANGED <<rows, chunks, indexModel, bm25>>

IndexMetadata ==
    /\ Step("saveChunks")
    /\ \/ /\ chunks' = SaveChunks(chunks, New)
          /\ pc' = "saveEmbeddings"
          /\ Succeeds
          /\ UNCHANGED <<stamp, content, doomed>>
       \/ chunks' = chunks /\ Return /\ Fails("SaveChunks")
    /\ UNCHANGED <<rows, indexModel, bm25, vector>>

\* SaveChunkEmbeddings and storeIndexEmbeddingInfo: failures are logged only.
IndexEmbeddings ==
    /\ Step("saveEmbeddings")
    /\ Return
    /\ \/ /\ chunks' = SaveEmbeddings(chunks, IDs(New), ServeModel)
          /\ \/ indexModel' = ServeModel /\ Succeeds
             \/ indexModel' = indexModel /\ Fails("SetState")
       \/ /\ chunks' = chunks
          /\ indexModel' = ServeModel
          /\ Fails("SaveChunkEmbeddings")
    /\ UNCHANGED <<rows, bm25, vector>>

-----------------------------------------------------------------------------
Handler ==
    \/ Stat \/ ReadAndChunk \/ Lookup
    \/ DeleteFromBM25 \/ DeleteFromVector \/ DeleteFromMetadata \/ DeleteRow
    \/ SaveRow \/ IndexBM25 \/ IndexVector \/ IndexMetadata \/ IndexEmbeddings

User == \E p \in Path : Edit(p) \/ Remove(p)

Process ==
    \/ Start \/ DetectChanges \/ StartWatcher
    \/ \E p \in Path : ApplyChange(p) \/ HandleEvent(p)
    \/ Handler

Next == User \/ Process \/ Kill

Spec == Init /\ [][Next]_vars

\* The process runs while it is up and the supervisor starts it again; every
\* goroutine that can take a step does.  Nothing is assumed of the user.
Fairness == WF_vars(Process)

FairSpec == Spec /\ Fairness

\* Some file is indexed whenever the process starts.
NeverEmpty == phase = "starting" => \E p \in Path : IndexedVersion(rows, p) # NoRow

\* The user leaves the files alone between the scan and the start of the watcher.
QuietScan == phase = "reconciling" => UNCHANGED disk

\* The process is stopped between two handlers only.
CleanStop == pc # "idle" => phase' # "down"

\* The ordinary life of the process, and what one of the three exceptions does.
OrdinarySpec     == Init /\ [][Next /\ NeverEmpty /\ QuietScan /\ CleanStop]_vars
OrdinaryFairSpec == OrdinarySpec /\ Fairness

-----------------------------------------------------------------------------
(* Properties.                                                             *)

Rows4Path(p)    == ChunksOfPath(chunks, p)
Generations(p)  == {c.gen : c \in Rows4Path(p)}

\* The chunk rows of a path are always the complete output of the chunker on
\* one version of the file: a search never joins pieces of two versions, nor
\* sees half a file, whatever fails or is killed half way through a re-index,
\* and although the runner's rows have other keys than the coordinator's.
WholeGenerations ==
    \A p \in Path : Rows4Path(p) # {} =>
        \E v \in Version : /\ Generations(p) = {v}
                           /\ {c.content : c \in Rows4Path(p)} = Pieces[p][v]

\* A path has one file row, so reconciliation compares the disk with the row
\* the chunks hang on and not with a leftover of the other indexer.
OneRowPerPath ==
    \A p \in Path : rows[<<"runner", p>>] = NoRow \/ rows[<<"coordinator", p>>] = NoRow

\* Stale text is always detectable: when a file's mtime and size equal those
\* of its row, so that startup reconciliation will leave it alone, no chunk row
\* holds the text of an older version.  The row's mtime must have been read
\* before the text, and must not outlive the chunks it was saved with.
UnmodifiedMeansCurrent ==
    \A p \in Path :
        disk[p].exists /\ IndexedVersion(rows, p) = Fingerprint(p)
            => Generations(p) \subseteq {disk[p].ver}

\* Somebody will still look at p: an event, a reconciliation item, the handler
\* in progress, or the reconciliation of the next start.
Scheduled(p) ==
    \/ pending[p] # "none"
    \/ todo[p] # "none"
    \/ pc # "idle" /\ path = p
    \/ phase \in {"down", "starting"}

\* What the index holds of p is what the disk holds.
InStep(p) ==
    IF disk[p].exists THEN KindNow(p) = "code" => Generations(p) = {disk[p].ver}
                      ELSE rows[<<"coordinator", p>>] = NoRow

\* No change is forgotten: a file the index is out of step with always has
\* someone scheduled to look at it.  (For a deleted file: the coordinator's row.)
StaleIsScheduled == \A p \in Path : InStep(p) \/ Scheduled(p)

\* A chunk row can be found by BM25 except while Engine.Delete is removing it.
SearchableUnlessDeleting ==
    \A c \in chunks : \/ ID(c) \in bm25
                      \/ pc \in {"rmVector", "rmChunks"} /\ ID(c) \in doomed

\* A file that is gone has no chunk rows once the coordinator has caught up.
DeletedFilesLeave ==
    \A p \in Path : disk[p].exists \/ Scheduled(p) \/ Rows4Path(p) = {}

\* When the user stops editing, the index ends up holding what the disk holds.
Converges == <>[](\A p \in Path : InStep(p))

=============================================================================
