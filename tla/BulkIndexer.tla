---------------------------- MODULE BulkIndexer ----------------------------
(***************************************************************************)
(* `amanmcp index`: the command's choice between a fresh run, --resume and *)
(* --force (cmd/amanmcp/cmd/index.go), and Runner.Run from the scan to the *)
(* recorded model (internal/index/runner.go), one store or embedder call   *)
(* per step.  A run may be killed or fail at any call; what it leaves is   *)
(* what `amanmcp serve` opens, unless a checkpoint tells it that the index *)
(* is incomplete.                                                          *)
(***************************************************************************)
EXTENDS IndexStores

CONSTANTS
    Rank,         \* Rank[id]: the place of a chunk in the order of the scan
    BatchSize,    \* chunks embedded between two checkpoints (32 in the code)
    MaxKills,     \* bound: how often a run is killed
    FaultyCalls,  \* the calls that may fail
    MaxFaults     \* bound: how often one of them does

\* The scan walks the directory in a fixed order.
Before(p, q) == \A t, u \in Content : Rank[<<p, t>>] < Rank[<<q, u>>]

\* A file that turns binary between the scan and the read is not considered.
ASSUME BulkAssumption ==
    /\ Rank \in [ChunkID -> Nat]
    /\ \A i, j \in ChunkID : Rank[i] = Rank[j] => i = j
    /\ \A p, q \in Path : p # q => Before(p, q) \/ Before(q, p)
    /\ BatchSize \in Nat \ {0}
    /\ MaxKills \in Nat
    /\ MaxFaults \in Nat
    /\ \A p \in Path, v \in Version : Kind[p][v] # "binary"

VARIABLES
    disk,        \* [Path -> [ver, exists]]: the user's files
    rows,        \* file rows of the metadata store
    chunks,      \* chunk rows of the metadata store
    checkpoint,  \* the checkpoint keys of the metadata store's state
    indexModel,  \* its index_model key, NoModel when it has none
    bm25,        \* chunk IDs in the BM25 index
    vectorFile,  \* [ChunkID -> ...]: the model of each vector in vectors.hnsw
    pc,          \* the next call of the run, "off" when none is in progress
    model,       \* the embedder of this run
    resumeFrom,  \* RunnerConfig.ResumeFromCheckpoint
    wanted,      \* RunnerConfig.CheckpointModel, NoModel for ""
    stamps,      \* [Path -> ...]: the version the scan saw, 0 when not listed
    texts,       \* [Path -> ...]: the version chunkFiles read, 0 for a skipped file
    left,        \* the files the loop in progress has still to treat
    embedded,    \* how many chunks of this run have their embedding saved
    kills,
    faults

indexVars == <<rows, chunks, checkpoint, indexModel, bm25, vectorFile>>
runVars   == <<model, resumeFrom, wanted, stamps, texts, left, embedded>>
vars == <<disk, rows, chunks, checkpoint, indexModel, bm25, vectorFile, pc, model,
          resumeFrom, wanted, stamps, texts, left, embedded, kills, faults>>

Count == 0..Cardinality(ChunkID)

\* The checkpoint keys; NoModel stands for their absence.
Checkpoint   == [total : Count, embedded : Count, model : Model \cup {NoModel}]
NoCheckpoint == [total |-> 0, embedded |-> 0, model |-> NoModel]
Incomplete   == checkpoint.model # NoModel

-----------------------------------------------------------------------------
(* Before the first run: nothing, or the complete index of an earlier run  *)
(* or of the coordinator.                                                  *)

Init ==
    \E indexed \in SUBSET {p \in Path : Kind[p][1] = "code"},
       owner \in Owner, m \in Model :
        LET built == UNION {NewChunks(owner, p, 1) : p \in indexed}
        IN  /\ disk = [p \in Path |-> [ver |-> 1, exists |-> TRUE]]
            /\ rows = [id \in FileID |->
                          IF id[1] = owner /\ id[2] \in indexed THEN 1 ELSE NoRow]
            /\ chunks = SaveEmbeddings(built, IDs(built), m)
            /\ checkpoint = NoCheckpoint
            /\ indexModel = IF indexed = {} THEN NoModel ELSE m
            /\ bm25 = IDs(built)
            /\ vectorFile = [id \in ChunkID |-> IF id \in IDs(built) THEN m ELSE NoModel]
            /\ pc = "off"
            /\ model = m
    /\ resumeFrom = 0
    /\ wanted = NoModel
    /\ stamps = [p \in Path |-> 0]
    /\ texts = [p \in Path |-> 0]
    /\ left = {}
    /\ embedded = 0
    /\ kills = 0
    /\ faults = 0

-----------------------------------------------------------------------------
(* The user.                                                               *)

KindNow(p) == Kind[p][disk[p].ver]
Listed(p)  == disk[p].exists /\ KindNow(p) # "oversized"

Edit(p) ==
    /\ disk[p].ver < MaxVersion
    /\ disk' = [disk EXCEPT ![p] = [ver |-> @.ver + 1, exists |-> TRUE]]
    /\ UNCHANGED <<indexVars, pc, runVars, kills, faults>>

Remove(p) ==
    /\ disk[p].exists
    /\ disk' = [disk EXCEPT ![p].exists = FALSE]
    /\ UNCHANGED <<indexVars, pc, runVars, kills, faults>>

-----------------------------------------------------------------------------
(* A step of a run goes to the next call; a failing call ends the run, or  *)
(* is only logged.  A run that ends leaves none of its variables behind.   *)

Works  == UNCHANGED faults
Fails(call) == call \in FaultyCalls /\ faults < MaxFaults /\ faults' = faults + 1

Forget ==
    /\ pc' = "off"
    /\ resumeFrom' = 0
    /\ wanted' = NoModel
    /\ stamps' = [p \in Path |-> 0]
    /\ texts' = [p \in Path |-> 0]
    /\ left' = {}
    /\ embedded' = 0
    /\ UNCHANGED model

Aborts(call) == Fails(call) /\ Forget /\ UNCHANGED <<disk, indexVars, kills>>

Kill ==
    /\ pc # "off"
    /\ kills < MaxKills
    /\ kills' = kills + 1
    /\ Forget
    /\ UNCHANGED <<disk, indexVars, faults>>

-----------------------------------------------------------------------------
(* The command.                                                            *)

StartRun(m, from, expected) ==
    /\ pc' = "scan"
    /\ model' = m
    /\ resumeFrom' = from
    /\ wanted' = expected
    /\ UNCHANGED <<disk, indexVars, stamps, texts, left, embedded, kills>>

\* Mutation of RunFresh: a checkpoint makes the command refuse, whatever its count.
RunFreshRefused(m) ==
    /\ pc = "off"
    /\ \/ ~Incomplete /\ Works
       \/ checkpoint.embedded > 0 /\ Fails("LoadIndexCheckpoint")
    /\ StartRun(m, 0, NoModel)

\* Without --resume a checkpoint makes the command refuse, unless loading it
\* failed; a checkpoint of no embedded chunk resumes from 0.
RunFresh(m) ==
    /\ pc = "off"
    /\ \/ checkpoint.embedded = 0 /\ Works
       \/ checkpoint.embedded > 0 /\ Fails("LoadIndexCheckpoint")
    /\ StartRun(m, 0, NoModel)

\* The checkpoint is read twice: once for its count, once for its model.
RunResume(m) ==
    /\ pc = "off"
    /\ checkpoint.embedded > 0
    /\ \/ Works /\ StartRun(m, checkpoint.embedded, checkpoint.model)
       \/ Fails("LoadCheckpointModel") /\ StartRun(m, checkpoint.embedded, NoModel)

\* clearIndexData removes metadata.db first, then bm25.db, then vectors.hnsw.
RunForce(m) ==
    /\ pc = "off"
    /\ pc' = "clearBM25"
    /\ model' = m
    /\ rows' = [id \in FileID |-> NoRow]
    /\ chunks' = {}
    /\ checkpoint' = NoCheckpoint
    /\ indexModel' = NoModel
    /\ UNCHANGED <<disk, bm25, vectorFile, resumeFrom, wanted, stamps, texts, left,
                   embedded, kills, faults>>

ClearBM25 ==
    /\ pc = "clearBM25"
    /\ bm25' = {}
    /\ pc' = "clearVectors"
    /\ UNCHANGED <<disk, rows, chunks, checkpoint, indexModel, vectorFile, runVars,
                   kills, faults>>

ClearVectors ==
    /\ pc = "clearVectors"
    /\ vectorFile' = [id \in ChunkID |-> NoModel]
    /\ pc' = "scan"
    /\ UNCHANGED <<disk, rows, chunks, checkpoint, indexModel, bm25, runVars,
                   kills, faults>>

-----------------------------------------------------------------------------
(* Runner.Run: scan, read and chunk.                                       *)

\* A scan that lists nothing ends the run, with success.
Scan ==
    /\ pc = "scan"
    /\ IF \E p \in Path : Listed(p)
       THEN /\ stamps' = [p \in Path |-> IF Listed(p) THEN disk[p].ver ELSE 0]
            /\ left' = {p \in Path : Listed(p)}
            /\ pc' = "chunk"
            /\ UNCHANGED <<model, resumeFrom, wanted, texts, embedded>>
       ELSE Forget
    /\ UNCHANGED <<disk, indexVars, kills, faults>>

IsNext(p) == p \in left /\ \A q \in left \ {p} : Before(p, q)

\* chunkFiles: a missing file and a blocked secret ("refused") are skipped; a
\* file the chunker cannot parse has a file row and no chunk, as an "empty" one.
ChunkFile(p) ==
    /\ pc = "chunk"
    /\ IsNext(p)
    /\ texts' = [texts EXCEPT ![p] = IF disk[p].exists /\ KindNow(p) # "refused"
                                     THEN disk[p].ver ELSE 0]
    /\ left' = left \ {p}
    /\ UNCHANGED <<disk, indexVars, pc, model, resumeFrom, wanted, stamps, embedded,
                   kills, faults>>

Stored == {p \in Path : texts[p] # 0}

\* The chunks of this run.
RunChunks == UNION {NewChunks("runner", p, texts[p]) : p \in Stored}
Total     == Cardinality(RunChunks)

\* Place in the list of this run's chunks, from 0.
Place(id) == Cardinality({c \in RunChunks : Rank[ID(c)] < Rank[id]})
From(n, m) == {id \in IDs(RunChunks) : n <= Place(id) /\ Place(id) < m}

\* A run that has no chunk ends, with success, before it writes anything.
EndChunking ==
    /\ pc = "chunk"
    /\ left = {}
    /\ IF RunChunks = {} THEN Forget ELSE pc' = "saveFiles" /\ UNCHANGED runVars
    /\ UNCHANGED <<disk, indexVars, kills, faults>>

-----------------------------------------------------------------------------
(* Runner.Run: files and chunks into the metadata store.                   *)

SaveFiles ==
    /\ pc = "saveFiles"
    /\ \/ /\ Works
          /\ rows' = [id \in FileID |->
                        IF id[2] \in Stored
                        THEN SaveFileRow(rows, "runner", id[2], stamps[id[2]])[id]
                        ELSE rows[id]]
          /\ chunks' = {c \in chunks : c.path \in Stored => c.owner = "runner"}
          /\ left' = Stored
          /\ pc' = IF resumeFrom = 0 THEN "replaceBM25" ELSE "saveChunks"
          /\ UNCHANGED <<disk, checkpoint, indexModel, bm25, vectorFile, model,
                         resumeFrom, wanted, stamps, texts, embedded, kills>>
       \/ Aborts("SaveFiles")

\* replaceIndexedFileChunks looks the old chunks up by the runner's key; the
\* vector store of this process is empty, so deleting from it does nothing.
OldChunks(p) == ChunksByFile(chunks, "runner", p)

\* Mutation of ReplaceBM25: the replacement of old chunks never happens.
ReplaceBM25Skipped(p) ==
    /\ pc = "replaceBM25"
    /\ IsNext(p)
    /\ left' = left \ {p}
    /\ UNCHANGED <<disk, indexVars, pc, model, resumeFrom, wanted, stamps, texts,
                   embedded, kills, faults>>

ReplaceBM25(p) ==
    /\ pc = "replaceBM25"
    /\ IsNext(p)
    /\ \/ /\ OldChunks(p) = {}
          /\ left' = left \ {p}
          /\ UNCHANGED <<disk, indexVars, pc, model, resumeFrom, wanted, stamps, texts,
                         embedded, kills, faults>>
       \/ /\ OldChunks(p) # {}
          /\ Works
          /\ bm25' = bm25 \ IDs(OldChunks(p))
          /\ pc' = "replaceChunks"
          /\ UNCHANGED <<disk, rows, chunks, checkpoint, indexModel, vectorFile,
                         runVars, kills>>
       \/ OldChunks(p) # {} /\ Aborts("bm25.Delete")
       \/ Aborts("GetChunksByFile")

ReplaceChunks(p) ==
    /\ pc = "replaceChunks"
    /\ IsNext(p)
    /\ \/ /\ Works
          /\ chunks' = chunks \ OldChunks(p)
          /\ left' = left \ {p}
          /\ pc' = "replaceBM25"
          /\ UNCHANGED <<disk, rows, checkpoint, indexModel, bm25, vectorFile, model,
                         resumeFrom, wanted, stamps, texts, embedded, kills>>
       \/ Aborts("DeleteChunksByFile")

EndReplacing ==
    /\ pc = "replaceBM25"
    /\ left = {}
    /\ pc' = "saveChunks"
    /\ UNCHANGED <<disk, indexVars, runVars, kills, faults>>

SaveRunChunks ==
    /\ pc = "saveChunks"
    /\ \/ /\ Works
          /\ chunks' = SaveChunks(chunks, RunChunks)
          /\ left' = {}
          /\ pc' = "begin"
          /\ UNCHANGED <<disk, rows, checkpoint, indexModel, bm25, vectorFile, model,
                         resumeFrom, wanted, stamps, texts, embedded, kills>>
       \/ Aborts("SaveChunks")

-----------------------------------------------------------------------------
(* generateEmbeddings.                                                     *)

\* SaveIndexCheckpoint: a failure is only logged.
SaveIndexCheckpoint(n) ==
    \/ Works /\ checkpoint' = [total |-> Total, embedded |-> n, model |-> model]
    \/ Fails("SaveIndexCheckpoint") /\ UNCHANGED checkpoint

\* A count that does not leave anything to embed starts over.
StartFrom == IF resumeFrom < Total THEN resumeFrom ELSE 0

OtherModel == resumeFrom > 0 /\ wanted # NoModel /\ wanted # model

BeginEmbedding ==
    /\ pc = "begin"
    /\ IF OtherModel
       THEN Forget /\ UNCHANGED <<checkpoint, faults>>
       ELSE /\ SaveIndexCheckpoint(StartFrom)
            /\ embedded' = StartFrom
            /\ pc' = "embed"
            /\ UNCHANGED <<model, resumeFrom, wanted, stamps, texts, left>>
    /\ UNCHANGED <<disk, rows, chunks, indexModel, bm25, vectorFile, kills>>

EndOfBatch == IF embedded + BatchSize < Total THEN embedded + BatchSize ELSE Total

EmbedBatch ==
    /\ pc = "embed"
    /\ embedded < Total
    /\ \/ /\ Works
          /\ chunks' = SaveEmbeddings(chunks, From(embedded, EndOfBatch), model)
          /\ embedded' = EndOfBatch
          /\ pc' = "progress"
          /\ UNCHANGED <<disk, rows, checkpoint, indexModel, bm25, vectorFile, model,
                         resumeFrom, wanted, stamps, texts, left, kills>>
       \/ Aborts("EmbedBatch")

SaveProgress ==
    /\ pc = "progress"
    /\ SaveIndexCheckpoint(embedded)
    /\ pc' = "embed"
    /\ UNCHANGED <<disk, rows, chunks, indexModel, bm25, vectorFile, runVars, kills>>

EndEmbedding ==
    /\ pc = "embed"
    /\ embedded >= Total
    /\ pc' = "indexing"
    /\ UNCHANGED <<disk, indexVars, runVars, kills, faults>>

-----------------------------------------------------------------------------
(* buildIndices.                                                           *)

BeginIndexing ==
    /\ pc = "indexing"
    /\ SaveIndexCheckpoint(Total)
    /\ pc' = "bm25"
    /\ UNCHANGED <<disk, rows, chunks, indexModel, bm25, vectorFile, runVars, kills>>

IndexBM25 ==
    /\ pc = "bm25"
    /\ \/ /\ Works
          /\ bm25' = bm25 \cup IDs(RunChunks)
          /\ pc' = "vectors"
          /\ UNCHANGED <<disk, rows, chunks, checkpoint, indexModel, vectorFile,
                         runVars, kills>>
       \/ Aborts("bm25.Index")

\* Mutation of Missing: a chunk without an embedding is left out.
MissingNone == {}

Missing == IDs(RunChunks) \ EmbeddedIDs(chunks)

\* GetAllEmbeddings, and new embeddings for the chunks that have none; that
\* those cannot be saved is only logged.
BuildVectors ==
    /\ pc = "vectors"
    /\ \/ /\ \/ Works /\ chunks' = SaveEmbeddings(chunks, Missing, model)
             \/ Missing # {} /\ Fails("SaveChunkEmbeddings") /\ UNCHANGED chunks
          /\ pc' = "saveVectors"
          /\ UNCHANGED <<disk, rows, checkpoint, indexModel, bm25, vectorFile, runVars,
                         kills>>
       \/ Aborts("GetAllEmbeddings")
       \/ Missing # {} /\ Aborts("EmbedBatch")

\* The vector store began empty: the file is replaced by this run's vectors.
SaveVectors ==
    /\ pc = "saveVectors"
    /\ \/ /\ Works
          /\ vectorFile' = [id \in ChunkID |->
                               IF id \notin IDs(RunChunks) THEN NoModel
                               ELSE IF id \in Missing      THEN model
                               ELSE (CHOOSE c \in chunks : ID(c) = id).emb]
          /\ pc' = "clear"
          /\ UNCHANGED <<disk, rows, chunks, checkpoint, indexModel, bm25, runVars, kills>>
       \/ Aborts("vector.Save")

\* UpdateProjectStats may still end the run; a checkpoint that cannot be
\* cleared is only logged.
ClearIndexCheckpoint ==
    /\ pc = "clear"
    /\ \/ /\ \/ Works /\ checkpoint' = NoCheckpoint
             \/ Fails("ClearIndexCheckpoint") /\ UNCHANGED checkpoint
          /\ pc' = "record"
          /\ UNCHANGED <<disk, rows, chunks, indexModel, bm25, vectorFile, runVars, kills>>
       \/ Aborts("UpdateProjectStats")

\* storeIndexEmbeddingInfo: a failure is only logged.
RecordModel ==
    /\ pc = "record"
    /\ \/ Works /\ indexModel' = model
       \/ Fails("SetState") /\ UNCHANGED indexModel
    /\ Forget
    /\ UNCHANGED <<disk, rows, chunks, checkpoint, bm25, vectorFile, kills>>

-----------------------------------------------------------------------------
Step ==
    \/ ClearBM25 \/ ClearVectors \/ Scan \/ EndChunking \/ SaveFiles \/ EndReplacing
    \/ SaveRunChunks \/ BeginEmbedding \/ EmbedBatch \/ SaveProgress \/ EndEmbedding
    \/ BeginIndexing \/ IndexBM25 \/ BuildVectors \/ SaveVectors
    \/ ClearIndexCheckpoint \/ RecordModel
    \/ \E p \in Path : ChunkFile(p) \/ ReplaceBM25(p) \/ ReplaceChunks(p)

Next ==
    \/ Step
    \/ Kill
    \/ \E p \in Path : Edit(p) \/ Remove(p)
    \/ \E m \in Model : RunFresh(m) \/ RunResume(m) \/ RunForce(m)

Spec == Init /\ [][Next]_vars

\* A run goes on until it ends, and now and then the user does what `serve`
\* asks for: --resume, with the embedder of the interrupted run.
ResumeAsAsked == Incomplete /\ (RunResume(checkpoint.model) \/ RunFresh(checkpoint.model))
Fairness == WF_vars(Step) /\ SF_vars(ResumeAsAsked)

-----------------------------------------------------------------------------
(* What the properties assume of the user, of kills and of failures.       *)

\* A file with chunks stays as it is from the moment a run has read it until an
\* index is complete; a file without may be edited between two attempts.
EditedBeforeRead ==
    \A p \in Path : disk'[p] # disk[p] =>
        /\ pc \in {"off", "scan"} \/ (pc = "chunk" /\ p \in left)
        /\ ~Incomplete \/ ChunksOfPath(chunks, p) = {}

\* A run that has saved its file rows reaches its first checkpoint.
ReachesCheckpoint ==
    pc \in {"replaceBM25", "replaceChunks", "saveChunks", "begin", "embed", "progress",
            "indexing"} /\ ~Incomplete
        => kills' = kills /\ faults' = faults

\* A run that has cleared its checkpoint leaves the name of its model.
RecordsModel == pc = "record" /\ pc' = "off" => indexModel' = model

\* A run that could not read the checkpoint's model has that model.
ReadsModel == resumeFrom' > 0 /\ wanted' = NoModel => model' = checkpoint.model

\* Some source file remains.
SomethingToIndex == \E p \in Path : disk[p].exists /\ KindNow(p) = "code"

Careful == ReachesCheckpoint /\ RecordsModel /\ ReadsModel

CarefulSpec == Init /\ [][Next /\ EditedBeforeRead /\ Careful /\ SomethingToIndex']_vars /\ Fairness

-----------------------------------------------------------------------------
(* Properties.                                                             *)

\* `serve` starts: no run is in progress and no checkpoint is left.
Servable == pc = "off" /\ ~Incomplete

\* What startup reconciliation takes for unmodified.
Unmodified(p) == disk[p].exists /\ IndexedVersion(rows, p) = disk[p].ver

Current(p) == {<<p, t>> : t \in Pieces[p][disk[p].ver]}

\* An index `serve` accepts has every chunk of each file reconciliation will
\* leave alone, in all three stores: a run that wrote file rows and was then
\* killed must be recognised as incomplete (serve.go: "Block serve if index is
\* incomplete").
IncompleteIsBlocked ==
    Servable => \A p \in Path : Unmodified(p) =>
        /\ Current(p) \subseteq IDs(ChunksOfPath(chunks, p))
        /\ Current(p) \subseteq bm25
        /\ \A id \in Current(p) : vectorFile[id] # NoModel

\* In an index `serve` accepts, the chunk rows of a file reconciliation will
\* leave alone are those of its text on disk and no older one
\* (replaceIndexedFileChunks, "skipped on resume, where the stored chunks ARE
\* the current set").
NoOldGeneration ==
    Servable => \A p \in Path : Unmodified(p) =>
        IDs(ChunksOfPath(chunks, p)) \subseteq Current(p)

\* In an index `serve` accepts, the vectors a search can return all come from
\* the model index_model names, across interrupted runs resumed with whatever
\* embedder is configured by then (generateEmbeddings' mismatch check).
OneModelServed ==
    Servable => \A c \in chunks : vectorFile[ID(c)] \in {NoModel, indexModel}

\* What an index `serve` accepts has of a file it leaves alone is of the file's text
\* and of one model (runner.go:285-310, serve.go:480-500).
ServedIsOfNow == NoOldGeneration /\ OneModelServed

\* Resuming as `serve` asks ends with an index `serve` accepts.
ResumeCompletes == Incomplete ~> ~Incomplete

=============================================================================
