------------------------- MODULE BulkIndexerProofs -------------------------
(***************************************************************************)
(* The bulk indexer, for any files, texts, models, batch size, number of   *)
(* kills and of failures.  What a run leaves behind when it ends early is  *)
(* either what it found, or marked by a checkpoint; and what it finds      *)
(* under a checkpoint is of texts that have not changed since.             *)
(***************************************************************************)
EXTENDS BulkIndexer, IndexStoresProofs

-----------------------------------------------------------------------------
(* Where a run is.                                                         *)

Untouched == {"off", "clearBM25", "clearVectors", "scan"}   \* nothing read yet
Early     == Untouched \cup {"chunk", "saveFiles"}          \* nothing written yet
Replacing == {"replaceBM25", "replaceChunks"}
Preparing == Replacing \cup {"saveChunks", "begin"}
Late      == {"embed", "progress", "indexing", "bm25", "vectors", "saveVectors", "clear"}
Saved     == Late \cup {"begin", "record"}                  \* the chunks of the run are saved

\* A run with the checkpoint of an earlier one.
Resumed == resumeFrom > 0

-----------------------------------------------------------------------------
(* What a run has read.                                                    *)

BulkTypeOK ==
    /\ disk \in [Path -> [ver : Version, exists : BOOLEAN]]
    /\ rows \in Rows
    /\ chunks \subseteq ChunkRow
    /\ checkpoint.model \in Model \cup {NoModel}
    /\ checkpoint.embedded > 0 => Incomplete
    /\ vectorFile \in [ChunkID -> Model \cup {NoModel}]
    /\ pc \in Early \cup Preparing \cup Late \cup {"record"}
    /\ model \in Model
    /\ resumeFrom = 0 \/ Resumed
    /\ stamps \in [Path -> 0..MaxVersion]
    /\ texts \in [Path -> 0..MaxVersion]
    /\ left \subseteq Path

\* The scan would list it and chunkFiles would read it.
Readable(p) == Listed(p) /\ KindNow(p) # "refused"

\* What was listed is read as it is now, or is still to be read; a file the scan
\* did not list has not become one it would list.
ReadHolds ==
    /\ pc \in Untouched => \A p \in Path : stamps[p] = 0 /\ texts[p] = 0
    /\ \A p \in Path : stamps[p] # 0 =>
          stamps[p] <= disk[p].ver /\ Kind[p][stamps[p]] # "oversized"
    /\ pc \notin Untouched => \A p \in Path :
          /\ stamps[p] = 0 => ~Listed(p) /\ texts[p] = 0 /\ (pc = "chunk" => p \notin left)
          /\ pc = "chunk" /\ p \in left => texts[p] = 0
          /\ stamps[p] # 0 /\ ~(pc = "chunk" /\ p \in left) =>
                texts[p] = IF disk[p].exists /\ KindNow(p) # "refused" THEN disk[p].ver ELSE 0

\* A row is no newer than its file, and one that is as new is of a text that was read.
RowsHold ==
    \A id \in FileID :
        /\ rows[id] <= disk[id[2]].ver
        /\ rows[id] = disk[id[2]].ver => KindNow(id[2]) \notin {"refused", "oversized"}

ReadInv == BulkTypeOK /\ ReadHolds /\ RowsHold

\* The chunks of a run are those of the texts it has read.
LEMMA RunChunksAre ==
    ASSUME BulkTypeOK
    PROVE  /\ RunChunks \in SUBSET ChunkRow /\ OneRowEach(RunChunks)
           /\ \A c \in RunChunks : /\ c.path \in Stored /\ c.owner = "runner" /\ c.emb = NoModel
                                   /\ c.content \in Pieces[c.path][texts[c.path]]
           /\ \A p \in Stored : \A t \in Pieces[p][texts[p]] : <<p, t>> \in IDs(RunChunks)
<1>1. Stored \in SUBSET Path /\ \A p \in Stored : texts[p] \in Version
  BY DEF BulkTypeOK, Stored, Version
<1>2. "runner" \in Owner
  BY DEF Owner
<1>3. \A c : c \in RunChunks <=> \E p \in Stored : c \in NewChunks("runner", p, texts[p])
  BY DEF RunChunks
<1> QED
  BY <1>1, <1>2, <1>3, NewChunksOneEach

\* SaveFiles gives each stored file the stamp of the scan, under the runner's key alone.
LEMMA StoredRows ==
    ASSUME BulkTypeOK,
           rows' = [id \in FileID |->
                        IF id[2] \in Stored
                        THEN SaveFileRow(rows, "runner", id[2], stamps[id[2]])[id]
                        ELSE rows[id]]
    PROVE  /\ rows' \in Rows
           /\ \A p \in Stored : rows'[<<"runner", p>>] = stamps[p] /\ rows'[<<"coordinator", p>>] = NoRow
           /\ \A id \in FileID : id[2] \notin Stored => rows'[id] = rows[id]
<1>1. \A id \in FileID : id = <<id[1], id[2]>> /\ id[1] \in Owner /\ id[2] \in Path
  BY DEF FileID
<1>2. ASSUME NEW id \in FileID, id[2] \in Stored
      PROVE  rows'[id] = IF id[1] = "runner" THEN stamps[id[2]] ELSE NoRow
  BY <1>1, <1>2 DEF SaveFileRow
<1>3. \A p \in Stored : <<"runner", p>> \in FileID /\ <<"coordinator", p>> \in FileID
  BY DEF FileID, Owner, Stored
<1>4. \A p \in Stored : <<"runner", p>>[1] = "runner" /\ <<"runner", p>>[2] = p
                        /\ <<"coordinator", p>>[1] = "coordinator" /\ <<"coordinator", p>>[2] = p
  OBVIOUS
<1>5. \A id \in FileID : id[2] \notin Stored => rows'[id] = rows[id]
  OBVIOUS
<1>6. rows' \in Rows
  <2>1. ASSUME NEW id \in FileID  PROVE rows'[id] \in 0..MaxVersion
    <3>1. rows[id] \in 0..MaxVersion /\ stamps[id[2]] \in 0..MaxVersion /\ NoRow \in 0..MaxVersion
      BY <1>1, ConstantsAssumption DEF BulkTypeOK, Rows, NoRow
    <3> QED
      BY <1>2, <1>5, <3>1
  <2> QED
    BY <2>1 DEF Rows
<1> QED
  BY <1>2, <1>3, <1>4, <1>5, <1>6

LEMMA BulkTypedStep == BulkTypeOK /\ [Next]_vars => BulkTypeOK'
<1> SUFFICES ASSUME BulkTypeOK, [Next]_vars  PROVE BulkTypeOK'
  OBVIOUS
<1> USE DEF BulkTypeOK, Early, Untouched, Preparing, Replacing, Late, Incomplete, Resumed
<1>0. NoCheckpoint.model = NoModel /\ NoCheckpoint.embedded = 0 /\ NoModel \notin Model
  BY ConstantsAssumption DEF NoCheckpoint
<1>a. ASSUME Forget, UNCHANGED <<disk, indexVars>> \/ UNCHANGED <<disk, rows, chunks, checkpoint, vectorFile>>
      PROVE  BulkTypeOK'
  <2>1. 0 \in 0..MaxVersion
    BY ConstantsAssumption
  <2> QED
    BY <1>a, <2>1 DEF Forget, indexVars
<1>b. ASSUME NEW n, SaveIndexCheckpoint(n)
      PROVE  checkpoint'.model \in Model \cup {NoModel} /\ (checkpoint'.embedded > 0 => Incomplete')
  BY <1>0, <1>b DEF SaveIndexCheckpoint
<1>1. CASE UNCHANGED vars
  BY <1>1 DEF vars
<1>2. CASE Kill
  BY <1>2, <1>a DEF Kill
<1>c. ASSUME NEW call, Aborts(call)  PROVE BulkTypeOK'
  BY <1>c, <1>a DEF Aborts
<1>3. ASSUME NEW p \in Path, Edit(p) \/ Remove(p)  PROVE BulkTypeOK'
  <2>1. disk' \in [Path -> [ver : Version, exists : BOOLEAN]]
    <3>1. CASE Edit(p)
      <4>1. disk[p].ver + 1 \in Version
        BY <3>1, ConstantsAssumption DEF Edit, Version
      <4> QED
        BY <3>1, <4>1 DEF Edit
    <3>2. CASE Remove(p)
      BY <3>2 DEF Remove
    <3> QED
      BY <1>3, <3>1, <3>2
  <2> QED
    BY <1>3, <2>1 DEF Edit, Remove, indexVars, runVars
<1>4. ASSUME NEW m \in Model, RunFresh(m) \/ RunResume(m) \/ RunForce(m)  PROVE BulkTypeOK'
  <2>1. CASE RunFresh(m) \/ RunResume(m)
    BY <1>4, <2>1 DEF RunFresh, RunResume, StartRun, indexVars
  <2>2. CASE RunForce(m)
    <3>1. rows' \in Rows
      BY <2>2, ConstantsAssumption DEF RunForce, Rows, NoRow
    <3>2. checkpoint' = NoCheckpoint /\ chunks' = {}
      BY <2>2 DEF RunForce
    <3>3. /\ pc' = "clearBM25" /\ model' = m
          /\ UNCHANGED <<disk, vectorFile, resumeFrom, stamps, texts, left>>
      BY <2>2 DEF RunForce
    <3> QED
      BY <1>0, <3>1, <3>2, <3>3
  <2> QED
    BY <1>4, <2>1, <2>2
<1>5. CASE ClearBM25 \/ ClearVectors
  BY <1>5 DEF ClearBM25, ClearVectors, runVars
<1>6. CASE Scan
  <2>1. CASE \E p \in Path : Listed(p)
    <3>1. stamps' \in [Path -> 0..MaxVersion]
      BY <1>6, <2>1, ConstantsAssumption DEF Scan, Version
    <3> QED
      BY <1>6, <2>1, <3>1 DEF Scan, indexVars
  <2>2. CASE ~\E p \in Path : Listed(p)
    BY <1>6, <2>2, <1>a DEF Scan
  <2> QED
    BY <2>1, <2>2
<1>7. ASSUME NEW p \in Path, ChunkFile(p)  PROVE BulkTypeOK'
  <2>1. texts' \in [Path -> 0..MaxVersion]
    BY <1>7, ConstantsAssumption DEF ChunkFile, Version
  <2> QED
    BY <1>7, <2>1 DEF ChunkFile, indexVars
<1>8. CASE EndChunking
  <2>1. CASE RunChunks = {}
    BY <1>8, <2>1, <1>a DEF EndChunking
  <2>2. CASE RunChunks # {}
    BY <1>8, <2>2 DEF EndChunking, indexVars, runVars
  <2> QED
    BY <2>1, <2>2
<1>9. CASE SaveFiles
  <2>1. CASE Aborts("SaveFiles")
    BY <2>1, <1>c
  <2>2. CASE ~Aborts("SaveFiles")
    <3>1. rows' \in Rows
      BY <1>9, <2>2, StoredRows DEF SaveFiles
    <3> QED
      BY <1>9, <2>2, <3>1 DEF SaveFiles, Stored
  <2> QED
    BY <2>1, <2>2
<1>10. ASSUME NEW p \in Path, ReplaceBM25(p) \/ ReplaceChunks(p)  PROVE BulkTypeOK'
  <2>1. CASE Aborts("bm25.Delete") \/ Aborts("GetChunksByFile") \/ Aborts("DeleteChunksByFile")
    BY <2>1, <1>c
  <2>2. CASE ~(Aborts("bm25.Delete") \/ Aborts("GetChunksByFile") \/ Aborts("DeleteChunksByFile"))
    BY <1>10, <2>2 DEF ReplaceBM25, ReplaceChunks, indexVars, runVars
  <2> QED
    BY <2>1, <2>2
<1>11. CASE EndReplacing \/ EndEmbedding
  BY <1>11 DEF EndReplacing, EndEmbedding, indexVars, runVars
<1>12. CASE SaveRunChunks
  <2>1. CASE Aborts("SaveChunks")
    BY <2>1, <1>c
  <2>2. CASE ~Aborts("SaveChunks")
    <3>1. RunChunks \in SUBSET ChunkRow /\ chunks \in SUBSET ChunkRow
      BY RunChunksAre
    <3>2. SaveChunks(chunks, RunChunks) \subseteq ChunkRow
      BY <3>1, SaveChunksRows
    <3> QED
      BY <1>12, <2>2, <3>2 DEF SaveRunChunks
  <2> QED
    BY <2>1, <2>2
<1>13. CASE BeginEmbedding
  <2>1. CASE OtherModel
    BY <1>13, <2>1, <1>a DEF BeginEmbedding
  <2>2. CASE ~OtherModel
    BY <1>13, <2>2, <1>b DEF BeginEmbedding
  <2> QED
    BY <2>1, <2>2
<1>14. CASE EmbedBatch \/ BuildVectors
  <2>1. CASE Aborts("EmbedBatch") \/ Aborts("GetAllEmbeddings")
    BY <2>1, <1>c
  <2>2. CASE ~(Aborts("EmbedBatch") \/ Aborts("GetAllEmbeddings"))
    <3>1. chunks \in SUBSET ChunkRow /\ model \in Model
      OBVIOUS
    <3>2. \A ids : SaveEmbeddings(chunks, ids, model) \subseteq ChunkRow
      BY <3>1, SaveEmbeddingsSet
    <3>3. chunks' \subseteq ChunkRow
      BY <1>14, <2>2, <3>2 DEF EmbedBatch, BuildVectors
    <3> QED
      BY <1>14, <2>2, <3>3 DEF EmbedBatch, BuildVectors, runVars
  <2> QED
    BY <2>1, <2>2
<1>15. CASE SaveProgress \/ BeginIndexing
  BY <1>15, <1>b DEF SaveProgress, BeginIndexing, runVars
<1>16. CASE IndexBM25
  <2>1. CASE Aborts("bm25.Index")
    BY <2>1, <1>c
  <2>2. CASE ~Aborts("bm25.Index")
    BY <1>16, <2>2 DEF IndexBM25, runVars
  <2> QED
    BY <2>1, <2>2
<1>17. CASE SaveVectors
  <2>1. CASE Aborts("vector.Save")
    BY <2>1, <1>c
  <2>2. CASE ~Aborts("vector.Save")
    <3>1. \A id \in IDs(RunChunks) : id \notin Missing =>
             (CHOOSE c \in chunks : ID(c) = id).emb \in Model \cup {NoModel}
      BY DEF Missing, EmbeddedIDs, IDs, ChunkRow
    <3>2. vectorFile' \in [ChunkID -> Model \cup {NoModel}]
      BY <1>17, <2>2, <3>1 DEF SaveVectors
    <3> QED
      BY <1>17, <2>2, <3>2 DEF SaveVectors, runVars
  <2> QED
    BY <2>1, <2>2
<1>18. CASE ClearIndexCheckpoint
  <2>1. CASE Aborts("UpdateProjectStats")
    BY <2>1, <1>c
  <2>2. CASE ~Aborts("UpdateProjectStats")
    BY <1>0, <1>18, <2>2 DEF ClearIndexCheckpoint, runVars
  <2> QED
    BY <2>1, <2>2
<1>19. CASE RecordModel
  BY <1>19, <1>a DEF RecordModel
<1> QED
  BY <1>1, <1>2, <1>3, <1>4, <1>5, <1>6, <1>7, <1>8, <1>9, <1>10, <1>11, <1>12, <1>13, <1>14,
     <1>15, <1>16, <1>17, <1>18, <1>19 DEF Next, Step

\* The stores are written, or the run ends; nothing is read and no row changes.
LEMMA ReadSame ==
    ASSUME ReadInv, UNCHANGED <<disk, rows>>,
           \/ Forget
           \/ /\ UNCHANGED <<stamps, texts>>
              /\ pc \notin Untouched \cup {"chunk"} /\ pc' \notin Untouched \cup {"chunk"}
           \/ UNCHANGED <<stamps, texts>> /\ pc \in Untouched /\ pc' \in Untouched
    PROVE  ReadHolds' /\ RowsHold'
<1> USE DEF ReadInv, ReadHolds, RowsHold, Listed, KindNow, Untouched
<1>1. RowsHold'
  OBVIOUS
<1>2. CASE Forget
  BY <1>2 DEF Forget
<1>3. CASE ~Forget
  BY <1>3
<1> QED
  BY <1>1, <1>2, <1>3

\* The user: a file that is edited has not been read yet.
LEMMA ReadBeforeEdit ==
    ASSUME ReadInv, NEW p \in Path, Edit(p) \/ Remove(p), EditedBeforeRead
    PROVE  ReadHolds' /\ RowsHold'
<1>1. /\ disk'[p] # disk[p] /\ \A q \in Path : q # p => disk'[q] = disk[q]
      /\ disk'[p].ver \in Version /\ disk[p].ver <= disk'[p].ver
      /\ disk'[p].ver = disk[p].ver => disk[p].exists /\ ~disk'[p].exists
      /\ disk[p].ver \in Version
  <2>1. CASE Edit(p)
    <3>1. disk[p].ver \in Nat /\ disk[p].ver + 1 \in Version
      BY <2>1, ConstantsAssumption DEF Edit, ReadInv, BulkTypeOK, Version
    <3>2. disk' = [disk EXCEPT ![p] = [ver |-> disk[p].ver + 1, exists |-> TRUE]]
      BY <2>1 DEF Edit
    <3>3. disk'[p].ver = disk[p].ver + 1 /\ \A q \in Path : q # p => disk'[q] = disk[q]
      BY <3>2 DEF ReadInv, BulkTypeOK
    <3>4. disk[p].ver \in Version
      BY DEF ReadInv, BulkTypeOK
    <3> QED
      BY <3>1, <3>3, <3>4
  <2>2. CASE Remove(p)
    <3>1. disk[p].exists /\ disk' = [disk EXCEPT ![p].exists = FALSE]
      BY <2>2 DEF Remove
    <3>2. disk[p] \in [ver : Version, exists : BOOLEAN]
      BY DEF ReadInv, BulkTypeOK
    <3>3. ~disk'[p].exists /\ disk'[p].ver = disk[p].ver /\ \A q \in Path : q # p => disk'[q] = disk[q]
      BY <3>1, <3>2 DEF ReadInv, BulkTypeOK
    <3>4. disk[p].ver \in Nat
      BY <3>2, ConstantsAssumption DEF Version
    <3> QED
      BY <3>1, <3>2, <3>3, <3>4
  <2> QED
    BY <2>1, <2>2
<1>2. /\ pc \in {"off", "scan"} \/ (pc = "chunk" /\ p \in left)
      /\ UNCHANGED <<rows, pc, stamps, texts, left>>
  BY <1>1 DEF Edit, Remove, EditedBeforeRead, indexVars, runVars
<1>3. disk'[p].ver \in Nat /\ \A q \in Path : disk[q].ver \in Nat /\ stamps[q] \in Nat
  <2>1. \A v \in Version : v \in Nat
    BY ConstantsAssumption DEF Version
  <2> QED
    BY <1>1, <2>1, ConstantsAssumption DEF ReadInv, BulkTypeOK
<1>4. \A id \in FileID : id[2] \in Path /\ rows[id] \in Nat
  BY ConstantsAssumption DEF FileID, ReadInv, BulkTypeOK, Rows
<1>5. RowsHold'
  <2> SUFFICES ASSUME NEW id \in FileID
               PROVE  /\ rows[id] <= disk'[id[2]].ver
                      /\ rows[id] = disk'[id[2]].ver => KindNow(id[2])' \notin {"refused", "oversized"}
    BY <1>2 DEF RowsHold
  <2>1. /\ rows[id] <= disk[id[2]].ver
        /\ rows[id] = disk[id[2]].ver => KindNow(id[2]) \notin {"refused", "oversized"}
    BY DEF ReadInv, RowsHold
  <2>2. CASE id[2] # p
    BY <1>1, <1>4, <2>1, <2>2 DEF KindNow
  <2>3. CASE id[2] = p /\ disk'[p].ver = disk[p].ver
    BY <2>1, <2>3 DEF KindNow
  <2>4. CASE id[2] = p /\ disk'[p].ver # disk[p].ver
    BY <1>1, <1>3, <1>4, <2>1, <2>4
  <2> QED
    BY <2>2, <2>3, <2>4
<1>6. \A q \in Path : stamps[q] # 0 => stamps[q] <= disk'[q].ver /\ Kind[q][stamps[q]] # "oversized"
  BY <1>1, <1>3 DEF ReadInv, ReadHolds
<1>7. ReadHolds'
  <2>1. CASE pc \in {"off", "scan"}
    BY <1>2, <1>6, <2>1 DEF ReadInv, ReadHolds, Untouched
  <2>2. CASE pc = "chunk" /\ p \in left
    <3>1. ASSUME NEW q \in Path
          PROVE  /\ stamps[q] = 0 => ~Listed(q)' /\ texts[q] = 0 /\ q \notin left
                 /\ q \in left => texts[q] = 0
                 /\ stamps[q] # 0 /\ q \notin left =>
                       texts[q] = IF disk'[q].exists /\ KindNow(q)' # "refused" THEN disk'[q].ver ELSE 0
      <4>1. CASE q = p
        BY <2>2, <4>1 DEF ReadInv, ReadHolds, Untouched
      <4>2. CASE q # p
        BY <1>1, <2>2, <4>2 DEF ReadInv, ReadHolds, Untouched, Listed, KindNow
      <4> QED
        BY <4>1, <4>2
    <3> QED
      BY <1>2, <1>6, <2>2, <3>1 DEF ReadHolds, Untouched
  <2> QED
    BY <1>2, <2>1, <2>2
<1> QED
  BY <1>5, <1>7

LEMMA ReadStep == ReadInv /\ [Next /\ EditedBeforeRead]_vars => ReadInv'
<1> SUFFICES ASSUME ReadInv, [Next /\ EditedBeforeRead]_vars  PROVE ReadInv'
  OBVIOUS
<1>1. BulkTypeOK /\ BulkTypeOK'
  BY BulkTypedStep DEF ReadInv
<1> SUFFICES ReadHolds' /\ RowsHold'
  BY <1>1 DEF ReadInv
<1>2. CASE UNCHANGED vars
  BY <1>2 DEF vars, ReadInv, ReadHolds, RowsHold, Listed, KindNow
<1>3. ASSUME NEW p \in Path, (Edit(p) \/ Remove(p)) /\ EditedBeforeRead  PROVE ReadHolds' /\ RowsHold'
  BY <1>3, ReadBeforeEdit
<1>4. CASE Kill \/ RecordModel
  BY <1>4, ReadSame DEF Kill, RecordModel, indexVars
<1>5. ASSUME NEW call, Aborts(call)  PROVE ReadHolds' /\ RowsHold'
  BY <1>5, ReadSame DEF Aborts, indexVars
<1>6. ASSUME NEW m \in Model, RunFresh(m) \/ RunResume(m)  PROVE ReadHolds' /\ RowsHold'
  BY <1>6, ReadSame DEF RunFresh, RunResume, StartRun, indexVars, Untouched
<1>7. ASSUME NEW m \in Model, RunForce(m)  PROVE ReadHolds' /\ RowsHold'
  <2>1. /\ UNCHANGED <<disk, stamps, texts>> /\ pc' \in Untouched
        /\ \A p \in Path : stamps[p] = 0 /\ texts[p] = 0
    BY <1>7 DEF RunForce, ReadInv, ReadHolds, Untouched, indexVars
  <2>2. \A p \in Path : disk[p].ver # 0 /\ 0 <= disk[p].ver
    BY <1>1, ConstantsAssumption DEF BulkTypeOK, Version
  <2>3. RowsHold'
    BY <1>7, <2>1, <2>2 DEF RunForce, RowsHold, NoRow, FileID
  <2> QED
    BY <2>1, <2>3 DEF ReadHolds
<1>8. CASE ClearBM25 \/ ClearVectors
  BY <1>8, ReadSame DEF ClearBM25, ClearVectors, runVars, Untouched
<1>9. CASE Scan
  <2>1. CASE Forget
    BY <1>9, <2>1, ReadSame DEF Scan, indexVars
  <2>2. CASE ~Forget
    <3>1. /\ pc = "scan" /\ pc' = "chunk" /\ UNCHANGED <<disk, rows, texts>>
          /\ stamps' = [p \in Path |-> IF Listed(p) THEN disk[p].ver ELSE 0]
          /\ left' = {p \in Path : Listed(p)}
      BY <1>9, <2>2 DEF Scan, indexVars
    <3>2. RowsHold' /\ \A p \in Path : KindNow(p)' = KindNow(p) /\ Listed(p)' = Listed(p)
      BY <3>1 DEF ReadInv, RowsHold, KindNow, Listed
    <3>3. \A p \in Path : texts[p] = 0 /\ disk[p].ver \in Nat \ {0} /\ disk[p].ver <= disk[p].ver
      BY <1>1, <3>1, ConstantsAssumption DEF ReadInv, ReadHolds, Untouched, BulkTypeOK, Version
    <3>4. \A p \in Path : stamps'[p] # 0 <=> Listed(p)
      BY <3>1, <3>3
    <3>5. \A p \in Path : stamps'[p] # 0 => Kind[p][stamps'[p]] # "oversized" /\ stamps'[p] <= disk'[p].ver
      BY <3>1, <3>3, <3>4 DEF Listed, KindNow
    <3> QED
      BY <3>1, <3>2, <3>3, <3>4, <3>5 DEF ReadHolds, Untouched
  <2> QED
    BY <2>1, <2>2
<1>10. ASSUME NEW p \in Path, ChunkFile(p)  PROVE ReadHolds' /\ RowsHold'
  <2>1. /\ pc = "chunk" /\ p \in left /\ left' = left \ {p} /\ UNCHANGED <<disk, rows, pc, stamps>>
        /\ texts' = [texts EXCEPT ![p] = IF disk[p].exists /\ KindNow(p) # "refused"
                                         THEN disk[p].ver ELSE 0]
    BY <1>10 DEF ChunkFile, IsNext, indexVars
  <2>2. RowsHold' /\ \A q \in Path : KindNow(q)' = KindNow(q) /\ Listed(q)' = Listed(q)
    BY <2>1 DEF ReadInv, RowsHold, KindNow, Listed
  <2>3. /\ texts'[p] = IF disk[p].exists /\ KindNow(p) # "refused" THEN disk[p].ver ELSE 0
        /\ \A q \in Path : q # p => texts'[q] = texts[q]
    BY <1>1, <2>1 DEF BulkTypeOK
  <2>4. stamps[p] # 0
    BY <2>1 DEF ReadInv, ReadHolds, Untouched
  <2> QED
    BY <2>1, <2>2, <2>3, <2>4 DEF ReadInv, ReadHolds, Untouched
<1>11. CASE EndChunking
  <2>1. CASE Forget
    BY <1>11, <2>1, ReadSame DEF EndChunking, indexVars
  <2>2. CASE ~Forget
    <3>1. pc = "chunk" /\ left = {} /\ pc' = "saveFiles" /\ UNCHANGED <<disk, rows, stamps, texts, left>>
      BY <1>11, <2>2 DEF EndChunking, indexVars, runVars
    <3> QED
      BY <3>1 DEF ReadInv, ReadHolds, RowsHold, Untouched, KindNow, Listed
  <2> QED
    BY <2>1, <2>2
<1>12. CASE SaveFiles
  <2>1. CASE Aborts("SaveFiles")
    BY <1>5, <2>1
  <2>2. CASE ~Aborts("SaveFiles")
    <3>1. /\ pc = "saveFiles" /\ pc' \in {"replaceBM25", "saveChunks"}
          /\ UNCHANGED <<disk, stamps, texts>>
          /\ rows' = [id \in FileID |->
                        IF id[2] \in Stored
                        THEN SaveFileRow(rows, "runner", id[2], stamps[id[2]])[id]
                        ELSE rows[id]]
      BY <1>12, <2>2 DEF SaveFiles
    <3>2. ReadHolds'
      BY <3>1 DEF ReadInv, ReadHolds, Untouched, KindNow, Listed
    <3>3. /\ \A p \in Stored : rows'[<<"runner", p>>] = stamps[p] /\ rows'[<<"coordinator", p>>] = NoRow
          /\ \A id \in FileID : id[2] \notin Stored => rows'[id] = rows[id]
      BY <1>1, <3>1, StoredRows
    <3>4. \A p \in Stored : /\ p \in Path /\ stamps[p] # 0 /\ stamps[p] <= disk[p].ver
                            /\ Kind[p][stamps[p]] # "oversized" /\ KindNow(p) # "refused"
      BY <3>1 DEF ReadInv, ReadHolds, Untouched, Stored
    <3>5. \A p \in Path : disk[p].ver # 0 /\ 0 <= disk[p].ver
      BY <1>1, ConstantsAssumption DEF BulkTypeOK, Version
    <3>6. ASSUME NEW id \in FileID
          PROVE  /\ rows'[id] <= disk[id[2]].ver
                 /\ rows'[id] = disk[id[2]].ver => KindNow(id[2]) \notin {"refused", "oversized"}
      <4>1. id[2] \in Path /\ (id = <<"runner", id[2]>> \/ id = <<"coordinator", id[2]>>)
        BY DEF FileID, Owner
      <4>2. CASE id[2] \notin Stored
        BY <3>3, <4>2 DEF ReadInv, RowsHold
      <4>3. CASE id[2] \in Stored /\ id = <<"runner", id[2]>>
        <5>1. rows'[id] = stamps[id[2]]
          BY <3>3, <4>3
        <5> QED
          BY <3>4, <4>3, <5>1 DEF KindNow
      <4>4. CASE id[2] \in Stored /\ id = <<"coordinator", id[2]>>
        <5>1. rows'[id] = 0
          BY <3>3, <4>4 DEF NoRow
        <5> QED
          BY <3>5, <4>1, <5>1
      <4> QED
        BY <4>1, <4>2, <4>3, <4>4
    <3>7. RowsHold'
      BY <3>1, <3>6 DEF RowsHold, KindNow
    <3> QED
      BY <3>2, <3>7
  <2> QED
    BY <2>1, <2>2
<1>13. ASSUME NEW p \in Path, ReplaceBM25(p) \/ ReplaceChunks(p)  PROVE ReadHolds' /\ RowsHold'
  <2>1. CASE Aborts("bm25.Delete") \/ Aborts("GetChunksByFile") \/ Aborts("DeleteChunksByFile")
    BY <1>5, <2>1
  <2>2. CASE ~(Aborts("bm25.Delete") \/ Aborts("GetChunksByFile") \/ Aborts("DeleteChunksByFile"))
    BY <1>13, <2>2, ReadSame DEF ReplaceBM25, ReplaceChunks, indexVars, runVars, Untouched
  <2> QED
    BY <2>1, <2>2
<1>14. CASE EndReplacing \/ EndEmbedding \/ SaveProgress \/ BeginIndexing
  BY <1>14, ReadSame DEF EndReplacing, EndEmbedding, SaveProgress, BeginIndexing, indexVars, runVars,
                         Untouched
<1>15. CASE SaveRunChunks \/ EmbedBatch \/ IndexBM25
  <2>1. CASE Aborts("SaveChunks") \/ Aborts("EmbedBatch") \/ Aborts("bm25.Index")
    BY <1>5, <2>1
  <2>2. CASE ~(Aborts("SaveChunks") \/ Aborts("EmbedBatch") \/ Aborts("bm25.Index"))
    BY <1>15, <2>2, ReadSame DEF SaveRunChunks, EmbedBatch, IndexBM25, runVars, Untouched
  <2> QED
    BY <2>1, <2>2
<1>16. CASE BeginEmbedding
  <2>1. UNCHANGED <<disk, rows>> /\ (Forget \/ (pc = "begin" /\ pc' = "embed" /\ UNCHANGED <<stamps, texts>>))
    BY <1>16 DEF BeginEmbedding
  <2> QED
    BY <2>1, ReadSame DEF Untouched
<1>17. CASE BuildVectors \/ SaveVectors \/ ClearIndexCheckpoint
  <2>1. CASE Aborts("GetAllEmbeddings") \/ Aborts("EmbedBatch") \/ Aborts("vector.Save")
             \/ Aborts("UpdateProjectStats")
    BY <1>5, <2>1
  <2>2. CASE ~(Aborts("GetAllEmbeddings") \/ Aborts("EmbedBatch") \/ Aborts("vector.Save")
               \/ Aborts("UpdateProjectStats"))
    BY <1>17, <2>2, ReadSame DEF BuildVectors, SaveVectors, ClearIndexCheckpoint, runVars, Untouched
  <2> QED
    BY <2>1, <2>2
<1> QED
  BY <1>2, <1>3, <1>4, <1>6, <1>7, <1>8, <1>9, <1>10, <1>11, <1>12, <1>13, <1>14, <1>15, <1>16,
     <1>17 DEF Next, Step

-----------------------------------------------------------------------------
(* What a run leaves behind.                                               *)

\* The files whose chunks a run keeps or makes.
Own(p) == Readable(p) \/ (stamps[p] # 0 /\ disk[p].exists /\ KindNow(p) # "refused")

OfNow(c) == c.content \in Pieces[c.path][disk[c.path].ver]
AllOfNow == \A c \in chunks : Own(c.path) => OfNow(c)

\* What `serve` relies on, in an index no run has begun to change.
CompleteNow ==
    \A p \in Path : Unmodified(p) =>
        /\ IDs(ChunksOfPath(chunks, p)) = Current(p)
        /\ Current(p) \subseteq bm25
        /\ \A id \in Current(p) : vectorFile[id] # NoModel

LeftHolds ==
    /\ OneRowEach(chunks)
    /\ pc \in {"clearBM25", "clearVectors"} => \A id \in FileID : rows[id] = NoRow
    /\ pc \in {"off", "clearBM25", "clearVectors"} => ~Resumed
    /\ pc \in Late => Incomplete
    /\ Resumed /\ pc # "record" => Incomplete
    /\ pc \in Early /\ ~Incomplete => CompleteNow
    /\ Incomplete \/ pc \in Saved => AllOfNow
    /\ pc \in Replacing => ~Resumed /\ left \subseteq Stored
    /\ pc \in Replacing => \A c \in chunks : c.path \in Stored => c.owner = "runner" /\ c.path \in left
    /\ pc = "saveChunks" /\ ~Resumed => \A c \in chunks : c.path \notin Stored
    /\ pc \in Saved => IDs(RunChunks) \subseteq IDs(chunks)
    /\ pc \in {"vectors", "saveVectors", "clear", "record"} => IDs(RunChunks) \subseteq bm25
    /\ pc \in {"clear", "record"} => \A id \in IDs(RunChunks) : vectorFile[id] # NoModel

LeftInv == ReadInv /\ LeftHolds

\* How many kills and failures there have been.
Counted == kills \in Nat /\ faults \in Nat

LEMMA CountedStep == Counted /\ [Next]_vars => Counted'
<1> SUFFICES ASSUME Counted, [Next]_vars  PROVE Counted'
  OBVIOUS
<1> USE DEF Counted
<1>1. ASSUME NEW call, Fails(call)  PROVE faults' \in Nat
  BY <1>1 DEF Fails
<1>2. ASSUME NEW call, Aborts(call)  PROVE Counted'
  BY <1>1, <1>2 DEF Aborts
<1>3. ASSUME NEW n, SaveIndexCheckpoint(n)  PROVE faults' \in Nat
  BY <1>1, <1>3 DEF SaveIndexCheckpoint, Works
<1>4. CASE Kill \/ UNCHANGED vars \/ \E p \in Path : Edit(p) \/ Remove(p)
  BY <1>4 DEF Kill, vars, Edit, Remove
<1>5. ASSUME NEW m \in Model, RunFresh(m) \/ RunResume(m) \/ RunForce(m)  PROVE Counted'
  BY <1>1, <1>5 DEF RunFresh, RunResume, RunForce, StartRun, Works
<1>6. CASE ClearBM25 \/ ClearVectors \/ Scan \/ EndChunking \/ EndReplacing \/ EndEmbedding
           \/ \E p \in Path : ChunkFile(p)
  BY <1>6 DEF ClearBM25, ClearVectors, Scan, EndChunking, EndReplacing, EndEmbedding, ChunkFile
<1>7. CASE SaveFiles \/ SaveRunChunks \/ EmbedBatch \/ IndexBM25
           \/ \E p \in Path : ReplaceBM25(p) \/ ReplaceChunks(p)
  BY <1>2, <1>7 DEF SaveFiles, SaveRunChunks, EmbedBatch, IndexBM25, ReplaceBM25, ReplaceChunks, Works
<1>8. CASE BeginEmbedding \/ SaveProgress \/ BeginIndexing
  BY <1>3, <1>8 DEF BeginEmbedding, SaveProgress, BeginIndexing
<1>9. CASE BuildVectors \/ SaveVectors \/ ClearIndexCheckpoint \/ RecordModel
  BY <1>1, <1>2, <1>9 DEF BuildVectors, SaveVectors, ClearIndexCheckpoint, RecordModel, Works
<1> QED
  BY <1>4, <1>5, <1>6, <1>7, <1>8, <1>9 DEF Next, Step

\* Behind the loop over the files, those a run keeps or makes chunks of are those it has read.
LEMMA OwnIsStored ==
    ASSUME ReadInv, pc \notin Untouched \cup {"chunk"}, NEW p \in Path
    PROVE  /\ Own(p) <=> p \in Stored
           /\ p \in Stored => texts[p] = disk[p].ver
  BY ConstantsAssumption
  DEF ReadInv, ReadHolds, Own, Readable, Listed, Stored, Untouched, BulkTypeOK, Version

\* A file whose row is as new as the file is one that is read.
LEMMA UnmodifiedIsReadable ==
    ASSUME ReadInv, NEW p \in Path, Unmodified(p)  PROVE Readable(p)
<1>1. <<"coordinator", p>> \in FileID /\ <<"runner", p>> \in FileID
  BY DEF FileID, Owner
<1>2. PICK id \in {<<"coordinator", p>>, <<"runner", p>>} : rows[id] = disk[p].ver
  BY DEF Unmodified, IndexedVersion
<1>3. id[2] = p /\ id \in FileID
  BY <1>1
<1>4. KindNow(p) \notin {"refused", "oversized"}
  BY <1>2, <1>3 DEF ReadInv, RowsHold
<1> QED
  BY <1>4 DEF Unmodified, Readable, Listed

\* At its end a run has every chunk of the files it has read, and no other of theirs.
LEMMA CompleteAtEnd ==
    ASSUME LeftInv, pc \in {"clear", "record"}  PROVE CompleteNow
<1> SUFFICES ASSUME NEW p \in Path, Unmodified(p)
             PROVE  /\ IDs(ChunksOfPath(chunks, p)) = Current(p)
                    /\ Current(p) \subseteq bm25
                    /\ \A id \in Current(p) : vectorFile[id] # NoModel
  BY DEF CompleteNow
<1>1. Readable(p) /\ Own(p)
  BY UnmodifiedIsReadable DEF LeftInv, Own
<1>2. p \in Stored /\ texts[p] = disk[p].ver
  BY <1>1, OwnIsStored DEF LeftInv, Untouched
<1>3. Current(p) \subseteq IDs(RunChunks)
  BY <1>2, RunChunksAre DEF LeftInv, ReadInv, Current
<1>4. Current(p) \subseteq bm25 /\ \A id \in Current(p) : vectorFile[id] # NoModel
  BY <1>3 DEF LeftInv, LeftHolds
<1>5. ASSUME NEW t \in Pieces[p][disk[p].ver]  PROVE <<p, t>> \in IDs(ChunksOfPath(chunks, p))
  <2>1. <<p, t>> \in IDs(chunks)
    BY <1>3 DEF Current, LeftInv, LeftHolds, Saved, Late
  <2>2. PICK c \in chunks : ID(c) = <<p, t>>
    BY <2>1 DEF IDs
  <2>3. c.path = p
    BY <2>2 DEF ID
  <2> QED
    BY <2>2, <2>3 DEF IDs, ChunksOfPath
<1>6. ASSUME NEW c \in chunks, c.path = p  PROVE ID(c) \in Current(p)
  BY <1>1, <1>6 DEF LeftInv, LeftHolds, Saved, Late, AllOfNow, OfNow, Current, ID
<1> QED
  BY <1>4, <1>5, <1>6 DEF Current, IDs, ChunksOfPath

\* A run that ends leaves what it found, or a checkpoint, or a complete index.
LEMMA EndKeeps ==
    ASSUME LeftInv, Forget, UNCHANGED <<disk, rows, chunks, checkpoint, bm25, vectorFile>>,
           pc \in Early \/ Incomplete \/ pc = "record"
    PROVE  LeftHolds'
<1>1. pc' = "off" /\ resumeFrom' = 0 /\ \A p \in Path : stamps'[p] = 0
  BY DEF Forget
<1>2. Incomplete' = Incomplete
  BY DEF Incomplete
<1>3. CompleteNow' = CompleteNow
  BY DEF CompleteNow, Unmodified, Current
<1>4. AllOfNow => AllOfNow'
  BY <1>1 DEF AllOfNow, OfNow, Own, Readable, Listed, KindNow, LeftInv, ReadInv, BulkTypeOK, ChunkRow
<1>5. ~Resumed'
  BY <1>1 DEF Resumed
<1>6. ~Incomplete => CompleteNow
  BY CompleteAtEnd DEF LeftInv, LeftHolds
<1> QED
  BY <1>1, <1>2, <1>3, <1>4, <1>5, <1>6
  DEF LeftInv, LeftHolds, Replacing, Late, Saved, Early, Untouched

\* While the files and what was read of them stay, so do the chunks of the run.
LEMMA SameRead ==
    ASSUME UNCHANGED <<disk, stamps, texts>>
    PROVE  /\ RunChunks' = RunChunks /\ Stored' = Stored
           /\ \A p \in Path : Own(p)' = Own(p) /\ KindNow(p)' = KindNow(p)
           /\ \A c : OfNow(c)' = OfNow(c)
  BY DEF RunChunks, Stored, Own, Readable, Listed, KindNow, OfNow

\* A run is killed or fails: it has written nothing, or a checkpoint is left, or the
\* index is complete.
LEMMA LeftEnds ==
    ASSUME LeftInv, Counted, ReachesCheckpoint,
           NEW call, (Aborts(call) /\ pc # "record") \/ Kill \/ RecordModel
    PROVE  LeftHolds'
<1>1. Forget /\ UNCHANGED <<disk, rows, chunks, checkpoint, bm25, vectorFile>>
  BY DEF Aborts, Kill, RecordModel, indexVars
<1>2. pc \in Early \/ Incomplete \/ pc = "record"
  <2>1. CASE RecordModel
    BY <2>1 DEF RecordModel
  <2>2. CASE ~RecordModel
    <3>1. kills' # kills \/ faults' # faults
      BY <2>2 DEF Counted, Aborts, Kill, Fails
    <3>2. Incomplete \/ pc \notin Preparing \cup {"embed", "progress", "indexing"}
      BY <3>1 DEF ReachesCheckpoint, Preparing, Replacing
    <3> QED
      BY <3>2 DEF LeftInv, LeftHolds, ReadInv, BulkTypeOK, Late
  <2> QED
    BY <2>1, <2>2
<1> QED
  BY <1>1, <1>2, EndKeeps

\* The user changes the one file.
LEMMA EditChanges ==
    ASSUME ReadInv, NEW p \in Path, Edit(p) \/ Remove(p)
    PROVE  disk'[p] # disk[p]
<1>1. CASE Edit(p)
  <2>1. disk' = [disk EXCEPT ![p] = [ver |-> disk[p].ver + 1, exists |-> TRUE]]
    BY <1>1 DEF Edit
  <2>2. disk'[p].ver = disk[p].ver + 1 /\ disk[p].ver \in Nat
    BY <2>1, ConstantsAssumption DEF ReadInv, BulkTypeOK, Version
  <2> QED
    BY <2>2
<1>2. CASE Remove(p)
  <2>1. disk' = [disk EXCEPT ![p].exists = FALSE] /\ disk[p].exists
    BY <1>2 DEF Remove
  <2>2. ~disk'[p].exists
    BY <2>1 DEF ReadInv, BulkTypeOK
  <2> QED
    BY <2>1, <2>2
<1> QED
  BY <1>1, <1>2

\* The user edits a file that has no chunk, or that no attempt has read.
LEMMA LeftEdit ==
    ASSUME LeftInv, ReadInv', NEW p \in Path, Edit(p) \/ Remove(p), EditedBeforeRead
    PROVE  LeftHolds'
<1>1. /\ disk' # disk => disk'[p] # disk[p]
      /\ \A q \in Path : q # p => disk'[q] = disk[q]
      /\ disk'[p].ver = disk[p].ver => ~disk'[p].exists
      /\ disk'[p].ver # disk[p].ver => disk[p].ver \in Nat /\ disk'[p].ver = disk[p].ver + 1
  <2>1. disk[p] \in [ver : Version, exists : BOOLEAN] /\ disk[p].ver \in Nat
    BY ConstantsAssumption DEF LeftInv, ReadInv, BulkTypeOK, Version
  <2>2. CASE Edit(p)
    <3>1. disk' = [disk EXCEPT ![p] = [ver |-> disk[p].ver + 1, exists |-> TRUE]]
      BY <2>2 DEF Edit
    <3> QED
      BY <2>1, <3>1 DEF LeftInv, ReadInv, BulkTypeOK
  <2>3. CASE Remove(p)
    <3>1. disk' = [disk EXCEPT ![p].exists = FALSE] /\ disk[p].exists
      BY <2>3 DEF Remove
    <3> QED
      BY <2>1, <3>1 DEF LeftInv, ReadInv, BulkTypeOK
  <2> QED
    BY <2>2, <2>3
<1>2. /\ UNCHANGED <<rows, chunks, checkpoint, bm25, vectorFile, pc, resumeFrom, stamps, texts, left>>
      /\ Incomplete' = Incomplete /\ Resumed' = Resumed
  BY DEF Edit, Remove, indexVars, runVars, Incomplete, Resumed
<1>3. disk'[p] # disk[p]
  BY EditChanges DEF LeftInv
<1>4. pc \in Early /\ (~Incomplete \/ ChunksOfPath(chunks, p) = {})
  BY <1>3 DEF EditedBeforeRead, Early, Untouched
<1>5. ~Unmodified(p)'
  <2>1. <<"coordinator", p>> \in FileID /\ <<"runner", p>> \in FileID
        /\ <<"coordinator", p>>[2] = p /\ <<"runner", p>>[2] = p
    BY DEF FileID, Owner
  <2>2. \A id \in FileID : rows[id] \in Nat
    BY ConstantsAssumption DEF LeftInv, ReadInv, BulkTypeOK, Rows
  <2>3. \A id \in {<<"coordinator", p>>, <<"runner", p>>} : rows[id] <= disk[p].ver /\ rows[id] \in Nat
    BY <2>1, <2>2 DEF LeftInv, ReadInv, RowsHold
  <2>4. CASE disk'[p].ver = disk[p].ver
    BY <1>1, <2>4 DEF Unmodified
  <2>5. CASE disk'[p].ver # disk[p].ver
    <3>1. \A id \in {<<"coordinator", p>>, <<"runner", p>>} : rows[id] # disk'[p].ver
      BY <1>1, <2>3, <2>5
    <3> QED
      BY <1>2, <3>1 DEF Unmodified, IndexedVersion
  <2> QED
    BY <2>4, <2>5
<1>6. CompleteNow => CompleteNow'
  <2> SUFFICES ASSUME CompleteNow, NEW q \in Path, Unmodified(q)'
               PROVE  /\ IDs(ChunksOfPath(chunks', q)) = Current(q)'
                      /\ Current(q)' \subseteq bm25'
                      /\ \A id \in Current(q)' : vectorFile'[id] # NoModel
    BY DEF CompleteNow
  <2>1. q # p /\ disk'[q] = disk[q]
    BY <1>1, <1>5
  <2>2. Unmodified(q) /\ Current(q)' = Current(q)
    BY <1>2, <2>1 DEF Unmodified, Current
  <2> QED
    BY <1>2, <2>2 DEF CompleteNow
<1>7. Incomplete /\ AllOfNow => AllOfNow'
  <2> SUFFICES ASSUME Incomplete, AllOfNow, NEW c \in chunks, Own(c.path)'  PROVE OfNow(c)'
    BY <1>2 DEF AllOfNow
  <2>1. c.path # p /\ c.path \in Path
    BY <1>4 DEF ChunksOfPath, LeftInv, ReadInv, BulkTypeOK, ChunkRow
  <2>2. disk'[c.path] = disk[c.path]
    BY <1>1, <2>1
  <2>3. Own(c.path)
    BY <1>2, <2>2 DEF Own, Readable, Listed, KindNow
  <2> QED
    BY <2>2, <2>3 DEF AllOfNow, OfNow
<1> QED
  BY <1>2, <1>4, <1>6, <1>7 DEF LeftInv, LeftHolds, Early, Untouched, Late, Saved, Replacing

\* The command starts a run, or clears the index for one.
LEMMA LeftStart ==
    ASSUME LeftInv,
           \/ ClearBM25 \/ ClearVectors
           \/ \E m \in Model : RunFresh(m) \/ RunResume(m) \/ RunForce(m)
    PROVE  LeftHolds'
<1> USE DEF Early, Untouched, Late, Saved, Replacing
<1>0. NoCheckpoint.model = NoModel
  BY DEF NoCheckpoint
<1>1. ASSUME NEW m \in Model, RunFresh(m) \/ RunResume(m)  PROVE LeftHolds'
  <2>1. /\ pc = "off" /\ pc' = "scan" /\ UNCHANGED <<disk, indexVars, stamps, texts, left>>
        /\ Incomplete' = Incomplete
    BY <1>1 DEF RunFresh, RunResume, StartRun, indexVars, Incomplete
  <2>2. Resumed' => Incomplete
    BY <1>1 DEF RunFresh, RunResume, StartRun, Resumed, LeftInv, ReadInv, BulkTypeOK
  <2>3. UNCHANGED <<CompleteNow, AllOfNow>>
    BY <2>1 DEF CompleteNow, Unmodified, Current, indexVars, AllOfNow, Own, OfNow, Readable, Listed,
                KindNow
  <2> QED
    BY <2>1, <2>2, <2>3 DEF LeftInv, LeftHolds, indexVars
<1>2. ASSUME NEW m \in Model, RunForce(m)  PROVE LeftHolds'
  <2>1. /\ pc = "off" /\ pc' = "clearBM25" /\ chunks' = {} /\ ~Incomplete' /\ UNCHANGED <<disk, resumeFrom>>
        /\ rows' = [id \in FileID |-> NoRow]
    BY <1>0, <1>2 DEF RunForce, Incomplete
  <2>2. \A p \in Path : ~Unmodified(p)'
    <3>1. \A p \in Path : <<"coordinator", p>> \in FileID /\ <<"runner", p>> \in FileID
      BY DEF FileID, Owner
    <3>2. \A p \in Path : disk[p].ver # 0
      BY ConstantsAssumption DEF LeftInv, ReadInv, BulkTypeOK, Version
    <3> QED
      BY <2>1, <3>1, <3>2 DEF Unmodified, IndexedVersion, NoRow
  <2>3. ~Resumed'
    BY <1>2, <2>1 DEF RunForce, Resumed, LeftInv, LeftHolds
  <2> QED
    BY <2>1, <2>2, <2>3 DEF LeftHolds, CompleteNow, OneRowEach
<1>3. CASE ClearBM25 \/ ClearVectors
  <2>1. /\ pc \in {"clearBM25", "clearVectors"} /\ pc' \in {"clearVectors", "scan"}
        /\ UNCHANGED <<disk, rows, chunks, checkpoint, resumeFrom, stamps, texts, left>>
    BY <1>3 DEF ClearBM25, ClearVectors, runVars
  <2>2. /\ Incomplete' = Incomplete /\ Resumed' = Resumed /\ AllOfNow' = AllOfNow
        /\ \A id \in FileID : rows'[id] = NoRow
    BY <2>1 DEF Incomplete, Resumed, AllOfNow, Own, OfNow, Readable, Listed, KindNow, LeftInv, LeftHolds
  <2>3. \A p \in Path : ~Unmodified(p)'
    <3>1. \A p \in Path : <<"coordinator", p>> \in FileID /\ <<"runner", p>> \in FileID
      BY DEF FileID, Owner
    <3>2. \A p \in Path : disk[p].ver # 0
      BY ConstantsAssumption DEF LeftInv, ReadInv, BulkTypeOK, Version
    <3> QED
      BY <2>1, <2>2, <3>1, <3>2 DEF Unmodified, IndexedVersion, NoRow
  <2> QED
    BY <2>1, <2>2, <2>3 DEF LeftInv, LeftHolds, CompleteNow
<1> QED
  BY <1>1, <1>2, <1>3

\* The scan lists the files, and chunkFiles reads them.
LEMMA LeftReads ==
    ASSUME LeftInv, Scan \/ EndChunking \/ \E p \in Path : ChunkFile(p)
    PROVE  LeftHolds'
<1> USE DEF Early, Untouched, Late, Saved, Replacing
<1>1. UNCHANGED <<disk, rows, chunks, checkpoint, bm25, vectorFile>>
  BY DEF Scan, EndChunking, ChunkFile, indexVars
<1>2. CASE Forget
  <2>1. pc \in Early
    <3>1. pc \in {"scan", "chunk"}
      BY DEF Scan, EndChunking, ChunkFile
    <3> QED
      BY <3>1
  <2> QED
    BY <1>1, <1>2, <2>1, EndKeeps
<1>3. CASE ~Forget
  <2>1. pc \in {"scan", "chunk"} /\ pc' \in {"chunk", "saveFiles"} /\ UNCHANGED resumeFrom
    BY <1>3 DEF Scan, EndChunking, ChunkFile, runVars
  <2>2. \A p \in Path : Own(p)' => Own(p)
    <3>1. CASE Scan
      <4>1. stamps' = [p \in Path |-> IF Listed(p) THEN disk[p].ver ELSE 0]
        BY <1>3, <3>1 DEF Scan
      <4> QED
        BY <1>1, <4>1 DEF Own, Readable, Listed, KindNow
    <3>2. CASE ~Scan
      <4>1. stamps' = stamps
        BY <1>3, <3>2 DEF EndChunking, ChunkFile, runVars
      <4> QED
        BY <1>1, <4>1 DEF Own, Readable, Listed, KindNow
    <3> QED
      BY <3>1, <3>2
  <2>3. Incomplete' = Incomplete /\ Resumed' = Resumed /\ CompleteNow' = CompleteNow
    BY <1>1, <2>1 DEF Incomplete, Resumed, CompleteNow, Unmodified, Current
  <2>4. AllOfNow => AllOfNow'
    <3>1. \A c \in chunks : c.path \in Path
      BY DEF LeftInv, ReadInv, BulkTypeOK, ChunkRow
    <3> QED
      BY <1>1, <2>2, <3>1 DEF AllOfNow, OfNow
  <2> QED
    BY <1>1, <2>1, <2>3, <2>4 DEF LeftInv, LeftHolds
<1> QED
  BY <1>2, <1>3

\* SaveFiles: from here on the rows say more than the chunks hold.
LEMMA LeftSaveFiles ==
    ASSUME LeftInv, SaveFiles, ~Aborts("SaveFiles")
    PROVE  LeftHolds'
<1> USE DEF Early, Untouched, Late, Saved, Replacing
<1>1. /\ pc = "saveFiles" /\ UNCHANGED <<disk, checkpoint, stamps, texts, resumeFrom>>
      /\ chunks' = {c \in chunks : c.path \in Stored => c.owner = "runner"}
      /\ left' = Stored
      /\ pc' = IF resumeFrom = 0 THEN "replaceBM25" ELSE "saveChunks"
  BY DEF SaveFiles
<1>2. RunChunks' = RunChunks /\ Stored' = Stored /\ (\A p \in Path : Own(p)' = Own(p))
      /\ \A c : OfNow(c)' = OfNow(c)
  BY <1>1, SameRead
<1>3. Incomplete' = Incomplete /\ Resumed' = Resumed /\ (Resumed => Incomplete)
  BY <1>1 DEF Incomplete, Resumed, LeftInv, LeftHolds
<1>4. \A c \in chunks : c.path \in Path
  BY DEF LeftInv, ReadInv, BulkTypeOK, ChunkRow
<1>5. OneRowEach(chunks')
  BY <1>1 DEF LeftInv, LeftHolds, OneRowEach
<1>6. Incomplete => AllOfNow'
  BY <1>1, <1>2, <1>4 DEF LeftInv, LeftHolds, AllOfNow
<1>7. CASE resumeFrom = 0
  BY <1>1, <1>2, <1>3, <1>5, <1>6, <1>7 DEF LeftHolds, Resumed
<1>8. CASE resumeFrom # 0
  <2>1. Resumed
    BY <1>8 DEF LeftInv, ReadInv, BulkTypeOK
  <2> QED
    BY <1>1, <1>2, <1>3, <1>5, <1>6, <1>8, <2>1 DEF LeftHolds
<1> QED
  BY <1>7, <1>8

\* replaceIndexedFileChunks: the loop leaves no old chunk of the files it has treated.
LEMMA LeftReplaces ==
    ASSUME LeftInv, EndReplacing \/ \E p \in Path : ReplaceBM25(p) \/ ReplaceChunks(p),
           \A call \in {"bm25.Delete", "GetChunksByFile", "DeleteChunksByFile"} : ~Aborts(call)
    PROVE  LeftHolds'
<1> USE DEF Early, Untouched, Late, Saved, Replacing
<1>1. /\ pc \in Replacing /\ UNCHANGED <<disk, checkpoint, stamps, texts, resumeFrom>>
      /\ pc' \in Replacing \cup {"saveChunks"}
      /\ chunks' \subseteq chunks /\ left' \subseteq left
  <2>1. CASE EndReplacing
    BY <2>1 DEF EndReplacing, indexVars, runVars
  <2>2. ASSUME NEW p \in Path, ReplaceBM25(p)
        PROVE  /\ pc \in Replacing /\ UNCHANGED <<disk, checkpoint, stamps, texts, resumeFrom>>
               /\ pc' \in Replacing \cup {"saveChunks"}
               /\ chunks' \subseteq chunks /\ left' \subseteq left
    BY <2>2 DEF ReplaceBM25, indexVars, runVars
  <2>3. ASSUME NEW p \in Path, ReplaceChunks(p)
        PROVE  /\ pc \in Replacing /\ UNCHANGED <<disk, checkpoint, stamps, texts, resumeFrom>>
               /\ pc' \in Replacing \cup {"saveChunks"}
               /\ chunks' \subseteq chunks /\ left' \subseteq left
    BY <2>3 DEF ReplaceChunks
  <2> QED
    BY <2>1, <2>2, <2>3
<1>2. RunChunks' = RunChunks /\ Stored' = Stored /\ (\A p \in Path : Own(p)' = Own(p))
      /\ \A c : OfNow(c)' = OfNow(c)
  BY <1>1, SameRead
<1>3. Incomplete' = Incomplete /\ ~Resumed' /\ ~Resumed
  BY <1>1 DEF Incomplete, Resumed, LeftInv, LeftHolds
<1>4. \A c \in chunks : c.path \in Path
  BY DEF LeftInv, ReadInv, BulkTypeOK, ChunkRow
<1>5. OneRowEach(chunks')
  BY <1>1 DEF LeftInv, LeftHolds, OneRowEach
<1>6. Incomplete => AllOfNow'
  BY <1>1, <1>2, <1>4 DEF LeftInv, LeftHolds, AllOfNow
<1>7. ASSUME NEW c \in chunks', c.path \in Stored
      PROVE  c.owner = "runner" /\ c.path \in left' /\ pc' \in Replacing
  <2>1. c \in chunks /\ c.owner = "runner" /\ c.path \in left
    BY <1>1, <1>7 DEF LeftInv, LeftHolds
  <2>2. CASE EndReplacing
    BY <2>1, <2>2 DEF EndReplacing
  <2>3. ASSUME NEW p \in Path, ReplaceBM25(p)  PROVE c.path \in left' /\ pc' \in Replacing
    BY <2>1, <2>3 DEF ReplaceBM25, OldChunks, ChunksByFile, runVars
  <2>4. ASSUME NEW p \in Path, ReplaceChunks(p)  PROVE c.path \in left' /\ pc' \in Replacing
    BY <1>7, <2>1, <2>4 DEF ReplaceChunks, OldChunks, ChunksByFile
  <2> QED
    BY <2>1, <2>2, <2>3, <2>4
<1> QED
  BY <1>1, <1>2, <1>3, <1>5, <1>6, <1>7 DEF LeftInv, LeftHolds

\* SaveChunks: the chunks of the run beside those of files it has not read.
LEMMA LeftSaveChunks ==
    ASSUME LeftInv, SaveRunChunks, ~Aborts("SaveChunks")
    PROVE  LeftHolds'
<1> USE DEF Early, Untouched, Late, Saved, Replacing
<1>1. /\ pc = "saveChunks" /\ pc' = "begin"
      /\ UNCHANGED <<disk, checkpoint, stamps, texts, resumeFrom>>
      /\ chunks' = SaveChunks(chunks, RunChunks)
  BY DEF SaveRunChunks
<1>2. RunChunks' = RunChunks /\ Stored' = Stored /\ (\A p \in Path : Own(p)' = Own(p))
      /\ \A c : OfNow(c)' = OfNow(c)
  BY <1>1, SameRead
<1>3. Incomplete' = Incomplete /\ Resumed' = Resumed /\ (Resumed => Incomplete)
  BY <1>1 DEF Incomplete, Resumed, LeftInv, LeftHolds
<1>4. RunChunks \in SUBSET ChunkRow /\ chunks \in SUBSET ChunkRow /\ OneRowEach(RunChunks)
  BY RunChunksAre DEF LeftInv, ReadInv, BulkTypeOK
<1>5. /\ OneRowEach(chunks') /\ IDs(RunChunks) \subseteq IDs(chunks')
      /\ \A c \in chunks' : c \in chunks \/ \E n \in RunChunks : Same(c, n)
  BY <1>1, <1>4, SaveChunksSet DEF LeftInv, LeftHolds
<1>6. AllOfNow'
  <2> SUFFICES ASSUME NEW c \in chunks', Own(c.path)  PROVE OfNow(c)
    <3>1. chunks' \subseteq ChunkRow
      BY <1>1, <1>4, SaveChunksRows
    <3>2. \A c \in chunks' : c.path \in Path
      BY <3>1 DEF ChunkRow
    <3> QED
      BY <1>2, <3>2 DEF AllOfNow
  <2>1. CASE \E n \in RunChunks : Same(c, n)
    <3>1. PICK n \in RunChunks : Same(c, n)
      BY <2>1
    <3>2. n.path \in Stored /\ n.content \in Pieces[n.path][texts[n.path]]
      BY RunChunksAre DEF LeftInv, ReadInv
    <3>3. texts[n.path] = disk[n.path].ver
      BY <1>1, <3>2, OwnIsStored DEF LeftInv, Stored
    <3> QED
      BY <3>1, <3>2, <3>3 DEF Same, OfNow
  <2>2. CASE c \in chunks
    <3>1. c.path \in Path
      BY <1>4, <2>2 DEF ChunkRow
    <3>2. c.path \in Stored
      BY <1>1, <3>1, OwnIsStored DEF LeftInv
    <3>3. Resumed
      BY <1>1, <2>2, <3>2 DEF LeftInv, LeftHolds
    <3>4. Incomplete
      BY <1>3, <3>3
    <3> QED
      BY <2>2, <3>4 DEF LeftInv, LeftHolds, AllOfNow
  <2> QED
    BY <1>5, <2>1, <2>2
<1> QED
  BY <1>1, <1>2, <1>3, <1>5, <1>6 DEF LeftHolds

\* From the first checkpoint to its removal.
LEMMA LeftEmbeds ==
    ASSUME LeftInv, ReachesCheckpoint, Counted, ReadInv',
           \/ BeginEmbedding \/ EmbedBatch \/ SaveProgress \/ EndEmbedding \/ BeginIndexing
           \/ IndexBM25 \/ BuildVectors \/ SaveVectors \/ ClearIndexCheckpoint,
           ~Forget,
           \A call \in {"EmbedBatch", "bm25.Index", "GetAllEmbeddings", "vector.Save",
                        "UpdateProjectStats"} : ~Aborts(call)
    PROVE  LeftHolds'
<1> USE DEF Early, Untouched, Late, Saved, Replacing
<1> DEFINE InVectors == {"vectors", "saveVectors", "clear", "record"}
           InClear   == {"clear", "record"}
<1>1. /\ pc \in Late \cup {"begin"} /\ pc' \in Late \cup {"record"}
      /\ UNCHANGED <<disk, stamps, texts, resumeFrom>>
      /\ pc' \in InVectors => pc = "bm25" \/ pc \in InVectors
      /\ pc' \in InClear => pc = "saveVectors" \/ pc \in InClear
  <2>1. CASE BeginEmbedding
    BY <2>1 DEF BeginEmbedding
  <2>2. CASE EmbedBatch \/ SaveProgress
    BY <2>2 DEF EmbedBatch, SaveProgress, runVars
  <2>3. CASE EndEmbedding \/ BeginIndexing
    BY <2>3 DEF EndEmbedding, BeginIndexing, indexVars, runVars
  <2>4. CASE IndexBM25 \/ BuildVectors
    BY <2>4 DEF IndexBM25, BuildVectors, runVars
  <2>5. CASE SaveVectors \/ ClearIndexCheckpoint
    BY <2>5 DEF SaveVectors, ClearIndexCheckpoint, runVars
  <2> QED
    BY <2>1, <2>2, <2>3, <2>4, <2>5
<1>2. RunChunks' = RunChunks /\ Stored' = Stored /\ (\A p \in Path : Own(p)' = Own(p))
      /\ \A c : OfNow(c)' = OfNow(c)
  BY <1>1, SameRead
<1>3. chunks \in SUBSET ChunkRow /\ model \in Model /\ chunks' \subseteq ChunkRow
  BY DEF LeftInv, ReadInv, BulkTypeOK
<1>4. chunks' = chunks \/ \E ids : chunks' = SaveEmbeddings(chunks, ids, model)
  <2>1. CASE BeginEmbedding \/ SaveProgress \/ BeginIndexing
    BY <2>1 DEF BeginEmbedding, SaveProgress, BeginIndexing
  <2>2. CASE EndEmbedding \/ IndexBM25 \/ SaveVectors \/ ClearIndexCheckpoint
    BY <2>2 DEF EndEmbedding, IndexBM25, SaveVectors, ClearIndexCheckpoint, indexVars
  <2>3. CASE EmbedBatch \/ BuildVectors
    BY <2>3 DEF EmbedBatch, BuildVectors
  <2> QED
    BY <2>1, <2>2, <2>3
<1>5. /\ IDs(chunks') = IDs(chunks) /\ OneRowEach(chunks')
      /\ \A c \in chunks' : \E d \in chunks : Same(c, d)
  <2>1. OneRowEach(chunks)
    BY DEF LeftInv, LeftHolds
  <2>2. \A c \in chunks : Same(c, c)
    BY DEF Same
  <2>3. CASE chunks' = chunks
    BY <2>1, <2>2, <2>3
  <2>4. ASSUME NEW ids, chunks' = SaveEmbeddings(chunks, ids, model)
        PROVE  /\ IDs(chunks') = IDs(chunks) /\ OneRowEach(chunks')
               /\ \A c \in chunks' : \E d \in chunks : Same(c, d)
    BY <1>3, <2>1, <2>4, SaveEmbeddingsSet
  <2> QED
    BY <1>4, <2>3, <2>4
<1>6. AllOfNow'
  <2> SUFFICES ASSUME NEW c \in chunks', Own(c.path)  PROVE OfNow(c)
    <3>1. \A c \in chunks' : c.path \in Path
      BY <1>3 DEF ChunkRow
    <3> QED
      BY <1>2, <3>1 DEF AllOfNow
  <2>1. PICK d \in chunks : Same(c, d)
    BY <1>5
  <2>2. AllOfNow
    BY <1>1 DEF LeftInv, LeftHolds
  <2> QED
    BY <2>1, <2>2 DEF AllOfNow, OfNow, Same
<1>7. pc' \in Late => Incomplete'
  <2>1. ASSUME NEW n, SaveIndexCheckpoint(n), pc \in {"begin", "progress", "indexing"}
        PROVE  Incomplete'
    <3>1. NoModel # model
      BY <1>3, ConstantsAssumption
    <3>2. CASE Incomplete
      BY <2>1, <3>1, <3>2 DEF SaveIndexCheckpoint, Incomplete
    <3>3. CASE ~Incomplete
      <4>1. faults' = faults
        BY <2>1, <3>3 DEF ReachesCheckpoint
      <4>2. ~Fails("SaveIndexCheckpoint")
        BY <4>1 DEF Fails, Counted
      <4> QED
        BY <2>1, <3>1, <4>2 DEF SaveIndexCheckpoint, Incomplete
    <3> QED
      BY <3>2, <3>3
  <2>2. CASE BeginEmbedding \/ SaveProgress \/ BeginIndexing
    BY <2>1, <2>2 DEF BeginEmbedding, SaveProgress, BeginIndexing
  <2>3. CASE EmbedBatch \/ BuildVectors
    BY <2>3 DEF EmbedBatch, BuildVectors, Incomplete, LeftInv, LeftHolds
  <2>4. CASE EndEmbedding \/ IndexBM25 \/ SaveVectors
    BY <2>4 DEF EndEmbedding, IndexBM25, SaveVectors, indexVars, Incomplete, LeftInv, LeftHolds
  <2>5. CASE ClearIndexCheckpoint
    BY <2>5 DEF ClearIndexCheckpoint
  <2> QED
    BY <2>2, <2>3, <2>4, <2>5
<1>8. Resumed' = Resumed
  BY <1>1 DEF Resumed
<1>9. IDs(RunChunks) \subseteq IDs(chunks)
  BY <1>1 DEF LeftInv, LeftHolds
<1>10. pc' \in InVectors => IDs(RunChunks) \subseteq bm25'
  <2>1. CASE IndexBM25
    BY <2>1 DEF IndexBM25
  <2>2. CASE ~IndexBM25 /\ pc' \in InVectors
    <3>1. bm25' = bm25
      BY <2>2 DEF BeginEmbedding, EmbedBatch, SaveProgress, EndEmbedding, BeginIndexing, BuildVectors,
                  SaveVectors, ClearIndexCheckpoint, indexVars
    <3>2. pc \in InVectors
      BY <1>1, <2>2 DEF BeginEmbedding, EmbedBatch, SaveProgress, EndEmbedding, BeginIndexing,
                        BuildVectors, SaveVectors, ClearIndexCheckpoint
    <3> QED
      BY <3>1, <3>2 DEF LeftInv, LeftHolds
  <2> QED
    BY <2>1, <2>2
<1>11. pc' \in InClear => \A id \in IDs(RunChunks) : vectorFile'[id] # NoModel
  <2>1. CASE SaveVectors
    <3>1. vectorFile' = [id \in ChunkID |->
                             IF id \notin IDs(RunChunks) THEN NoModel
                             ELSE IF id \in Missing      THEN model
                             ELSE (CHOOSE c \in chunks : ID(c) = id).emb]
      BY <2>1 DEF SaveVectors
    <3>2. ASSUME NEW id \in IDs(RunChunks)  PROVE vectorFile'[id] # NoModel
      <4>1. id \in ChunkID
        <5>1. RunChunks \in SUBSET ChunkRow
          BY RunChunksAre DEF LeftInv, ReadInv
        <5> QED
          BY <5>1 DEF IDs, ID, ChunkRow, ChunkID
      <4>2. CASE id \in Missing
        BY <1>3, <3>1, <4>1, <4>2, ConstantsAssumption
      <4>3. CASE id \notin Missing
        <5>1. PICK c \in chunks : ID(c) = id /\ c.emb # NoModel
          BY <4>3 DEF Missing, EmbeddedIDs, IDs
        <5>2. \A d \in chunks : ID(d) = id => d = c
          BY <5>1 DEF LeftInv, LeftHolds, OneRowEach
        <5>3. (CHOOSE d \in chunks : ID(d) = id) = c
          BY <5>1, <5>2
        <5> QED
          BY <3>1, <4>1, <4>3, <5>1, <5>3
      <4> QED
        BY <4>2, <4>3
    <3> QED
      BY <3>2
  <2>2. CASE ~SaveVectors /\ pc' \in InClear
    <3>1. ClearIndexCheckpoint
      BY <2>2 DEF BeginEmbedding, EmbedBatch, SaveProgress, EndEmbedding, BeginIndexing, IndexBM25,
                  BuildVectors
    <3> QED
      BY <3>1 DEF ClearIndexCheckpoint, LeftInv, LeftHolds
  <2> QED
    BY <2>1, <2>2
<1> QED
  BY <1>1, <1>2, <1>5, <1>6, <1>7, <1>8, <1>9, <1>10, <1>11 DEF LeftInv, LeftHolds

LEMMA LeftStep ==
    LeftInv /\ Counted /\ [Next /\ EditedBeforeRead /\ ReachesCheckpoint]_vars => LeftInv'
<1> SUFFICES ASSUME LeftInv, Counted, [Next /\ EditedBeforeRead /\ ReachesCheckpoint]_vars
             PROVE  LeftHolds'
  BY ReadStep DEF LeftInv
<1>1. ReadInv /\ ReadInv'
  BY ReadStep DEF LeftInv
<1>2. CASE UNCHANGED vars
  <2>1. UNCHANGED <<disk, rows, chunks, checkpoint, bm25, vectorFile, pc, resumeFrom, stamps, texts, left>>
    BY <1>2 DEF vars
  <2>2. UNCHANGED <<Incomplete, Resumed, CompleteNow, AllOfNow>>
    BY <2>1 DEF Incomplete, Resumed, CompleteNow, Unmodified, Current, AllOfNow, Own, OfNow, Readable,
                Listed, KindNow
  <2>3. RunChunks' = RunChunks /\ Stored' = Stored
    BY <2>1, SameRead
  <2> QED
    BY <2>1, <2>2, <2>3 DEF LeftInv, LeftHolds
<1> SUFFICES ASSUME Next, EditedBeforeRead, ReachesCheckpoint  PROVE LeftHolds'
  BY <1>2
<1>3. ASSUME NEW p \in Path, Edit(p) \/ Remove(p)  PROVE LeftHolds'
  BY <1>1, <1>3, LeftEdit
<1>4. ASSUME NEW m \in Model, RunFresh(m) \/ RunResume(m) \/ RunForce(m)  PROVE LeftHolds'
  BY <1>4, LeftStart
<1>5. ASSUME NEW call, Aborts(call), pc # "record"  PROVE LeftHolds'
  BY <1>5, LeftEnds
<1>6. CASE Kill \/ RecordModel
  BY <1>6, LeftEnds
<1>7. CASE ClearBM25 \/ ClearVectors
  BY <1>7, LeftStart
<1>8. CASE Scan \/ EndChunking \/ \E p \in Path : ChunkFile(p)
  BY <1>8, LeftReads
<1>9. CASE SaveFiles
  <2>1. pc # "record"
    BY <1>9 DEF SaveFiles
  <2> QED
    BY <1>5, <1>9, <2>1, LeftSaveFiles
<1>10. CASE EndReplacing \/ \E p \in Path : ReplaceBM25(p) \/ ReplaceChunks(p)
  <2>1. pc # "record"
    BY <1>10 DEF EndReplacing, ReplaceBM25, ReplaceChunks
  <2>2. CASE \A call \in {"bm25.Delete", "GetChunksByFile", "DeleteChunksByFile"} : ~Aborts(call)
    BY <1>10, <2>2, LeftReplaces
  <2> QED
    BY <1>5, <2>1, <2>2
<1>11. CASE SaveRunChunks
  <2>1. pc # "record"
    BY <1>11 DEF SaveRunChunks
  <2> QED
    BY <1>5, <1>11, <2>1, LeftSaveChunks
<1>12. CASE \/ BeginEmbedding \/ EmbedBatch \/ SaveProgress \/ EndEmbedding \/ BeginIndexing
            \/ IndexBM25 \/ BuildVectors \/ SaveVectors \/ ClearIndexCheckpoint
  <2>1. pc # "record"
    BY <1>12 DEF BeginEmbedding, EmbedBatch, SaveProgress, EndEmbedding, BeginIndexing,
                 IndexBM25, BuildVectors, SaveVectors, ClearIndexCheckpoint
  <2>2. CASE \E call \in {"EmbedBatch", "bm25.Index", "GetAllEmbeddings", "vector.Save",
                          "UpdateProjectStats"} : Aborts(call)
    BY <1>5, <2>1, <2>2
  <2>3. CASE Forget /\ ~\E call \in {"EmbedBatch", "bm25.Index", "GetAllEmbeddings", "vector.Save",
                                     "UpdateProjectStats"} : Aborts(call)
    <3>1. BeginEmbedding /\ OtherModel
      BY <1>12, <2>3 DEF Forget, BeginEmbedding, EmbedBatch, SaveProgress, EndEmbedding, BeginIndexing,
                         IndexBM25, BuildVectors, SaveVectors, ClearIndexCheckpoint
    <3>2. Incomplete /\ UNCHANGED <<disk, rows, chunks, checkpoint, bm25, vectorFile>>
      BY <3>1 DEF BeginEmbedding, OtherModel, LeftInv, LeftHolds, Resumed
    <3> QED
      BY <2>3, <3>2, EndKeeps
  <2>4. CASE ~Forget /\ ~\E call \in {"EmbedBatch", "bm25.Index", "GetAllEmbeddings", "vector.Save",
                                      "UpdateProjectStats"} : Aborts(call)
    BY <1>1, <1>12, <2>4, LeftEmbeds
  <2> QED
    BY <2>2, <2>3, <2>4
<1> QED
  BY <1>3, <1>4, <1>6, <1>7, <1>8, <1>9, <1>10, <1>11, <1>12 DEF Next, Step

-----------------------------------------------------------------------------
(* Which model a run embeds with.                                          *)

OfModel(m) == \A c \in chunks : Own(c.path) => c.emb \in {NoModel, m}

\* A step of the run may still fail to save a checkpoint.
MayNotSave == "SaveIndexCheckpoint" \in FaultyCalls /\ faults < MaxFaults

ModelHolds ==
    /\ checkpoint.embedded > 0 /\ pc \in Early \cup Preparing => OfModel(checkpoint.model)
    /\ Resumed /\ pc \in Early \cup Preparing =>
          /\ checkpoint.embedded > 0
          /\ wanted = checkpoint.model \/ (wanted = NoModel /\ model = checkpoint.model)
    /\ ~Resumed /\ pc # "off" /\ pc \in Early \cup Preparing =>
          ~(checkpoint.embedded > 0) \/ ~MayNotSave
    /\ pc = "begin" /\ ~Resumed => \A c \in chunks : Own(c.path) => c.emb = NoModel
    /\ pc \in Late \cup {"record"} =>
          OfModel(model) /\ (checkpoint.embedded > 0 => checkpoint.model = model)
    /\ pc \in {"clear", "record"} => \A id \in ChunkID : vectorFile[id] \in {NoModel, model}
    /\ pc \in Early /\ ~Incomplete => \A c \in chunks : vectorFile[ID(c)] \in {NoModel, indexModel}

ModelInv == LeftInv /\ ModelHolds

\* A run that ends leaves embeddings of the checkpoint's model, or a complete index of
\* the model it names.
LEMMA ModelEnds ==
    ASSUME ModelInv, Forget, UNCHANGED <<disk, chunks, checkpoint, vectorFile>>,
           pc \in Early \/ Incomplete \/ pc = "record",
           indexModel' = IF pc = "record" THEN model ELSE indexModel
    PROVE  ModelHolds'
<1> USE DEF Early, Untouched, Late, Saved, Replacing, Preparing
<1>1. pc' = "off" /\ resumeFrom' = 0 /\ \A p \in Path : stamps'[p] = 0
  BY DEF Forget
<1>2. Incomplete' = Incomplete /\ ~Resumed'
  BY <1>1 DEF Incomplete, Resumed
<1>3. \A c \in chunks : c.path \in Path /\ ID(c) \in ChunkID
  BY DEF ModelInv, LeftInv, ReadInv, BulkTypeOK, ChunkRow, ID, ChunkID
<1>4. \A p \in Path : Own(p)' => Own(p)
  BY <1>1 DEF Own, Readable, Listed, KindNow
<1>5. \A m : OfModel(m) => \A c \in chunks : Own(c.path)' => c.emb \in {NoModel, m}
  BY <1>3, <1>4 DEF OfModel
<1>6. pc \in Early \cup Preparing \cup Late \cup {"record"}
  BY DEF ModelInv, LeftInv, ReadInv, BulkTypeOK
<1>7. checkpoint.embedded > 0 => OfModel(checkpoint.model)
  BY <1>6 DEF ModelInv, ModelHolds
<1>8. ~Incomplete => \A c \in chunks : vectorFile[ID(c)] \in {NoModel, indexModel'}
  BY <1>3 DEF ModelInv, ModelHolds
<1> QED
  BY <1>1, <1>2, <1>5, <1>7, <1>8 DEF ModelHolds, OfModel

\* The user.
LEMMA ModelEdit ==
    ASSUME ModelInv, NEW p \in Path, Edit(p) \/ Remove(p), EditedBeforeRead, pc \in Early,
           disk' # disk => disk'[p] # disk[p],
           \A q \in Path : q # p => disk'[q] = disk[q]
    PROVE  ModelHolds'
<1> USE DEF Early, Untouched, Late, Saved, Replacing, Preparing
<1>1. /\ UNCHANGED <<chunks, checkpoint, vectorFile, indexModel, pc, resumeFrom, model, wanted, stamps, faults>>
      /\ Incomplete' = Incomplete /\ Resumed' = Resumed
  BY DEF Edit, Remove, indexVars, runVars, Incomplete, Resumed
<1>2. ASSUME checkpoint.embedded > 0  PROVE OfModel(checkpoint.model)'
  <2> SUFFICES ASSUME NEW c \in chunks, Own(c.path)'  PROVE c.emb \in {NoModel, checkpoint.model}
    BY <1>1 DEF OfModel
  <2>1. OfModel(checkpoint.model) /\ Incomplete
    BY <1>2 DEF ModelInv, ModelHolds, LeftInv, ReadInv, BulkTypeOK
  <2>2. c.path \in Path
    BY DEF ModelInv, LeftInv, ReadInv, BulkTypeOK, ChunkRow
  <2>3. disk'[c.path] = disk[c.path]
    BY <2>1, <2>2 DEF EditedBeforeRead, ChunksOfPath
  <2>4. Own(c.path)
    BY <1>1, <2>3 DEF Own, Readable, Listed, KindNow
  <2> QED
    BY <2>1, <2>4 DEF OfModel
<1> QED
  BY <1>1, <1>2 DEF ModelInv, ModelHolds, MayNotSave

\* Reading a checkpoint and saving one do not both fail.
CheckpointIsReadOrSaved ==
    \/ ~({"LoadIndexCheckpoint", "SaveIndexCheckpoint"} \subseteq FaultyCalls)
    \/ MaxFaults <= 1

\* The command.
LEMMA ModelStart ==
    ASSUME CheckpointIsReadOrSaved, ModelInv, Counted, ReadsModel,
           \/ ClearBM25 \/ ClearVectors
           \/ \E m \in Model : RunFresh(m) \/ RunResume(m) \/ RunForce(m)
    PROVE  ModelHolds'
<1> USE DEF Early, Untouched, Late, Saved, Replacing, Preparing
<1>1. ASSUME NEW m \in Model, RunFresh(m) \/ RunResume(m)  PROVE ModelHolds'
  <2>1. /\ pc = "off" /\ pc' = "scan" /\ UNCHANGED <<disk, indexVars, stamps, texts, left>>
        /\ Incomplete' = Incomplete
    BY <1>1 DEF RunFresh, RunResume, StartRun, indexVars, Incomplete
  <2>2. \A n : OfModel(n)' = OfModel(n)
    BY <2>1 DEF OfModel, Own, Readable, Listed, KindNow, indexVars
  <2>3. Resumed' => /\ checkpoint.embedded > 0
                    /\ wanted' = checkpoint.model \/ (wanted' = NoModel /\ model' = checkpoint.model)
    <3>1. CASE RunFresh(m)
      BY <3>1 DEF RunFresh, StartRun, Resumed
    <3>2. CASE RunResume(m)
      BY <3>2 DEF RunResume, StartRun, Resumed, ReadsModel
    <3> QED
      BY <1>1, <3>1, <3>2
  <2>4. ~Resumed' => ~(checkpoint.embedded > 0) \/ ~MayNotSave'
    <3>1. CASE RunResume(m)
      BY <3>1 DEF RunResume, StartRun, Resumed
    <3>2. CASE RunFresh(m) /\ Fails("LoadIndexCheckpoint")
      BY <3>2, BulkAssumption DEF Fails, MayNotSave, CheckpointIsReadOrSaved, Counted
    <3>3. CASE RunFresh(m) /\ ~Fails("LoadIndexCheckpoint")
      BY <3>3 DEF RunFresh
    <3> QED
      BY <1>1, <3>1, <3>2, <3>3
  <2> QED
    BY <2>1, <2>2, <2>3, <2>4 DEF ModelInv, ModelHolds, indexVars
<1>2. ASSUME NEW m \in Model, RunForce(m)  PROVE ModelHolds'
  <2>1. /\ pc = "off" /\ pc' = "clearBM25" /\ chunks' = {} /\ checkpoint'.embedded = 0
        /\ resumeFrom' = resumeFrom
    BY <1>2 DEF RunForce, NoCheckpoint
  <2>2. ~Resumed'
    BY <2>1 DEF Resumed, ModelInv, LeftInv, LeftHolds
  <2> QED
    BY <2>1, <2>2 DEF ModelHolds
<1>3. CASE ClearBM25 \/ ClearVectors
  <2>1. /\ pc \in {"clearBM25", "clearVectors"} /\ pc' \in {"clearVectors", "scan"}
        /\ UNCHANGED <<disk, chunks, checkpoint, indexModel, resumeFrom, stamps, model, wanted, faults>>
        /\ vectorFile' = vectorFile \/ vectorFile' = [id \in ChunkID |-> NoModel]
    BY <1>3 DEF ClearBM25, ClearVectors, runVars
  <2>2. /\ Incomplete' = Incomplete /\ Resumed' = Resumed /\ MayNotSave' = MayNotSave
        /\ \A n : OfModel(n)' = OfModel(n)
    BY <2>1 DEF Incomplete, Resumed, MayNotSave, OfModel, Own, Readable, Listed, KindNow
  <2>3. \A c \in chunks : ID(c) \in ChunkID
    BY DEF ModelInv, LeftInv, ReadInv, BulkTypeOK, ChunkRow, ID, ChunkID
  <2> QED
    BY <2>1, <2>2, <2>3 DEF ModelInv, ModelHolds
<1> QED
  BY <1>1, <1>2, <1>3

\* Scan, read and chunk; file rows; the old chunks go.
LEMMA ModelPrepares ==
    ASSUME ModelInv, ReadInv', ~Forget,
           \/ Scan \/ EndChunking \/ SaveFiles \/ EndReplacing
           \/ \E p \in Path : ChunkFile(p) \/ ReplaceBM25(p) \/ ReplaceChunks(p),
           \A call \in {"SaveFiles", "bm25.Delete", "GetChunksByFile", "DeleteChunksByFile"} : ~Aborts(call)
    PROVE  ModelHolds'
<1> USE DEF Early, Untouched, Late, Saved, Replacing, Preparing
<1> DEFINE Goes ==
        /\ pc \in {"scan", "chunk", "saveFiles"} \cup Replacing
        /\ pc' \in {"chunk", "saveFiles", "saveChunks"} \cup Replacing
        /\ pc' \in Early => pc \in Early /\ chunks' = chunks
        /\ UNCHANGED <<disk, checkpoint, indexModel, vectorFile, resumeFrom, wanted, model, faults>>
        /\ chunks' \subseteq chunks
<1>2. Goes
  <2>1. CASE Scan \/ EndChunking
    BY <2>1 DEF Scan, EndChunking, indexVars, runVars
  <2>2. CASE SaveFiles
    BY <2>2 DEF SaveFiles, Works
  <2>3. CASE EndReplacing
    BY <2>3 DEF EndReplacing, indexVars, runVars
  <2>4. ASSUME NEW p \in Path, ChunkFile(p)  PROVE Goes
    BY <2>4 DEF ChunkFile, indexVars
  <2>5. ASSUME NEW p \in Path, ReplaceBM25(p)  PROVE Goes
    BY <2>5 DEF ReplaceBM25, indexVars, runVars, Works
  <2>6. ASSUME NEW p \in Path, ReplaceChunks(p)  PROVE Goes
    BY <2>6 DEF ReplaceChunks, Works
  <2> QED
    BY <2>1, <2>2, <2>3, <2>4, <2>5, <2>6
<1>3. \A p \in Path : Own(p)' => Own(p)
  <2>1. CASE Scan
    <3>1. stamps' = [p \in Path |-> IF Listed(p) THEN disk[p].ver ELSE 0]
      BY <2>1 DEF Scan
    <3> QED
      BY <1>2, <3>1 DEF Own, Readable, Listed, KindNow
  <2>2. CASE ~Scan
    <3>1. stamps' = stamps
      BY <2>2 DEF EndChunking, SaveFiles, EndReplacing, ChunkFile, ReplaceBM25, ReplaceChunks, runVars
    <3> QED
      BY <1>2, <3>1 DEF Own, Readable, Listed, KindNow
  <2> QED
    BY <2>1, <2>2
<1>4. \A c \in chunks' : c.path \in Path
  BY DEF ReadInv, BulkTypeOK, ChunkRow
<1>5. \A m : OfModel(m) => \A c \in chunks' : Own(c.path)' => c.emb \in {NoModel, m}
  BY <1>2, <1>3, <1>4 DEF OfModel
<1>6. Incomplete' = Incomplete /\ Resumed' = Resumed /\ MayNotSave' = MayNotSave
  BY <1>2 DEF Incomplete, Resumed, MayNotSave
<1> HIDE DEF Goes
<1>7. checkpoint.embedded > 0 => OfModel(checkpoint.model)'
  BY <1>2, <1>5 DEF Goes, ModelInv, ModelHolds, OfModel
<1> QED
  BY <1>2, <1>6, <1>7 DEF Goes, ModelInv, ModelHolds

\* The chunks of the run: new without an embedding, or with the one they had.
LEMMA ModelSaveChunks ==
    ASSUME ModelInv, SaveRunChunks, ~Aborts("SaveChunks")
    PROVE  ModelHolds'
<1> USE DEF Early, Untouched, Late, Saved, Replacing, Preparing
<1>1. /\ pc = "saveChunks" /\ pc' = "begin"
      /\ UNCHANGED <<disk, checkpoint, stamps, texts, resumeFrom, wanted, model, faults>>
      /\ chunks' = SaveChunks(chunks, RunChunks)
  BY DEF SaveRunChunks, Works
<1>2. \A p \in Path : Own(p)' = Own(p)
  BY <1>1, SameRead
<1>3. Incomplete' = Incomplete /\ Resumed' = Resumed /\ MayNotSave' = MayNotSave
  BY <1>1 DEF Incomplete, Resumed, MayNotSave
<1>4. RunChunks \in SUBSET ChunkRow /\ chunks \in SUBSET ChunkRow
  BY RunChunksAre DEF ModelInv, LeftInv, ReadInv, BulkTypeOK
<1>5. \A c \in chunks' : \/ c \in chunks
                         \/ \E n \in RunChunks :
                               /\ Same(c, n)
                               /\ \/ c.emb = n.emb
                                  \/ \E d \in chunks : ID(d) = ID(n) /\ c.emb = d.emb
  <2>1. \A c \in SaveChunks(chunks, RunChunks) :
           \/ c \in chunks /\ ID(c) \notin IDs(RunChunks)
           \/ \E n \in RunChunks : /\ Same(c, n)
                                   /\ \/ c.emb = n.emb
                                      \/ \E d \in chunks : ID(d) = ID(n) /\ c.emb = d.emb
    BY <1>4, SaveChunksSet
  <2> QED
    BY <1>1, <2>1
<1>6. \A n \in RunChunks : n.emb = NoModel /\ n.path \in Stored
  BY RunChunksAre DEF ModelInv, LeftInv, ReadInv
<1>7. \A c \in chunks' : \/ c.emb = NoModel
                         \/ \E d \in chunks : d.path = c.path /\ c.emb = d.emb
  BY <1>5, <1>6 DEF Same, ID
<1>8. \A c \in chunks' : c.path \in Path
  <2>1. chunks' \subseteq ChunkRow
    BY <1>1, <1>4, SaveChunksRows
  <2> QED
    BY <2>1 DEF ChunkRow
<1>9. checkpoint.embedded > 0 => OfModel(checkpoint.model)'
  <2>1. checkpoint.embedded > 0 => OfModel(checkpoint.model)
    BY <1>1 DEF ModelInv, ModelHolds
  <2> QED
    BY <1>1, <1>2, <1>7, <1>8, <2>1 DEF OfModel
<1>10. ASSUME ~Resumed, NEW c \in chunks', Own(c.path)  PROVE c.emb = NoModel
  <2>1. c.path \in Stored
    BY <1>1, <1>8, <1>10, OwnIsStored DEF ModelInv, LeftInv
  <2>2. \A d \in chunks : d.path # c.path
    BY <1>1, <1>10, <2>1 DEF ModelInv, LeftInv, LeftHolds
  <2> QED
    BY <1>7, <2>2
<1> QED
  BY <1>1, <1>2, <1>3, <1>8, <1>9, <1>10 DEF ModelInv, ModelHolds

\* Embeddings, and the vectors made of them.
LEMMA ModelEmbeds ==
    ASSUME ModelInv, ReadInv',
           \/ BeginEmbedding \/ EmbedBatch \/ SaveProgress \/ EndEmbedding \/ BeginIndexing
           \/ IndexBM25 \/ BuildVectors \/ SaveVectors \/ ClearIndexCheckpoint,
           ~Forget,
           \A call \in {"EmbedBatch", "bm25.Index", "GetAllEmbeddings", "vector.Save",
                        "UpdateProjectStats"} : ~Aborts(call)
    PROVE  ModelHolds'
<1> USE DEF Early, Untouched, Late, Saved, Replacing, Preparing
<1>1. /\ pc \in Late \cup {"begin"} /\ pc' \in Late \cup {"record"}
      /\ pc = "begin" <=> BeginEmbedding
      /\ UNCHANGED <<disk, stamps, texts, resumeFrom, wanted, model>>
  <2>1. CASE BeginEmbedding
    BY <2>1 DEF BeginEmbedding
  <2>2. CASE EmbedBatch \/ SaveProgress
    BY <2>2 DEF EmbedBatch, SaveProgress, BeginEmbedding, runVars
  <2>3. CASE EndEmbedding \/ BeginIndexing
    BY <2>3 DEF EndEmbedding, BeginIndexing, BeginEmbedding, indexVars, runVars
  <2>4. CASE IndexBM25 \/ BuildVectors
    BY <2>4 DEF IndexBM25, BuildVectors, BeginEmbedding, runVars
  <2>5. CASE SaveVectors \/ ClearIndexCheckpoint
    BY <2>5 DEF SaveVectors, ClearIndexCheckpoint, BeginEmbedding, runVars
  <2> QED
    BY <2>1, <2>2, <2>3, <2>4, <2>5
<1>2. \A p \in Path : Own(p)' = Own(p)
  BY <1>1, SameRead
<1>3. chunks \in SUBSET ChunkRow /\ model \in Model
  BY DEF ModelInv, LeftInv, ReadInv, BulkTypeOK
<1>4. OfModel(model)
  <2>1. CASE pc # "begin"
    BY <1>1, <2>1 DEF ModelInv, ModelHolds
  <2>2. CASE BeginEmbedding /\ ~Resumed
    BY <1>1, <2>2 DEF ModelInv, ModelHolds, OfModel
  <2>3. CASE BeginEmbedding /\ Resumed
    <3>1. ~OtherModel /\ Incomplete
      BY <1>1, <2>3 DEF BeginEmbedding, ModelInv, LeftInv, LeftHolds
    <3>2. checkpoint.model = model
      BY <1>1, <2>3, <3>1 DEF ModelInv, ModelHolds, OtherModel, Resumed, Incomplete
    <3>3. checkpoint.embedded > 0 
      BY <1>1, <2>3 DEF ModelInv, ModelHolds
    <3> QED
      BY <1>1, <3>2, <3>3 DEF ModelInv, ModelHolds
  <2> QED
    BY <1>1, <2>1, <2>2, <2>3
<1>5. chunks' = chunks \/ \E ids : chunks' = SaveEmbeddings(chunks, ids, model)
  <2>1. CASE BeginEmbedding \/ SaveProgress \/ BeginIndexing
    BY <2>1 DEF BeginEmbedding, SaveProgress, BeginIndexing
  <2>2. CASE EndEmbedding \/ IndexBM25 \/ SaveVectors \/ ClearIndexCheckpoint
    BY <2>2 DEF EndEmbedding, IndexBM25, SaveVectors, ClearIndexCheckpoint, indexVars
  <2>3. CASE EmbedBatch \/ BuildVectors
    BY <2>3 DEF EmbedBatch, BuildVectors
  <2> QED
    BY <2>1, <2>2, <2>3
<1>6. OfModel(model)'
  <2>1. \A c \in chunks' : c.path \in Path
    BY DEF ReadInv, BulkTypeOK, ChunkRow
  <2>2. CASE chunks' = chunks
    BY <1>1, <1>2, <1>4, <2>1, <2>2 DEF OfModel
  <2>3. ASSUME NEW ids, chunks' = SaveEmbeddings(chunks, ids, model)  PROVE OfModel(model)'
    <3>1. \A c \in chunks' :
             \E d \in chunks : Same(c, d) /\ c.emb = IF ID(d) \in ids THEN model ELSE d.emb
      BY <1>3, <2>3, SaveEmbeddingsSet
    <3> QED
      BY <1>1, <1>2, <1>4, <2>1, <3>1 DEF OfModel, Same
  <2> QED
    BY <1>5, <2>2, <2>3
<1>7. checkpoint'.embedded > 0 => checkpoint'.model = model
  <2>1. CASE SaveProgress \/ BeginIndexing
    BY <1>1, <2>1 DEF SaveProgress, BeginIndexing, SaveIndexCheckpoint, ModelInv, ModelHolds
  <2>2. CASE BeginEmbedding /\ Resumed
    <3>1. ~OtherModel /\ Incomplete
      BY <1>1, <2>2 DEF BeginEmbedding, ModelInv, LeftInv, LeftHolds
    <3>2. checkpoint.model = model
      BY <1>1, <2>2, <3>1 DEF ModelInv, ModelHolds, OtherModel, Resumed, Incomplete
    <3> QED
      BY <2>2, <3>1, <3>2 DEF BeginEmbedding, SaveIndexCheckpoint
  <2>3. CASE BeginEmbedding /\ ~Resumed
    <3>1. ~(checkpoint.embedded > 0) \/ ~Fails("SaveIndexCheckpoint")
      BY <1>1, <2>3 DEF ModelInv, ModelHolds, MayNotSave, Fails
    <3>2. ~OtherModel
      BY <2>3 DEF BeginEmbedding
    <3> QED
      BY <2>3, <3>1, <3>2 DEF BeginEmbedding, SaveIndexCheckpoint
  <2>4. CASE EmbedBatch \/ BuildVectors
    BY <1>1, <2>4 DEF EmbedBatch, BuildVectors, ModelInv, ModelHolds, BeginEmbedding
  <2>5. CASE EndEmbedding \/ IndexBM25 \/ SaveVectors
    BY <1>1, <2>5 DEF EndEmbedding, IndexBM25, SaveVectors, indexVars, ModelInv, ModelHolds, BeginEmbedding
  <2>6. CASE ClearIndexCheckpoint
    BY <1>1, <2>6 DEF ClearIndexCheckpoint, NoCheckpoint, ModelInv, ModelHolds, BeginEmbedding
  <2> QED
    BY <2>1, <2>2, <2>3, <2>4, <2>5, <2>6
<1>8. pc' \in {"clear", "record"} => \A id \in ChunkID : vectorFile'[id] \in {NoModel, model}
  <2>1. CASE SaveVectors
    <3>1. vectorFile' = [id \in ChunkID |->
                             IF id \notin IDs(RunChunks) THEN NoModel
                             ELSE IF id \in Missing      THEN model
                             ELSE (CHOOSE c \in chunks : ID(c) = id).emb]
      BY <2>1 DEF SaveVectors
    <3>2. ASSUME NEW id \in IDs(RunChunks), id \notin Missing
          PROVE  (CHOOSE c \in chunks : ID(c) = id).emb \in {NoModel, model}
      <4>1. PICK n \in RunChunks : ID(n) = id
        BY DEF IDs
      <4>2. n.path \in Stored
        BY RunChunksAre DEF ModelInv, LeftInv, ReadInv
      <4>3. \E c \in chunks : ID(c) = id
        BY <3>2 DEF Missing, EmbeddedIDs, IDs
      <4>4. PICK d \in chunks : ID(d) = id /\ (CHOOSE c \in chunks : ID(c) = id) = d
        BY <4>3
      <4>5. d.path = n.path
        BY <4>1, <4>4 DEF ID
      <4>6. Own(d.path)
        BY <2>1, <4>2, <4>5, OwnIsStored DEF SaveVectors, ModelInv, LeftInv, Stored
      <4> QED
        BY <1>4, <4>4, <4>6 DEF OfModel
    <3> QED
      BY <3>1, <3>2
  <2>2. CASE ~SaveVectors /\ pc' \in {"clear", "record"}
    <3>1. ClearIndexCheckpoint
      BY <2>2 DEF BeginEmbedding, EmbedBatch, SaveProgress, EndEmbedding, BeginIndexing, IndexBM25,
                  BuildVectors
    <3> QED
      BY <3>1 DEF ClearIndexCheckpoint, ModelInv, ModelHolds
  <2> QED
    BY <2>1, <2>2
<1> QED
  BY <1>1, <1>6, <1>7, <1>8 DEF ModelHolds, OfModel

LEMMA ModelStep ==
    ASSUME CheckpointIsReadOrSaved
    PROVE  ModelInv /\ Counted /\ [Next /\ EditedBeforeRead /\ Careful]_vars => ModelInv'
<1> SUFFICES ASSUME ModelInv, Counted, [Next /\ EditedBeforeRead /\ Careful]_vars  PROVE ModelInv'
  OBVIOUS
<1>1. LeftInv /\ LeftInv'
  BY LeftStep DEF ModelInv, Careful
<1>2. ReadInv'
  BY <1>1 DEF LeftInv
<1> SUFFICES ModelHolds'
  BY <1>1 DEF ModelInv
<1>3. CASE UNCHANGED vars
  <2>1. UNCHANGED <<disk, chunks, checkpoint, vectorFile, indexModel, pc, resumeFrom, wanted, model,
                    stamps, texts, faults>>
    BY <1>3 DEF vars
  <2>2. /\ UNCHANGED <<Incomplete, Resumed, MayNotSave>>
        /\ \A m : OfModel(m)' = OfModel(m)
        /\ \A p \in Path : Own(p)' = Own(p)
    BY <2>1 DEF Incomplete, Resumed, MayNotSave, OfModel, Own, Readable, Listed, KindNow
  <2>3. \A c \in chunks : c.path \in Path
    BY <1>1 DEF LeftInv, ReadInv, BulkTypeOK, ChunkRow
  <2> QED
    BY <2>1, <2>2, <2>3 DEF ModelInv, ModelHolds
<1> SUFFICES ASSUME Next, EditedBeforeRead, Careful  PROVE ModelHolds'
  BY <1>3
<1>4. ReachesCheckpoint /\ RecordsModel /\ ReadsModel
  BY DEF Careful
<1>5. ASSUME Forget, UNCHANGED <<disk, chunks, checkpoint, vectorFile>>,
             Kill \/ RecordModel \/ (UNCHANGED indexModel /\ pc # "record"),
             kills' # kills \/ faults' # faults \/ RecordModel \/ Incomplete \/ pc \in Early
      PROVE  ModelHolds'
  <2>1. pc \in Early \/ Incomplete \/ pc = "record"
    <3>1. CASE RecordModel
      BY <3>1 DEF RecordModel
    <3>2. CASE ~RecordModel
      BY <1>1, <1>4, <1>5, <3>2
      DEF ReachesCheckpoint, LeftInv, LeftHolds, ReadInv, BulkTypeOK, Late, Preparing, Replacing
    <3> QED
      BY <3>1, <3>2
  <2>2. indexModel' = IF pc = "record" THEN model ELSE indexModel
    BY <1>4, <1>5 DEF RecordsModel, Forget, Kill, RecordModel, indexVars
  <2> QED
    BY <1>5, <2>1, <2>2, ModelEnds
<1>6. CASE Kill
  BY <1>5, <1>6 DEF Kill, indexVars, Counted
<1>7. CASE RecordModel
  BY <1>5, <1>7 DEF RecordModel
<1>8. ASSUME NEW call, Aborts(call), pc # "record"  PROVE ModelHolds'
  BY <1>5, <1>8 DEF Aborts, Fails, indexVars, Counted
<1>9. ASSUME NEW p \in Path, Edit(p) \/ Remove(p)  PROVE ModelHolds'
  <2>1. disk'[p] # disk[p]
    BY <1>1, <1>9, EditChanges DEF LeftInv
  <2>2. \A q \in Path : q # p => disk'[q] = disk[q]
    BY <1>9 DEF Edit, Remove, ModelInv, LeftInv, ReadInv, BulkTypeOK
  <2>3. pc \in Early
    BY <2>1 DEF EditedBeforeRead, Early, Untouched
  <2> QED
    BY <1>9, <2>1, <2>2, <2>3, ModelEdit
<1>10. ASSUME NEW m \in Model, RunFresh(m) \/ RunResume(m) \/ RunForce(m)  PROVE ModelHolds'
  BY <1>4, <1>10, ModelStart
<1>11. CASE ClearBM25 \/ ClearVectors
  BY <1>4, <1>11, ModelStart
<1>12. CASE \/ Scan \/ EndChunking \/ SaveFiles \/ EndReplacing
            \/ \E p \in Path : ChunkFile(p) \/ ReplaceBM25(p) \/ ReplaceChunks(p)
  <2>1. pc # "record"
    BY <1>12 DEF Scan, EndChunking, SaveFiles, EndReplacing, ChunkFile, ReplaceBM25, ReplaceChunks
  <2>2. CASE \E call \in {"SaveFiles", "bm25.Delete", "GetChunksByFile", "DeleteChunksByFile"} : Aborts(call)
    BY <1>8, <2>1, <2>2
  <2>3. CASE Forget /\ ~\E call \in {"SaveFiles", "bm25.Delete", "GetChunksByFile", "DeleteChunksByFile"} :
                          Aborts(call)
    <3>1. Scan \/ EndChunking
      BY <1>12, <2>3 DEF Forget, SaveFiles, EndReplacing, ChunkFile, ReplaceBM25, ReplaceChunks
    <3>2. pc \in Early /\ UNCHANGED <<disk, indexVars>>
      BY <3>1 DEF Scan, EndChunking, Early, Untouched
    <3> QED
      BY <1>5, <2>1, <2>3, <3>2 DEF indexVars
  <2>4. CASE ~Forget /\ ~\E call \in {"SaveFiles", "bm25.Delete", "GetChunksByFile", "DeleteChunksByFile"} :
                          Aborts(call)
    BY <1>2, <1>12, <2>4, ModelPrepares
  <2> QED
    BY <2>2, <2>3, <2>4
<1>13. CASE SaveRunChunks
  <2>1. pc # "record"
    BY <1>13 DEF SaveRunChunks
  <2> QED
    BY <1>8, <1>13, <2>1, ModelSaveChunks
<1>14. CASE \/ BeginEmbedding \/ EmbedBatch \/ SaveProgress \/ EndEmbedding \/ BeginIndexing
            \/ IndexBM25 \/ BuildVectors \/ SaveVectors \/ ClearIndexCheckpoint
  <2>1. pc # "record"
    BY <1>14 DEF BeginEmbedding, EmbedBatch, SaveProgress, EndEmbedding, BeginIndexing,
                 IndexBM25, BuildVectors, SaveVectors, ClearIndexCheckpoint
  <2>2. CASE \E call \in {"EmbedBatch", "bm25.Index", "GetAllEmbeddings", "vector.Save",
                          "UpdateProjectStats"} : Aborts(call)
    BY <1>8, <2>1, <2>2
  <2>3. CASE Forget /\ ~\E call \in {"EmbedBatch", "bm25.Index", "GetAllEmbeddings", "vector.Save",
                                     "UpdateProjectStats"} : Aborts(call)
    <3>1. BeginEmbedding /\ OtherModel
      BY <1>14, <2>3 DEF Forget, BeginEmbedding, EmbedBatch, SaveProgress, EndEmbedding, BeginIndexing,
                         IndexBM25, BuildVectors, SaveVectors, ClearIndexCheckpoint
    <3>2. Incomplete /\ UNCHANGED <<disk, chunks, checkpoint, vectorFile, indexModel>>
      BY <1>1, <3>1 DEF BeginEmbedding, OtherModel, LeftInv, LeftHolds, Resumed
    <3> QED
      BY <1>5, <2>1, <2>3, <3>2
  <2>4. CASE ~Forget /\ ~\E call \in {"EmbedBatch", "bm25.Index", "GetAllEmbeddings", "vector.Save",
                                      "UpdateProjectStats"} : Aborts(call)
    BY <1>2, <1>14, <2>4, ModelEmbeds
  <2> QED
    BY <2>2, <2>3, <2>4
<1> QED
  BY <1>6, <1>7, <1>9, <1>10, <1>11, <1>12, <1>13, <1>14 DEF Next, Step

-----------------------------------------------------------------------------
(* Before the first run.                                                   *)

LEMMA ModelInit == Init => ModelInv /\ Counted
<1> SUFFICES ASSUME Init  PROVE ModelInv /\ Counted
  OBVIOUS
<1>1. PICK indexed \in SUBSET {p \in Path : Kind[p][1] = "code"}, owner \in Owner, m \in Model :
        LET built == UNION {NewChunks(owner, p, 1) : p \in indexed}
        IN  /\ disk = [p \in Path |-> [ver |-> 1, exists |-> TRUE]]
            /\ rows = [id \in FileID |->
                          IF id[1] = owner /\ id[2] \in indexed THEN 1 ELSE NoRow]
            /\ chunks = SaveEmbeddings(built, IDs(built), m)
            /\ checkpoint = NoCheckpoint
            /\ indexModel = IF indexed = {} THEN NoModel ELSE m
            /\ bm25 = IDs(built)
            /\ vectorFile = [id \in ChunkID |-> IF id \in IDs(built) THEN m ELSE NoModel]
            /\ pc = "off"
            /\ model = m
    /\ resumeFrom = 0
    /\ wanted = NoModel
    /\ stamps = [p \in Path |-> 0]
    /\ texts = [p \in Path |-> 0]
    /\ left = {}
    /\ embedded = 0
    /\ kills = 0
    /\ faults = 0
  BY DEF Init
<1>2. /\ resumeFrom = 0 /\ stamps = [p \in Path |-> 0] /\ texts = [p \in Path |-> 0] /\ left = {}
      /\ kills = 0 /\ faults = 0 /\ pc = "off"
  BY <1>1
<1> DEFINE built == UNION {NewChunks(owner, p, 1) : p \in indexed}
           one   == [p \in Path |-> 1]
<1>3. /\ chunks = SaveEmbeddings(built, IDs(built), m) /\ bm25 = IDs(built)
      /\ vectorFile = [id \in ChunkID |-> IF id \in IDs(built) THEN m ELSE NoModel]
  BY <1>1
<1>4. /\ built \in SUBSET ChunkRow /\ OneRowEach(built)
      /\ \A c \in built : c.path \in indexed /\ c.content \in Pieces[c.path][1]
      /\ \A p \in indexed : \A t \in Pieces[p][1] : <<p, t>> \in IDs(built)
  <2>1. indexed \in SUBSET Path /\ (\A p \in indexed : one[p] \in Version) /\ \A p \in indexed : one[p] = 1
    BY ConstantsAssumption DEF Version
  <2>2. \A c : c \in built <=> \E p \in indexed : c \in NewChunks(owner, p, one[p])
    BY <2>1
  <2> HIDE DEF built, one
  <2>3. /\ built \in SUBSET ChunkRow /\ OneRowEach(built)
        /\ \A c \in built : /\ c.path \in indexed /\ c.owner = owner /\ c.emb = NoModel
                            /\ c.content \in Pieces[c.path][one[c.path]]
        /\ \A p \in indexed : \A t \in Pieces[p][one[p]] : <<p, t>> \in IDs(built)
    BY <2>1, <2>2, NewChunksOneEach
  <2> QED
    BY <2>1, <2>3
<1> HIDE DEF built
<1>5. /\ chunks \subseteq ChunkRow /\ IDs(chunks) = IDs(built) /\ OneRowEach(chunks)
      /\ \A c \in chunks : \E d \in built : Same(c, d)
  BY <1>3, <1>4, SaveEmbeddingsSet
<1>6. checkpoint.model = NoModel /\ checkpoint.embedded = 0 /\ ~Incomplete
  BY <1>1 DEF NoCheckpoint, Incomplete
<1>7. ~Resumed
  BY <1>2 DEF Resumed
<1>8. \A id \in FileID : /\ id[2] \in Path /\ disk[id[2]].ver = 1
                         /\ rows[id] = 0 \/ (rows[id] = 1 /\ id[2] \in indexed)
  BY <1>1 DEF FileID, NoRow
<1>9. BulkTypeOK
  <2>1. disk \in [Path -> [ver : Version, exists : BOOLEAN]]
    BY <1>1, ConstantsAssumption DEF Version
  <2>2. rows \in Rows
    BY <1>1, ConstantsAssumption DEF Rows, NoRow
  <2>3. vectorFile \in [ChunkID -> Model \cup {NoModel}]
    BY <1>3
  <2>4. stamps \in [Path -> 0..MaxVersion] /\ texts \in [Path -> 0..MaxVersion]
    BY <1>2, ConstantsAssumption
  <2> QED
    BY <1>1, <1>2, <1>5, <1>6, <2>1, <2>2, <2>3, <2>4 DEF BulkTypeOK, Early, Untouched
<1>10. ReadHolds
  BY <1>1, <1>2 DEF ReadHolds, Untouched
<1>11. RowsHold
  BY <1>8 DEF RowsHold, KindNow
<1>12. CompleteNow
  <2> SUFFICES ASSUME NEW p \in Path, Unmodified(p)
               PROVE  /\ IDs(ChunksOfPath(chunks, p)) = Current(p)
                      /\ Current(p) \subseteq bm25
                      /\ \A id \in Current(p) : vectorFile[id] # NoModel
    BY DEF CompleteNow
  <2>1. p \in indexed /\ disk[p].ver = 1
    <3>1. <<"coordinator", p>> \in FileID /\ <<"runner", p>> \in FileID
          /\ <<"coordinator", p>>[2] = p /\ <<"runner", p>>[2] = p
      BY DEF FileID, Owner
    <3>2. \E id \in {<<"coordinator", p>>, <<"runner", p>>} : rows[id] = disk[p].ver
      BY DEF Unmodified, IndexedVersion
    <3>3. disk[p].ver = 1
      BY <1>1
    <3> QED
      BY <1>8, <3>1, <3>2, <3>3
  <2>2. \A id \in Current(p) : id \in IDs(built) /\ id \in ChunkID
    <3>1. Pieces[p][1] \subseteq Content
      BY <2>1, ConstantsAssumption DEF Version
    <3> QED
      BY <1>4, <2>1, <3>1 DEF Current, ChunkID
  <2>3. ASSUME NEW t \in Pieces[p][1]  PROVE <<p, t>> \in IDs(ChunksOfPath(chunks, p))
    <3>1. <<p, t>> \in IDs(chunks)
      BY <1>4, <1>5, <2>1
    <3>2. PICK c \in chunks : ID(c) = <<p, t>>
      BY <3>1 DEF IDs
    <3> QED
      BY <3>2 DEF ID, IDs, ChunksOfPath
  <2>4. ASSUME NEW c \in chunks, c.path = p  PROVE ID(c) \in Current(p)
    BY <1>4, <1>5, <2>1, <2>4 DEF Same, ID, Current
  <2>5. IDs(ChunksOfPath(chunks, p)) = Current(p)
    BY <2>1, <2>3, <2>4 DEF Current, IDs, ChunksOfPath
  <2>6. \A id \in Current(p) : vectorFile[id] # NoModel
    BY <1>3, <2>2, ConstantsAssumption
  <2> QED
    BY <1>3, <2>2, <2>5, <2>6
<1>13. LeftInv
  BY <1>1, <1>5, <1>6, <1>7, <1>9, <1>10, <1>11, <1>12
  DEF LeftInv, ReadInv, LeftHolds, Early, Untouched, Late, Saved, Replacing
<1>14. \A c \in chunks : vectorFile[ID(c)] \in {NoModel, indexModel}
  <2>1. ASSUME NEW c \in chunks  PROVE vectorFile[ID(c)] = m /\ indexModel = m
    <3>1. ID(c) \in IDs(built) /\ ID(c) \in ChunkID
      BY <1>5 DEF IDs, ID, ChunkRow, ChunkID
    <3>2. indexed # {}
      BY <1>4, <1>5
    <3> QED
      BY <1>1, <1>3, <3>1, <3>2
  <2> QED
    BY <2>1
<1>15. ModelHolds
  BY <1>2, <1>6, <1>7, <1>14 DEF ModelHolds, Late
<1> QED
  BY <1>2, <1>13, <1>15 DEF ModelInv, Counted

-----------------------------------------------------------------------------
(* What `amanmcp serve` opens.                                             *)

\* What a run leaves when no checkpoint blocks `serve`.
LEMMA LeftIsServable == LeftInv => IncompleteIsBlocked /\ NoOldGeneration
  BY DEF LeftInv, LeftHolds, IncompleteIsBlocked, NoOldGeneration, Servable, CompleteNow, Early, Untouched

LEMMA ModelIsServable == ModelInv => ServedIsOfNow
<1>1. ModelInv => NoOldGeneration
  BY LeftIsServable DEF ModelInv
<1>2. ModelInv => OneModelServed
  BY DEF ModelInv, ModelHolds, OneModelServed, Servable, Early, Untouched
<1> QED
  BY <1>1, <1>2 DEF ServedIsOfNow

\* `serve` blocks an index that lacks something of a file reconciliation would leave
\* alone, and one that holds a chunk such a file no longer has (cmd/serve.go, the
\* checkpoint check; Runner.Run), however often a run is killed or fails, if the user
\* leaves alone what a run has read and the run gets from its first row to its first
\* checkpoint.
THEOREM IncompleteRunsAreBlocked ==
    Init /\ [][Next /\ EditedBeforeRead /\ ReachesCheckpoint]_vars
        => [](IncompleteIsBlocked /\ NoOldGeneration)
<1>1. Init => LeftInv /\ Counted
  BY ModelInit DEF ModelInv
<1>2. LeftInv /\ Counted /\ [Next /\ EditedBeforeRead /\ ReachesCheckpoint]_vars => (LeftInv /\ Counted)'
  <2>1. [Next /\ EditedBeforeRead /\ ReachesCheckpoint]_vars => [Next]_vars
    OBVIOUS
  <2> QED
    BY <2>1, LeftStep, CountedStep
<1> QED
  BY <1>1, <1>2, LeftIsServable, PTL

\* And its vectors are all of the model index_model names (generateEmbeddings' mismatch
\* check, the model of the checkpoint), if reading a checkpoint and saving one do not
\* both fail.
THEOREM ServedIndexIsOfNow ==
    ASSUME CheckpointIsReadOrSaved
    PROVE  CarefulSpec => []ServedIsOfNow
<1> DEFINE CarefulNext == Next /\ EditedBeforeRead /\ Careful
<1>1. Init => ModelInv /\ Counted
  BY ModelInit
<1>2. ModelInv /\ Counted /\ [CarefulNext]_vars => (ModelInv /\ Counted)'
  <2>1. [CarefulNext]_vars => [Next]_vars
    OBVIOUS
  <2> QED
    BY <2>1, ModelStep, CountedStep
<1>3. [Next /\ EditedBeforeRead /\ Careful /\ SomethingToIndex']_vars => [CarefulNext]_vars
  OBVIOUS
<1>4. ModelInv => ServedIsOfNow
  BY ModelIsServable
<1> HIDE DEF CarefulNext
<1> QED
  BY <1>1, <1>2, <1>3, <1>4, PTL DEF CarefulSpec

=============================================================================
