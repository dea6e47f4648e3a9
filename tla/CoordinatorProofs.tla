------------------------- MODULE CoordinatorProofs -------------------------
(***************************************************************************)
(* Proofs about Coordinator, for every set of paths, contents, versions,   *)
(* models, kills and faults: types and file rows, the chunk rows of a path, *)
(* what the ordinary life of the process keeps, and the refinement of      *)
(* IndexPromise by CoordinatorHistory.                                     *)
(***************************************************************************)
EXTENDS CoordinatorHistory, ConsistencyChecker, IndexStoresProofs

-----------------------------------------------------------------------------
(* Typing.  TypeOK is not inductive: the chunks that are saved must be of   *)
(* a version that exists, and the row's stamp must be one.                  *)

\* What the handler has read is a version the file has had, stamp first.
ReadInOrder ==
    /\ pc \notin {"idle", "lookup", "rmBM25", "rmVector", "rmChunks", "rmRow"}
          => op = "index"
    /\ op = "index" /\ pc \notin {"idle", "stat"}
          => stamp # 0 /\ stamp <= disk[path].ver
    /\ op = "index" /\ pc \notin {"idle", "stat", "read"}
          => stamp <= content /\ content <= disk[path].ver

Typed == TypeOK /\ ReadInOrder

LEMMA InitTyped == Init => Typed
<1> SUFFICES ASSUME Init
             PROVE  Typed
  OBVIOUS
<1>1. PICK indexed \in SUBSET {p \in Path : Kind[p][1] = "code"}, m \in Model :
        LET built == UNION {NewChunks("runner", p, 1) : p \in indexed}
        IN  /\ disk = [p \in Path |-> IF p \in indexed
                                      THEN [ver |-> 1, exists |-> TRUE]
                                      ELSE [ver |-> 0, exists |-> FALSE]]
            /\ rows = [id \in FileID |->
                          IF id[1] = "runner" /\ id[2] \in indexed THEN 1 ELSE NoRow]
            /\ chunks = SaveEmbeddings(built, IDs(built), m)
            /\ indexModel = m
            /\ bm25 = IDs(built)
            /\ vectorFile = IDs(built)
  BY DEF Init
<1> DEFINE built == UNION {NewChunks("runner", p, 1) : p \in indexed}
<1>2. 1 \in Version /\ "runner" \in Owner
  BY ConstantsAssumption DEF Version, Owner
<1>3. built \subseteq ChunkRow
  BY <1>2, NewChunksRows
<1>4. chunks \subseteq ChunkRow
  BY <1>1, <1>3, SaveEmbeddingsRows
<1>5. IDs(built) \subseteq ChunkID
  BY <1>3 DEF IDs, ID, ChunkID, ChunkRow
<1>6. disk \in [Path -> [ver : 0..MaxVersion, exists : BOOLEAN]]
      /\ \A p \in Path : disk[p].exists => disk[p].ver # 0
  BY <1>1, ConstantsAssumption
<1>7. rows \in Rows
  BY <1>1, ConstantsAssumption DEF Rows, NoRow
<1>8. TypeOK
  <2>1. /\ phase = "down" /\ pc = "idle" /\ op = "index" /\ path \in Path
        /\ vector = {} /\ doomed = {} /\ stamp = 0 /\ content = 0
        /\ kills = 0 /\ faults = 0
        /\ pending = [p \in Path |-> "none"] /\ todo = [p \in Path |-> "none"]
    BY DEF Init
  <2>2. indexModel \in Model /\ bm25 \subseteq ChunkID /\ vectorFile \subseteq ChunkID
    BY <1>1, <1>5
  <2>3. /\ pending \in [Path -> {"none", "index", "remove", "rename"}]
        /\ todo \in [Path -> {"none", "deleted", "modified", "added"}]
    BY <2>1
  <2>4. stamp \in 0..MaxVersion /\ content \in 0..MaxVersion
        /\ kills \in 0..MaxKills /\ faults \in 0..MaxFaults
    BY <2>1, ConstantsAssumption, ServeAssumption
  <2>5. QED
    BY <2>1, <2>2, <2>3, <2>4, <1>4, <1>6, <1>7 DEF TypeOK
<1>9. ReadInOrder
  BY DEF Init, ReadInOrder
<1>10. QED
  BY <1>8, <1>9 DEF Typed

\* A row that is written carries a version, a row that is dropped none.
LEMMA RowsTyped ==
    ASSUME NEW rs \in Rows, NEW o \in Owner, NEW p \in Path, NEW v \in 0..MaxVersion
    PROVE  /\ SaveFileRow(rs, o, p, v) \in Rows
           /\ DropFileRow(rs, o, p) \in Rows
<1>1. \A id \in FileID : rs[id] \in 0..MaxVersion
  BY DEF Rows
<1>2. NoRow \in 0..MaxVersion /\ rs \in [FileID -> 0..MaxVersion]
  BY ConstantsAssumption DEF NoRow, Rows
<1>3. SaveFileRow(rs, o, p, v) \in [FileID -> 0..MaxVersion]
  BY <1>1, <1>2 DEF SaveFileRow
<1>4. DropFileRow(rs, o, p) \in [FileID -> 0..MaxVersion]
  BY <1>2 DEF DropFileRow
<1>5. QED
  BY <1>3, <1>4 DEF Rows

\* The chunks Engine.Index is called with are rows of a version that exists.
LEMMA NewTyped ==
    ASSUME Typed, pc \in {"ixBM25", "ixVector", "saveChunks", "saveEmbeddings"}
    PROVE  /\ path \in Path
           /\ content \in Version
           /\ New \subseteq ChunkRow
           /\ IDs(New) \subseteq ChunkID
<1>1. path \in Path /\ disk[path].ver \in 0..MaxVersion
  BY DEF Typed, TypeOK
<1>2. op = "index" /\ stamp # 0 /\ stamp <= content /\ content <= disk[path].ver
  BY DEF Typed, ReadInOrder
<1>3. stamp \in Nat /\ content \in Nat /\ MaxVersion \in Nat
  BY ConstantsAssumption DEF Typed, TypeOK
<1>4. content \in Version
  BY <1>1, <1>2, <1>3 DEF Version
<1>5. New \subseteq ChunkRow
  BY <1>1, <1>4, NewChunksRows DEF New, Owner
<1>6. IDs(New) \subseteq ChunkID
  BY <1>5 DEF IDs, ID, ChunkRow, ChunkID
<1>7. QED
  BY <1>1, <1>4, <1>5, <1>6

LEMMA TypedStep == Typed /\ [Next]_vars => Typed'
<1> SUFFICES ASSUME Typed, [Next]_vars
             PROVE  Typed'
  OBVIOUS
<1> USE ConstantsAssumption, ServeAssumption DEF Typed
<1>1. CASE \E p \in Path : Edit(p)
  BY <1>1 DEF Edit, Report, TypeOK, ReadInOrder, storeVars, handlerVars
<1>2. CASE \E p \in Path : Remove(p)
  <2>1. PICK p \in Path : Remove(p)
    BY <1>2
  <2>2. /\ disk' \in [Path -> [ver : 0..MaxVersion, exists : BOOLEAN]]
        /\ \A q \in Path : disk'[q].exists => disk'[q].ver # 0
        /\ \A q \in Path : disk'[q].ver = disk[q].ver
    <3>1. \A q \in Path : /\ disk[q] \in [ver : 0..MaxVersion, exists : BOOLEAN]
                          /\ disk[q].exists => disk[q].ver # 0
      BY DEF TypeOK
    <3> DEFINE gone == [disk[p] EXCEPT !.exists = FALSE]
    <3>2. /\ gone \in [ver : 0..MaxVersion, exists : BOOLEAN]
          /\ gone.ver = disk[p].ver /\ gone.exists = FALSE
      BY <3>1
    <3>3. disk' = [disk EXCEPT ![p] = gone]
      BY <2>1 DEF Remove
    <3> HIDE DEF gone
    <3>4. disk \in [Path -> [ver : 0..MaxVersion, exists : BOOLEAN]]
      BY DEF TypeOK
    <3>5. disk' \in [Path -> [ver : 0..MaxVersion, exists : BOOLEAN]]
      BY <3>2, <3>3, <3>4
    <3>6. QED
      BY <3>1, <3>2, <3>3, <3>4, <3>5
  <2>3. pending' \in [Path -> {"none", "index", "remove", "rename"}]
    BY <2>1 DEF Remove, Report, TypeOK
  <2>4. UNCHANGED <<rows, chunks, indexModel, bm25, vector, vectorFile, phase, todo, pc,
                    op, path, stamp, content, doomed, kills, faults>>
    BY <2>1 DEF Remove, storeVars, handlerVars
  <2>5. QED
    BY <2>2, <2>3, <2>4 DEF TypeOK, ReadInOrder
<1>3. CASE Start
  BY <1>3 DEF Start, TypeOK, ReadInOrder, storeVars, handlerVars
<1>4. CASE DetectChanges
  <2>1. \A p \in Path : Change(p) \in {"none", "deleted", "modified", "added"}
    BY DEF Change
  <2>2. QED
    BY <1>4, <2>1 DEF DetectChanges, TypeOK, ReadInOrder, storeVars, handlerVars
<1>5. CASE StartWatcher
  BY <1>5 DEF StartWatcher, TypeOK, ReadInOrder, storeVars, handlerVars
<1>6. CASE \E p \in Path : ApplyChange(p)
  BY <1>6 DEF ApplyChange, TypeOK, ReadInOrder, storeVars, handlerVars
<1>7. CASE \E p \in Path : HandleEvent(p)
  BY <1>7 DEF HandleEvent, EventOp, TypeOK, ReadInOrder, storeVars, handlerVars
<1>8. CASE Kill
  BY <1>8 DEF Kill, TypeOK, ReadInOrder
<1>9. CASE Stat
  BY <1>9 DEF Stat, Step, Return, Fingerprint, TypeOK, ReadInOrder, storeVars
<1>10. CASE ReadAndChunk
  BY <1>10 DEF ReadAndChunk, Step, Return, TypeOK, ReadInOrder, storeVars
<1>11. CASE Lookup
  <2>1. /\ rows' \in Rows
        /\ IDs(ChunksByFile(chunks, "coordinator", path)) \subseteq ChunkID
    <3>1. rows \in Rows /\ chunks \subseteq ChunkRow /\ path \in Path
          /\ stamp \in 0..MaxVersion
      BY DEF TypeOK
    <3>2. DropFileRow(rows, "coordinator", path) \in Rows
      BY <3>1, RowsTyped DEF Owner
    <3>3. IDs(ChunksByFile(chunks, "coordinator", path)) \subseteq ChunkID
      BY <3>1 DEF IDs, ID, ChunksByFile, ChunkRow, ChunkID
    <3>4. QED
      BY <1>11, <3>1, <3>2, <3>3 DEF Lookup
  <2>2. QED
    BY <1>11, <2>1 DEF Lookup, Step, AfterRemoval, Return, Fails, Succeeds, TypeOK, ReadInOrder
<1>12. CASE DeleteFromBM25
  BY <1>12 DEF DeleteFromBM25, Step, Fails, Succeeds, TypeOK, ReadInOrder
<1>13. CASE DeleteFromVector
  BY <1>13 DEF DeleteFromVector, Step, TypeOK, ReadInOrder
<1>14. CASE DeleteFromMetadata
  BY <1>14 DEF DeleteFromMetadata, Step, Return, Fails, Succeeds, TypeOK, ReadInOrder,
               DeleteChunks
<1>15. CASE DeleteRow
  <2>1. rows' \in Rows /\ chunks' \subseteq ChunkRow
    <3>1. rows \in Rows /\ chunks \subseteq ChunkRow /\ path \in Path
          /\ stamp \in 0..MaxVersion
      BY DEF TypeOK
    <3>2. DropFileRow(rows, "coordinator", path) \in Rows
      BY <3>1, RowsTyped DEF Owner
    <3>3. QED
      BY <1>15, <3>1, <3>2 DEF DeleteRow, CascadeDrop
  <2>2. QED
    BY <1>15, <2>1 DEF DeleteRow, Step, AfterRemoval, Return, Fails, Succeeds, TypeOK,
                       ReadInOrder
<1>16. CASE SaveRow
  <2>1. rows' \in Rows /\ chunks' \subseteq ChunkRow
    <3>1. rows \in Rows /\ chunks \subseteq ChunkRow /\ path \in Path
          /\ stamp \in 0..MaxVersion
      BY DEF TypeOK
    <3>2. SaveFileRow(rows, "coordinator", path, stamp) \in Rows
      BY <3>1, RowsTyped DEF Owner
    <3>3. QED
      BY <1>16, <3>1, <3>2 DEF SaveRow, CascadeSave
  <2>2. QED
    BY <1>16, <2>1 DEF SaveRow, Step, Return, Fails, Succeeds, TypeOK, ReadInOrder
<1>17. CASE IndexBM25
  <2>1. IDs(New) \subseteq ChunkID
    BY <1>17, NewTyped DEF IndexBM25, Step
  <2>2. QED
    BY <1>17, <2>1 DEF IndexBM25, Step, Return, Fails, Succeeds, TypeOK, ReadInOrder
<1>18. CASE IndexVector
  <2>1. IDs(New) \subseteq ChunkID
    BY <1>18, NewTyped DEF IndexVector, Step
  <2>2. QED
    BY <1>18, <2>1 DEF IndexVector, Step, Return, Fails, Succeeds, TypeOK, ReadInOrder
<1>19. CASE IndexMetadata
  <2>1. New \subseteq ChunkRow
    BY <1>19, NewTyped DEF IndexMetadata, Step
  <2>2. SaveChunks(chunks, New) \subseteq ChunkRow
    BY <2>1, SaveChunksRows DEF TypeOK
  <2>3. QED
    BY <1>19, <2>2 DEF IndexMetadata, Step, Return, Fails, Succeeds, TypeOK, ReadInOrder
<1>20. CASE IndexEmbeddings
  BY <1>20, SaveEmbeddingsRows
     DEF IndexEmbeddings, Step, Return, Fails, Succeeds, TypeOK, ReadInOrder
<1>21. CASE UNCHANGED vars
  BY <1>21 DEF vars, TypeOK, ReadInOrder
<1>22. QED
  BY <1>1, <1>2, <1>3, <1>4, <1>5, <1>6, <1>7, <1>8, <1>9, <1>10, <1>11, <1>12, <1>13,
     <1>14, <1>15, <1>16, <1>17, <1>18, <1>19, <1>20, <1>21
     DEF Next, User, Process, Handler

\* Every variable has its type in every reachable state, whatever calls fail.
THEOREM TypeCorrect == Spec => []TypeOK
<1>1. Typed => TypeOK
  BY DEF Typed
<1>2. QED
  BY <1>1, InitTyped, TypedStep, PTL DEF Spec

-----------------------------------------------------------------------------
(* One file row per path: only SaveFiles adds a row, and it removes the    *)
(* other one in the same transaction.                                      *)

LEMMA OneRowStep == Typed /\ OneRowPerPath /\ [Next]_vars => OneRowPerPath'
<1> SUFFICES ASSUME Typed, OneRowPerPath, [Next]_vars
             PROVE  OneRowPerPath'
  OBVIOUS
<1>1. rows \in Rows /\ path \in Path
  BY DEF Typed, TypeOK
<1>2. CASE UNCHANGED rows
  BY <1>2 DEF OneRowPerPath
<1>3. CASE rows' = DropFileRow(rows, "coordinator", path)
  BY <1>1, <1>3 DEF OneRowPerPath, DropFileRow, Rows, FileID, Owner, NoRow
<1>4. CASE rows' = SaveFileRow(rows, "coordinator", path, stamp)
  BY <1>1, <1>4 DEF OneRowPerPath, SaveFileRow, Rows, FileID, Owner, NoRow
<1>5. UNCHANGED rows \/ Lookup \/ DeleteRow \/ SaveRow
  BY DEF Next, User, Process, Handler, vars, storeVars, Edit, Remove, Start, DetectChanges,
         StartWatcher, ApplyChange, HandleEvent, Kill, Stat, ReadAndChunk, DeleteFromBM25,
         DeleteFromVector, DeleteFromMetadata, IndexBM25, IndexVector, IndexMetadata,
         IndexEmbeddings
<1>6. QED
  BY <1>2, <1>3, <1>4, <1>5 DEF Lookup, DeleteRow, SaveRow

\* A path never has two file rows, whatever fails and whenever it is killed.
THEOREM OneRow == Spec => []OneRowPerPath
<1>1. Init => OneRowPerPath
  BY DEF Init, OneRowPerPath, FileID, Owner, NoRow
<1>2. QED
  BY <1>1, InitTyped, TypedStep, OneRowStep, PTL DEF Spec

-----------------------------------------------------------------------------
(* The chunk rows of a path.  WholeGenerations and UnmodifiedMeansCurrent   *)
(* are not inductive: they rest on which row the chunks hang on, on the    *)
(* version its stamp has, and on what the handler has removed so far.      *)

\* A chunk hangs on a file row no newer than its text, read from the file.
Anchored ==
    \A c \in chunks : /\ rows[<<c.owner, c.path>>] # NoRow
                      /\ rows[<<c.owner, c.path>>] <= c.gen
                      /\ c.gen <= disk[c.path].ver

\* The chunks of a path are all of one version, and none of its pieces lacks.
Whole ==
    \A c \in chunks :
        /\ c.content \in Pieces[c.path][c.gen]
        /\ \A t \in Pieces[c.path][c.gen] : \E d \in chunks : d.path = c.path /\ d.content = t
        /\ \A d \in chunks : d.path = c.path => d.gen = c.gen

\* What the handler in progress has found, removed and written.
HandlerHolds ==
    /\ pc \in {"rmBM25", "rmVector", "rmChunks"}
          => doomed = IDs(ChunksByFile(chunks, "coordinator", path))
    /\ pc \in {"rmRow", "saveRow"} => ChunksByFile(chunks, "coordinator", path) = {}
    /\ pc \in {"ixBM25", "ixVector", "saveChunks"}
          => ChunksOfPath(chunks, path) = {} /\ rows[<<"coordinator", path>>] = stamp

IInv == Typed /\ OneRowPerPath /\ Anchored /\ Whole /\ HandlerHolds

\* Versions only grow.
LEMMA DiskGrows ==
    ASSUME Typed, [Next]_vars
    PROVE  \A p \in Path : disk[p].ver \in Nat /\ disk'[p].ver \in Nat
                           /\ disk[p].ver <= disk'[p].ver
<1>1. /\ disk  \in [Path -> [ver : 0..MaxVersion, exists : BOOLEAN]]
      /\ disk' \in [Path -> [ver : 0..MaxVersion, exists : BOOLEAN]]
  BY TypedStep DEF Typed, TypeOK
<1>2. \A p \in Path : disk[p].ver \in Nat /\ disk'[p].ver \in Nat
  BY <1>1, ConstantsAssumption
<1>3. CASE \E q \in Path : Edit(q)
  BY <1>1, <1>2, <1>3 DEF Edit
<1>4. CASE \E q \in Path : Remove(q)
  BY <1>1, <1>2, <1>4 DEF Remove
<1>5. CASE UNCHANGED disk
  BY <1>2, <1>5
<1>6. (\E q \in Path : Edit(q)) \/ (\E q \in Path : Remove(q)) \/ UNCHANGED disk
  BY DEF Next, User, Process, Handler, vars, Start, DetectChanges, StartWatcher,
         ApplyChange, HandleEvent, Kill, Step, Stat, ReadAndChunk, Lookup, DeleteFromBM25,
         DeleteFromVector, DeleteFromMetadata, DeleteRow, SaveRow, IndexBM25, IndexVector,
         IndexMetadata, IndexEmbeddings
<1>7. QED
  BY <1>2, <1>3, <1>4, <1>5, <1>6

\* Chunks that keep everything but their embedding stay anchored and whole.
LEMMA SameChunks ==
    ASSUME Typed, Typed', Anchored, Whole,
           \A p \in Path : disk[p].ver \in Nat /\ disk'[p].ver \in Nat
                           /\ disk[p].ver <= disk'[p].ver,
           UNCHANGED rows,
           \A c \in chunks' : \E d \in chunks : Same(c, d),
           \A d \in chunks : \E c \in chunks' : Same(c, d)
    PROVE  Anchored' /\ Whole'
<1>1. \A c \in chunks : c \in ChunkRow /\ c.path \in Path /\ c.gen \in Nat
  <2>1. chunks \subseteq ChunkRow
    BY DEF Typed, TypeOK
  <2>2. \A c \in ChunkRow : c.path \in Path /\ c.gen \in Nat
    BY ConstantsAssumption DEF ChunkRow, Version
  <2>3. QED
    BY <2>1, <2>2
<1>2. Anchored'
  <2> SUFFICES ASSUME NEW c \in chunks'
               PROVE  /\ rows'[<<c.owner, c.path>>] # NoRow
                      /\ rows'[<<c.owner, c.path>>] <= c.gen
                      /\ c.gen <= disk'[c.path].ver
    BY DEF Anchored
  <2>1. PICK d \in chunks : Same(c, d)
    OBVIOUS
  <2>2. QED
    BY <1>1, <2>1 DEF Anchored, Same
<1>3. Whole'
  <2> SUFFICES ASSUME NEW c \in chunks'
               PROVE  /\ c.content \in Pieces[c.path][c.gen]
                      /\ \A t \in Pieces[c.path][c.gen] :
                            \E d \in chunks' : d.path = c.path /\ d.content = t
                      /\ \A d \in chunks' : d.path = c.path => d.gen = c.gen
    BY DEF Whole
  <2>1. PICK b \in chunks : Same(c, b)
    OBVIOUS
  <2>2. c.content \in Pieces[c.path][c.gen]
    BY <2>1 DEF Whole, Same
  <2>3. ASSUME NEW t \in Pieces[c.path][c.gen]
        PROVE  \E d \in chunks' : d.path = c.path /\ d.content = t
    <3>1. PICK e \in chunks : e.path = b.path /\ e.content = t
      BY <2>1 DEF Whole, Same
    <3>2. PICK d \in chunks' : Same(d, e)
      OBVIOUS
    <3>3. QED
      BY <2>1, <3>1, <3>2 DEF Same
  <2>4. ASSUME NEW d \in chunks', d.path = c.path
        PROVE  d.gen = c.gen
    <3>1. PICK e \in chunks : Same(d, e)
      OBVIOUS
    <3>2. QED
      BY <2>1, <2>4, <3>1 DEF Whole, Same
  <2>5. QED
    BY <2>2, <2>3, <2>4
<1>4. QED
  BY <1>2, <1>3

\* Removing every chunk of a path, or none, keeps the others anchored and
\* whole, as long as no row of a path that still has chunks changes.
LEMMA PathCleared ==
    ASSUME Typed, Anchored, Whole, UNCHANGED disk,
           NEW p \in Path,
           \/ UNCHANGED chunks
           \/ chunks' = {c \in chunks : c.path # p},
           \A c \in chunks' : rows'[<<c.owner, c.path>>] = rows[<<c.owner, c.path>>]
    PROVE  Anchored' /\ Whole'
<1>1. Anchored'
  BY DEF Anchored
<1>2. CASE UNCHANGED chunks
  BY <1>1, <1>2 DEF Whole
<1>3. CASE chunks' = {c \in chunks : c.path # p}
  BY <1>1, <1>3 DEF Whole
<1>4. QED
  BY <1>2, <1>3

\* The chunks of a path with a coordinator's row are all the coordinator's.
LEMMA OwnersAgree ==
    ASSUME Typed, OneRowPerPath, Anchored, NEW p \in Path,
           ChunksByFile(chunks, "coordinator", p) # {}
    PROVE  ChunksByFile(chunks, "coordinator", p) = ChunksOfPath(chunks, p)
<1>1. PICK d \in chunks : d.owner = "coordinator" /\ d.path = p
  BY DEF ChunksByFile
<1>2. rows[<<"coordinator", p>>] # NoRow
  BY <1>1 DEF Anchored
<1>3. rows[<<"runner", p>>] = NoRow
  BY <1>2 DEF OneRowPerPath
<1>4. \A c \in chunks : c.path = p => c.owner = "coordinator"
  <2> TAKE c \in chunks
  <2>1. c.owner \in {"runner", "coordinator"}
    BY DEF Typed, TypeOK, ChunkRow, Owner
  <2>2. QED
    BY <1>3, <2>1 DEF Anchored
<1>5. QED
  BY <1>4 DEF ChunksByFile, ChunksOfPath

\* A step that touches neither table keeps them, and what the handler holds
\* follows from where it stood before the step.
LEMMA QuietStep ==
    ASSUME IInv, Typed', UNCHANGED <<rows, chunks>>,
           \A p \in Path : disk[p].ver \in Nat /\ disk'[p].ver \in Nat
                           /\ disk[p].ver <= disk'[p].ver,
           \/ UNCHANGED <<pc, path, stamp, doomed>>
           \/ pc' \in {"idle", "stat", "read", "lookup", "saveEmbeddings"}
           \/ /\ UNCHANGED <<path, stamp, doomed>>
              /\ \/ pc = "rmBM25" /\ pc' = "rmVector"
                 \/ pc = "rmVector" /\ pc' = "rmChunks"
                 \/ pc = "ixBM25" /\ pc' = "ixVector"
                 \/ pc = "ixVector" /\ pc' = "saveChunks"
    PROVE  IInv'
<1>1. Anchored' /\ Whole'
  <2>1. \A c \in chunks : Same(c, c)
    BY DEF Same
  <2>2. QED
    BY <2>1, SameChunks DEF IInv
<1>2. OneRowPerPath'
  BY DEF IInv, OneRowPerPath
<1>3. HandlerHolds'
  BY DEF IInv, HandlerHolds
<1>4. QED
  BY <1>1, <1>2, <1>3 DEF IInv

LEMMA IInvStep ==
    ASSUME "GetChunksByFile" \notin FaultyCalls, IInv, [Next]_vars
    PROVE  IInv'
<1>1. Typed /\ Typed' /\ OneRowPerPath /\ OneRowPerPath'
  BY TypedStep, OneRowStep DEF IInv
<1>2. \A p \in Path : disk[p].ver \in Nat /\ disk'[p].ver \in Nat
                      /\ disk[p].ver <= disk'[p].ver
  BY <1>1, DiskGrows
<1>3. CASE User \/ Start \/ DetectChanges \/ StartWatcher \/ Kill \/ UNCHANGED vars
  <2>1. /\ UNCHANGED <<rows, chunks>>
        /\ UNCHANGED <<pc, path, stamp, doomed>> \/ pc' = "idle"
    BY <1>3 DEF User, Edit, Remove, Start, DetectChanges, StartWatcher, Kill, vars,
                storeVars, handlerVars
  <2>2. QED
    BY <1>1, <1>2, <2>1, QuietStep
<1>4. CASE \E p \in Path : ApplyChange(p) \/ HandleEvent(p)
  <2>1. UNCHANGED <<rows, chunks>> /\ pc' \in {"stat", "lookup"}
    BY <1>4 DEF ApplyChange, HandleEvent, storeVars
  <2>2. QED
    BY <1>1, <1>2, <2>1, QuietStep
<1>5. CASE Stat \/ ReadAndChunk
  <2>1. UNCHANGED <<rows, chunks>> /\ pc' \in {"idle", "read", "lookup"}
    BY <1>5 DEF Stat, ReadAndChunk, Return, storeVars
  <2>2. QED
    BY <1>1, <1>2, <2>1, QuietStep
<1>6. CASE DeleteFromBM25 \/ DeleteFromVector \/ IndexBM25 \/ IndexVector
  <2>1. /\ UNCHANGED <<rows, chunks, path>>
        /\ \/ pc' = "idle"
           \/ /\ UNCHANGED <<stamp, doomed>>
              /\ \/ pc = "rmBM25" /\ pc' = "rmVector"
                 \/ pc = "rmVector" /\ pc' = "rmChunks"
                 \/ pc = "ixBM25" /\ pc' = "ixVector"
                 \/ pc = "ixVector" /\ pc' = "saveChunks"
    BY <1>6 DEF DeleteFromBM25, DeleteFromVector, IndexBM25, IndexVector, Step, Return
  <2>2. QED
    BY <1>1, <1>2, <2>1, QuietStep
<1>7. CASE Lookup
  <2> DEFINE own == ChunksByFile(chunks, "coordinator", path)
  <2>1. /\ pc = "lookup" /\ UNCHANGED <<disk, chunks, path>>
        /\ path \in Path /\ rows \in Rows /\ chunks \subseteq ChunkRow
    BY <1>1, <1>7 DEF Lookup, Step, Typed, TypeOK
  <2>2. CASE IDs(own) # {} /\ pc' = "rmBM25" /\ doomed' = IDs(own) /\ UNCHANGED rows
    <3>1. Anchored' /\ Whole'
      BY <1>1, <2>1, <2>2, PathCleared DEF IInv
    <3>2. HandlerHolds'
      BY <2>1, <2>2 DEF HandlerHolds
    <3>3. QED
      BY <1>1, <3>1, <3>2 DEF IInv
  <2>3. CASE /\ IDs(own) = {}
             /\ pc' \in {"saveRow", "idle"}
             /\ rows' \in {rows, DropFileRow(rows, "coordinator", path)}
    <3>1. own = {}
      BY <2>3 DEF IDs
    <3>2. \A c \in chunks : rows'[<<c.owner, c.path>>] = rows[<<c.owner, c.path>>]
      <4> TAKE c \in chunks
      <4>1. c \in ChunkRow /\ <<c.owner, c.path>> \in FileID
        BY <2>1 DEF ChunkRow, FileID
      <4>2. <<c.owner, c.path>> # <<"coordinator", path>>
        BY <3>1 DEF ChunksByFile
      <4>3. QED
        BY <2>1, <2>3, <4>1, <4>2 DEF DropFileRow, Rows
    <3>3. Anchored' /\ Whole'
      BY <1>1, <2>1, <3>2, PathCleared DEF IInv
    <3>4. HandlerHolds'
      BY <2>1, <2>3, <3>1 DEF HandlerHolds
    <3>5. QED
      BY <1>1, <3>3, <3>4 DEF IInv
  <2>4. QED
    BY <1>7, <2>2, <2>3 DEF Lookup, AfterRemoval, Return, Fails
<1>8. CASE DeleteFromMetadata
  <2>1. CASE UNCHANGED <<rows, chunks>> /\ pc' = "idle"
    BY <1>1, <1>2, <2>1, QuietStep
  <2>2. CASE chunks' = DeleteChunks(chunks, doomed) /\ UNCHANGED rows /\ pc' = "rmRow"
    <3>1. /\ pc = "rmChunks" /\ UNCHANGED <<disk, path>> /\ path \in Path
      BY <1>1, <1>8 DEF DeleteFromMetadata, Step, Typed, TypeOK
    <3> DEFINE own == ChunksByFile(chunks, "coordinator", path)
    <3>2. doomed = IDs(own)
      BY <3>1 DEF IInv, HandlerHolds
    <3>3. \/ UNCHANGED chunks
          \/ chunks' = {c \in chunks : c.path # path}
      <4>1. CASE own = {}
        <5>1. doomed = {}
          BY <3>2, <4>1 DEF IDs
        <5>2. QED
          BY <2>2, <5>1 DEF DeleteChunks
      <4>2. CASE own # {}
        <5>1. own = ChunksOfPath(chunks, path)
          BY <1>1, <3>1, <4>2, OwnersAgree DEF IInv
        <5>2. \A c \in chunks : ID(c) \in doomed <=> c.path = path
          BY <3>2, <5>1 DEF IDs, ID, ChunksOfPath
        <5>3. QED
          BY <2>2, <5>2 DEF DeleteChunks
      <4>3. QED
        BY <4>1, <4>2
    <3>4. Anchored' /\ Whole'
      BY <1>1, <2>2, <3>1, <3>3, PathCleared DEF IInv
    <3>5. ChunksByFile(chunks', "coordinator", path) = {}
      BY <2>2, <3>2 DEF DeleteChunks, IDs, ChunksByFile
    <3>6. HandlerHolds'
      BY <2>2, <3>1, <3>5 DEF HandlerHolds
    <3>7. QED
      BY <1>1, <3>4, <3>6 DEF IInv
  <2>3. QED
    BY <1>8, <2>1, <2>2 DEF DeleteFromMetadata, Return
<1>9. CASE DeleteRow
  <2>1. CASE UNCHANGED <<rows, chunks>> /\ pc' = "idle"
    BY <1>1, <1>2, <2>1, QuietStep
  <2>2. CASE /\ rows' = DropFileRow(rows, "coordinator", path)
             /\ chunks' = CascadeDrop(chunks, "coordinator", path)
             /\ pc' \in {"saveRow", "idle"}
    <3>1. /\ pc = "rmRow" /\ UNCHANGED <<disk, path>>
          /\ path \in Path /\ rows \in Rows /\ chunks \subseteq ChunkRow
      BY <1>1, <1>9 DEF DeleteRow, Step, Typed, TypeOK
    <3>2. ChunksByFile(chunks, "coordinator", path) = {}
      BY <3>1 DEF IInv, HandlerHolds
    <3>3. UNCHANGED chunks
      BY <2>2, <3>2 DEF CascadeDrop
    <3>4. \A c \in chunks : rows'[<<c.owner, c.path>>] = rows[<<c.owner, c.path>>]
      <4> TAKE c \in chunks
      <4>1. c \in ChunkRow /\ <<c.owner, c.path>> \in FileID
        BY <3>1 DEF ChunkRow, FileID
      <4>2. <<c.owner, c.path>> # <<"coordinator", path>>
        BY <3>2 DEF ChunksByFile
      <4>3. QED
        BY <2>2, <3>1, <4>1, <4>2 DEF DropFileRow, Rows
    <3>5. Anchored' /\ Whole'
      BY <1>1, <3>1, <3>3, <3>4, PathCleared DEF IInv
    <3>6. HandlerHolds'
      BY <2>2, <3>1, <3>2, <3>3 DEF HandlerHolds
    <3>7. QED
      BY <1>1, <3>5, <3>6 DEF IInv
  <2>3. QED
    BY <1>9, <2>1, <2>2 DEF DeleteRow, AfterRemoval, Return
<1>10. CASE SaveRow
  <2>1. CASE UNCHANGED <<rows, chunks>> /\ pc' = "idle"
    BY <1>1, <1>2, <2>1, QuietStep
  <2>2. CASE /\ rows' = SaveFileRow(rows, "coordinator", path, stamp)
             /\ chunks' = CascadeSave(chunks, "coordinator", path)
             /\ pc' = "idle" \/ (pc' = "ixBM25" /\ UNCHANGED stamp)
    <3>1. /\ pc = "saveRow" /\ UNCHANGED <<disk, path>>
          /\ path \in Path /\ rows \in Rows /\ chunks \subseteq ChunkRow
      BY <1>1, <1>10 DEF SaveRow, Step, Typed, TypeOK
    <3>2. ChunksByFile(chunks, "coordinator", path) = {}
      BY <3>1 DEF IInv, HandlerHolds
    <3>3. chunks' = {c \in chunks : c.path # path}
      BY <2>2, <3>2 DEF CascadeSave, ChunksByFile
    <3>4. \A c \in chunks' : rows'[<<c.owner, c.path>>] = rows[<<c.owner, c.path>>]
      <4> TAKE c \in chunks'
      <4>1. c \in ChunkRow /\ <<c.owner, c.path>> \in FileID /\ c.path # path
        BY <3>1, <3>3 DEF ChunkRow, FileID
      <4>2. QED
        BY <2>2, <4>1 DEF SaveFileRow
    <3>5. Anchored' /\ Whole'
      BY <1>1, <3>1, <3>3, <3>4, PathCleared DEF IInv
    <3>6. ChunksOfPath(chunks', path) = {}
      BY <3>3 DEF ChunksOfPath
    <3>7. rows'[<<"coordinator", path>>] = stamp
      BY <2>2, <3>1 DEF SaveFileRow, FileID, Owner
    <3>8. HandlerHolds'
      BY <2>2, <3>1, <3>6, <3>7 DEF HandlerHolds
    <3>9. QED
      BY <1>1, <3>5, <3>8 DEF IInv
  <2>3. QED
    BY <1>10, <2>1, <2>2 DEF SaveRow, Return
<1>11. CASE IndexMetadata
  <2>1. CASE UNCHANGED <<rows, chunks>> /\ pc' = "idle"
    BY <1>1, <1>2, <2>1, QuietStep
  <2>2. CASE /\ chunks' = SaveChunks(chunks, New) /\ UNCHANGED rows
             /\ pc' = "saveEmbeddings"
    <3>1. pc = "saveChunks" /\ UNCHANGED <<disk, path>>
      BY <1>11 DEF IndexMetadata, Step
    <3>2. /\ path \in Path /\ content \in Version /\ New \subseteq ChunkRow
          /\ chunks \subseteq ChunkRow /\ chunks' \subseteq ChunkRow
      BY <1>1, <3>1, NewTyped DEF Typed, TypeOK
    <3>3. ChunksOfPath(chunks, path) = {} /\ rows[<<"coordinator", path>>] = stamp
      BY <3>1 DEF IInv, HandlerHolds
    <3>4. stamp # 0 /\ stamp <= content /\ content <= disk[path].ver
      BY <1>1, <3>1 DEF Typed, ReadInOrder
    <3>5. /\ \A n \in New : /\ n.path = path /\ n.owner = "coordinator" /\ n.gen = content
                           /\ n.content \in Pieces[path][content]
          /\ \A t \in Pieces[path][content] : \E n \in New : n.content = t
      BY <3>2, NewChunksRows DEF New, Owner
    <3>6. /\ \A c \in chunks' : c \in chunks \/ \E n \in New : Same(c, n)
          /\ \A n \in New : \E c \in chunks' : Same(c, n)
          /\ \A c \in chunks : c \in chunks'
      <4>1. \A c \in chunks : ID(c) \notin IDs(New)
        BY <3>3, <3>5 DEF ID, IDs, ChunksOfPath
      <4>2. QED
        BY <2>2, <3>2, <4>1, SaveChunksRows
    <3>7. \A c \in chunks' : \/ c \in chunks /\ c.path # path
                             \/ /\ c.path = path /\ c.owner = "coordinator"
                                /\ c.gen = content /\ c.content \in Pieces[path][content]
      BY <3>3, <3>5, <3>6 DEF Same, ChunksOfPath
    <3>8. Anchored'
      BY <2>2, <3>1, <3>3, <3>4, <3>7 DEF IInv, Anchored, NoRow
    <3>9. \A t \in Pieces[path][content] : \E d \in chunks' : d.path = path /\ d.content = t
      BY <3>5, <3>6 DEF Same
    <3>10. Whole'
      <4> SUFFICES ASSUME NEW c \in chunks'
                   PROVE  /\ c.content \in Pieces[c.path][c.gen]
                          /\ \A t \in Pieces[c.path][c.gen] :
                                \E d \in chunks' : d.path = c.path /\ d.content = t
                          /\ \A d \in chunks' : d.path = c.path => d.gen = c.gen
        BY DEF Whole
      <4>1. CASE c.path = path
        BY <3>7, <3>9, <4>1
      <4>2. CASE c.path # path
        BY <3>6, <3>7, <4>2 DEF IInv, Whole
      <4>3. QED
        BY <4>1, <4>2
    <3>11. HandlerHolds'
      BY <2>2 DEF HandlerHolds
    <3>12. QED
      BY <1>1, <3>8, <3>10, <3>11 DEF IInv
  <2>3. QED
    BY <1>11, <2>1, <2>2 DEF IndexMetadata, Return
<1>12. CASE IndexEmbeddings
  <2>1. UNCHANGED rows /\ pc' = "idle"
    BY <1>12 DEF IndexEmbeddings, Return
  <2>2. /\ \A c \in chunks' : \E d \in chunks : Same(c, d)
        /\ \A d \in chunks : \E c \in chunks' : Same(c, d)
    <3>1. CASE UNCHANGED chunks
      BY <3>1 DEF Same
    <3>2. CASE chunks' = SaveEmbeddings(chunks, IDs(New), ServeModel)
      BY <1>1, <3>2, SaveEmbeddingsRows, ServeAssumption DEF Typed, TypeOK
    <3>3. QED
      BY <1>12, <3>1, <3>2 DEF IndexEmbeddings
  <2>3. Anchored' /\ Whole'
    BY <1>1, <1>2, <2>1, <2>2, SameChunks DEF IInv
  <2>4. HandlerHolds'
    BY <2>1 DEF HandlerHolds
  <2>5. QED
    BY <1>1, <2>3, <2>4 DEF IInv
<1>13. QED
  BY <1>3, <1>4, <1>5, <1>6, <1>7, <1>8, <1>9, <1>10, <1>11, <1>12 DEF Next, Process, Handler

LEMMA InitIInv == Init => IInv
<1> SUFFICES ASSUME Init
             PROVE  IInv
  OBVIOUS
<1>1. PICK indexed \in SUBSET {p \in Path : Kind[p][1] = "code"}, m \in Model :
        LET built == UNION {NewChunks("runner", p, 1) : p \in indexed}
        IN  /\ disk = [p \in Path |-> IF p \in indexed
                                      THEN [ver |-> 1, exists |-> TRUE]
                                      ELSE [ver |-> 0, exists |-> FALSE]]
            /\ rows = [id \in FileID |->
                          IF id[1] = "runner" /\ id[2] \in indexed THEN 1 ELSE NoRow]
            /\ chunks = SaveEmbeddings(built, IDs(built), m)
  BY DEF Init
<1> DEFINE built == UNION {NewChunks("runner", p, 1) : p \in indexed}
<1>2. 1 \in Version /\ "runner" \in Owner
  BY ConstantsAssumption DEF Version, Owner
<1>3. /\ \A n \in built : n \in ChunkRow /\ n.path \in indexed /\ n.owner = "runner"
                         /\ n.gen = 1 /\ n.content \in Pieces[n.path][1]
      /\ \A p \in indexed : \A t \in Pieces[p][1] :
            \E n \in built : n.path = p /\ n.content = t
  <2>1. ASSUME NEW p \in indexed
        PROVE  /\ \A n \in NewChunks("runner", p, 1) :
                     n \in ChunkRow /\ n.path = p /\ n.owner = "runner"
                     /\ n.gen = 1 /\ n.content \in Pieces[p][1]
               /\ \A t \in Pieces[p][1] : \E n \in NewChunks("runner", p, 1) : n.content = t
    BY <1>2, NewChunksRows
  <2>2. QED
    BY <2>1
<1>4. /\ \A c \in chunks : \E d \in built : Same(c, d)
      /\ \A d \in built : \E c \in chunks : Same(c, d)
  <2>1. chunks = SaveEmbeddings(built, IDs(built), m) /\ built \subseteq ChunkRow
    BY <1>1, <1>3
  <2> HIDE DEF built
  <2>2. QED
    BY <2>1, SaveEmbeddingsRows
<1> HIDE DEF built
<1>5. /\ \A c \in chunks : c.path \in indexed /\ c.owner = "runner"
                          /\ c.gen = 1 /\ c.content \in Pieces[c.path][1]
      /\ \A p \in indexed : \A t \in Pieces[p][1] :
            \E c \in chunks : c.path = p /\ c.content = t
  BY <1>3, <1>4 DEF Same
<1>6. Anchored
  BY <1>1, <1>5 DEF Anchored, FileID, Owner, NoRow
<1>7. Whole
  BY <1>5 DEF Whole
<1>8. OneRowPerPath
  BY DEF Init, OneRowPerPath, FileID, Owner, NoRow
<1>9. HandlerHolds
  BY DEF Init, HandlerHolds
<1>10. QED
  BY <1>6, <1>7, <1>8, <1>9, InitTyped DEF IInv

LEMMA IInvImplies == IInv => WholeGenerations /\ UnmodifiedMeansCurrent
<1> SUFFICES ASSUME IInv
             PROVE  WholeGenerations /\ UnmodifiedMeansCurrent
  OBVIOUS
<1>1. /\ chunks \subseteq ChunkRow
      /\ \A c \in ChunkRow : c.gen \in Version
  BY DEF IInv, Typed, TypeOK, ChunkRow
<1>2. WholeGenerations
  <2> SUFFICES ASSUME NEW p \in Path, Rows4Path(p) # {}
               PROVE  \E v \in Version :
                        /\ Generations(p) = {v}
                        /\ {c.content : c \in Rows4Path(p)} = Pieces[p][v]
    BY DEF WholeGenerations
  <2>1. PICK c \in chunks : c.path = p
    BY DEF Rows4Path, ChunksOfPath
  <2>2. c.gen \in Version
    BY <1>1
  <2>3. \A d \in Rows4Path(p) : d.gen = c.gen /\ d.content \in Pieces[p][c.gen]
    BY <2>1 DEF IInv, Whole, Rows4Path, ChunksOfPath
  <2>4. Generations(p) = {c.gen}
    BY <2>1, <2>3 DEF Generations, Rows4Path, ChunksOfPath
  <2>5. \A t \in Pieces[p][c.gen] : \E d \in Rows4Path(p) : d.content = t
    BY <2>1 DEF IInv, Whole, Rows4Path, ChunksOfPath
  <2>6. {d.content : d \in Rows4Path(p)} = Pieces[p][c.gen]
    BY <2>3, <2>5
  <2>7. QED
    BY <2>2, <2>4, <2>6
<1>3. UnmodifiedMeansCurrent
  <2> SUFFICES ASSUME NEW p \in Path, disk[p].exists,
                      IndexedVersion(rows, p) = Fingerprint(p),
                      NEW c \in chunks, c.path = p
               PROVE  c.gen = disk[p].ver
    BY DEF UnmodifiedMeansCurrent, Generations, Rows4Path, ChunksOfPath
  <2>1. c.owner \in {"runner", "coordinator"} /\ c.gen \in Nat /\ disk[p].ver \in Nat
    <3>1. c \in ChunkRow /\ disk[p] \in [ver : 0..MaxVersion, exists : BOOLEAN]
      BY <1>1 DEF IInv, Typed, TypeOK
    <3>2. QED
      BY <3>1, ConstantsAssumption DEF ChunkRow, Owner, Version
  <2>2. rows[<<c.owner, p>>] # NoRow /\ rows[<<c.owner, p>>] <= c.gen
        /\ c.gen <= disk[p].ver
    BY DEF IInv, Anchored
  <2>3. IndexedVersion(rows, p) = rows[<<c.owner, p>>]
    BY <2>1, <2>2 DEF IInv, OneRowPerPath, IndexedVersion
  <2>4. QED
    BY <2>1, <2>2, <2>3 DEF Fingerprint
<1>4. QED
  BY <1>2, <1>3

\* As long as the query for a file's chunks does not fail, whatever else does
\* and whenever the process is killed, the chunk rows of a path are the whole
\* output of the chunker on one version of the file.
THEOREM ChunksAreWhole ==
    ASSUME "GetChunksByFile" \notin FaultyCalls
    PROVE  Spec => []WholeGenerations
<1>1. IInv /\ [Next]_vars => IInv'
  BY IInvStep
<1>2. QED
  BY <1>1, InitIInv, IInvImplies, PTL DEF Spec

\* Under the same condition, text that startup reconciliation takes for
\* unmodified is the text of the file.
THEOREM UnmodifiedIsCurrent ==
    ASSUME "GetChunksByFile" \notin FaultyCalls
    PROVE  Spec => []UnmodifiedMeansCurrent
<1>1. IInv /\ [Next]_vars => IInv'
  BY IInvStep
<1>2. QED
  BY <1>1, InitIInv, IInvImplies, PTL DEF Spec

-----------------------------------------------------------------------------
\* How one step may change the chunk rows: not but for embeddings, by taking all
\* chunks of a path away, or by adding the chunks of the handler's text.
LEMMA ChunkSteps ==
    ASSUME IInv, [Next]_vars
    PROVE  \/ /\ \A c \in chunks' : \E d \in chunks : Same(c, d)
              /\ \A d \in chunks : \E c \in chunks' : Same(c, d)
           \/ UNCHANGED disk /\ chunks' = {c \in chunks : c.path # path}
           \/ /\ pc = "saveChunks"
              /\ UNCHANGED disk
              /\ \A c \in chunks : c.path # path
              /\ \A c \in chunks : c \in chunks'
              /\ \A c \in chunks' : c \in chunks \/ (c.path = path /\ c.gen = content)
<1>1. /\ path \in Path /\ chunks \subseteq ChunkRow
      /\ Typed /\ OneRowPerPath /\ Anchored /\ HandlerHolds
  BY DEF IInv, Typed, TypeOK
<1>2. CASE UNCHANGED chunks
  BY <1>2 DEF Same
<1>3. CASE DeleteFromMetadata /\ chunks' = DeleteChunks(chunks, doomed)
  <2> DEFINE own == ChunksByFile(chunks, "coordinator", path)
  <2>1. doomed = IDs(own) /\ UNCHANGED disk
    BY <1>1, <1>3 DEF DeleteFromMetadata, Step, HandlerHolds
  <2>2. CASE own = {}
    <3>1. doomed = {}
      BY <2>1, <2>2 DEF IDs
    <3>2. UNCHANGED chunks
      BY <1>3, <3>1 DEF DeleteChunks
    <3>3. QED
      BY <1>2, <3>2
  <2>3. CASE own # {}
    <3>1. own = ChunksOfPath(chunks, path)
      BY <1>1, <2>3, OwnersAgree
    <3>2. \A c \in chunks : ID(c) \in doomed <=> c.path = path
      BY <2>1, <3>1 DEF IDs, ID, ChunksOfPath
    <3>3. chunks' = {c \in chunks : c.path # path}
      BY <1>3, <3>2 DEF DeleteChunks
    <3>4. QED
      BY <2>1, <3>3
  <2>4. QED
    BY <2>2, <2>3
<1>4. CASE DeleteRow /\ chunks' = CascadeDrop(chunks, "coordinator", path)
  <2>1. ChunksByFile(chunks, "coordinator", path) = {}
    BY <1>1, <1>4 DEF DeleteRow, Step, HandlerHolds
  <2>2. UNCHANGED chunks
    BY <1>4, <2>1 DEF CascadeDrop
  <2>3. QED
    BY <1>2, <2>2
<1>5. CASE SaveRow /\ chunks' = CascadeSave(chunks, "coordinator", path)
  <2>1. ChunksByFile(chunks, "coordinator", path) = {} /\ UNCHANGED disk
    BY <1>1, <1>5 DEF SaveRow, Step, HandlerHolds
  <2>2. chunks' = {c \in chunks : c.path # path}
    BY <1>5, <2>1 DEF CascadeSave, ChunksByFile
  <2>3. QED
    BY <2>1, <2>2
<1>6. CASE IndexMetadata /\ chunks' = SaveChunks(chunks, New)
  <2>1. pc = "saveChunks" /\ UNCHANGED disk
    BY <1>6 DEF IndexMetadata, Step
  <2>2. content \in Version /\ New \subseteq ChunkRow
    BY <1>1, <2>1, NewTyped
  <2>3. \A c \in chunks : c.path # path
    BY <1>1, <2>1 DEF HandlerHolds, ChunksOfPath
  <2>4. \A n \in New : n.path = path /\ n.gen = content
    BY <1>1, <2>2, NewChunksRows DEF New, Owner
  <2>5. \A c \in chunks : ID(c) \notin IDs(New)
    BY <2>3, <2>4 DEF ID, IDs
  <2>6. /\ \A c \in chunks' : c \in chunks \/ \E n \in New : Same(c, n)
        /\ \A c \in chunks : c \in chunks'
    BY <1>1, <1>6, <2>2, <2>5, SaveChunksRows
  <2>7. QED
    BY <2>1, <2>3, <2>4, <2>6 DEF Same
<1>7. CASE IndexEmbeddings /\ chunks' = SaveEmbeddings(chunks, IDs(New), ServeModel)
  BY <1>1, <1>7, SaveEmbeddingsRows, ServeAssumption
<1>8. \/ UNCHANGED chunks
      \/ DeleteFromMetadata \/ DeleteRow \/ SaveRow \/ IndexMetadata \/ IndexEmbeddings
  BY DEF Next, User, Process, Handler, vars, storeVars, Edit, Remove, Start, DetectChanges,
         StartWatcher, ApplyChange, HandleEvent, Kill, Stat, ReadAndChunk, Lookup,
         DeleteFromBM25, DeleteFromVector, IndexBM25, IndexVector
<1>9. /\ DeleteFromMetadata => UNCHANGED chunks \/ chunks' = DeleteChunks(chunks, doomed)
      /\ DeleteRow => UNCHANGED chunks \/ chunks' = CascadeDrop(chunks, "coordinator", path)
      /\ SaveRow => UNCHANGED chunks \/ chunks' = CascadeSave(chunks, "coordinator", path)
      /\ IndexMetadata => UNCHANGED chunks \/ chunks' = SaveChunks(chunks, New)
      /\ IndexEmbeddings =>
            UNCHANGED chunks \/ chunks' = SaveEmbeddings(chunks, IDs(New), ServeModel)
  BY DEF DeleteFromMetadata, DeleteRow, SaveRow, IndexMetadata, IndexEmbeddings
<1>10. QED
  <2>1. CASE DeleteFromMetadata
    BY <1>2, <1>3, <1>9, <2>1
  <2>2. CASE DeleteRow
    BY <1>2, <1>4, <1>9, <2>2
  <2>3. CASE SaveRow
    BY <1>2, <1>5, <1>9, <2>3
  <2>4. CASE IndexMetadata
    BY <1>2, <1>6, <1>9, <2>4
  <2>5. CASE IndexEmbeddings
    BY <1>2, <1>7, <1>9, <2>5
  <2>6. QED
    BY <1>2, <1>8, <2>1, <2>2, <2>3, <2>4, <2>5

-----------------------------------------------------------------------------
(* Chunk rows can be found by BM25.  The invariant needs what the handler   *)
(* has put into BM25 before it saves the rows.                             *)

\* Engine.Index writes BM25 before the metadata store.
BM25First == pc \in {"ixVector", "saveChunks"} => IDs(New) \subseteq bm25

Findable == Typed /\ SearchableUnlessDeleting /\ BM25First

\* Every step of the ordinary process keeps the chunk rows findable.
LEMMA FindableStep ==
    ASSUME "DeleteChunks" \notin FaultyCalls, Findable, [Next /\ CleanStop]_vars
    PROVE  Findable'
<1>1. Typed /\ Typed'
  BY TypedStep DEF Findable
<1>3. CASE User \/ Start \/ DetectChanges \/ StartWatcher \/ UNCHANGED vars
  <2>1. UNCHANGED <<chunks, bm25, pc, path, content, doomed>>
    BY <1>3 DEF User, Edit, Remove, Start, DetectChanges, StartWatcher, vars,
                storeVars, handlerVars
  <2>2. QED
    BY <1>1, <2>1 DEF Findable, SearchableUnlessDeleting, BM25First, New
<1>4. CASE Kill /\ CleanStop
  <2>1. UNCHANGED <<chunks, bm25>> /\ pc' = "idle" /\ pc = "idle"
    BY <1>4 DEF Kill, CleanStop
  <2>2. QED
    BY <1>1, <2>1 DEF Findable, SearchableUnlessDeleting, BM25First
<1>5. CASE (\E p \in Path : ApplyChange(p) \/ HandleEvent(p)) \/ Stat \/ ReadAndChunk
  <2>1. /\ UNCHANGED <<chunks, bm25>> /\ pc' \in {"idle", "stat", "read", "lookup"}
        /\ pc \notin {"rmVector", "rmChunks"}
    BY <1>5 DEF ApplyChange, HandleEvent, Stat, ReadAndChunk, Step, Return, storeVars
  <2>2. QED
    BY <1>1, <2>1 DEF Findable, SearchableUnlessDeleting, BM25First
<1>6. CASE Lookup \/ SaveRow
  <2>1. /\ chunks' \subseteq chunks /\ UNCHANGED bm25
        /\ pc' \in {"idle", "rmBM25", "saveRow", "ixBM25"}
        /\ pc \notin {"rmVector", "rmChunks"}
    BY <1>6 DEF Lookup, SaveRow, AfterRemoval, CascadeSave, Step, Return
  <2>2. QED
    BY <1>1, <2>1 DEF Findable, SearchableUnlessDeleting, BM25First
<1>7. CASE DeleteFromBM25
  <2>1. /\ UNCHANGED <<chunks, doomed>> /\ pc = "rmBM25" /\ pc' = "rmVector"
        /\ bm25' = bm25 \ doomed \/ UNCHANGED bm25
    BY <1>7 DEF DeleteFromBM25, Step
  <2>2. \A c \in chunks : ID(c) \in bm25
    BY <2>1 DEF Findable, SearchableUnlessDeleting
  <2>3. QED
    BY <1>1, <2>1, <2>2 DEF Findable, SearchableUnlessDeleting, BM25First
<1>8. CASE DeleteFromVector
  <2>1. UNCHANGED <<chunks, doomed, bm25>> /\ pc' = "rmChunks"
    BY <1>8 DEF DeleteFromVector, Step
  <2>2. QED
    BY <1>1, <2>1 DEF Findable, SearchableUnlessDeleting, BM25First
<1>9. CASE DeleteFromMetadata
  <2>1. chunks' = DeleteChunks(chunks, doomed) /\ UNCHANGED bm25 /\ pc' = "rmRow"
    BY <1>9 DEF DeleteFromMetadata, Fails
  <2>2. \A c \in chunks' : c \in chunks /\ ID(c) \notin doomed
    BY <2>1 DEF DeleteChunks
  <2>3. QED
    BY <1>1, <2>1, <2>2 DEF Findable, SearchableUnlessDeleting, BM25First
<1>10. CASE DeleteRow
  <2>1. /\ chunks' \subseteq chunks /\ UNCHANGED bm25 /\ pc = "rmRow"
        /\ pc' \in {"idle", "saveRow"}
    BY <1>10 DEF DeleteRow, AfterRemoval, CascadeDrop, Step, Return
  <2>2. QED
    BY <1>1, <2>1 DEF Findable, SearchableUnlessDeleting, BM25First
<1>11. CASE IndexBM25 \/ IndexVector
  <2>1. /\ UNCHANGED <<chunks, path>> /\ pc \in {"ixBM25", "ixVector"}
        /\ \/ pc' = "idle" /\ bm25' = bm25
           \/ /\ pc' = "ixVector" /\ UNCHANGED content
              /\ bm25' = bm25 \cup IDs(New)
           \/ /\ pc' = "saveChunks" /\ pc = "ixVector" /\ UNCHANGED <<content, bm25>>
    BY <1>11 DEF IndexBM25, IndexVector, Step, Return
  <2>2. SearchableUnlessDeleting'
    BY <2>1 DEF Findable, SearchableUnlessDeleting
  <2>3. UNCHANGED <<path, content>> => IDs(New)' = IDs(New)
    BY DEF New
  <2>4. BM25First'
    BY <2>1, <2>3 DEF Findable, BM25First
  <2>5. QED
    BY <1>1, <2>2, <2>4 DEF Findable
<1>12. CASE IndexMetadata
  <2>1. UNCHANGED bm25 /\ pc = "saveChunks"
    BY <1>12 DEF IndexMetadata, Step
  <2>2. /\ chunks \subseteq ChunkRow /\ New \subseteq ChunkRow
        /\ \A c \in chunks : ID(c) \in bm25
    BY <1>1, <2>1, NewTyped DEF Typed, TypeOK, Findable, SearchableUnlessDeleting
  <2>3. \A n \in New : ID(n) \in bm25
    BY <2>1 DEF Findable, BM25First, IDs
  <2>4. \/ pc' = "idle" /\ chunks' = chunks
        \/ pc' = "saveEmbeddings" /\ chunks' = SaveChunks(chunks, New)
    BY <1>12 DEF IndexMetadata, Return
  <2>5. \A c \in chunks' : c \in chunks \/ \E n \in New : Same(c, n)
    BY <2>2, <2>4, SaveChunksRows
  <2>6. \A c \in chunks' : ID(c) \in bm25
    BY <2>2, <2>3, <2>5, SameID
  <2>7. QED
    BY <1>1, <2>1, <2>4, <2>6 DEF Findable, SearchableUnlessDeleting, BM25First
<1>13. CASE IndexEmbeddings
  <2>1. /\ UNCHANGED bm25 /\ pc = "saveEmbeddings" /\ pc' = "idle"
        /\ chunks' = chunks \/ chunks' = SaveEmbeddings(chunks, IDs(New), ServeModel)
    BY <1>13 DEF IndexEmbeddings, Step, Return
  <2>2. chunks \subseteq ChunkRow /\ ServeModel \in Model
    BY <1>1, ServeAssumption DEF Typed, TypeOK
  <2>3. \A c \in chunks' : c \in chunks \/ \E d \in chunks : Same(c, d)
    BY <2>1, <2>2, SaveEmbeddingsRows
  <2>4. \A c \in chunks' : ID(c) \in bm25
    BY <2>1, <2>3, SameID DEF Findable, SearchableUnlessDeleting
  <2>5. QED
    BY <1>1, <2>1, <2>4 DEF Findable, SearchableUnlessDeleting, BM25First
<1>14. QED
  BY <1>3, <1>4, <1>5, <1>6, <1>7, <1>8, <1>9, <1>10, <1>11, <1>12, <1>13
     DEF Next, Process, Handler

LEMMA InitFindable == Init => Findable
<1> SUFFICES ASSUME Init
             PROVE  Findable
  OBVIOUS
<1>1. PICK indexed \in SUBSET {p \in Path : Kind[p][1] = "code"}, m \in Model :
        LET built == UNION {NewChunks("runner", p, 1) : p \in indexed}
        IN  /\ chunks = SaveEmbeddings(built, IDs(built), m)
            /\ bm25 = IDs(built)
  BY DEF Init
<1> DEFINE built == UNION {NewChunks("runner", p, 1) : p \in indexed}
<1>2. 1 \in Version /\ "runner" \in Owner
  BY ConstantsAssumption DEF Version, Owner
<1>3. built \subseteq ChunkRow
  BY <1>2, NewChunksRows
<1>4. chunks = SaveEmbeddings(built, IDs(built), m) /\ bm25 = IDs(built)
  BY <1>1
<1> HIDE DEF built
<1>5. \A c \in chunks : \E d \in built : Same(c, d)
  BY <1>3, <1>4, SaveEmbeddingsRows
<1>6. \A c \in chunks : ID(c) \in bm25
  BY <1>4, <1>5, SameID DEF IDs
<1>7. BM25First
  BY DEF Init, BM25First
<1>8. QED
  BY <1>6, <1>7, InitTyped DEF Findable, SearchableUnlessDeleting

\* As long as the metadata store does delete chunks when it is asked to, and
\* the process is stopped between two handlers only, BM25 finds every chunk
\* row except while Engine.Delete is removing it, whatever else fails.
THEOREM ChunksAreSearchable ==
    ASSUME "DeleteChunks" \notin FaultyCalls
    PROVE  Init /\ [][Next /\ CleanStop]_vars => []SearchableUnlessDeleting
<1>1. Findable /\ [Next /\ CleanStop]_vars => Findable'
  BY FindableStep
<1>2. Findable => SearchableUnlessDeleting
  BY DEF Findable
<1>3. QED
  BY <1>1, <1>2, InitFindable, PTL

-----------------------------------------------------------------------------
(* No change of a file is forgotten.  StaleIsScheduled is not inductive: it *)
(* rests on what the watcher's and the scan's reports say of the disk, on  *)
(* the handler reading the newest text unless an edit has been reported    *)
(* since, and on a row that equals the disk having its chunks.             *)

\* Events and reconciliation items exist only while someone handles them.
PhasesHold ==
    /\ phase # "watching" => \A p \in Path : pending[p] = "none"
    /\ phase # "reconciling" => \A p \in Path : todo[p] = "none"
    /\ phase \in {"down", "starting"} => pc = "idle"
    /\ indexModel = ServeModel

\* What is reported of a path is what the disk holds.
ReportsHold ==
    \A p \in Path :
        /\ pending[p] = "index" => disk[p].exists
        /\ pending[p] \in {"remove", "rename"} => ~disk[p].exists
        /\ todo[p] = "deleted" => ~Listed(p)
        /\ todo[p] \in {"modified", "added"} => Listed(p)

\* With no event pending, the handler works on the file as it is now.
ReadIsFresh ==
    pc # "idle" /\ pending[path] = "none" =>
        /\ op = "remove" => ~Listed(path)
        /\ op = "index" => disk[path].exists
        /\ op = "index" /\ pc \notin {"stat", "read"} => content = disk[path].ver

Life == PhasesHold /\ ReportsHold /\ ReadIsFresh

\* An edit that is not during the scan is reported, or found by the next scan.
LEMMA UserKeepsLife ==
    ASSUME Typed, Life, QuietScan, NEW p \in Path, Edit(p) \/ Remove(p)
    PROVE  Life'
<1>1. /\ disk \in [Path -> [ver : 0..MaxVersion, exists : BOOLEAN]]
      /\ pending \in [Path -> {"none", "index", "remove", "rename"}]
      /\ path \in Path /\ MaxVersion \in Nat
  BY ConstantsAssumption DEF Typed, TypeOK
<1>2. /\ UNCHANGED <<phase, todo, pc, op, path, content, indexModel>>
      /\ \A q \in Path : q # p => disk'[q] = disk[q]
      /\ disk' # disk
      /\ \/ disk'[p].exists /\ Report(p, "index")
         \/ ~disk'[p].exists /\ \E what \in {"remove", "rename"} : Report(p, what)
  <2>1. CASE Edit(p)
    <3>1. /\ disk' = [disk EXCEPT ![p] = [ver |-> disk[p].ver + 1, exists |-> TRUE]]
          /\ disk[p].ver \in Nat /\ Report(p, "index")
          /\ UNCHANGED <<phase, todo, pc, op, path, content, indexModel>>
      BY <1>1, <2>1 DEF Edit, storeVars, handlerVars
    <3>2. disk'[p] = [ver |-> disk[p].ver + 1, exists |-> TRUE]
      BY <1>1, <3>1
    <3>3. disk'[p].ver = disk[p].ver + 1 /\ disk'[p].exists
      BY <3>2
    <3>4. QED
      BY <1>1, <3>1, <3>3
  <2>2. CASE Remove(p)
    <3>1. /\ disk' = [disk EXCEPT ![p].exists = FALSE]
          /\ disk[p].exists
          /\ \E what \in {"remove", "rename"} : Report(p, what)
          /\ UNCHANGED <<phase, todo, pc, op, path, content, indexModel>>
      BY <2>2 DEF Remove, storeVars, handlerVars
    <3>2. ~disk'[p].exists /\ \A q \in Path : q # p => disk'[q] = disk[q]
      BY <1>1, <3>1
    <3>3. QED
      BY <3>1, <3>2
  <2>3. QED
    BY <2>1, <2>2
<1>3. phase # "reconciling"
  BY <1>2 DEF QuietScan
<1>4. /\ \A q \in Path : q # p => pending'[q] = pending[q]
      /\ IF phase = "watching"
         THEN IF disk'[p].exists THEN pending'[p] = "index"
                                 ELSE pending'[p] \in {"remove", "rename"}
         ELSE pending' = pending
  BY <1>1, <1>2 DEF Report
<1>5. \A q \in Path : todo'[q] = "none"
  BY <1>2, <1>3 DEF Life, PhasesHold
<1>6. PhasesHold'
  BY <1>2, <1>4, <1>5 DEF Life, PhasesHold
<1>7. ReportsHold'
  BY <1>2, <1>4, <1>5 DEF Life, PhasesHold, ReportsHold
<1>8. ReadIsFresh'
  <2>1. CASE path = p
    BY <1>1, <1>2, <1>3, <1>4, <2>1 DEF Life, PhasesHold, ReadIsFresh, TypeOK, Typed
  <2>2. CASE path # p
    <3>1. disk'[path] = disk[path] /\ pending'[path] = pending[path]
      BY <1>1, <1>2, <1>4, <2>2
    <3>2. Listed(path)' <=> Listed(path)
      BY <1>2, <3>1 DEF Listed, KindNow
    <3>3. QED
      BY <1>2, <3>1, <3>2 DEF Life, ReadIsFresh
  <2>3. QED
    BY <2>1, <2>2
<1>9. QED
  BY <1>6, <1>7, <1>8 DEF Life

\* A step of the process leaves the disk alone.
LEMMA ProcessKeepsLife ==
    ASSUME Typed, Typed', Life, Process \/ (Kill /\ CleanStop) \/ UNCHANGED vars
    PROVE  Life'
<1>1. /\ disk \in [Path -> [ver : 0..MaxVersion, exists : BOOLEAN]]
      /\ pending \in [Path -> {"none", "index", "remove", "rename"}]
      /\ todo \in [Path -> {"none", "deleted", "modified", "added"}]
      /\ path \in Path
  BY DEF Typed, TypeOK
<1>2. UNCHANGED disk
  BY DEF Process, Kill, Handler, vars, Start, DetectChanges, StartWatcher, ApplyChange,
         HandleEvent, Step, Stat, ReadAndChunk, Lookup, DeleteFromBM25, DeleteFromVector,
         DeleteFromMetadata, DeleteRow, SaveRow, IndexBM25, IndexVector, IndexMetadata,
         IndexEmbeddings
<1>3. \A p \in Path : Listed(p)' <=> Listed(p)
  BY <1>2 DEF Listed, KindNow
<1>4. CASE Start \/ StartWatcher \/ UNCHANGED vars
  <2>1. /\ UNCHANGED <<pending, todo, pc, op, path, content, indexModel>>
        /\ \/ phase = "down" /\ phase' = "starting"
           \/ /\ phase = "reconciling" /\ phase' = "watching"
              /\ \A p \in Path : todo[p] = "none"
           \/ phase' = phase
    BY <1>4 DEF Start, StartWatcher, vars, storeVars, handlerVars
  <2>2. PhasesHold'
    BY <2>1 DEF Life, PhasesHold
  <2>3. ReportsHold'
    BY <1>2, <1>3, <2>1 DEF Life, ReportsHold
  <2>4. ReadIsFresh'
    BY <1>1, <1>2, <1>3, <2>1 DEF Life, ReadIsFresh
  <2>5. QED
    BY <2>2, <2>3, <2>4 DEF Life
<1>5. CASE Kill /\ CleanStop
  <2>1. /\ phase' = "down" /\ pc' = "idle" /\ UNCHANGED indexModel
        /\ \A p \in Path : pending'[p] = "none" /\ todo'[p] = "none"
    BY <1>5 DEF Kill
  <2>2. QED
    BY <2>1 DEF Life, PhasesHold, ReportsHold, ReadIsFresh
<1>6. CASE DetectChanges
  <2>1. /\ phase = "starting" /\ phase' = "reconciling"
        /\ UNCHANGED <<pending, pc, op, path, content, indexModel>>
        /\ todo' = todo \/ todo' = [p \in Path |-> Change(p)]
    BY <1>6 DEF DetectChanges, storeVars, handlerVars
  <2>2. \A p \in Path : /\ Change(p) = "deleted" => ~Listed(p)
                        /\ Change(p) \in {"modified", "added"} => Listed(p)
    BY DEF Change
  <2>3. pc = "idle"
    BY <2>1 DEF Life, PhasesHold
  <2>4. PhasesHold'
    BY <2>1 DEF Life, PhasesHold
  <2>5. ReportsHold'
    BY <1>2, <1>3, <2>1, <2>2 DEF Life, ReportsHold
  <2>6. ReadIsFresh'
    BY <2>1, <2>3 DEF ReadIsFresh
  <2>7. QED
    BY <2>4, <2>5, <2>6 DEF Life
<1>7. ASSUME NEW p \in Path, ApplyChange(p)
      PROVE  Life'
  <2>1. /\ phase = "reconciling" /\ todo[p] # "none"
        /\ UNCHANGED <<phase, pending, indexModel>>
        /\ todo' = [todo EXCEPT ![p] = "none"]
        /\ path' = p
        /\ op' = IF todo[p] = "deleted" THEN "remove" ELSE "index"
        /\ pc' = IF todo[p] = "deleted" THEN "lookup" ELSE "stat"
    BY <1>7 DEF ApplyChange, storeVars
  <2>2. \A q \in Path : todo'[q] = IF q = p THEN "none" ELSE todo[q]
    BY <1>1, <2>1
  <2>3. PhasesHold'
    BY <2>1, <2>2 DEF Life, PhasesHold
  <2>4. ReportsHold'
    BY <1>2, <1>3, <2>1, <2>2 DEF Life, ReportsHold
  <2>5. todo[p] \in {"deleted", "modified", "added"}
    BY <1>1, <2>1
  <2>6. /\ todo[p] = "deleted" => ~Listed(p)
        /\ todo[p] # "deleted" => disk[p].exists
    BY <2>5 DEF Life, ReportsHold, Listed
  <2>7. ReadIsFresh'
    BY <1>2, <1>3, <2>1, <2>6 DEF ReadIsFresh
  <2>8. QED
    BY <2>3, <2>4, <2>7 DEF Life
<1>8. ASSUME NEW p \in Path, HandleEvent(p)
      PROVE  Life'
  <2>1. /\ phase = "watching" /\ pending[p] # "none"
        /\ UNCHANGED <<phase, todo, indexModel>>
        /\ pending' = [pending EXCEPT ![p] = "none"]
        /\ path' = p
        /\ op' = EventOp(p)
        /\ pc' = IF EventOp(p) = "remove" THEN "lookup" ELSE "stat"
    BY <1>8 DEF HandleEvent, storeVars
  <2>2. \A q \in Path : pending'[q] = IF q = p THEN "none" ELSE pending[q]
    BY <1>1, <2>1
  <2>3. PhasesHold'
    BY <2>1, <2>2 DEF Life, PhasesHold
  <2>4. ReportsHold'
    BY <1>2, <1>3, <2>1, <2>2 DEF Life, ReportsHold
  <2>5. pending[p] \in {"index", "remove", "rename"}
    BY <1>1, <2>1
  <2>6. \/ EventOp(p) = "index" /\ disk[p].exists
        \/ EventOp(p) = "remove" /\ ~Listed(p)
    BY <2>5 DEF Life, ReportsHold, Listed, EventOp
  <2>7. ReadIsFresh'
    BY <1>2, <1>3, <2>1, <2>6 DEF ReadIsFresh
  <2>8. QED
    BY <2>3, <2>4, <2>7 DEF Life
<1>9. CASE Handler
  <2>1. /\ UNCHANGED <<phase, pending, todo, op, path>> /\ pc # "idle"
        /\ indexModel' \in {indexModel, ServeModel}
        /\ \/ pc' = "idle"
           \/ UNCHANGED content /\ pc' # "idle" /\ (pc \in {"stat", "read"} => pc' = "read")
           \/ pc = "read" /\ pc' = "lookup" /\ content' = disk[path].ver
    BY <1>9 DEF Handler, Step, Stat, ReadAndChunk, Lookup, DeleteFromBM25, DeleteFromVector,
         DeleteFromMetadata, DeleteRow, SaveRow, IndexBM25, IndexVector, IndexMetadata,
         IndexEmbeddings, AfterRemoval, Return, storeVars
  <2>2. PhasesHold'
    BY <2>1 DEF Life, PhasesHold
  <2>3. ReportsHold'
    BY <1>2, <1>3, <2>1 DEF Life, ReportsHold
  <2>4. ReadIsFresh'
    BY <1>1, <1>2, <1>3, <2>1 DEF Life, ReadIsFresh
  <2>5. QED
    BY <2>2, <2>3, <2>4 DEF Life
<1>10. QED
  BY <1>4, <1>5, <1>6, <1>7, <1>8, <1>9 DEF Process

-----------------------------------------------------------------------------
(* The file rows.                                                          *)

\* The calls whose failure makes the coordinator leave a file as it is.
Required == {"GetChunksByFile", "DeleteFile", "DeleteChunks", "SaveFiles",
             "bm25.Index", "vector.Add", "SaveChunks"}

\* A row is no newer than the file, and the handler that removes a file's chunks
\* has its row still.
StampsHold ==
    /\ \A id \in FileID : rows[id] <= disk[id[2]].ver
    /\ pc \in {"rmBM25", "rmVector", "rmChunks", "rmRow"}
          => rows[<<"coordinator", path>>] # NoRow

LEMMA StampsStep ==
    ASSUME IInv, Typed', StampsHold, [Next]_vars
    PROVE  StampsHold'
<1>1. /\ \A p \in Path : disk[p].ver \in Nat /\ disk'[p].ver \in Nat
                         /\ disk[p].ver <= disk'[p].ver
      /\ Typed /\ path \in Path /\ rows \in Rows /\ rows' \in Rows /\ stamp \in Nat
  BY DiskGrows, ConstantsAssumption DEF IInv, Typed, TypeOK
<1>2. \A id \in FileID : rows[id] \in Nat /\ id[2] \in Path
  BY <1>1, ConstantsAssumption DEF Rows, FileID
<1>3. \A id \in FileID : rows'[id] \in {rows[id], NoRow, stamp}
                         /\ (rows'[id] = stamp => id[2] = path \/ rows'[id] \in {rows[id], NoRow})
                         /\ (pc # "saveRow" => rows'[id] \in {rows[id], NoRow})
  <2>1. CASE UNCHANGED rows
    BY <2>1
  <2>2. CASE rows' = DropFileRow(rows, "coordinator", path)
    BY <1>1, <2>2 DEF DropFileRow, Rows
  <2>3. CASE rows' = SaveFileRow(rows, "coordinator", path, stamp) /\ pc = "saveRow"
    BY <1>1, <2>3 DEF SaveFileRow
  <2>4. \/ UNCHANGED rows
        \/ rows' = DropFileRow(rows, "coordinator", path)
        \/ rows' = SaveFileRow(rows, "coordinator", path, stamp) /\ pc = "saveRow"
    BY DEF Next, User, Process, Handler, vars, storeVars, Edit, Remove, Start, DetectChanges,
         StartWatcher, ApplyChange, HandleEvent, Kill, Step, Stat, ReadAndChunk, Lookup,
         DeleteFromBM25, DeleteFromVector, DeleteFromMetadata, DeleteRow, SaveRow, IndexBM25,
         IndexVector, IndexMetadata, IndexEmbeddings
  <2>5. QED
    BY <2>1, <2>2, <2>3, <2>4
<1>4. pc = "saveRow" => stamp <= disk[path].ver
  BY <1>1 DEF Typed, ReadInOrder
<1>5. ASSUME NEW id \in FileID
      PROVE  rows'[id] <= disk'[id[2]].ver
  <2>1. /\ id[2] \in Path /\ rows[id] \in Nat /\ rows[id] <= disk[id[2]].ver
        /\ NoRow <= disk[id[2]].ver
    BY <1>1, <1>2 DEF StampsHold, NoRow
  <2>2. rows'[id] <= disk[id[2]].ver
    BY <1>3, <1>4, <2>1
  <2>3. rows'[id] \in Nat
    BY <1>1, ConstantsAssumption DEF Rows
  <2>4. QED
    BY <1>1, <2>1, <2>2, <2>3
<1>6. ASSUME pc' \in {"rmBM25", "rmVector", "rmChunks", "rmRow"}
      PROVE  rows'[<<"coordinator", path'>>] # NoRow
  <2>1. \/ UNCHANGED <<rows, path>> /\ pc \in {"rmBM25", "rmVector", "rmChunks", "rmRow"}
        \/ /\ UNCHANGED <<rows, path>>
           /\ IDs(ChunksByFile(chunks, "coordinator", path)) # {}
    BY <1>6 DEF Next, User, Process, Handler, vars, storeVars, handlerVars, Edit, Remove,
         Start, DetectChanges, StartWatcher, ApplyChange, HandleEvent, Kill, Step, Return,
         AfterRemoval, Stat, ReadAndChunk, Lookup, DeleteFromBM25, DeleteFromVector,
         DeleteFromMetadata, DeleteRow, SaveRow, IndexBM25, IndexVector, IndexMetadata,
         IndexEmbeddings
  <2>2. CASE IDs(ChunksByFile(chunks, "coordinator", path)) # {}
    <3>1. PICK c \in chunks : c.owner = "coordinator" /\ c.path = path
      BY <2>2 DEF IDs, ChunksByFile
    <3>2. rows[<<"coordinator", path>>] # NoRow
      BY <3>1 DEF IInv, Anchored
    <3>3. QED
      BY <2>1, <3>2
  <2>3. QED
    BY <2>1, <2>2 DEF StampsHold
<1>7. QED
  BY <1>5, <1>6 DEF StampsHold

\* A row that equals a source file has chunks, but while they are replaced.
RowsComplete ==
    \A p \in Path :
        disk[p].exists /\ KindNow(p) = "code" /\ IndexedVersion(rows, p) = Fingerprint(p)
        => \/ \E c \in chunks : c.path = p
           \/ path = p /\ pc \in {"rmRow", "ixBM25", "ixVector", "saveChunks"}

\* The rows saved last are of the text the handler has read.
SavedHold ==
    pc = "saveEmbeddings" =>
        \A t \in Pieces[path][content] : \E c \in chunks : c.path = path /\ c.gen = content

\* What a step of the handler leaves of the other paths.
LEMMA OtherPaths ==
    ASSUME IInv, Handler, NEW p \in Path, p # path
    PROVE  /\ \A o \in Owner : rows'[<<o, p>>] = rows[<<o, p>>]
           /\ \A c \in chunks' : c.path = p => \E d \in chunks : d.path = p /\ d.gen = c.gen
           /\ \A d \in chunks : d.path = p => \E c \in chunks' : c.path = p /\ c.gen = d.gen
<1>1. path \in Path /\ rows \in Rows /\ p # path
  BY DEF IInv, Typed, TypeOK
<1>2. \A o \in Owner : <<o, p>> \in FileID /\ <<o, p>> # <<"coordinator", path>>
  BY <1>1 DEF FileID
<1>3. \A o \in Owner : rows'[<<o, p>>] = rows[<<o, p>>]
  <2>1. CASE rows' = DropFileRow(rows, "coordinator", path)
    BY <1>1, <1>2, <2>1 DEF DropFileRow, Rows
  <2>2. CASE rows' = SaveFileRow(rows, "coordinator", path, stamp)
    BY <1>1, <1>2, <2>2 DEF SaveFileRow
  <2>3. \/ UNCHANGED rows
        \/ rows' = DropFileRow(rows, "coordinator", path)
        \/ rows' = SaveFileRow(rows, "coordinator", path, stamp)
    BY DEF Handler, storeVars, Stat, ReadAndChunk, Lookup, DeleteFromBM25, DeleteFromVector,
         DeleteFromMetadata, DeleteRow, SaveRow, IndexBM25, IndexVector, IndexMetadata,
         IndexEmbeddings
  <2>4. QED
    BY <2>1, <2>2, <2>3
<1>4. [Next]_vars
  BY DEF Next, Process
<1>5. \/ /\ \A c \in chunks' : \E d \in chunks : Same(c, d)
         /\ \A d \in chunks : \E c \in chunks' : Same(c, d)
      \/ chunks' = {c \in chunks : c.path # path}
      \/ /\ \A c \in chunks : c \in chunks'
         /\ \A c \in chunks' : c \in chunks \/ c.path = path
  BY <1>4, ChunkSteps
<1>6. QED
  BY <1>1, <1>3, <1>5 DEF Same

\* The version a path is indexed as is one of its rows', of which it has one.
LEMMA IndexedIsARow ==
    ASSUME IInv, NEW p \in Path
    PROVE  /\ IndexedVersion(rows, p) \in {rows[<<o, p>>] : o \in Owner}
           /\ \A o \in Owner : rows[<<o, p>>] # NoRow
                                  => IndexedVersion(rows, p) = rows[<<o, p>>]
  BY DEF IInv, OneRowPerPath, IndexedVersion, Owner

\* The coordinator's row of a path that has it is the version it is indexed as;
\* without it none is.
LEMMA DroppedRow ==
    ASSUME IInv, rows' = DropFileRow(rows, "coordinator", path)
    PROVE  rows[<<"coordinator", path>>] # NoRow => IndexedVersion(rows', path) = NoRow
<1>1. /\ rows \in Rows /\ path \in Path
      /\ <<"coordinator", path>> \in FileID /\ <<"runner", path>> \in FileID
  BY DEF IInv, Typed, TypeOK, FileID, Owner
<1>2. /\ rows'[<<"coordinator", path>>] = NoRow
      /\ rows'[<<"runner", path>>] = rows[<<"runner", path>>]
  BY <1>1 DEF DropFileRow, Rows
<1>3. QED
  BY <1>1, <1>2 DEF IndexedVersion, IInv, OneRowPerPath

LEMMA RowsCompleteStep ==
    ASSUME FaultyCalls \cap Required = {}, IInv, Typed', StampsHold, RowsComplete,
           [Next /\ CleanStop]_vars
    PROVE  RowsComplete'
<1>1. /\ disk \in [Path -> [ver : 0..MaxVersion, exists : BOOLEAN]]
      /\ \A p \in Path : disk[p].exists => disk[p].ver # NoRow
      /\ \A p \in Path : disk[p].ver \in Nat
      /\ path \in Path /\ rows \in Rows /\ chunks \subseteq ChunkRow
      /\ stamp \in Nat /\ content \in Nat
      /\ Typed /\ OneRowPerPath
  BY ConstantsAssumption DEF IInv, Typed, TypeOK, NoRow
<1> DEFINE Lagging(p) ==
        disk[p].exists /\ KindNow(p) = "code" /\ IndexedVersion(rows, p) = Fingerprint(p)
<1>2. ASSUME NEW p \in Path, Edit(p) \/ Remove(p)
      PROVE  RowsComplete'
  <2>1. UNCHANGED <<rows, chunks, pc, path>>
    BY <1>2 DEF Edit, Remove, storeVars, handlerVars
  <2>2. \/ ~disk'[p].exists
        \/ disk'[p].ver = disk[p].ver + 1
    BY <1>1, <1>2 DEF Edit, Remove
  <2>3. \A q \in Path : q # p => disk'[q] = disk[q]
    BY <1>1, <1>2 DEF Edit, Remove
  <2>4. IndexedVersion(rows, p) <= disk[p].ver
    <3>1. \A o \in Owner : <<o, p>> \in FileID /\ rows[<<o, p>>] <= disk[<<o, p>>[2]].ver
      BY DEF StampsHold, FileID
    <3>2. QED
      BY <3>1, IndexedIsARow
  <2>5. IndexedVersion(rows, p) \in Nat
    <3>1. \A o \in Owner : rows[<<o, p>>] \in Nat
      BY <1>1, ConstantsAssumption DEF Rows, FileID
    <3>2. QED
      BY <3>1, IndexedIsARow
  <2>6. ~(disk'[p].exists /\ IndexedVersion(rows, p) = disk'[p].ver)
    BY <1>1, <2>2, <2>4, <2>5
  <2>7. QED
    BY <2>1, <2>3, <2>6 DEF RowsComplete, KindNow, Fingerprint
<1>3. ASSUME UNCHANGED <<disk, rows, chunks>>,
             \/ pc' = pc /\ path' = path
             \/ pc \notin {"rmRow", "ixBM25", "ixVector", "saveChunks"}
             \/ path' = path /\ pc' \in {"rmRow", "ixBM25", "ixVector", "saveChunks"}
      PROVE  RowsComplete'
  BY <1>3 DEF RowsComplete, KindNow, Fingerprint
<1>4. CASE \/ Start \/ DetectChanges \/ StartWatcher \/ (Kill /\ CleanStop)
           \/ \E p \in Path : ApplyChange(p) \/ HandleEvent(p)
           \/ UNCHANGED vars
  <2>1. /\ UNCHANGED <<disk, rows, chunks>>
        /\ pc = "idle" \/ (pc' = pc /\ path' = path)
    BY <1>4 DEF Start, DetectChanges, StartWatcher, Kill, CleanStop, ApplyChange,
                HandleEvent, vars, storeVars, handlerVars
  <2>2. QED
    BY <1>3, <2>1
<1>5. CASE Stat \/ ReadAndChunk \/ DeleteFromBM25 \/ DeleteFromVector
           \/ (Lookup /\ UNCHANGED rows)
  <2>1. /\ UNCHANGED <<disk, rows, chunks>>
        /\ pc \in {"stat", "read", "rmBM25", "rmVector", "lookup"}
    BY <1>5 DEF Stat, ReadAndChunk, DeleteFromBM25, DeleteFromVector, Lookup, Step, storeVars
  <2>2. QED
    BY <1>3, <2>1
<1>6. CASE IndexBM25 \/ IndexVector
  <2>1. /\ UNCHANGED <<disk, rows, chunks, path>>
        /\ pc' \in {"ixVector", "saveChunks"}
    BY <1>6 DEF IndexBM25, IndexVector, Step, Fails, Required
  <2>2. QED
    BY <1>3, <2>1
\* The other steps of the handler: nothing changes for the other paths.
<1>7. ASSUME Handler, UNCHANGED disk, path' = path,
             Lagging(path)' => \/ \E c \in chunks' : c.path = path
                               \/ pc' \in {"rmRow", "ixBM25", "ixVector", "saveChunks"}
      PROVE  RowsComplete'
  <2>1. ASSUME NEW p \in Path, Lagging(p)', p # path
        PROVE  \E c \in chunks' : c.path = p
    <3>1. /\ \A o \in Owner : rows'[<<o, p>>] = rows[<<o, p>>]
          /\ \A d \in chunks : d.path = p => \E c \in chunks' : c.path = p /\ c.gen = d.gen
      BY <1>7, <2>1, OtherPaths
    <3>2. Lagging(p)
      BY <1>7, <2>1, <3>1 DEF IndexedVersion, KindNow, Fingerprint, Owner
    <3>3. \E d \in chunks : d.path = p
      BY <2>1, <3>2 DEF RowsComplete
    <3>4. QED
      BY <3>1, <3>3
  <2>2. QED
    BY <1>7, <2>1 DEF RowsComplete
<1>8. CASE Lookup /\ rows' = DropFileRow(rows, "coordinator", path)
  <2>1. Handler /\ pc = "lookup" /\ UNCHANGED <<disk, path, chunks>>
    BY <1>8 DEF Lookup, Step, Handler
  <2>2. CASE rows[<<"coordinator", path>>] # NoRow
    <3>1. IndexedVersion(rows', path) = NoRow
      BY <1>8, <2>2, DroppedRow
    <3>2. ~Lagging(path)'
      BY <1>1, <2>1, <3>1 DEF Fingerprint
    <3>3. QED
      BY <1>7, <2>1, <3>2
  <2>3. CASE rows[<<"coordinator", path>>] = NoRow
    <3>1. UNCHANGED rows
      BY <1>1, <1>8, <2>3 DEF DropFileRow, Rows
    <3>2. QED
      BY <1>3, <2>1, <3>1
  <2>4. QED
    BY <2>2, <2>3
<1>9. CASE DeleteFromMetadata
  <2>1. Handler /\ UNCHANGED <<disk, path>> /\ pc' = "rmRow"
    BY <1>9 DEF DeleteFromMetadata, Step, Handler, Fails, Required
  <2>2. QED
    BY <1>7, <2>1
<1>10. CASE DeleteRow
  <2>1. /\ Handler /\ UNCHANGED <<disk, path>> /\ pc = "rmRow"
        /\ rows' = DropFileRow(rows, "coordinator", path)
    BY <1>10 DEF DeleteRow, Step, Handler, Fails, Required
  <2>2. IndexedVersion(rows', path) = NoRow
    BY <2>1, DroppedRow DEF StampsHold
  <2>3. ~Lagging(path)'
    BY <1>1, <2>1, <2>2 DEF Fingerprint
  <2>4. QED
    BY <1>7, <2>1, <2>3
<1>11. CASE SaveRow
  <2>1. /\ Handler /\ UNCHANGED <<disk, path>> /\ pc = "saveRow"
        /\ rows' = SaveFileRow(rows, "coordinator", path, stamp)
        /\ pc' = "ixBM25" \/ Kind[path][content] = "config"
    BY <1>11 DEF SaveRow, Step, Handler, Fails, Required
  <2>2. stamp # 0 /\ stamp <= content /\ content <= disk[path].ver
    BY <1>1, <2>1 DEF Typed, ReadInOrder
  <2>3. IndexedVersion(rows', path) = stamp
    <3>1. rows'[<<"coordinator", path>>] = stamp
      BY <1>1, <2>1 DEF SaveFileRow, FileID, Owner
    <3>2. QED
      BY <2>2, <3>1 DEF IndexedVersion, NoRow
  <2>4. CASE pc' = "ixBM25"
    BY <1>7, <2>1, <2>4
  <2>5. CASE Kind[path][content] = "config"
    <3>1. ASSUME stamp = disk[path].ver
          PROVE  Kind[path][disk[path].ver] = "config"
      BY <1>1, <2>2, <2>5, <3>1
    <3>2. ~Lagging(path)'
      BY <2>1, <2>3, <3>1 DEF KindNow, Fingerprint
    <3>3. QED
      BY <1>7, <2>1, <3>2
  <2>6. QED
    BY <2>1, <2>4, <2>5
<1>12. CASE IndexMetadata
  <2>1. /\ Handler /\ UNCHANGED <<disk, path, rows>> /\ pc = "saveChunks"
        /\ chunks' = SaveChunks(chunks, New)
    BY <1>12 DEF IndexMetadata, Step, Handler, Fails, Required
  <2>2. stamp # 0 /\ stamp <= content /\ content <= disk[path].ver
    BY <1>1, <2>1 DEF Typed, ReadInOrder
  <2>3. content \in Version /\ New \subseteq ChunkRow
    BY <1>1, <2>1, NewTyped
  <2>4. IndexedVersion(rows', path) = stamp
    <3>1. rows[<<"coordinator", path>>] = stamp
      BY <2>1 DEF IInv, HandlerHolds
    <3>2. QED
      BY <2>1, <2>2, <3>1 DEF IndexedVersion, NoRow
  <2>5. ASSUME Lagging(path)'
        PROVE  \E c \in chunks' : c.path = path
    <3>1. stamp = disk[path].ver /\ Kind[path][disk[path].ver] = "code"
      BY <2>1, <2>4, <2>5 DEF KindNow, Fingerprint
    <3>2. content = disk[path].ver
      BY <1>1, <2>2, <3>1
    <3>3. Pieces[path][content] # {}
      BY <1>1, <2>3, <3>1, <3>2, ConstantsAssumption
    <3>4. PICK n \in New : n.path = path
      BY <1>1, <2>3, <3>3, NewChunksRows DEF New, Owner
    <3>5. QED
      BY <1>1, <2>1, <2>3, <3>4, SaveChunksRows DEF Same
  <2>6. QED
    BY <1>7, <2>1, <2>5
<1>13. CASE IndexEmbeddings
  <2>1. /\ Handler /\ UNCHANGED <<disk, path, rows>> /\ pc = "saveEmbeddings"
        /\ chunks' = chunks \/ chunks' = SaveEmbeddings(chunks, IDs(New), ServeModel)
    BY <1>13 DEF IndexEmbeddings, Step, Handler
  <2>2. \A d \in chunks : \E c \in chunks' : c.path = d.path
    BY <1>1, <2>1, SaveEmbeddingsRows, ServeAssumption DEF Same
  <2>3. ASSUME Lagging(path)'
        PROVE  \E c \in chunks' : c.path = path
    <3>1. Lagging(path)
      BY <2>1, <2>3 DEF KindNow, Fingerprint
    <3>2. \E d \in chunks : d.path = path
      BY <1>1, <2>1, <3>1 DEF RowsComplete
    <3>3. QED
      BY <2>2, <3>2
  <2>4. QED
    BY <1>7, <2>1, <2>3
<1>14. Lookup => UNCHANGED rows \/ rows' = DropFileRow(rows, "coordinator", path)
  BY DEF Lookup
<1>15. QED
  BY <1>2, <1>4, <1>5, <1>6, <1>8, <1>9, <1>10, <1>11, <1>12, <1>13, <1>14
     DEF Next, User, Process, Handler

LEMMA SavedStep ==
    ASSUME IInv, SavedHold, [Next]_vars
    PROVE  SavedHold'
<1>1. path \in Path /\ chunks \subseteq ChunkRow /\ Typed
  BY DEF IInv, Typed, TypeOK
<1>2. CASE UNCHANGED <<chunks, pc, path, content>>
  BY <1>2 DEF SavedHold
<1>3. CASE IndexMetadata /\ pc' = "saveEmbeddings"
  <2>1. /\ UNCHANGED <<path, content>> /\ pc = "saveChunks"
        /\ chunks' = SaveChunks(chunks, New)
    BY <1>3 DEF IndexMetadata, Step, Return
  <2>2. content \in Version /\ New \subseteq ChunkRow
    BY <1>1, <2>1, NewTyped
  <2>3. /\ \A n \in New : n.path = path /\ n.gen = content
        /\ \A t \in Pieces[path][content] : \E n \in New : n.content = t
    BY <1>1, <2>2, NewChunksRows DEF New, Owner
  <2>4. \A n \in New : \E c \in chunks' : Same(c, n)
    BY <1>1, <2>1, <2>2, SaveChunksRows
  <2>5. \A t \in Pieces[path][content] : \E c \in chunks' : c.path = path /\ c.gen = content
    BY <2>3, <2>4 DEF Same
  <2>6. QED
    BY <2>1, <2>5 DEF SavedHold
<1>4. CASE pc' # "saveEmbeddings"
  BY <1>4 DEF SavedHold
<1>5. \/ UNCHANGED <<chunks, pc, path, content>>
      \/ IndexMetadata
      \/ pc' # "saveEmbeddings"
  BY DEF Next, User, Process, Handler, vars, storeVars, handlerVars, Edit, Remove, Start,
         DetectChanges, StartWatcher, ApplyChange, HandleEvent, Kill, Step, Return,
         AfterRemoval, Stat, ReadAndChunk, Lookup, DeleteFromBM25, DeleteFromVector,
         DeleteFromMetadata, DeleteRow, SaveRow, IndexBM25, IndexVector, IndexEmbeddings
<1>6. QED
  BY <1>2, <1>3, <1>4, <1>5

-----------------------------------------------------------------------------
(* The index follows the disk.                                             *)

OrdinaryInv == /\ IInv /\ Life /\ StampsHold /\ RowsComplete /\ SavedHold
               /\ StaleIsScheduled

\* The handler leaves what the index holds of the other paths.
LEMMA OthersInStep ==
    ASSUME IInv, Handler, NEW p \in Path, p # path, InStep(p)
    PROVE  InStep(p)'
<1>1. UNCHANGED disk
  BY DEF Handler, Step, Stat, ReadAndChunk, Lookup, DeleteFromBM25, DeleteFromVector,
         DeleteFromMetadata, DeleteRow, SaveRow, IndexBM25, IndexVector, IndexMetadata,
         IndexEmbeddings
<1>2. /\ rows'[<<"coordinator", p>>] = rows[<<"coordinator", p>>]
      /\ \A c \in chunks' : c.path = p => \E d \in chunks : d.path = p /\ d.gen = c.gen
      /\ \A d \in chunks : d.path = p => \E c \in chunks' : c.path = p /\ c.gen = d.gen
  BY OtherPaths DEF Owner
<1>3. Generations(p)' = Generations(p)
  BY <1>2 DEF Generations, Rows4Path, ChunksOfPath
<1>4. QED
  BY <1>1, <1>2, <1>3 DEF InStep, KindNow

\* A handler that returns has brought the index in step with its file, unless
\* an edit has been reported since it began.
LEMMA HandlerBringsInStep ==
    ASSUME FaultyCalls \cap Required = {}, IInv, Life, SavedHold,
           Handler, pc' = "idle", pending[path] = "none"
    PROVE  InStep(path)'
<1>1. /\ path \in Path /\ disk \in [Path -> [ver : 0..MaxVersion, exists : BOOLEAN]]
      /\ rows \in Rows /\ chunks \subseteq ChunkRow /\ op \in {"index", "remove"}
      /\ Typed
  BY DEF IInv, Typed, TypeOK
<1>2. UNCHANGED <<disk, path>> /\ pc # "idle"
  BY DEF Handler, Step, Stat, ReadAndChunk, Lookup, DeleteFromBM25, DeleteFromVector,
         DeleteFromMetadata, DeleteRow, SaveRow, IndexBM25, IndexVector, IndexMetadata,
         IndexEmbeddings
<1>3. \/ Stat \/ ReadAndChunk \/ Lookup \/ DeleteRow \/ SaveRow \/ IndexEmbeddings
  BY DEF Handler, DeleteFromBM25, DeleteFromVector, DeleteFromMetadata, IndexBM25,
         IndexVector, IndexMetadata, Fails, Required
<1>4. CASE op = "remove"
  <2>1. ~Listed(path)
    BY <1>2, <1>4 DEF Life, ReadIsFresh
  <2>2. (Lookup \/ DeleteRow) /\ rows' = DropFileRow(rows, "coordinator", path)
    <3>1. pc \in {"lookup", "rmRow"}
      BY <1>1, <1>3, <1>4
         DEF Typed, ReadInOrder, Stat, ReadAndChunk, Lookup, DeleteRow, SaveRow,
             IndexEmbeddings, Step
    <3>2. QED
      BY <1>3, <3>1 DEF Stat, ReadAndChunk, Lookup, DeleteRow, SaveRow, IndexEmbeddings,
                        Step, Fails, Required
  <2>3. rows'[<<"coordinator", path>>] = NoRow
    BY <1>1, <2>2 DEF DropFileRow, Rows, FileID, Owner
  <2>4. QED
    BY <1>2, <2>1, <2>3 DEF InStep, Listed, KindNow
<1>5. CASE op = "index"
  <2>1. /\ disk[path].exists
        /\ pc \notin {"stat", "read"} => content = disk[path].ver
    BY <1>2, <1>5 DEF Life, ReadIsFresh
  <2>2. SUFFICES ASSUME KindNow(path) = "code"
                 PROVE  Generations(path)' = {disk[path].ver}
    BY <1>2, <2>1 DEF InStep, KindNow
  <2>3. pc \notin {"stat", "read"} => Kind[path][content] = "code"
    BY <2>1, <2>2 DEF KindNow
  <2>4. IndexEmbeddings
    BY <1>3, <1>5, <2>1, <2>2, <2>3
       DEF Stat, ReadAndChunk, Lookup, DeleteRow, SaveRow, AfterRemoval, Return, Step,
           Fails, Required
  <2>5. /\ pc = "saveEmbeddings" /\ content = disk[path].ver
        /\ chunks' = chunks \/ chunks' = SaveEmbeddings(chunks, IDs(New), ServeModel)
    BY <2>1, <2>4 DEF IndexEmbeddings, Step
  <2>6. content \in Version /\ Pieces[path][content] # {}
    BY <1>1, <2>3, <2>5, NewTyped, ConstantsAssumption
  <2>7. PICK b \in chunks : b.path = path /\ b.gen = content
    BY <2>5, <2>6 DEF SavedHold
  <2>8. \A d \in chunks : d.path = path => d.gen = content
    BY <2>7 DEF IInv, Whole
  <2>9. /\ \A c \in chunks' : \E d \in chunks : Same(c, d)
        /\ \A d \in chunks : \E c \in chunks' : Same(c, d)
    <3>1. CASE chunks' = chunks
      BY <3>1 DEF Same
    <3>2. CASE chunks' = SaveEmbeddings(chunks, IDs(New), ServeModel)
      <4>1. chunks \in SUBSET ChunkRow /\ ServeModel \in Model
        BY <1>1, ServeAssumption
      <4>2. QED
        BY <3>2, <4>1, SaveEmbeddingsRows
    <3>3. QED
      BY <2>5, <3>1, <3>2
  <2>10. Generations(path)' = {content}
    <3>1. \A c \in chunks' : c.path = path => c.gen = content
      BY <2>8, <2>9 DEF Same
    <3>2. \E c \in chunks' : c.path = path /\ c.gen = content
      BY <2>7, <2>9 DEF Same
    <3>3. QED
      BY <1>2, <3>1, <3>2 DEF Generations, Rows4Path, ChunksOfPath
  <2>11. QED
    BY <2>5, <2>10
<1>6. QED
  BY <1>1, <1>4, <1>5

\* A file the scan finds no change of is in step with the index.
LEMMA UnchangedInStep ==
    ASSUME IInv, RowsComplete, pc = "idle", NEW p \in Path, Change(p) = "none"
    PROVE  InStep(p)
<1>1. /\ disk[p] \in [ver : 0..MaxVersion, exists : BOOLEAN]
      /\ UnmodifiedMeansCurrent
  BY IInvImplies DEF IInv, Typed, TypeOK
<1>2. CASE ~disk[p].exists
  <2>1. IndexedVersion(rows, p) = NoRow
    BY <1>2 DEF Change, Listed
  <2>2. QED
    BY <1>2, <2>1 DEF IndexedVersion, InStep
<1>3. CASE disk[p].exists /\ KindNow(p) # "code"
  BY <1>3 DEF InStep
<1>4. CASE disk[p].exists /\ KindNow(p) = "code"
  <2>1. Listed(p)
    BY <1>4 DEF Listed
  <2>2. IndexedVersion(rows, p) = Fingerprint(p)
    BY <2>1 DEF Change
  <2>3. Generations(p) \subseteq {disk[p].ver}
    BY <1>1, <1>4, <2>2 DEF UnmodifiedMeansCurrent
  <2>4. \E c \in chunks : c.path = p
    BY <1>4, <2>2 DEF RowsComplete
  <2>5. Generations(p) # {}
    BY <2>4 DEF Generations, Rows4Path, ChunksOfPath
  <2>6. Generations(p) = {disk[p].ver}
    BY <2>3, <2>5
  <2>7. QED
    BY <1>4, <2>6 DEF InStep
<1>5. QED
  BY <1>1, <1>2, <1>3, <1>4

LEMMA StaleStep ==
    ASSUME FaultyCalls \cap Required = {}, OrdinaryInv,
           [Next /\ NeverEmpty /\ QuietScan /\ CleanStop]_vars
    PROVE  StaleIsScheduled'
<1>1. /\ IInv /\ Life /\ StampsHold /\ RowsComplete /\ SavedHold /\ StaleIsScheduled
      /\ path \in Path /\ todo \in [Path -> {"none", "deleted", "modified", "added"}]
      /\ pending \in [Path -> {"none", "index", "remove", "rename"}]
      /\ disk \in [Path -> [ver : 0..MaxVersion, exists : BOOLEAN]]
      /\ phase \in {"down", "starting", "reconciling", "watching"}
  BY DEF OrdinaryInv, IInv, Typed, TypeOK
<1>2. ASSUME NEW q \in Path, UNCHANGED <<disk, rows, chunks>>
      PROVE  InStep(q)' <=> InStep(q)
  BY <1>2 DEF InStep, KindNow, Generations, Rows4Path, ChunksOfPath
<1>3. ASSUME NEW p \in Path, Edit(p) \/ Remove(p), QuietScan
      PROVE  StaleIsScheduled'
  <2>1. /\ UNCHANGED <<rows, chunks, phase, todo, pc, path>>
        /\ \A q \in Path : q # p => disk'[q] = disk[q]
        /\ \E what \in {"index", "remove", "rename"} : Report(p, what)
    BY <1>1, <1>3 DEF Edit, Remove, storeVars, handlerVars
  <2>2. phase # "reconciling"
    <3>1. CASE Edit(p)
      <4>1. disk'[p] = [ver |-> disk[p].ver + 1, exists |-> TRUE] /\ disk[p].ver \in Nat
        BY <1>1, <3>1, ConstantsAssumption DEF Edit
      <4>2. disk'[p].ver # disk[p].ver
        BY <4>1
      <4>3. QED
        BY <1>3, <4>2 DEF QuietScan
    <3>2. CASE Remove(p)
      <4>1. ~disk'[p].exists /\ disk[p].exists
        BY <1>1, <3>2 DEF Remove
      <4>2. QED
        BY <1>3, <4>1 DEF QuietScan
    <3>3. QED
      BY <1>3, <3>1, <3>2
  <2>3. Scheduled(p)'
    <3>1. CASE phase = "watching"
      <4>1. pending'[p] # "none"
        BY <1>1, <2>1, <3>1 DEF Report
      <4>2. QED
        BY <4>1 DEF Scheduled
    <3>2. CASE phase \in {"down", "starting"}
      BY <2>1, <3>2 DEF Scheduled
    <3>3. QED
      BY <1>1, <2>2, <3>1, <3>2
  <2>4. ASSUME NEW q \in Path, q # p
        PROVE  InStep(q)' \/ Scheduled(q)'
    <3>1. pending'[q] = pending[q]
      BY <1>1, <2>1, <2>4 DEF Report
    <3>2. InStep(q)' <=> InStep(q)
      BY <2>1, <2>4 DEF InStep, KindNow, Generations, Rows4Path, ChunksOfPath
    <3>3. Scheduled(q)' <=> Scheduled(q)
      BY <2>1, <3>1 DEF Scheduled
    <3>4. QED
      BY <1>1, <3>2, <3>3 DEF StaleIsScheduled
  <2>5. QED
    BY <2>3, <2>4 DEF StaleIsScheduled
<1>4. CASE Start \/ Kill
  <2>1. phase' \in {"down", "starting"}
    BY <1>4 DEF Start, Kill
  <2>2. QED
    BY <2>1 DEF StaleIsScheduled, Scheduled
<1>5. CASE DetectChanges /\ NeverEmpty
  <2>1. /\ UNCHANGED <<disk, rows, chunks>> /\ phase = "starting"
        /\ \E p \in Path : IndexedVersion(rows, p) # NoRow
    BY <1>5 DEF DetectChanges, storeVars, NeverEmpty
  <2>2. todo' = [p \in Path |-> Change(p)]
    BY <1>1, <1>5, <2>1 DEF DetectChanges, Life, PhasesHold
  <2>3. pc = "idle"
    BY <1>1, <2>1 DEF Life, PhasesHold
  <2>4. ASSUME NEW p \in Path
        PROVE  InStep(p)' \/ Scheduled(p)'
    <3>1. CASE Change(p) = "none"
      BY <1>1, <1>2, <2>1, <2>3, <3>1, UnchangedInStep
    <3>2. CASE Change(p) # "none"
      <4>1. todo'[p] # "none"
        BY <2>2, <3>2
      <4>2. QED
        BY <4>1 DEF Scheduled
    <3>3. QED
      BY <3>1, <3>2
  <2>5. QED
    BY <2>4 DEF StaleIsScheduled
<1>6. CASE StartWatcher
  <2>1. /\ UNCHANGED <<disk, rows, chunks>> /\ phase = "reconciling" /\ pc = "idle"
        /\ \A p \in Path : todo[p] = "none"
    BY <1>6 DEF StartWatcher, storeVars
  <2>2. \A p \in Path : ~Scheduled(p)
    BY <1>1, <2>1 DEF Scheduled, Life, PhasesHold
  <2>3. QED
    BY <1>1, <1>2, <2>1, <2>2 DEF StaleIsScheduled
<1>7. ASSUME NEW p \in Path, ApplyChange(p) \/ HandleEvent(p)
      PROVE  StaleIsScheduled'
  <2>1. /\ UNCHANGED <<disk, rows, chunks, phase>> /\ path' = p /\ pc = "idle" /\ pc' # "idle"
        /\ \A q \in Path : q # p => pending'[q] = pending[q] /\ todo'[q] = todo[q]
    BY <1>1, <1>7 DEF ApplyChange, HandleEvent, storeVars
  <2>2. ASSUME NEW q \in Path
        PROVE  InStep(q)' \/ Scheduled(q)'
    <3>1. CASE q = p
      BY <2>1, <3>1 DEF Scheduled
    <3>2. CASE q # p
      BY <1>1, <1>2, <2>1, <3>2 DEF StaleIsScheduled, Scheduled
    <3>3. QED
      BY <3>1, <3>2
  <2>3. QED
    BY <2>2 DEF StaleIsScheduled
<1>8. CASE Handler
  <2>1. UNCHANGED <<disk, phase, pending, todo, path>> /\ pc # "idle"
    BY <1>8 DEF Handler, Step, Stat, ReadAndChunk, Lookup, DeleteFromBM25, DeleteFromVector,
         DeleteFromMetadata, DeleteRow, SaveRow, IndexBM25, IndexVector, IndexMetadata,
         IndexEmbeddings
  <2>2. ASSUME NEW q \in Path
        PROVE  InStep(q)' \/ Scheduled(q)'
    <3>1. CASE q # path
      <4>1. CASE InStep(q)
        BY <1>1, <1>8, <3>1, <4>1, OthersInStep
      <4>2. CASE Scheduled(q)
        BY <2>1, <3>1, <4>2 DEF Scheduled
      <4>3. QED
        BY <1>1, <4>1, <4>2 DEF StaleIsScheduled
    <3>2. CASE q = path /\ (pc' # "idle" \/ pending[path] # "none")
      BY <2>1, <3>2 DEF Scheduled
    <3>3. CASE q = path /\ pc' = "idle" /\ pending[path] = "none"
      BY <1>1, <1>8, <2>1, <3>3, HandlerBringsInStep
    <3>4. QED
      BY <3>1, <3>2, <3>3
  <2>3. QED
    BY <2>2 DEF StaleIsScheduled
<1>9. CASE UNCHANGED vars
  BY <1>1, <1>2, <1>9 DEF vars, StaleIsScheduled, Scheduled
<1>10. QED
  BY <1>3, <1>4, <1>5, <1>6, <1>7, <1>8, <1>9 DEF Next, User, Process

LEMMA OrdinaryStep ==
    ASSUME FaultyCalls \cap Required = {}, OrdinaryInv,
           [Next /\ NeverEmpty /\ QuietScan /\ CleanStop]_vars
    PROVE  OrdinaryInv'
<1>1. [Next]_vars /\ [Next /\ CleanStop]_vars /\ IInv
      /\ "GetChunksByFile" \notin FaultyCalls
  BY DEF OrdinaryInv, Required
<1>2. IInv'
  BY <1>1, IInvStep
<1>3. Typed /\ Typed'
  BY <1>1, <1>2 DEF IInv
<1>4. Life'
  <2>1. CASE Process \/ (Kill /\ CleanStop) \/ UNCHANGED vars
    BY <1>3, <2>1, ProcessKeepsLife DEF OrdinaryInv
  <2>2. CASE User /\ QuietScan
    BY <1>3, <2>2, UserKeepsLife DEF OrdinaryInv, User
  <2>3. QED
    BY <2>1, <2>2 DEF Next
<1>5. StampsHold' /\ RowsComplete' /\ SavedHold'
  BY <1>1, <1>3, StampsStep, RowsCompleteStep, SavedStep DEF OrdinaryInv
<1>6. StaleIsScheduled'
  BY StaleStep
<1>7. QED
  BY <1>2, <1>4, <1>5, <1>6 DEF OrdinaryInv

LEMMA InitOrdinary == Init /\ indexModel = ServeModel => OrdinaryInv
<1> SUFFICES ASSUME Init, indexModel = ServeModel
             PROVE  OrdinaryInv
  OBVIOUS
<1>1. PICK indexed \in SUBSET {p \in Path : Kind[p][1] = "code"}, m \in Model :
        LET built == UNION {NewChunks("runner", p, 1) : p \in indexed}
        IN  /\ disk = [p \in Path |-> IF p \in indexed
                                      THEN [ver |-> 1, exists |-> TRUE]
                                      ELSE [ver |-> 0, exists |-> FALSE]]
            /\ rows = [id \in FileID |->
                          IF id[1] = "runner" /\ id[2] \in indexed THEN 1 ELSE NoRow]
            /\ chunks = SaveEmbeddings(built, IDs(built), m)
  BY DEF Init
<1> DEFINE built == UNION {NewChunks("runner", p, 1) : p \in indexed}
<1>2. 1 \in Version /\ "runner" \in Owner
  BY ConstantsAssumption DEF Version, Owner
<1>3. IInv
  BY InitIInv
<1>4. Life
  BY DEF Init, Life, PhasesHold, ReportsHold, ReadIsFresh
<1>5. StampsHold
  <2>1. \A id \in FileID : id[2] \in Path
    BY DEF FileID
  <2>2. \A id \in FileID : rows[id] <= disk[id[2]].ver
    BY <1>1, <2>1 DEF NoRow
  <2>3. QED
    BY <2>2 DEF Init, StampsHold
<1>6. RowsComplete
  <2> SUFFICES ASSUME NEW p \in Path, disk[p].exists
               PROVE  \E c \in chunks : c.path = p
    BY DEF RowsComplete
  <2>1. p \in indexed /\ Kind[p][1] = "code"
    BY <1>1
  <2>2. PICK t : t \in Pieces[p][1]
    BY <1>2, <2>1, ConstantsAssumption
  <2>3. \A q \in indexed : NewChunks("runner", q, 1) \subseteq ChunkRow
    BY <1>2, NewChunksRows
  <2>4. PICK n \in NewChunks("runner", p, 1) : n.path = p
    BY <1>2, <2>2, NewChunksRows
  <2>5. n \in built /\ built \subseteq ChunkRow
    BY <2>1, <2>3
  <2>6. chunks = SaveEmbeddings(built, IDs(built), m)
    BY <1>1
  <2> HIDE DEF built
  <2>7. QED
    BY <2>4, <2>5, <2>6, SaveEmbeddingsRows DEF Same
<1>7. SavedHold /\ StaleIsScheduled
  BY DEF Init, SavedHold, StaleIsScheduled, Scheduled
<1>8. QED
  BY <1>3, <1>4, <1>5, <1>6, <1>7 DEF OrdinaryInv

\* In the ordinary life of a process that is configured with the embedder the
\* index was built with, and whose required store calls succeed, a file the
\* index is out of step with always has someone scheduled to look at it:
\* across edits while the handler works, event reordering, stops and restarts.
THEOREM StaleFilesAreScheduled ==
    ASSUME FaultyCalls \cap Required = {}
    PROVE  OrdinarySpec /\ indexModel = ServeModel => []StaleIsScheduled
<1>1. OrdinaryInv /\ [Next /\ NeverEmpty /\ QuietScan /\ CleanStop]_vars => OrdinaryInv'
  BY OrdinaryStep
<1>2. OrdinaryInv => StaleIsScheduled
  BY DEF OrdinaryInv
<1>3. QED
  BY <1>1, <1>2, InitOrdinary, PTL DEF OrdinarySpec

-----------------------------------------------------------------------------
(* CoordinatorHistory implements IndexPromise.                            *)

\* Chunks of one version, with all its pieces, are published as that version.
LEMMA WholeIsPublished ==
    ASSUME NEW cs, NEW p \in Path, NEW c \in cs, c.path = p, c.gen \in Version,
           \A d \in cs : d.path = p => d.gen = c.gen /\ d.content \in Pieces[p][c.gen],
           \A t \in Pieces[p][c.gen] : \E d \in cs : d.path = p /\ d.content = t
    PROVE  PublishedIn(cs, p) = c.gen
<1> DEFINE mine  == ChunksOfPath(cs, p)
           of(v) == /\ {d.gen : d \in mine} = {v}
                    /\ {d.content : d \in mine} = Pieces[p][v]
<1>1. \A d : d \in mine <=> d \in cs /\ d.path = p
  BY DEF ChunksOfPath
<1>2. c \in mine
  BY <1>1
<1>3. {d.gen : d \in mine} = {c.gen}
  BY <1>1, <1>2
<1>4. {d.content : d \in mine} = Pieces[p][c.gen]
  BY <1>1
<1>5. of(c.gen) /\ \A v \in Version : of(v) => v = c.gen
  BY <1>3, <1>4
<1>6. mine # {} /\ \E v \in Version : of(v)
  BY <1>2, <1>5
<1>7. PublishedIn(cs, p) = CHOOSE v \in Version : of(v)
  BY <1>6 DEF PublishedIn
<1> HIDE DEF of
<1>8. (CHOOSE v \in Version : of(v)) = c.gen
  BY <1>5
<1>9. QED
  BY <1>7, <1>8

LEMMA NothingIsPublished ==
    ASSUME NEW cs, NEW p \in Path, \A c \in cs : c.path # p
    PROVE  PublishedIn(cs, p) = 0
<1>1. ChunksOfPath(cs, p) = {}
  BY DEF ChunksOfPath
<1>2. QED
  BY <1>1 DEF PublishedIn

\* What is published of a path can be read off any of its chunks.
Shown ==
    \A p \in Path :
        /\ (\A c \in chunks : c.path # p) => Published(p) = 0
        /\ \A c \in chunks : c.path = p => Published(p) = c.gen /\ c.gen \in Version
        /\ Published(p) \in 0..MaxVersion

LEMMA InvShown == IInv => Shown
<1> SUFFICES ASSUME IInv, NEW p \in Path
             PROVE  /\ (\A c \in chunks : c.path # p) => Published(p) = 0
                    /\ \A c \in chunks : c.path = p => Published(p) = c.gen /\ c.gen \in Version
                    /\ Published(p) \in 0..MaxVersion
  BY DEF Shown
<1>1. (\A c \in chunks : c.path # p) => Published(p) = 0
  BY NothingIsPublished DEF Published
<1>2. ASSUME NEW c \in chunks, c.path = p
      PROVE  Published(p) = c.gen /\ c.gen \in Version
  <2>1. c.gen \in Version
    BY DEF IInv, Typed, TypeOK, ChunkRow
  <2>2. /\ \A d \in chunks : d.path = p => d.gen = c.gen /\ d.content \in Pieces[p][c.gen]
        /\ \A t \in Pieces[p][c.gen] : \E d \in chunks : d.path = p /\ d.content = t
    BY <1>2 DEF IInv, Whole
  <2>3. QED
    BY <1>2, <2>1, <2>2, WholeIsPublished DEF Published
<1>3. Published(p) \in 0..MaxVersion
  <2>1. 0 \in 0..MaxVersion /\ \A v \in Version : v \in 0..MaxVersion
    BY ConstantsAssumption DEF Version
  <2>2. CASE \A c \in chunks : c.path # p
    BY <1>1, <2>1, <2>2
  <2>3. CASE \E c \in chunks : c.path = p
    <3>1. PICK c \in chunks : c.path = p
      BY <2>3
    <3>2. Published(p) = c.gen /\ c.gen \in Version
      BY <1>2, <3>1
    <3>3. QED
      BY <2>1, <3>2
  <2>4. QED
    BY <2>2, <2>3
<1>4. QED
  BY <1>1, <1>2, <1>3

LEMMA InvShownNext == IInv' => Shown'
  BY InvShown, PTL

-----------------------------------------------------------------------------
(* The history variable.                                                   *)

\* Nothing published is newer than the file, or than what the handler has read,
\* and what is published is the newest there ever was.
HistoryHolds ==
    /\ newest \in [Path -> 0..MaxVersion]
    /\ \A p \in Path : newest[p] <= disk[p].ver
    /\ \A p \in Path : Published(p) \in {0, newest[p]}
    /\ op = "index" /\ pc \notin {"idle", "stat", "read"} => newest[path] <= content

HInv == IInv /\ HistoryHolds

LEMMA InitHInv == HistoryInit => HInv
<1> SUFFICES ASSUME HistoryInit
             PROVE  HInv
  OBVIOUS
<1>1. IInv /\ Shown
  BY InitIInv, InvShown DEF HistoryInit
<1>2. newest \in [Path -> 0..MaxVersion] /\ \A p \in Path : newest[p] = Published(p)
  BY <1>1 DEF HistoryInit, Shown
<1>3. ASSUME NEW p \in Path
      PROVE  newest[p] <= disk[p].ver
  <2>1. disk[p].ver \in 0..MaxVersion
    BY <1>1 DEF IInv, Typed, TypeOK
  <2>2. CASE \A c \in chunks : c.path # p
    BY <1>1, <1>2, <2>1, <2>2, ConstantsAssumption DEF Shown
  <2>3. CASE \E c \in chunks : c.path = p
    BY <1>1, <1>2, <2>3 DEF Shown, IInv, Anchored
  <2>4. QED
    BY <2>2, <2>3
<1>4. pc = "idle"
  BY DEF HistoryInit, Init
<1>5. QED
  BY <1>1, <1>2, <1>3, <1>4 DEF HInv, HistoryHolds

\* What a step publishes, path by path.
LEMMA PublishedSteps ==
    ASSUME "GetChunksByFile" \notin FaultyCalls, HInv, IInv', Shown', [Next]_vars
    PROVE  \/ \A p \in Path : PublishedIn(chunks', p) = Published(p)
           \/ /\ UNCHANGED disk
              /\ \A p \in Path : PublishedIn(chunks', p) = IF p = path THEN 0 ELSE Published(p)
           \/ /\ UNCHANGED disk
              /\ pc = "saveChunks"
              /\ Published(path) = 0
              /\ \A p \in Path :
                    PublishedIn(chunks', p) = IF p = path THEN content ELSE Published(p)
<1>1. Shown /\ path \in Path
  BY InvShown DEF HInv, IInv, Typed, TypeOK
<1>2. CASE /\ \A c \in chunks' : \E d \in chunks : Same(c, d)
           /\ \A d \in chunks : \E c \in chunks' : Same(c, d)
  <2>1. ASSUME NEW p \in Path
        PROVE  PublishedIn(chunks', p) = Published(p)
    <3>1. CASE \E c \in chunks' : c.path = p
      BY <1>1, <1>2, <3>1 DEF Shown, Same, Published
    <3>2. CASE \A c \in chunks' : c.path # p
      BY <1>1, <1>2, <3>2 DEF Shown, Same, Published
    <3>3. QED
      BY <3>1, <3>2
  <2>2. QED
    BY <2>1
<1>3. CASE UNCHANGED disk /\ chunks' = {c \in chunks : c.path # path}
  <2>1. ASSUME NEW p \in Path
        PROVE  PublishedIn(chunks', p) = IF p = path THEN 0 ELSE Published(p)
    <3>1. CASE p = path
      BY <1>3, <3>1, NothingIsPublished
    <3>2. CASE p # path /\ \E c \in chunks : c.path = p
      BY <1>1, <1>3, <3>2 DEF Shown, Published
    <3>3. CASE p # path /\ \A c \in chunks : c.path # p
      BY <1>1, <1>3, <3>3 DEF Shown, Published
    <3>4. QED
      BY <3>1, <3>2, <3>3
  <2>2. QED
    BY <1>3, <2>1
<1>4. CASE /\ pc = "saveChunks"
           /\ UNCHANGED disk
           /\ \A c \in chunks : c.path # path
           /\ \A c \in chunks : c \in chunks'
           /\ \A c \in chunks' : c \in chunks \/ (c.path = path /\ c.gen = content)
  <2>1. Published(path) = 0
    BY <1>1, <1>4 DEF Shown
  <2>2. ASSUME NEW p \in Path, p # path
        PROVE  PublishedIn(chunks', p) = Published(p)
    <3>1. CASE \E c \in chunks : c.path = p
      BY <1>1, <1>4, <3>1 DEF Shown, Published
    <3>2. CASE \A c \in chunks : c.path # p
      BY <1>1, <1>4, <2>2, <3>2 DEF Shown, Published
    <3>3. QED
      BY <3>1, <3>2
  <2>3. CASE \E c \in chunks' : c.path = path
    <3>1. PublishedIn(chunks', path) = content
      BY <1>1, <1>4, <2>3 DEF Shown, Published
    <3>2. QED
      BY <1>4, <2>1, <2>2, <3>1
  <2>4. CASE \A c \in chunks' : c.path # path
    <3>1. PublishedIn(chunks', path) = 0
      BY <1>1, <2>4, NothingIsPublished
    <3>2. QED
      BY <2>1, <2>2, <3>1
  <2>5. QED
    BY <2>3, <2>4
<1>5. QED
  BY <1>2, <1>3, <1>4, ChunkSteps DEF HInv

\* The handler never works on a text older than what is published.
LEMMA ReadingIsLate ==
    ASSUME HInv, Typed', [Next]_vars, UNCHANGED newest,
           \A p \in Path : disk[p].ver <= disk'[p].ver
    PROVE  op' = "index" /\ pc' \notin {"idle", "stat", "read"} => newest'[path'] <= content'
<1>1. path \in Path
  BY DEF HInv, IInv, Typed, TypeOK
<1>2. CASE ReadAndChunk
  BY <1>1, <1>2 DEF ReadAndChunk, Step, Return, HInv, HistoryHolds
<1>3. CASE \E p \in Path : ApplyChange(p) \/ HandleEvent(p)
  BY <1>3 DEF ApplyChange, HandleEvent, EventOp
<1>4. CASE /\ UNCHANGED <<op, path, content>>
           /\ pc \notin {"idle", "stat", "read"}
  BY <1>4 DEF HInv, HistoryHolds
<1>5. CASE pc' \in {"idle", "stat", "read"}
  BY <1>5
<1>6. CASE UNCHANGED <<op, path, content, pc>>
  BY <1>6 DEF HInv, HistoryHolds
<1>7. QED
  BY <1>2, <1>3, <1>4, <1>5, <1>6
     DEF Next, User, Process, Handler, vars, handlerVars, Edit, Remove, Start, DetectChanges,
         StartWatcher, Kill, Step, Return, AfterRemoval, Stat, Lookup,
         DeleteFromBM25, DeleteFromVector, DeleteFromMetadata, DeleteRow, SaveRow, IndexBM25,
         IndexVector, IndexMetadata, IndexEmbeddings

\* The same of the promise's variables: a step of the coordinator leaves them
\* alone but for the disk, withdraws the handler's path, or publishes on it.
LEMMA PromiseSteps ==
    ASSUME "GetChunksByFile" \notin FaultyCalls, HInv, IInv', Shown',
           [HistoryNext]_historyVars
    PROVE  \/ /\ UNCHANGED newest
              /\ \A p \in Path : PublishedIn(chunks', p) = Published(p)
           \/ /\ UNCHANGED <<disk, newest>>
              /\ \A p \in Path : PublishedIn(chunks', p) = IF p = path THEN 0 ELSE Published(p)
           \/ /\ UNCHANGED disk
              /\ pc = "saveChunks"
              /\ content \in Version
              /\ Published(path) = 0
              /\ newest' = [newest EXCEPT ![path] = content]
              /\ \A p \in Path :
                    PublishedIn(chunks', p) = IF p = path THEN content ELSE Published(p)
<1>1. /\ newest \in [Path -> 0..MaxVersion] /\ path \in Path
      /\ \A p \in Path : Published(p) \in {0, newest[p]}
  BY DEF HInv, HistoryHolds, IInv, Typed, TypeOK
<1>2. CASE UNCHANGED historyVars
  <2>1. UNCHANGED <<chunks, newest>>
    BY <1>2 DEF historyVars, vars
  <2>2. QED
    BY <2>1 DEF Published
<1>3. CASE HistoryNext
  <2> DEFINE now(p) == IF PublishedIn(chunks', p) = 0 THEN newest[p] ELSE PublishedIn(chunks', p)
  <2>1. newest' = [p \in Path |-> now(p)] /\ [Next]_vars
    BY <1>3 DEF HistoryNext
  <2>2. CASE /\ UNCHANGED disk
             /\ pc = "saveChunks"
             /\ Published(path) = 0
             /\ \A p \in Path :
                   PublishedIn(chunks', p) = IF p = path THEN content ELSE Published(p)
    <3>1. content \in Version /\ content # 0
      BY <2>2, NewTyped, ConstantsAssumption DEF HInv, IInv, Version
    <3>2. \A p \in Path : now(p) = IF p = path THEN content ELSE newest[p]
      BY <1>1, <2>2, <3>1
    <3> HIDE DEF now
    <3>3. newest' = [newest EXCEPT ![path] = content]
      BY <1>1, <2>1, <3>2
    <3>4. QED
      BY <2>2, <3>1, <3>3
  <2> HIDE DEF now
  <2>3. \/ \A p \in Path : PublishedIn(chunks', p) = Published(p)
        \/ /\ UNCHANGED disk
           /\ \A p \in Path : PublishedIn(chunks', p) = IF p = path THEN 0 ELSE Published(p)
        \/ /\ UNCHANGED disk
           /\ pc = "saveChunks"
           /\ Published(path) = 0
           /\ \A p \in Path :
                 PublishedIn(chunks', p) = IF p = path THEN content ELSE Published(p)
    BY <2>1, PublishedSteps
  <2>4. CASE \A p \in Path : PublishedIn(chunks', p) = Published(p)
    <3>1. UNCHANGED newest
      <4>1. \A p \in Path : now(p) = newest[p]
        BY <1>1, <2>4 DEF now
      <4>2. QED
        BY <1>1, <2>1, <4>1
    <3>2. QED
      BY <2>4, <3>1
  <2>5. CASE /\ UNCHANGED disk
             /\ \A p \in Path : PublishedIn(chunks', p) = IF p = path THEN 0 ELSE Published(p)
    <3>1. UNCHANGED newest
      <4>1. \A p \in Path : now(p) = newest[p]
        BY <1>1, <2>5 DEF now
      <4>2. QED
        BY <1>1, <2>1, <4>1
    <3>2. QED
      BY <2>5, <3>1
  <2>6. QED
    BY <2>2, <2>3, <2>4, <2>5
<1>4. QED
  BY <1>2, <1>3

LEMMA HInvStep ==
    ASSUME "GetChunksByFile" \notin FaultyCalls, HInv, IInv', Shown',
           [HistoryNext]_historyVars
    PROVE  HInv'
<1>1. /\ Typed /\ Typed' /\ [Next]_vars
      /\ newest \in [Path -> 0..MaxVersion] /\ path \in Path
      /\ \A p \in Path : newest[p] <= disk[p].ver
      /\ \A p \in Path : Published(p) \in {0, newest[p]}
  BY DEF HInv, HistoryHolds, IInv, Typed, TypeOK, HistoryNext, historyVars
<1>2. \A p \in Path : disk[p].ver \in Nat /\ disk'[p].ver \in Nat
                      /\ disk[p].ver <= disk'[p].ver
  BY <1>1, DiskGrows
<1>3. \A p \in Path : newest[p] \in Nat
  BY <1>1, ConstantsAssumption
<1>4. CASE /\ UNCHANGED newest
           /\ \A p \in Path : PublishedIn(chunks', p) \in {0, Published(p)}
  <2>1. \A p \in Path : newest'[p] <= disk'[p].ver
    BY <1>1, <1>2, <1>3, <1>4
  <2>2. \A p \in Path : Published(p)' \in {0, newest'[p]}
    BY <1>1, <1>4 DEF Published
  <2>3. op' = "index" /\ pc' \notin {"idle", "stat", "read"} => newest'[path'] <= content'
    BY <1>1, <1>2, <1>4, ReadingIsLate
  <2>4. QED
    BY <1>1, <1>4, <2>1, <2>2, <2>3 DEF HInv, HistoryHolds
<1>5. CASE /\ UNCHANGED disk
           /\ pc = "saveChunks"
           /\ content \in Version
           /\ newest' = [newest EXCEPT ![path] = content]
           /\ \A p \in Path :
                 PublishedIn(chunks', p) = IF p = path THEN content ELSE Published(p)
  <2>1. content \in 0..MaxVersion /\ content <= disk[path].ver
    BY <1>1, <1>5, ConstantsAssumption DEF Typed, ReadInOrder, Version
  <2>2. /\ newest' \in [Path -> 0..MaxVersion]
        /\ \A p \in Path : newest'[p] = IF p = path THEN content ELSE newest[p]
    BY <1>1, <1>5, <2>1
  <2>3. \A p \in Path : newest'[p] <= disk'[p].ver
    BY <1>1, <1>5, <2>1, <2>2
  <2>4. \A p \in Path : Published(p)' \in {0, newest'[p]}
    BY <1>1, <1>5, <2>2 DEF Published
  <2>5. pc' = "idle" \/ (path' = path /\ content' = content)
    BY <1>1, <1>5
       DEF Next, User, Process, Handler, vars, handlerVars, Edit, Remove, Start,
           DetectChanges, StartWatcher, ApplyChange, HandleEvent, Kill, Step, Return, Stat,
           ReadAndChunk, Lookup, DeleteFromBM25, DeleteFromVector, DeleteFromMetadata,
           DeleteRow, SaveRow, IndexBM25, IndexVector, IndexMetadata, IndexEmbeddings
  <2>6. op' = "index" /\ pc' \notin {"idle", "stat", "read"} => newest'[path'] <= content'
    <3>1. CASE pc' = "idle"
      BY <3>1
    <3>2. CASE path' = path /\ content' = content
      <4>1. newest'[path'] = content' /\ content \in Nat
        BY <1>1, <2>1, <2>2, <3>2, ConstantsAssumption
      <4>2. QED
        BY <3>2, <4>1
    <3>3. QED
      BY <2>5, <3>1, <3>2
  <2>7. QED
    BY <2>2, <2>3, <2>4, <2>6 DEF HInv, HistoryHolds
<1>6. QED
  BY <1>4, <1>5, PromiseSteps

-----------------------------------------------------------------------------
(* The refinement.                                                         *)

LEMMA InitPromise == HistoryInit => Promise!Init
<1> SUFFICES ASSUME HistoryInit
             PROVE  Promise!Init
  OBVIOUS
<1>1. HInv /\ \A p \in Path : disk[p].ver \in 0..1
  <2>1. \E indexed \in SUBSET Path :
          disk = [p \in Path |-> IF p \in indexed THEN [ver |-> 1, exists |-> TRUE]
                                                  ELSE [ver |-> 0, exists |-> FALSE]]
    BY DEF HistoryInit, Init
  <2>2. \A p \in Path : disk[p].ver \in 0..1
    BY <2>1
  <2>3. QED
    BY <2>2, InitHInv
<1>2. newest = [p \in Path |-> Published(p)]
  BY DEF HistoryInit
<1>3. \A p \in Path : Published(p) \in 0..1 /\ Published(p) <= disk[p].ver
  <2> TAKE p \in Path
  <2>1. newest[p] \in Nat /\ newest[p] <= disk[p].ver /\ newest[p] = Published(p)
    BY <1>1, <1>2, ConstantsAssumption DEF HInv, HistoryHolds
  <2>2. QED
    BY <1>1, <2>1
<1>4. QED
  BY <1>1, <1>2, <1>3 DEF Promise!Init

LEMMA PromiseNext ==
    ASSUME "GetChunksByFile" \notin FaultyCalls, HInv, IInv', Shown',
           [HistoryNext]_historyVars
    PROVE  [Promise!Next]_(Promise!vars)
<1> DEFINE version == [p \in Path |-> disk[p].ver]
           text    == [p \in Path |-> Published(p)]
<1>1. /\ Typed /\ [Next]_vars /\ path \in Path
      /\ newest \in [Path -> 0..MaxVersion]
      /\ disk \in [Path -> [ver : 0..MaxVersion, exists : BOOLEAN]]
  BY DEF HInv, HistoryHolds, IInv, Typed, TypeOK, HistoryNext, historyVars
<1>2. CASE /\ UNCHANGED newest
           /\ \A p \in Path : PublishedIn(chunks', p) = Published(p)
  <2>1. UNCHANGED text
    BY <1>2 DEF Published
  <2>2. CASE \E p \in Path : Edit(p)
    <3>1. PICK p \in Path : Edit(p)
      BY <2>2
    <3>2. /\ disk[p].ver < MaxVersion
          /\ disk' = [disk EXCEPT ![p] = [ver |-> disk[p].ver + 1, exists |-> TRUE]]
      BY <1>1, <3>1 DEF Edit
    <3>3. \A q \in Path : disk'[q].ver = IF q = p THEN disk[p].ver + 1 ELSE disk[q].ver
      BY <1>1, <3>2
    <3>4. version' = [version EXCEPT ![p] = version[p] + 1]
      BY <3>3
    <3>5. Promise!Edit(p)
      BY <1>2, <2>1, <3>2, <3>4 DEF Promise!Edit
    <3>6. QED
      BY <3>5 DEF Promise!Next
  <2>3. CASE \A p \in Path : ~Edit(p)
    <3>1. UNCHANGED disk \/ \E p \in Path : Remove(p)
      BY <1>1, <2>3
         DEF Next, User, Process, Handler, vars, Start, DetectChanges, StartWatcher,
             ApplyChange, HandleEvent, Kill, Step, Stat, ReadAndChunk, Lookup,
             DeleteFromBM25, DeleteFromVector, DeleteFromMetadata, DeleteRow, SaveRow,
             IndexBM25, IndexVector, IndexMetadata, IndexEmbeddings
    <3>2. \A q \in Path : disk'[q].ver = disk[q].ver
      BY <1>1, <3>1 DEF Remove
    <3>3. UNCHANGED version
      BY <3>2
    <3>4. QED
      BY <1>2, <2>1, <3>3 DEF Promise!vars
  <2>4. QED
    BY <2>2, <2>3
<1>3. CASE /\ UNCHANGED <<disk, newest>>
           /\ \A p \in Path : PublishedIn(chunks', p) = IF p = path THEN 0 ELSE Published(p)
  <2>1. text' = [text EXCEPT ![path] = 0]
    BY <1>3 DEF Published
  <2>2. CASE Published(path) # 0
    <3>1. Promise!Withdraw(path)
      BY <1>1, <1>3, <2>1, <2>2 DEF Promise!Withdraw
    <3>2. QED
      BY <1>1, <3>1 DEF Promise!Next
  <2>3. CASE Published(path) = 0
    <3>1. UNCHANGED text
      BY <1>1, <2>1, <2>3
    <3>2. QED
      BY <1>3, <3>1 DEF Promise!vars
  <2>4. QED
    BY <2>2, <2>3
<1>4. CASE /\ UNCHANGED disk
           /\ pc = "saveChunks"
           /\ content \in Version
           /\ Published(path) = 0
           /\ newest' = [newest EXCEPT ![path] = content]
           /\ \A p \in Path :
                 PublishedIn(chunks', p) = IF p = path THEN content ELSE Published(p)
  <2>1. text' = [text EXCEPT ![path] = content]
    BY <1>4 DEF Published
  <2>2. op = "index" /\ content <= disk[path].ver
    BY <1>1, <1>4 DEF Typed, ReadInOrder
  <2>3. newest[path] <= content
    BY <1>4, <2>2 DEF HInv, HistoryHolds
  <2>4. Promise!Publish(path, content)
    BY <1>1, <1>4, <2>1, <2>2, <2>3 DEF Promise!Publish
  <2>5. QED
    BY <1>1, <1>4, <2>4 DEF Promise!Next, Version
<1>5. QED
  BY <1>2, <1>3, <1>4, PromiseSteps

\* As long as the query for a file's chunks does not fail, the coordinator keeps
\* the promise for every set of files, versions, texts, kills and other faults.
THEOREM PromiseKept ==
    ASSUME "GetChunksByFile" \notin FaultyCalls
    PROVE  HistorySpec => KeepsPromise
<1>1. HInv /\ [HistoryNext]_historyVars => HInv'
  <2>1. HInv /\ [HistoryNext]_historyVars => IInv /\ [Next]_vars
    BY DEF HInv, HistoryNext, historyVars
  <2>2. HInv /\ [HistoryNext]_historyVars => IInv' /\ Shown'
    BY <2>1, IInvStep, InvShownNext
  <2>3. QED
    BY <2>2, HInvStep
<1>2. HInv /\ [HistoryNext]_historyVars => [Promise!Next]_(Promise!vars)
  <2>1. HInv /\ [HistoryNext]_historyVars => IInv /\ [Next]_vars
    BY DEF HInv, HistoryNext, historyVars
  <2>2. HInv /\ [HistoryNext]_historyVars => IInv' /\ Shown'
    BY <2>1, IInvStep, InvShownNext
  <2>3. QED
    BY <2>2, PromiseNext
<1>3. QED
  BY <1>1, <1>2, InitHInv, InitPromise, PTL DEF HistorySpec, KeepsPromise, Promise!Spec

-----------------------------------------------------------------------------
(* The consistency checker, when nothing else writes.  What it deletes is   *)
(* what it read and has no chunk with an embedding; that is nobody's entry  *)
(* as long as every chunk row has its embedding, but for those a handler    *)
(* has just saved.                                                         *)

\* Chunk rows have their embeddings once the handler that saved them has returned.
Embedded ==
    \A c \in chunks : c.emb # NoModel \/ (pc = "saveEmbeddings" /\ ID(c) \in IDs(New))

\* No handler runs beside the checker, and none is left in a process that is down.
CheckerIsAlone ==
    /\ check # "off" => pc = "idle" /\ phase # "down"
    /\ check = "quick" => phase = "starting"
    /\ phase = "down" => pc = "idle"

\* What it has read is what the stores hold.
SeenIsSo ==
    /\ check \in {"readBM25", "readVector", "repairBM25", "repairVector"} => seenMetadata = EmbeddedIDs(chunks)
    /\ check \in {"readVector", "repairBM25"} => seenBM25 \in {bm25, {}}
    /\ check \in {"repairBM25", "repairVector"} => seenVector = vector

CheckInv ==
    /\ Typed /\ CheckerIsAlone /\ SeenIsSo
    /\ "SaveChunkEmbeddings" \notin FaultyCalls => Embedded

\* A call of the coordinator leaves embedded what was: rows are saved without, unless
\* their ID had one, and their embeddings follow in the same handler.
LEMMA EmbeddedStep ==
    ASSUME "SaveChunkEmbeddings" \notin FaultyCalls, Typed, Embedded, [Next /\ CleanStop]_vars
    PROVE  Embedded'
<1>1. chunks \subseteq ChunkRow /\ ServeModel \in Model /\ NoModel \notin Model
  BY ServeAssumption, ConstantsAssumption DEF Typed, TypeOK
<1>2. ASSUME chunks' \subseteq chunks, pc # "saveEmbeddings" \/ UNCHANGED <<pc, path, content>>
      PROVE  Embedded'
  BY <1>2 DEF Embedded, New
<1>3. CASE User \/ Start \/ DetectChanges \/ StartWatcher \/ UNCHANGED vars
  <2>1. UNCHANGED <<chunks, pc, path, content>>
    BY <1>3 DEF User, Edit, Remove, Start, DetectChanges, StartWatcher, vars,
                storeVars, handlerVars
  <2>2. QED
    BY <1>2, <2>1
<1>4. CASE Kill /\ CleanStop
  <2>1. UNCHANGED chunks /\ pc = "idle"
    BY <1>4 DEF Kill, CleanStop
  <2>2. QED
    BY <1>2, <2>1
<1>5. CASE (\E p \in Path : ApplyChange(p) \/ HandleEvent(p)) \/ Stat \/ ReadAndChunk \/ Lookup
           \/ DeleteFromBM25 \/ DeleteFromVector \/ IndexBM25 \/ IndexVector
  <2>1. UNCHANGED chunks /\ pc # "saveEmbeddings"
    BY <1>5 DEF ApplyChange, HandleEvent, Stat, ReadAndChunk, Lookup, DeleteFromBM25,
                DeleteFromVector, IndexBM25, IndexVector, Step, storeVars
  <2>2. QED
    BY <1>2, <2>1
<1>6. CASE DeleteFromMetadata \/ DeleteRow \/ SaveRow
  <2>1. chunks' \subseteq chunks /\ pc # "saveEmbeddings"
    BY <1>6 DEF DeleteFromMetadata, DeleteRow, SaveRow, DeleteChunks, CascadeDrop, CascadeSave, Step
  <2>2. QED
    BY <1>2, <2>1
<1>7. CASE IndexMetadata
  <2>1. /\ pc = "saveChunks" /\ New \subseteq ChunkRow
        /\ \/ UNCHANGED chunks
           \/ chunks' = SaveChunks(chunks, New) /\ pc' = "saveEmbeddings" /\ UNCHANGED <<path, content>>
    BY <1>7, NewTyped DEF IndexMetadata, Step, Typed
  <2>2. CASE chunks' = SaveChunks(chunks, New) /\ pc' = "saveEmbeddings" /\ UNCHANGED <<path, content>>
    <3>1. \A c \in chunks' : c \in chunks \/ \E n \in New : Same(c, n)
      BY <1>1, <2>1, <2>2, SaveChunksRows
    <3>2. \A c \in chunks' : c \in chunks \/ ID(c) \in IDs(New)
      BY <3>1, SameID DEF IDs
    <3>3. \A c \in chunks : c.emb # NoModel
      BY <2>1 DEF Embedded
    <3>4. IDs(New)' = IDs(New)
      BY <2>2 DEF New
    <3>5. QED
      BY <2>2, <3>2, <3>3, <3>4 DEF Embedded
  <2>3. QED
    BY <1>2, <2>1, <2>2
<1>8. CASE IndexEmbeddings
  <2>1. chunks' = SaveEmbeddings(chunks, IDs(New), ServeModel) /\ pc = "saveEmbeddings"
    BY <1>8 DEF IndexEmbeddings, Step, Fails
  <2>2. ASSUME NEW c \in chunks'
        PROVE  c.emb # NoModel
    <3>1. PICK d \in chunks : c = IF ID(d) \in IDs(New) THEN [d EXCEPT !.emb = ServeModel] ELSE d
      BY <2>1 DEF SaveEmbeddings
    <3>2. CASE ID(d) \in IDs(New)
      <4>1. c.emb = ServeModel
        BY <1>1, <3>1, <3>2 DEF ChunkRow
      <4>2. QED
        BY <1>1, <4>1
    <3>3. CASE ID(d) \notin IDs(New)
      BY <3>1, <3>3 DEF Embedded
    <3>4. QED
      BY <3>2, <3>3
  <2>3. QED
    BY <2>2 DEF Embedded
<1>9. QED
  BY <1>3, <1>4, <1>5, <1>6, <1>7, <1>8 DEF Next, Process, Handler

\* Of the checker's steps; the coordinator's are steps of Next.
LEMMA CheckSteps ==
    ASSUME CheckNext
    PROVE  \/ /\ Next
              /\ \/ StartChecked \/ KillChecked
                 \/ /\ UNCHANGED checkVars
                    /\ \/ User \/ StartWatcher \/ Handler \/ \E p \in Path : ApplyChange(p) \/ HandleEvent(p)
                       \/ check # "quick" /\ DetectChanges
           \/ /\ Checker /\ UNCHANGED <<disk, rows, chunks, indexModel, vectorFile, phase, pending, todo,
                                        handlerVars, kills>>
              /\ bm25' \subseteq bm25 /\ vector' \subseteq vector
              /\ faults' = faults \/ (faults < MaxFaults /\ faults' = faults + 1)
<1>1. StartChecked \/ KillChecked => Next
  BY DEF StartChecked, KillChecked, Next, Process
<1>2. CASE Others
  BY <1>2 DEF Others, Next, Process
<1>3. CASE Checker
  <2>1. UNCHANGED <<disk, rows, chunks, indexModel, vectorFile, phase, pending, todo, handlerVars, kills>>
    BY <1>3 DEF Checker, QuickCheck, ReadMetadata, ReadBM25, ReadVector, RepairBM25, RepairVector,
                Reads, storeVars, handlerVars
  <2>2. bm25' \subseteq bm25 /\ vector' \subseteq vector
    BY <1>3 DEF Checker, QuickCheck, ReadMetadata, ReadBM25, ReadVector, RepairBM25, RepairVector,
                Reads, storeVars, Orphans
  <2>3. faults' = faults \/ (faults < MaxFaults /\ faults' = faults + 1)
    BY <1>3 DEF Checker, QuickCheck, ReadMetadata, ReadBM25, ReadVector, RepairBM25, RepairVector,
                Reads, Succeeds, Fails
  <2>4. QED
    BY <1>3, <2>1, <2>2, <2>3
<1>4. QED
  BY <1>1, <1>2, <1>3 DEF CheckNext

LEMMA CheckInvStep ==
    ASSUME CheckInv, [CheckNext /\ Alone]_allVars
    PROVE  CheckInv'
<1> DEFINE Saved == "SaveChunkEmbeddings" \notin FaultyCalls
<1>1. Typed /\ (Saved => Embedded) /\ CheckerIsAlone /\ SeenIsSo
  BY DEF CheckInv
<1>2. CASE UNCHANGED allVars
  <2>1. UNCHANGED vars /\ UNCHANGED checkVars
    BY <1>2 DEF allVars
  <2>2. Typed' /\ (Saved => Embedded')
    BY <1>1, <2>1, TypedStep, EmbeddedStep
  <2>3. CheckerIsAlone' /\ SeenIsSo'
    BY <1>1, <2>1 DEF vars, checkVars, CheckerIsAlone, SeenIsSo
  <2>4. QED
    BY <2>2, <2>3 DEF CheckInv
<1>3. CASE Next /\ Alone /\ (StartChecked \/ KillChecked)
  <2>1. Typed' /\ (Saved => Embedded')
    BY <1>1, <1>3, TypedStep, EmbeddedStep DEF Alone, CleanStop
  <2>2. CheckerIsAlone' /\ SeenIsSo'
    BY <1>1, <1>3 DEF StartChecked, KillChecked, Start, Kill, handlerVars, CheckerIsAlone, SeenIsSo
  <2>3. QED
    BY <2>1, <2>2 DEF CheckInv
<1>4. CASE /\ Next /\ Alone /\ UNCHANGED checkVars
           /\ \/ User \/ StartWatcher \/ Handler \/ \E p \in Path : ApplyChange(p) \/ HandleEvent(p)
              \/ check # "quick" /\ DetectChanges
  <2>1. Typed' /\ (Saved => Embedded')
    BY <1>1, <1>4, TypedStep, EmbeddedStep DEF Alone, CleanStop
  <2>2. /\ StartWatcher \/ DetectChanges => phase' # phase /\ phase' # "down" /\ UNCHANGED pc
        /\ User => UNCHANGED <<phase, pc, storeVars>>
        /\ Handler => pc # "idle" /\ UNCHANGED phase
        /\ \A p \in Path : ApplyChange(p) \/ HandleEvent(p) => phase \notin {"down", "starting"} /\ pc' # pc /\ UNCHANGED phase
    BY DEF StartWatcher, DetectChanges, User, Edit, Remove, Handler, ApplyChange, HandleEvent, Stat, ReadAndChunk,
           Lookup, DeleteFromBM25, DeleteFromVector, DeleteFromMetadata, DeleteRow, SaveRow, IndexBM25, IndexVector,
           IndexMetadata, IndexEmbeddings, Step, handlerVars, EventOp
  <2>3. check # "off" => UNCHANGED <<phase, pc, storeVars>>
    <3>1. CASE User
      BY <2>2, <3>1
    <3>2. CASE Handler
      BY <1>1, <2>2, <3>2 DEF CheckerIsAlone
    <3>3. CASE StartWatcher \/ DetectChanges
      BY <1>1, <1>4, <2>2, <3>3 DEF CheckerIsAlone, Alone, StartWatcher
    <3>4. CASE \E p \in Path : ApplyChange(p) \/ HandleEvent(p)
      BY <1>1, <1>4, <2>2, <3>4 DEF CheckerIsAlone, Alone
    <3>5. QED
      BY <1>4, <3>1, <3>2, <3>3, <3>4
  <2>4. phase = "down" => UNCHANGED <<phase, pc>>
    BY <1>1, <1>4, <2>2 DEF CheckerIsAlone, StartWatcher, DetectChanges
  <2>5. phase' = "down" => phase = "down"
    BY <1>4, <2>2
  <2>6. CheckerIsAlone' /\ SeenIsSo'
    BY <1>1, <1>4, <2>3, <2>4, <2>5 DEF CheckerIsAlone, SeenIsSo, checkVars, storeVars
  <2>7. QED
    BY <2>1, <2>6 DEF CheckInv
<1>5. CASE /\ Checker
           /\ UNCHANGED <<disk, rows, chunks, indexModel, vectorFile, phase, pending, todo, handlerVars, kills>>
           /\ bm25' \subseteq bm25 /\ vector' \subseteq vector
           /\ faults' = faults \/ (faults < MaxFaults /\ faults' = faults + 1)
  <2>1. faults' \in 0..MaxFaults
    BY <1>1, <1>5, ServeAssumption DEF Typed, TypeOK
  <2>2. Typed'
    BY <1>1, <1>5, <2>1 DEF Typed, TypeOK, ReadInOrder, handlerVars
  <2>3. (Saved => Embedded')
    BY <1>1, <1>5 DEF Embedded, New, handlerVars
  <2>4. CheckerIsAlone' /\ SeenIsSo'
    BY <1>1, <1>5 DEF CheckerIsAlone, SeenIsSo, handlerVars, Checker, QuickCheck, ReadMetadata, ReadBM25,
       ReadVector, RepairBM25, RepairVector, Reads, storeVars, Forget, Succeeds
  <2>5. QED
    BY <2>2, <2>3, <2>4 DEF CheckInv
<1>6. QED
  BY <1>2, <1>3, <1>4, <1>5, CheckSteps

LEMMA InitCheckInv == CheckInit => CheckInv
<1> SUFFICES ASSUME CheckInit PROVE CheckInv
  OBVIOUS
<1>1. Typed /\ pc = "idle" /\ phase = "down" /\ check = "off"
  BY InitTyped DEF CheckInit, Init
<1>2. PICK indexed \in SUBSET {p \in Path : Kind[p][1] = "code"}, m \in Model :
        chunks = LET built == UNION {NewChunks("runner", p, 1) : p \in indexed} IN SaveEmbeddings(built, IDs(built), m)
  BY DEF CheckInit, Init
<1> DEFINE built == UNION {NewChunks("runner", p, 1) : p \in indexed}
<1>3. chunks = SaveEmbeddings(built, IDs(built), m)
  BY <1>2
<1>4. built \subseteq ChunkRow
  <2>1. 1 \in Version /\ "runner" \in Owner
    BY ConstantsAssumption DEF Version, Owner
  <2>2. QED
    BY <2>1, NewChunksRows
<1> HIDE DEF built
<1>5. ASSUME NEW c \in chunks
      PROVE  c.emb # NoModel
  <2>1. PICK d \in built : c = IF ID(d) \in IDs(built) THEN [d EXCEPT !.emb = m] ELSE d
    BY <1>3 DEF SaveEmbeddings
  <2>2. c = [d EXCEPT !.emb = m]
    BY <2>1 DEF IDs
  <2>3. c.emb = m
    BY <1>4, <2>2 DEF ChunkRow
  <2>4. QED
    BY <2>3, ConstantsAssumption
<1>6. Embedded
  BY <1>5 DEF Embedded
<1>7. QED
  BY <1>1, <1>6 DEF CheckInv, CheckerIsAlone, SeenIsSo

\* When no handler is at work, the chunks with an embedding are all there are.
LEMMA AllEmbedded ==
    ASSUME "SaveChunkEmbeddings" \notin FaultyCalls, CheckInv, check # "off"
    PROVE  EmbeddedIDs(chunks) = IDs(chunks)
<1>1. \A c \in chunks : c.emb # NoModel
  BY DEF CheckInv, CheckerIsAlone, Embedded
<1>2. QED
  BY <1>1 DEF EmbeddedIDs

\* As long as embeddings are saved when they should be, what the checker deletes from
\* BM25 or from the vector store is the ID of no chunk row (ConsistencyChecker.Repair).
THEOREM RepairKeeps ==
    ASSUME "SaveChunkEmbeddings" \notin FaultyCalls
    PROVE  AloneSpec => RepairKeepsLiveEntries
<1>1. CheckInv /\ [CheckNext /\ Alone]_allVars => CheckInv'
  BY CheckInvStep
<1>2. CheckInv => [Checker => /\ (bm25 \ bm25') \cap IDs(chunks) = {}
                              /\ (vector \ vector') \cap IDs(chunks) = {}]_allVars
  <2> SUFFICES ASSUME CheckInv, Checker
               PROVE  /\ (bm25 \ bm25') \cap IDs(chunks) = {}
                      /\ (vector \ vector') \cap IDs(chunks) = {}
    OBVIOUS
  <2>1. CASE RepairBM25
    <3>1. seenMetadata = IDs(chunks) /\ UNCHANGED vector
      BY <2>1, AllEmbedded DEF CheckInv, SeenIsSo, RepairBM25
    <3>2. QED
      BY <2>1, <3>1 DEF RepairBM25, Orphans
  <2>2. CASE RepairVector
    <3>1. seenMetadata = IDs(chunks) /\ UNCHANGED bm25
      BY <2>2, AllEmbedded DEF CheckInv, SeenIsSo, RepairVector
    <3>2. QED
      BY <2>2, <3>1 DEF RepairVector, Orphans
  <2>3. CASE QuickCheck \/ ReadMetadata \/ ReadBM25 \/ ReadVector
    BY <2>3 DEF QuickCheck, ReadMetadata, ReadBM25, ReadVector, Reads, storeVars
  <2>4. QED
    BY <2>1, <2>2, <2>3 DEF Checker
<1>3. QED
  BY <1>1, <1>2, InitCheckInv, PTL DEF AloneSpec, RepairKeepsLiveEntries

\* After a repair every entry of BM25, if it could be read, and of the vector store
\* belongs to a chunk row (ConsistencyChecker.Check and Repair).
THEOREM RepairRemoves == AloneSpec => RepairRemovesOrphans
<1> DEFINE Clean == /\ RepairBM25 /\ seenBM25 # {} /\ faults' = faults => bm25' \subseteq IDs(chunks)
                    /\ check = "repairVector" /\ check' = "off" /\ phase' # "down"
                          => vector' \subseteq IDs(chunks)
<1>1. CheckInv /\ [CheckNext /\ Alone]_allVars => CheckInv'
  BY CheckInvStep
<1>2. CheckInv /\ [CheckNext /\ Alone]_allVars => [Clean]_allVars
  <2> SUFFICES ASSUME CheckInv, CheckNext
               PROVE  Clean
    BY DEF Clean
  <2>1. ASSUME RepairBM25, seenBM25 # {}, faults' = faults
        PROVE  bm25' \subseteq IDs(chunks)
    <3>1. seenMetadata \subseteq IDs(chunks) /\ seenBM25 = bm25
      BY <2>1 DEF CheckInv, SeenIsSo, RepairBM25, EmbeddedIDs, IDs
    <3>2. faults \in Nat
      BY ServeAssumption DEF CheckInv, Typed, TypeOK
    <3>3. bm25' = bm25 \ Orphans(seenBM25)
      BY <2>1, <3>2 DEF RepairBM25, Fails
    <3>4. QED
      BY <3>1, <3>3 DEF Orphans
  <2>2. ASSUME check = "repairVector", check' = "off", phase' # "down"
        PROVE  vector' \subseteq IDs(chunks)
    <3>1. seenMetadata \subseteq IDs(chunks) /\ seenVector = vector /\ phase # "down"
      BY <2>2 DEF CheckInv, SeenIsSo, CheckerIsAlone, EmbeddedIDs, IDs
    <3>2. RepairVector
      BY <2>2, <3>1 DEF CheckNext, StartChecked, Start, KillChecked, Kill, Others, checkVars, Checker,
                        QuickCheck, ReadMetadata, ReadBM25, ReadVector, RepairBM25
    <3>3. QED
      BY <3>1, <3>2 DEF RepairVector, Orphans
  <2>3. QED
    BY <2>1, <2>2 DEF Clean
<1>3. QED
  BY <1>1, <1>2, InitCheckInv, PTL DEF AloneSpec, RepairRemovesOrphans

=============================================================================
