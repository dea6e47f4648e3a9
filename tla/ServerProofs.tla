---------------------------- MODULE ServerProofs ----------------------------
(***************************************************************************)
(* What the daemon relies on in the files it leaves behind, the vector     *)
(* file (VectorFile), and its socket and PID file (DaemonProcess); the     *)
(* stores and compactions of the daemon that serves (Daemon); and what the *)
(* index holds once .gitignore files were edited (IgnoreSync).             *)
(***************************************************************************)
EXTENDS Daemon, VectorFile, DaemonProcess, IgnoreSync, Chunking, FiniteSetTheorems, SequenceTheorems,
        WellFoundedInduction, TLAPS

-----------------------------------------------------------------------------
(***************************************************************************)
(* Two renames and a map of keys.  Below nextKey every key was given once, *)
(* and no node of the graph is removed or replaced, so that what an id     *)
(* reads is what was last given for it; the files say what the last Save   *)
(* had from its second rename to the first rename of the next one.         *)
(***************************************************************************)

\* Keys in use are below nextKey.
KeysBelow(ids, next) == \A id \in VectorId : ids[id] # NoKey => ids[id] < next

\* The strengthening of VectorsAreTheirs.
FilesInv ==
    /\ VectorFileTypeOK
    /\ nextKey <= added
    /\ KeysBelow(idMap, nextKey)
    /\ storeAt = "saving" => graphFile = graph
    /\ metaFile # NoFile =>
          /\ graphFile # NoFile
          /\ metaFile.nextKey <= added
          /\ KeysBelow(metaFile.idMap, metaFile.nextKey)
    /\ VectorsAreTheirs

\* What the files say depends on the files only.
LEMMA SameFiles ==
    ASSUME UNCHANGED <<graphFile, metaFile, lastSave>>  PROVE FilesAreLastSave' = FilesAreLastSave
  BY DEF FilesAreLastSave, VectorsOf

\* A new process knows of no vector and no file.
LEMMA FilesInit == VectorFileInit => FilesInv
<1> SUFFICES ASSUME VectorFileInit  PROVE FilesInv
  OBVIOUS
<1> USE VectorAssumption DEF VectorFileInit
<1>1. VectorFileTypeOK
  <2>1. graph \in SavedGraph /\ 0 \in VectorKey /\ 0 \in 0..MaxVectors
    BY DEF SavedGraph, VectorKey
  <2>2. idMap \in [VectorId -> VectorKey \cup {NoKey}] /\ keyMap \in [VectorKey -> VectorId \cup {NoVector}]
    OBVIOUS
  <2>3. given \in [VectorId -> Vector \cup {NoVector}] /\ lastSave \in [VectorId -> Vector \cup {NoVector}]
    BY DEF NoVectors
  <2> QED
    BY <2>1, <2>2, <2>3 DEF VectorFileTypeOK
<1>2. VectorsOf(graph, idMap) = given
  BY DEF VectorsOf, NoVectors
<1>3. FilesAreLastSave
  BY DEF FilesAreLastSave
<1> QED
  BY <1>1, <1>2, <1>3 DEF FilesInv, KeysBelow, VectorsAreTheirs

\* Add takes a fresh key: no other id reads the new node.
LEMMA FilesAdd ==
    ASSUME FilesInv, NEW id \in VectorId, AddVector(id)  PROVE FilesInv'
<1> USE VectorAssumption DEF FilesInv, AddVector, InUse, VectorKey, Vector, KeysBelow, SavedGraph
<1>1. nextKey \in VectorKey /\ nextKey + 1 \in VectorKey /\ added + 1 \in Vector
  BY DEF VectorFileTypeOK
<1>2. VectorFileTypeOK'
  BY <1>1 DEF VectorFileTypeOK
<1>3. nextKey' <= added' /\ KeysBelow(idMap, nextKey)'
  BY <1>1 DEF VectorFileTypeOK
<1>4. ASSUME metaFile # NoFile  PROVE metaFile.nextKey <= added'
  BY <1>1, <1>4 DEF VectorFileTypeOK, SavedIDs
<1>5. VectorsOf(graph, idMap) = given => VectorsOf(graph, idMap)' = given'
  <2> SUFFICES ASSUME VectorsOf(graph, idMap) = given, NEW i \in VectorId
               PROVE  VectorsOf(graph, idMap)'[i] = given'[i]
    BY DEF VectorsOf, VectorFileTypeOK
  <2>1. CASE i = id
    <3>1. idMap'[i] = nextKey /\ graph'[nextKey] = added + 1 /\ given'[i] = added + 1 /\ nextKey # NoKey
      BY <1>1, <2>1 DEF VectorFileTypeOK
    <3> QED
      BY <3>1 DEF VectorsOf
  <2>2. CASE i # id
    <3>1. idMap'[i] = idMap[i] /\ given'[i] = given[i] /\ (idMap[i] # NoKey => graph'[idMap[i]] = graph[idMap[i]])
      BY <1>1, <2>2 DEF VectorFileTypeOK
    <3> QED
      BY <3>1 DEF VectorsOf
  <2> QED
    BY <2>1, <2>2
<1>6. VectorsAreTheirs'
  BY <1>5, SameFiles DEF VectorsAreTheirs
<1> QED
  BY <1>2, <1>3, <1>4, <1>6

\* Delete touches the two maps only.
LEMMA FilesDelete ==
    ASSUME FilesInv, NEW id \in VectorId, DeleteVector(id)  PROVE FilesInv'
<1> USE VectorAssumption DEF FilesInv, DeleteVector, InUse, ForgetID, VectorKey, KeysBelow
<1>1. VectorFileTypeOK'
  BY DEF VectorFileTypeOK
<1>2. KeysBelow(idMap, nextKey)'
  BY DEF VectorFileTypeOK
<1>3. VectorsOf(graph, idMap) = given => VectorsOf(graph, idMap)' = given'
  BY DEF VectorsOf, VectorFileTypeOK
<1>4. VectorsAreTheirs'
  BY <1>3, SameFiles DEF VectorsAreTheirs
<1> QED
  BY <1>1, <1>2, <1>4

\* The first rename: nothing is said of the files until the second.
LEMMA FilesSaveGraph ==
    ASSUME FilesInv, SaveGraph  PROVE FilesInv'
<1> USE VectorAssumption DEF FilesInv, SaveGraph, memoryVars
<1>1. VectorFileTypeOK' /\ graphFile' # NoFile
  BY DEF VectorFileTypeOK
<1>2. VectorsAreTheirs'
  BY DEF VectorsAreTheirs, VectorsOf
<1> QED
  BY <1>1, <1>2 DEF KeysBelow

\* The second rename: both files are of this store.
LEMMA FilesSaveMetadata ==
    ASSUME FilesInv, SaveMetadata  PROVE FilesInv'
<1> USE VectorAssumption DEF FilesInv, SaveMetadata, memoryVars
<1>1. metaFile' \in SavedIDs /\ metaFile'.nextKey = nextKey' /\ metaFile'.idMap = idMap'
  BY DEF VectorFileTypeOK, SavedIDs
<1>2. VectorFileTypeOK'
  BY <1>1 DEF VectorFileTypeOK
<1>3. graphFile' # NoFile /\ graphFile' = graph' /\ metaFile' # NoFile
  BY <1>1 DEF VectorFileTypeOK
<1>4. VectorsOf(graph, idMap)' = given' /\ lastSave' = given'
  BY DEF VectorsAreTheirs, VectorsOf
<1>5. FilesAreLastSave'
  BY <1>1, <1>3, <1>4 DEF FilesAreLastSave, VectorsOf
<1> QED
  BY <1>1, <1>2, <1>3, <1>4, <1>5 DEF KeysBelow, VectorsAreTheirs

\* Load takes graph and ids from the files as they are.
LEMMA FilesLoad ==
    ASSUME FilesInv, LoadVectors  PROVE FilesInv'
<1> USE VectorAssumption DEF FilesInv, LoadVectors, LoadMetadata
<1>1. metaFile \in SavedIDs /\ graphFile \in SavedGraph
  BY DEF VectorFileTypeOK
<1>2. keyMap' \in [VectorKey -> VectorId \cup {NoVector}]
  OBVIOUS
<1>3. VectorFileTypeOK'
  BY <1>1, <1>2 DEF VectorFileTypeOK, SavedIDs
<1>4. storeAt' # "mixed" => VectorsOf(graph, idMap)' = given'
  BY DEF VectorsAreTheirs, FilesAreLastSave, VectorsOf
<1>5. VectorsAreTheirs'
  BY <1>4, SameFiles DEF VectorsAreTheirs
<1>6. nextKey' = metaFile.nextKey /\ nextKey' \in VectorKey
  BY <1>1 DEF SavedIDs
<1> QED
  BY <1>1, <1>3, <1>5, <1>6 DEF KeysBelow, VectorKey

\* The other steps write nothing, or give up the memory of the process.
LEMMA FilesOther ==
    ASSUME FilesInv, UseEmpty \/ CloseOrCrash \/ NextProcess \/ UNCHANGED vectorFileVars
    PROVE  FilesInv'
<1> USE VectorAssumption DEF FilesInv, KeysBelow, memoryVars
<1>1. CASE UseEmpty \/ UNCHANGED vectorFileVars
  <2>1. UNCHANGED <<graph, idMap, keyMap, nextKey, given, graphFile, metaFile, added, lastSave, torn>>
        /\ (storeAt' = storeAt \/ (storeAt = "new" /\ storeAt' = "fresh"))
    <3>1. CASE UseEmpty
      BY <3>1 DEF UseEmpty
    <3>2. CASE UNCHANGED vectorFileVars
      BY <3>2 DEF vectorFileVars
    <3> QED
      BY <1>1, <3>1, <3>2
  <2>2. VectorFileTypeOK'
    BY <2>1 DEF VectorFileTypeOK
  <2>3. VectorsAreTheirs'
    BY <2>1, SameFiles DEF VectorsAreTheirs, VectorsOf
  <2> QED
    BY <2>1, <2>2, <2>3
<1>2. CASE CloseOrCrash \/ NextProcess
  <2>1. UNCHANGED <<graphFile, metaFile, added, lastSave, torn>> /\ NewHNSWStore /\ storeAt' \in {"down", "new"}
    BY <1>2 DEF CloseOrCrash, NextProcess
  <2>2. VectorFileTypeOK'
    BY <2>1 DEF NewHNSWStore, NoVectors, VectorFileTypeOK, VectorKey, SavedGraph
  <2>3. VectorsOf(graph, idMap)' = given'
    BY <2>1 DEF NewHNSWStore, NoVectors, VectorsOf
  <2>4. VectorsAreTheirs'
    BY <2>1, <2>3, SameFiles DEF VectorsAreTheirs
  <2>5. nextKey' <= added' /\ KeysBelow(idMap, nextKey)'
    BY <2>1 DEF NewHNSWStore, VectorFileTypeOK
  <2> QED
    BY <2>1, <2>2, <2>4, <2>5
<1> QED
  BY <1>1, <1>2

\* For any number of ids and vectors, with stores made anew saved over the files of
\* others and crashes at any step: the files say what the last completed Save had,
\* unless one was cut between its renames since, and a store that was not loaded
\* from such files answers each id with the vector last given for it (hnsw.go).
THEOREM VectorsStayTheirs == VectorFileSpec => []VectorsAreTheirs
<1>1. FilesInv /\ [VectorFileNext]_vectorFileVars => FilesInv'
  <2> SUFFICES ASSUME FilesInv, [VectorFileNext]_vectorFileVars  PROVE FilesInv'
    OBVIOUS
  <2>1. ASSUME NEW id \in VectorId, AddVector(id)  PROVE FilesInv'
    BY <2>1, FilesAdd
  <2>2. ASSUME NEW id \in VectorId, DeleteVector(id)  PROVE FilesInv'
    BY <2>2, FilesDelete
  <2>3. CASE SaveGraph
    BY <2>3, FilesSaveGraph
  <2>4. CASE SaveMetadata
    BY <2>4, FilesSaveMetadata
  <2>5. CASE LoadVectors
    BY <2>5, FilesLoad
  <2>6. CASE UseEmpty \/ CloseOrCrash \/ NextProcess \/ UNCHANGED vectorFileVars
    BY <2>6, FilesOther
  <2> QED
    BY <2>1, <2>2, <2>3, <2>4, <2>5, <2>6 DEF VectorFileNext
<1>2. FilesInv => VectorsAreTheirs
  BY DEF FilesInv
<1> QED
  BY <1>1, <1>2, FilesInit, PTL DEF VectorFileSpec

-----------------------------------------------------------------------------
(***************************************************************************)
(* A daemon that serves is reachable, for any number of processes.  The    *)
(* PID file is the argument: from the moment a daemon has written its name *)
(* until it is gone, nobody gets past the question whether the process     *)
(* named there exists, so that nobody else touches the two files.          *)
(***************************************************************************)

\* Stages between the writing of the PID file and its removal.
Holding  == {"unlink", "bind", "serve", "drain", "cleanup", "forget"}
Cleaning == {"clean", "write"}

\* The strengthening of ServingIsReachable, where no two starts have overlapped.
OneAtATime ==
    /\ \A p, q \in Proc : stage[p] \in Starting /\ stage[q] \in Starting => p = q
    /\ \A p, q \in Proc : stage[p] \in Starting => stage[q] # "serve"
    /\ \A p, q \in Proc : stage[p] \in Cleaning => stage[q] \notin Holding
    /\ \A p \in Proc : stage[p] \in Holding => pidFile = p
    /\ \A p \in Proc : stage[p] = "serve" => socket = p

ProcessInv == ProcessTypeOK /\ (solo => OneAtATime)

\* No daemon runs at first.
LEMMA ProcessStart == ProcessInit => ProcessInv
  BY DEF ProcessInit, ProcessInv, ProcessTypeOK, OneAtATime, Stages, Starting, Holding, Cleaning

\* A start begins where none is under way and nobody serves; the stale check, the
\* two files and the socket come after.
LEMMA ProcessStarts ==
    ASSUME ProcessInv, NEW p \in Proc, StartDaemon(p)  PROVE ProcessInv'
<1> USE ProcessAssumption DEF ProcessInv, ProcessTypeOK, Stages, Starting, Holding, Cleaning, Moves
<1>1. CASE AskIsRunning(p)
  <2>1. ProcessTypeOK'
    BY <1>1 DEF AskIsRunning
  <2>2. ASSUME solo'  PROVE OneAtATime'
    <3>1. solo /\ OneAtATime /\ \A q \in Proc : stage[q] \notin Starting
      BY <1>1, <2>2 DEF AskIsRunning
    <3>2. \A q \in Proc : stage[q] # "serve"
      BY <1>1, <3>1 DEF AskIsRunning, IsRunning, OneAtATime
    <3> QED
      BY <1>1, <3>1, <3>2 DEF AskIsRunning, OneAtATime
  <2> QED
    BY <2>1, <2>2
<1>2. CASE CheckPID(p)
  <2>1. ProcessTypeOK'
    BY <1>2 DEF CheckPID
  <2>2. ASSUME solo'  PROVE OneAtATime'
    <3>1. CASE stage'[p] = "clean"
      <4>1. \A q \in Proc : stage[q] \notin Holding
        BY <1>2, <2>2, <3>1 DEF CheckPID, Exists, OneAtATime
      <4> QED
        BY <1>2, <2>2, <3>1, <4>1 DEF CheckPID, OneAtATime
    <3>2. CASE stage'[p] # "clean"
      BY <1>2, <2>2, <3>2 DEF CheckPID, OneAtATime
    <3> QED
      BY <3>1, <3>2
  <2> QED
    BY <2>1, <2>2
<1>3. CASE Clean(p)
  BY <1>3 DEF Clean, OneAtATime
<1>4. CASE WritePID(p)
  BY <1>4 DEF WritePID, OneAtATime
<1>5. CASE Unlink(p)
  BY <1>5 DEF Unlink, OneAtATime
<1>6. CASE Bind(p)
  BY <1>6 DEF Bind, OneAtATime
<1> QED
  BY <1>1, <1>2, <1>3, <1>4, <1>5, <1>6 DEF StartDaemon

\* Whoever leaves is the one the PID file names, so that it removes no file of
\* another daemon.
LEMMA ProcessLeaves ==
    ASSUME ProcessInv, NEW p \in Proc, LeaveDaemon(p)  PROVE ProcessInv'
<1> USE ProcessAssumption DEF ProcessInv, ProcessTypeOK, Stages, Starting, Holding, Cleaning, Moves, OneAtATime
<1>1. CASE CloseListener(p)
  BY <1>1 DEF CloseListener
<1>2. CASE EndServing(p)
  BY <1>2 DEF EndServing
<1>3. CASE EndCleanup(p)
  BY <1>3 DEF EndCleanup
<1>4. CASE Forget(p)
  BY <1>4 DEF Forget
<1> QED
  BY <1>1, <1>2, <1>3, <1>4 DEF LeaveDaemon

\* A process that is gone disturbs nobody, and the stop command only ends one.
LEMMA ProcessEnds ==
    ASSUME ProcessInv,
           (\E p \in Proc : Crash(p)) \/ StopCommand \/ SeeStopped \/ KillCommand
    PROVE  ProcessInv'
<1> USE ProcessAssumption DEF ProcessInv, ProcessTypeOK, Stages, Starting, Holding, Cleaning, OneAtATime
<1>1. ASSUME NEW p \in Proc, Crash(p)  PROVE ProcessInv'
  BY <1>1 DEF Crash, Exists
<1>2. CASE StopCommand
  BY <1>2 DEF StopCommand
<1>3. CASE SeeStopped
  BY <1>3 DEF SeeStopped
<1>4. CASE KillCommand
  BY <1>4 DEF KillCommand, Exists
<1> QED
  BY <1>1, <1>2, <1>3, <1>4

LEMMA ProcessStep == ProcessInv /\ [ProcessNext]_processVars => ProcessInv'
<1> SUFFICES ASSUME ProcessInv, [ProcessNext]_processVars  PROVE ProcessInv'
  OBVIOUS
<1>1. CASE UNCHANGED processVars
  BY <1>1 DEF processVars, ProcessInv, ProcessTypeOK, OneAtATime
<1>2. CASE ProcessNext
  BY <1>2, ProcessStarts, ProcessLeaves, ProcessEnds DEF ProcessNext
<1> QED
  BY <1>1, <1>2

\* However many daemons are started, stopped, killed and crash: where no two starts
\* have overlapped, the one that serves is the one the PID file names and the one
\* that clients reach (daemon.go:160-235, server.go:40-110).
THEOREM ServesReachably == ProcessSpec => []ServingIsReachable
<1>1. ProcessInv => ServingIsReachable
  BY DEF ProcessInv, OneAtATime, ServingIsReachable, Holding
<1> QED
  BY ProcessStart, ProcessStep, <1>1, PTL DEF ProcessSpec

-----------------------------------------------------------------------------
(***************************************************************************)
(* The stores of the projects a daemon has open, for any number of         *)
(* projects, connections and loads.  Every state is loaded once, under a   *)
(* number of its own; the order of use has each cached state once, so that *)
(* the one that is evicted leaves cache, order and stores together.  When  *)
(* the server has drained, no handler is left for shutdown to cut off.     *)
(***************************************************************************)

Lives    == {"running", "draining", "stopping", "waiting", "closing", "stopped"}
ConnType == [at : ConnAt, root : Project \cup {NoProject}, ref : State \cup {NoState}]

CacheTypeOK ==
    /\ life \in Lives
    /\ cached \in [Project -> State \cup {NoState}]
    /\ projectOf \in [State -> Project \cup {NoProject}]
    /\ byUse \in Seq(State)
    /\ conn \in [Client -> ConnType]

NoRepeats(s) == \A i, j \in 1..Len(s) : s[i] = s[j] => i = j

\* The strengthening of StoresStayOpen.
CacheInv ==
    /\ CacheTypeOK
    /\ OnlyCachedAreOpen
    /\ NoRepeats(byUse)
    /\ CachedStates \subseteq Loaded
    /\ Cardinality(Loaded) \in Nat /\ Loaded = 1..Cardinality(Loaded)
    /\ \A c \in Client : conn[c].at # "none" =>
          conn[c].root \in Project /\ life \in {"running", "draining"}
    /\ ShutdownSparesSearches

\* The order of use without one of its states.
LEMMA RemovedFirst ==
    ASSUME NEW S, NEW s \in Seq(S), NoRepeats(s), NEW e \in ToSet(s)
    PROVE  /\ RemoveFirst(s, e) \in Seq(S) /\ NoRepeats(RemoveFirst(s, e))
           /\ ToSet(RemoveFirst(s, e)) = ToSet(s) \ {e}
<1>1. PICK i \in 1..Len(s) : s[i] = e
  BY LenProperties DEF ToSet
<1>2. \A j \in 1..Len(s) : s[j] = e <=> j = i
  BY <1>1 DEF NoRepeats
<1>3. {j \in 1..Len(s) : s[j] = e} = {i}
  BY <1>1, <1>2
<1>4. Min({i}) = i
  BY <1>1 DEF Min
<1>5. RemoveFirst(s, e) = RemoveAt(s, i)
  BY <1>1, <1>3, <1>4 DEF RemoveFirst, SelectInSeq
<1> DEFINE r == RemoveAt(s, i)
<1>6. r \in Seq(S) /\ Len(r) = Len(s) - 1 /\ Len(s) \in Nat
      /\ \A j \in 1..Len(r) : r[j] = IF j < i THEN s[j] ELSE s[j + 1]
  <2> DEFINE a == SubSeq(s, 1, i - 1)
             b == SubSeq(s, i + 1, Len(s))
  <2>1. Len(s) \in Nat /\ i \in Nat /\ 1 <= i /\ i <= Len(s) /\ i - 1 \in Nat
    BY <1>1, LenProperties
  <2>2. a \in Seq(S) /\ Len(a) = i - 1 /\ \A j \in 1..(i - 1) : a[j] = s[j]
    BY <2>1, SubSeqProperties
  <2>3. b \in Seq(S) /\ Len(b) = Len(s) - i /\ \A j \in 1..(Len(s) - i) : b[j] = s[i + j]
    BY <2>1, SubSeqProperties
  <2> HIDE DEF a, b
  <2>4. /\ a \o b \in Seq(S) /\ Len(a \o b) = Len(a) + Len(b)
        /\ \A j \in 1..(Len(a) + Len(b)) :
              (a \o b)[j] = IF j <= Len(a) THEN a[j] ELSE b[j - Len(a)]
    BY <2>2, <2>3, ConcatProperties
  <2>5. ASSUME NEW j \in 1..(Len(s) - 1)
        PROVE  (a \o b)[j] = IF j < i THEN s[j] ELSE s[j + 1]
    <3>1. CASE j < i
      BY <2>1, <2>2, <2>3, <2>4, <3>1
    <3>2. CASE ~(j < i)
      <4>1. j - (i - 1) \in 1..(Len(s) - i) /\ i + (j - (i - 1)) = j + 1
        BY <2>1, <3>2
      <4>2. (a \o b)[j] = b[j - (i - 1)]
        BY <2>1, <2>2, <2>3, <2>4, <3>2
      <4> QED
        BY <2>3, <3>2, <4>1, <4>2
    <3> QED
      BY <3>1, <3>2
  <2>6. r = a \o b
    BY DEF RemoveAt, a, b
  <2>7. Len(a \o b) = Len(s) - 1
    BY <2>1, <2>2, <2>3, <2>4
  <2> HIDE DEF r
  <2> QED
    BY <2>1, <2>4, <2>5, <2>6, <2>7
<1> HIDE DEF r
<1>7. NoRepeats(r)
  <2> SUFFICES ASSUME NEW j \in 1..Len(r), NEW k \in 1..Len(r), r[j] = r[k]  PROVE j = k
    BY DEF NoRepeats
  <2> DEFINE at(m) == IF m < i THEN m ELSE m + 1
  <2>1. at(j) \in 1..Len(s) /\ at(k) \in 1..Len(s) /\ (at(j) = at(k) => j = k)
    BY <1>1, <1>6
  <2>2. r[j] = s[at(j)] /\ r[k] = s[at(k)]
    BY <1>6
  <2> HIDE DEF at
  <2> QED
    BY <2>1, <2>2 DEF NoRepeats
<1>8. \A x : x \in ToSet(r) <=> x \in ToSet(s) \ {e}
  <2>1. DOMAIN r = 1..Len(r) /\ DOMAIN s = 1..Len(s)
    BY <1>6, LenProperties
  <2>2. ASSUME NEW x \in ToSet(r)  PROVE x \in ToSet(s) \ {e}
    <3>1. PICK j \in 1..Len(r) : r[j] = x
      BY <2>1, <2>2 DEF ToSet
    <3>2. CASE j < i
      <4>1. j \in 1..Len(s) /\ s[j] = x /\ s[j] # e
        BY <1>1, <1>2, <1>6, <3>1, <3>2
      <4> QED
        BY <2>1, <4>1 DEF ToSet
    <3>3. CASE ~(j < i)
      <4>1. j + 1 \in 1..Len(s) /\ s[j + 1] = x /\ s[j + 1] # e
        BY <1>1, <1>2, <1>6, <3>1, <3>3
      <4> QED
        BY <2>1, <4>1 DEF ToSet
    <3> QED
      BY <3>2, <3>3
  <2>3. ASSUME NEW x \in ToSet(s), x # e  PROVE x \in ToSet(r)
    <3>1. PICK j \in 1..Len(s) : s[j] = x
      BY <2>1, <2>3 DEF ToSet
    <3>2. j # i
      BY <1>1, <2>3, <3>1
    <3>3. CASE j < i
      <4>1. j \in 1..Len(r) /\ r[j] = x
        BY <1>1, <1>6, <3>1, <3>3
      <4> QED
        BY <2>1, <4>1 DEF ToSet
    <3>4. CASE j > i
      <4>1. j - 1 \in 1..Len(r) /\ r[j - 1] = x
        BY <1>1, <1>6, <3>1, <3>4
      <4> QED
        BY <2>1, <4>1 DEF ToSet
    <3> QED
      BY <1>1, <3>1, <3>2, <3>3, <3>4
  <2> QED
    BY <2>2, <2>3
<1> QED
  BY <1>5, <1>6, <1>7, <1>8 DEF r

\* The order of use with a state at its end.
LEMMA AppendedLast ==
    ASSUME NEW S, NEW s \in Seq(S), NoRepeats(s), NEW e \in S, e \notin ToSet(s)
    PROVE  /\ Append(s, e) \in Seq(S) /\ NoRepeats(Append(s, e))
           /\ ToSet(Append(s, e)) = ToSet(s) \cup {e}
<1> DEFINE r == Append(s, e)
<1>1. r \in Seq(S) /\ Len(r) = Len(s) + 1 /\ Len(s) \in Nat /\ r[Len(s) + 1] = e
      /\ \A j \in 1..Len(s) : r[j] = s[j]
  BY AppendProperties, LenProperties
<1>2. DOMAIN r = 1..Len(r) /\ DOMAIN s = 1..Len(s)
  BY <1>1, LenProperties
<1> HIDE DEF r
<1>3. \A j \in 1..Len(s) : s[j] # e
  BY <1>2 DEF ToSet
<1>4. NoRepeats(r)
  <2> SUFFICES ASSUME NEW i \in 1..Len(r), NEW j \in 1..Len(r), r[i] = r[j]  PROVE i = j
    BY DEF NoRepeats
  <2>1. \A k \in 1..Len(r) : k = Len(s) + 1 \/ k \in 1..Len(s)
    BY <1>1
  <2> QED
    BY <1>1, <1>3, <2>1 DEF NoRepeats
<1>5. ToSet(r) \subseteq ToSet(s) \cup {e}
  BY <1>1, <1>2 DEF ToSet
<1>6. ToSet(s) \cup {e} \subseteq ToSet(r)
  BY <1>1, <1>2 DEF ToSet
<1> QED
  BY <1>1, <1>4, <1>5, <1>6 DEF r

\* The order of use without its first state.
LEMMA WithoutHead ==
    ASSUME NEW S, NEW s \in Seq(S), NoRepeats(s), s # <<>>
    PROVE  /\ Tail(s) \in Seq(S) /\ NoRepeats(Tail(s)) /\ Head(s) \in ToSet(s)
           /\ ToSet(Tail(s)) = ToSet(s) \ {Head(s)}
<1> DEFINE r == Tail(s)
<1>1. r \in Seq(S) /\ Len(r) = Len(s) - 1 /\ Len(s) \in Nat /\ Len(s) > 0
      /\ Head(s) = s[1] /\ \A j \in 1..Len(r) : r[j] = s[j + 1]
  BY HeadTailProperties, LenProperties, EmptySeq
<1>2. DOMAIN r = 1..Len(r) /\ DOMAIN s = 1..Len(s)
  BY <1>1, LenProperties
<1> HIDE DEF r
<1>3. \A j \in 1..Len(s) : s[j] = s[1] => j = 1
  BY <1>1 DEF NoRepeats
<1>4. NoRepeats(r)
  BY <1>1 DEF NoRepeats
<1>5. ToSet(r) \subseteq ToSet(s) \ {s[1]}
  BY <1>1, <1>2, <1>3 DEF ToSet
<1>6. ASSUME NEW x \in ToSet(s), x # s[1]  PROVE x \in ToSet(r)
  <2>1. PICK j \in 1..Len(s) : s[j] = x
    BY <1>2, <1>6 DEF ToSet
  <2>2. j # 1
    BY <1>6, <2>1
  <2>3. j - 1 \in 1..Len(r) /\ r[j - 1] = x
    BY <1>1, <2>1, <2>2
  <2> QED
    BY <1>2, <2>3 DEF ToSet
<1>7. s[1] \in ToSet(s)
  BY <1>1, <1>2 DEF ToSet
<1> QED
  BY <1>1, <1>4, <1>5, <1>6, <1>7 DEF r

LEMMA CacheStart == DaemonInit => CacheInv
<1> SUFFICES ASSUME DaemonInit  PROVE CacheInv
  OBVIOUS
<1> USE DaemonAssumption
<1>1. CacheTypeOK /\ byUse = <<>> /\ open = {}
  BY DEF DaemonInit, CacheTypeOK, Lives, ConnType, NoConn, ConnAt
<1>2. CachedStates = {} /\ Loaded = {}
  BY DEF DaemonInit, CachedStates, Loaded
<1>3. Cardinality({}) = 0 /\ {} = 1..0
  BY FS_EmptySet
<1>4. ToSet(byUse) = {} /\ NoRepeats(byUse)
  BY <1>1 DEF ToSet, NoRepeats
<1>5. \A c \in Client : conn[c].at = "none"
  BY DEF DaemonInit, NoConn
<1> QED
  BY <1>1, <1>2, <1>3, <1>4, <1>5 DEF CacheInv, OnlyCachedAreOpen, ShutdownSparesSearches

\* Steps of the compactions touch neither the cache nor the connections.
LEMMA CacheSame ==
    ASSUME CacheInv, UNCHANGED <<life, cacheVars, conn>>  PROVE CacheInv'
<1>1. CachedStates' = CachedStates /\ Loaded' = Loaded
  BY DEF cacheVars, CachedStates, Loaded
<1>2. life' = life /\ cached' = cached /\ projectOf' = projectOf /\ byUse' = byUse
      /\ open' = open /\ evicted' = evicted /\ conn' = conn
  BY DEF cacheVars
<1> HIDE DEF NoRepeats
<1> QED
  BY <1>1, <1>2 DEF CacheInv, CacheTypeOK, OnlyCachedAreOpen, ShutdownSparesSearches

\* A connection goes on, and finds its project open or evicted.
LEMMA CacheConn ==
    ASSUME CacheInv, UNCHANGED <<life, cacheVars>>, NEW c \in Client, NEW r \in ConnType,
           conn' = [conn EXCEPT ![c] = r],
           r.at # "none" => r.root \in Project /\ life \in {"running", "draining"},
           r.at \in {"touch", "search"} => r.ref \in open \cup evicted
    PROVE  CacheInv'
<1>1. CachedStates' = CachedStates /\ Loaded' = Loaded
  BY DEF cacheVars, CachedStates, Loaded
<1>2. life' = life /\ cached' = cached /\ projectOf' = projectOf /\ byUse' = byUse
      /\ open' = open /\ evicted' = evicted
  BY DEF cacheVars
<1>3. conn \in [Client -> ConnType] /\ conn' \in [Client -> ConnType]
  BY DEF CacheInv, CacheTypeOK
<1>4. \A d \in Client : conn'[d] = IF d = c THEN r ELSE conn[d]
  BY <1>3
<1>5. ShutdownSparesSearches'
  BY <1>2, <1>4 DEF CacheInv, ShutdownSparesSearches
<1>6. \A d \in Client : conn'[d].at # "none" =>
          conn'[d].root \in Project /\ life' \in {"running", "draining"}
  BY <1>2, <1>4 DEF CacheInv
<1> QED
  BY <1>1, <1>2, <1>3, <1>5, <1>6 DEF CacheInv, CacheTypeOK, OnlyCachedAreOpen

\* A connection but for its use of the cache.
LEMMA CacheServes ==
    ASSUME CacheInv, NEW c \in Client,
           HandleRequest(c) \/ InterruptCompaction(c) \/ Lookup(c) \/ Search(c) \/ OnSearchComplete(c)
              \/ \E p \in Project : Accept(c, p)
    PROVE  CacheInv'
<1>1. UNCHANGED <<life, cacheVars>>
  BY DEF HandleRequest, InterruptCompaction, Lookup, Search, OnSearchComplete, Accept, clientVars
<1>2. conn \in [Client -> ConnType] /\ conn[c] \in ConnType
  BY DEF CacheInv, CacheTypeOK
<1>3. NoConn \in ConnType
  BY DEF NoConn, ConnType, ConnAt
<1>4. CASE Answer(c)
  BY <1>1, <1>3, <1>4, CacheConn DEF Answer, NoConn
<1>5. CASE \E p \in Project : Accept(c, p)
  <2>1. PICK p \in Project : Accept(c, p)
    BY <1>5
  <2>2. [at |-> "request", root |-> p, ref |-> NoState] \in ConnType
    BY DEF ConnType, ConnAt
  <2> QED
    BY <1>1, <2>1, <2>2, CacheConn DEF Accept
<1>6. CASE conn[c].at # "none" /\ \E a \in {"interrupt", "lookup", "complete"} :
              conn' = [conn EXCEPT ![c].at = a]
  <2>1. PICK a \in {"interrupt", "lookup", "complete"} : conn' = [conn EXCEPT ![c].at = a]
    BY <1>6
  <2> DEFINE r == [conn[c] EXCEPT !.at = a]
  <2>2. r \in ConnType /\ r.at = a /\ r.root = conn[c].root
    BY <1>2 DEF ConnType, ConnAt
  <2>3. conn' = [conn EXCEPT ![c] = r]
    BY <1>2, <2>1
  <2>4. conn[c].root \in Project /\ life \in {"running", "draining"}
    BY <1>6 DEF CacheInv
  <2> HIDE DEF r
  <2> QED
    BY <1>1, <2>2, <2>3, <2>4, CacheConn
<1>7. CASE Lookup(c)
  <2> DEFINE s == cached[conn[c].root]
             r == [conn[c] EXCEPT !.at = IF s # NoState THEN "touch" ELSE "load", !.ref = s]
  <2>1. conn[c].root \in Project /\ life \in {"running", "draining"}
    BY <1>7 DEF CacheInv, Lookup
  <2>2. s \in State \cup {NoState}
    BY <2>1 DEF CacheInv, CacheTypeOK
  <2>3. r \in ConnType /\ r.root = conn[c].root /\ r.ref = s /\ (r.at \in {"touch", "search"} => s # NoState)
    BY <1>2, <2>2 DEF ConnType, ConnAt
  <2>4. conn' = [conn EXCEPT ![c] = r]
    BY <1>2, <1>7 DEF Lookup
  <2>5. s # NoState => s \in open
    BY <2>1 DEF CacheInv, OnlyCachedAreOpen, CachedStates
  <2> HIDE DEF r, s
  <2> QED
    BY <1>1, <2>1, <2>3, <2>4, <2>5, CacheConn
<1>8. \/ Answer(c) \/ (\E p \in Project : Accept(c, p)) \/ Lookup(c)
      \/ conn[c].at # "none" /\ \E a \in {"interrupt", "lookup", "complete"} :
              conn' = [conn EXCEPT ![c].at = a]
  BY DEF HandleRequest, InterruptCompaction, Search, OnSearchComplete
<1> QED
  BY <1>4, <1>5, <1>6, <1>7, <1>8

\* A state that is used moves to the end of the order.
LEMMA CacheTouches == ASSUME CacheInv, NEW c \in Client, Touch(c)  PROVE CacheInv'
<1> DEFINE r == [conn[c] EXCEPT !.at = "search"]
<1>1. conn \in [Client -> ConnType] /\ conn[c] \in ConnType /\ conn[c].at = "touch"
  BY DEF CacheInv, CacheTypeOK, Touch
<1>2. r \in ConnType /\ r.at = "search" /\ r.root = conn[c].root /\ r.ref = conn[c].ref
  BY <1>1 DEF ConnType, ConnAt
<1>3. conn' = [conn EXCEPT ![c] = r] /\ life' = life /\ cached' = cached
      /\ projectOf' = projectOf /\ open' = open /\ evicted' = evicted
  BY <1>1 DEF Touch
<1>4. CachedStates' = CachedStates /\ Loaded' = Loaded
  BY <1>3 DEF CachedStates, Loaded
<1>5. byUse' \in Seq(State) /\ NoRepeats(byUse') /\ ToSet(byUse') = ToSet(byUse)
  <2>1. CASE conn[c].ref \in CachedStates
    <3>1. conn[c].ref \in ToSet(byUse) /\ conn[c].ref \in State
      BY <2>1 DEF CacheInv, OnlyCachedAreOpen, CachedStates, CacheTypeOK
    <3>2. byUse \in Seq(State) /\ NoRepeats(byUse)
      BY DEF CacheInv, CacheTypeOK
    <3>3. byUse' = Append(RemoveFirst(byUse, conn[c].ref), conn[c].ref)
      BY <2>1 DEF Touch
    <3> DEFINE ref == conn[c].ref
               rest == RemoveFirst(byUse, ref)
    <3>4. rest \in Seq(State) /\ NoRepeats(rest) /\ ToSet(rest) = ToSet(byUse) \ {ref}
      BY <3>1, <3>2, RemovedFirst
    <3> HIDE DEF NoRepeats, rest, ref
    <3>5. /\ Append(rest, ref) \in Seq(State) /\ NoRepeats(Append(rest, ref))
          /\ ToSet(Append(rest, ref)) = ToSet(rest) \cup {ref}
      BY <3>1, <3>4, AppendedLast DEF ref
    <3>6. byUse' = Append(rest, ref)
      BY <3>3 DEF rest, ref
    <3> QED
      BY <3>1, <3>4, <3>5, <3>6 DEF ref
  <2>2. CASE conn[c].ref \notin CachedStates
    BY <2>2 DEF Touch, CacheInv, CacheTypeOK
  <2> QED
    BY <2>1, <2>2
<1> HIDE DEF r
<1>6. \A d \in Client : conn'[d] = IF d = c THEN r ELSE conn[d]
  BY <1>1, <1>3
<1>7. conn' \in [Client -> ConnType]
  BY <1>1, <1>2, <1>3
<1>8. ShutdownSparesSearches'
  BY <1>1, <1>2, <1>3, <1>6 DEF CacheInv, ShutdownSparesSearches
<1>9. \A d \in Client : conn'[d].at # "none" =>
          conn'[d].root \in Project /\ life' \in {"running", "draining"}
  BY <1>1, <1>2, <1>3, <1>6 DEF CacheInv
<1> QED
  BY <1>3, <1>4, <1>5, <1>7, <1>8, <1>9 DEF CacheInv, CacheTypeOK, OnlyCachedAreOpen

\* What leaves the cache to make room for another state: the first in the order of
\* use, when the cache is full.
LEMMA EvictionMakesRoom ==
    ASSUME CacheInv, NEW full \in BOOLEAN, full <=> Cardinality(CachedStates) >= MaxProjects
    PROVE  /\ EvictLRU(full).shut = EvictLRU(full).left /\ EvictLRU(full).left \subseteq CachedStates
           /\ Cardinality(CachedStates \ EvictLRU(full).left) \in Nat
           /\ Cardinality(CachedStates \ EvictLRU(full).left) + 1 <= MaxProjects
           /\ EvictLRU(full).left # {} => byUse # <<>> /\ EvictLRU(full).left = {Head(byUse)}
<1> DEFINE left == EvictLRU(full).left
<1>1. IsFiniteSet(CachedStates)
  <2>1. CachedStates \subseteq State
    BY DEF CacheInv, CacheTypeOK, CachedStates
  <2>2. IsFiniteSet(State)
    BY FS_Interval, DaemonAssumption DEF State
  <2> QED
    BY <2>1, <2>2, FS_Subset
<1>2. Cardinality(CachedStates) \in Nat /\ Cardinality(CachedStates) <= MaxProjects
  BY <1>1, FS_CardinalityType DEF CacheInv, OnlyCachedAreOpen
<1>3. EvictLRU(full).shut = left
      /\ left = {s \in State : full /\ byUse # <<>> /\ s = Head(byUse)}
  BY DEF EvictLRU
<1> HIDE DEF left
<1>4. /\ left \subseteq CachedStates
      /\ Cardinality(CachedStates \ left) \in Nat
      /\ Cardinality(CachedStates \ left) + 1 <= MaxProjects
      /\ left # {} => byUse # <<>> /\ left = {Head(byUse)}
  <2>1. CASE ~full
    <3>1. left = {} /\ CachedStates \ left = CachedStates
      BY <1>3, <2>1
    <3>2. Cardinality(CachedStates) < MaxProjects
      BY <1>2, <2>1, DaemonAssumption
    <3> QED
      BY <1>2, <3>1, <3>2, DaemonAssumption
  <2>2. CASE full
    <3>1. Cardinality(CachedStates) = MaxProjects /\ MaxProjects \in Nat \ {0}
      BY <1>2, <2>2, DaemonAssumption
    <3>2. CachedStates # {}
      BY <3>1, FS_EmptySet
    <3>3. byUse # <<>>
      BY <3>2 DEF CacheInv, OnlyCachedAreOpen, ToSet
    <3>4. Head(byUse) \in CachedStates
      <4>1. byUse \in Seq(State) /\ NoRepeats(byUse) /\ ToSet(byUse) = CachedStates
        BY DEF CacheInv, CacheTypeOK, OnlyCachedAreOpen
      <4> HIDE DEF NoRepeats
      <4>2. Head(byUse) \in ToSet(byUse)
        BY <3>3, <4>1, WithoutHead
      <4> QED
        BY <4>1, <4>2
    <3>5. Head(byUse) \in State
      BY <3>4 DEF CacheInv, CacheTypeOK, CachedStates
    <3>6. left = {Head(byUse)}
      BY <1>3, <2>2, <3>3, <3>5
    <3>7. Cardinality(CachedStates \ left) = Cardinality(CachedStates) - 1
      BY <1>1, <3>4, <3>6, FS_RemoveElement
    <3> QED
      BY <3>1, <3>3, <3>4, <3>6, <3>7
  <2> QED
    BY <2>1, <2>2
<1> QED
  BY <1>3, <1>4 DEF left

\* Loading under the write lock.
LEMMA CacheLoads == ASSUME CacheInv, NEW c \in Client, LoadProject(c)  PROVE CacheInv'
<1> DEFINE p == conn[c].root
<1>1. conn \in [Client -> ConnType] /\ conn[c] \in ConnType /\ conn[c].at = "load" /\ life' = life
  BY DEF CacheInv, CacheTypeOK, LoadProject
<1>2. p \in Project /\ life \in {"running", "draining"}
  BY <1>1 DEF CacheInv
<1>3. CASE UNCHANGED cacheVars /\ Answer(c)
  <2>1. NoConn \in ConnType
    BY DEF NoConn, ConnType, ConnAt
  <2> QED
    BY <1>1, <1>3, <2>1, CacheConn DEF Answer, NoConn
<1>4. CASE /\ UNCHANGED cacheVars /\ cached[p] # NoState
           /\ conn' = [conn EXCEPT ![c].at = "touch", ![c].ref = cached[p]]
  <2> DEFINE k == [conn[c] EXCEPT !.at = "touch", !.ref = cached[p]]
  <2>1. cached[p] \in State /\ cached[p] \in open
    BY <1>2, <1>4 DEF CacheInv, CacheTypeOK, OnlyCachedAreOpen, CachedStates
  <2>2. k \in ConnType /\ k.root = p /\ k.ref = cached[p]
    BY <1>1, <2>1 DEF ConnType, ConnAt
  <2>3. conn' = [conn EXCEPT ![c] = k]
    BY <1>1, <1>4
  <2> HIDE DEF k
  <2> QED
    BY <1>1, <1>2, <1>4, <2>1, <2>2, <2>3, CacheConn
<1> DEFINE full  == Cardinality(CachedStates) >= MaxProjects
           left  == EvictLRU(full).left
           new   == Cardinality(Loaded) + 1
           keep  == [q \in Project |-> IF cached[q] \in left THEN NoState ELSE cached[q]]
           used  == IF left = {} THEN byUse ELSE Tail(byUse)
<1>5. CASE /\ cached[p] = NoState /\ evicted' = evicted \cup left
           /\ \/ /\ new <= MaxLoads
                 /\ cached' = [keep EXCEPT ![p] = new]
                 /\ projectOf' = [projectOf EXCEPT ![new] = p]
                 /\ byUse' = Append(used, new)
                 /\ open' = (open \ left) \cup {new}
                 /\ conn' = [conn EXCEPT ![c].at = "touch", ![c].ref = new]
              \/ /\ cached' = keep /\ byUse' = used /\ open' = open \ left /\ Answer(c)
                 /\ UNCHANGED projectOf
  <2>1. /\ left \subseteq CachedStates
        /\ Cardinality(CachedStates \ left) \in Nat
        /\ Cardinality(CachedStates \ left) + 1 <= MaxProjects
        /\ left # {} => byUse # <<>> /\ left = {Head(byUse)}
    <3>1. full \in BOOLEAN /\ (full <=> Cardinality(CachedStates) >= MaxProjects)
      OBVIOUS
    <3> HIDE DEF full
    <3> QED
      BY <3>1, EvictionMakesRoom
  <2> HIDE DEF left, full
  <2>2. CacheTypeOK /\ OnlyCachedAreOpen /\ NoRepeats(byUse)
    BY DEF CacheInv
  <2>3. used \in Seq(State) /\ NoRepeats(used) /\ ToSet(used) = CachedStates \ left
    <3>1. byUse \in Seq(State) /\ NoRepeats(byUse) /\ ToSet(byUse) = CachedStates
      BY <2>2 DEF CacheTypeOK, OnlyCachedAreOpen
    <3>2. CASE left = {}
      BY <3>1, <3>2
    <3>3. CASE left # {}
      <4>1. byUse # <<>> /\ left = {Head(byUse)}
        BY <2>1, <3>3
      <4> HIDE DEF NoRepeats
      <4>2. /\ Tail(byUse) \in Seq(State) /\ NoRepeats(Tail(byUse))
            /\ ToSet(Tail(byUse)) = ToSet(byUse) \ {Head(byUse)}
        BY <3>1, <4>1, WithoutHead
      <4> QED
        BY <3>1, <3>3, <4>1, <4>2
    <3> QED
      BY <3>2, <3>3
  <2>4. keep \in [Project -> State \cup {NoState}]
        /\ (\A x : x \in {keep[q] : q \in Project} \ {NoState} <=> x \in CachedStates \ left)
    BY <2>2 DEF CacheTypeOK, CachedStates
  <2>5. keep[p] = NoState
    BY <1>2, <1>5
  <2>6. CachedStates \subseteq State /\ NoState \notin State
    BY <2>2 DEF CacheTypeOK, CachedStates, State, NoState
  <2>7. open = CachedStates
    BY <2>2 DEF OnlyCachedAreOpen
  <2> HIDE DEF keep, used
  <2>8. CASE UNCHANGED projectOf /\ cached' = keep /\ byUse' = used /\ open' = open \ left /\ Answer(c)
    <3>1. CachedStates' = CachedStates \ left /\ Loaded' = Loaded
      BY <2>4, <2>8 DEF CachedStates, Loaded
    <3>2. CacheTypeOK'
      <4>1. NoConn \in ConnType
        BY DEF NoConn, ConnType, ConnAt
      <4> QED
        BY <1>1, <2>2, <2>3, <2>4, <2>8, <4>1 DEF CacheTypeOK, Answer
    <3>3. OnlyCachedAreOpen'
      BY <2>1, <2>3, <2>7, <2>8, <3>1, DaemonAssumption DEF OnlyCachedAreOpen
    <3>4. \A d \in Client : conn'[d] = IF d = c THEN NoConn ELSE conn[d]
      BY <1>1, <2>8 DEF Answer
    <3>5. ShutdownSparesSearches'
      BY <1>5, <2>8, <3>4 DEF CacheInv, ShutdownSparesSearches, NoConn
    <3>6. \A d \in Client : conn'[d].at # "none" =>
              conn'[d].root \in Project /\ life' \in {"running", "draining"}
      BY <1>1, <3>4 DEF CacheInv, NoConn
    <3>7. NoRepeats(byUse)'
      BY <2>3, <2>8
    <3> QED
      BY <3>1, <3>2, <3>3, <3>5, <3>6, <3>7 DEF CacheInv
  <2>9. CASE /\ new <= MaxLoads
             /\ cached' = [keep EXCEPT ![p] = new]
             /\ projectOf' = [projectOf EXCEPT ![new] = p]
             /\ byUse' = Append(used, new)
             /\ open' = (open \ left) \cup {new}
             /\ conn' = [conn EXCEPT ![c].at = "touch", ![c].ref = new]
    <3>1. Cardinality(Loaded) \in Nat /\ Loaded = 1..Cardinality(Loaded)
      BY DEF CacheInv
    <3>2. new \in State /\ new \in Nat /\ new >= 1 /\ new \notin Loaded /\ 1..new = Loaded \cup {new}
      BY <2>9, <3>1, DaemonAssumption DEF State
    <3>3. new \notin CachedStates
      BY <3>2 DEF CacheInv
    <3> HIDE DEF new
    <3>4. \A x : x \in CachedStates' <=> x \in (CachedStates \ left) \cup {new}
      <4>1. cached' \in [Project -> State \cup {NoState}]
            /\ \A q \in Project : cached'[q] = IF q = p THEN new ELSE keep[q]
        BY <1>2, <2>4, <2>9, <3>2
      <4> QED
        BY <1>2, <2>4, <2>5, <2>6, <3>2, <4>1 DEF CachedStates
    <3>5. CachedStates' = (CachedStates \ left) \cup {new}
      BY <3>4
    <3>6. Loaded' = Loaded \cup {new}
      <4>1. projectOf \in [State -> Project \cup {NoProject}]
        BY <2>2 DEF CacheTypeOK
      <4> QED
        BY <1>2, <2>9, <3>2, <4>1, DaemonAssumption DEF Loaded
    <3>7. Cardinality(Loaded') = new
      <4>1. Cardinality(1..new) = new
        BY <3>2, FS_Interval
      <4> QED
        BY <3>2, <3>6, <4>1
    <3>8. /\ byUse' \in Seq(State) /\ NoRepeats(byUse')
          /\ ToSet(byUse') = (CachedStates \ left) \cup {new}
      <4> HIDE DEF NoRepeats
      <4>1. new \notin ToSet(used)
        BY <2>3, <3>3
      <4> QED
        BY <2>3, <2>9, <3>2, <4>1, AppendedLast
    <3>9. Cardinality(CachedStates') <= MaxProjects
      <4>1. IsFiniteSet(CachedStates \ left)
        <5>1. IsFiniteSet(State)
          BY FS_Interval, DaemonAssumption DEF State
        <5>2. CachedStates \ left \in SUBSET State
          BY <2>6
        <5> QED
          BY <5>1, <5>2, FS_Subset
      <4>2. Cardinality((CachedStates \ left) \cup {new}) = Cardinality(CachedStates \ left) + 1
        BY <3>3, <4>1, FS_AddElement
      <4> QED
        BY <2>1, <3>5, <4>2
    <3> DEFINE k == [conn[c] EXCEPT !.at = "touch", !.ref = new]
    <3>10. k \in ConnType /\ k.root = p /\ k.ref = new
      BY <1>1, <3>2 DEF ConnType, ConnAt
    <3>11. conn' \in [Client -> ConnType] /\ \A d \in Client : conn'[d] = IF d = c THEN k ELSE conn[d]
      BY <1>1, <2>9, <3>10
    <3> HIDE DEF k
    <3>12. CacheTypeOK'
      <4>1. cached' \in [Project -> State \cup {NoState}]
        BY <2>4, <2>9, <3>2
      <4>2. projectOf' \in [State -> Project \cup {NoProject}]
        BY <1>2, <2>2, <2>9, <3>2 DEF CacheTypeOK
      <4> QED
        BY <1>1, <2>2, <3>8, <3>11, <4>1, <4>2 DEF CacheTypeOK
    <3>13. OnlyCachedAreOpen'
      BY <2>7, <2>9, <3>5, <3>8, <3>9 DEF OnlyCachedAreOpen
    <3>14. ShutdownSparesSearches'
      BY <1>5, <2>9, <3>10, <3>11 DEF CacheInv, ShutdownSparesSearches
    <3>15. \A d \in Client : conn'[d].at # "none" =>
               conn'[d].root \in Project /\ life' \in {"running", "draining"}
      BY <1>1, <1>2, <3>10, <3>11 DEF CacheInv
    <3>16. CachedStates' \subseteq Loaded'
      BY <3>5, <3>6 DEF CacheInv
    <3>17. Cardinality(Loaded') \in Nat /\ Loaded' = 1..Cardinality(Loaded')
      BY <3>2, <3>6, <3>7
    <3> QED
      BY <3>8, <3>12, <3>13, <3>14, <3>15, <3>16, <3>17 DEF CacheInv
  <2> QED
    BY <1>5, <2>8, <2>9
<1>6. EvictLRU(full).shut = EvictLRU(full).left
  BY DEF EvictLRU
<1> HIDE DEF full
<1> QED
  BY <1>3, <1>4, <1>5, <1>6 DEF LoadProject, full

\* Shutdown: when it closes the stores, the server has drained.
LEMMA CacheShutsDown == ASSUME CacheInv, Signal \/ Shutdown  PROVE CacheInv'
<1>1. CASE Signal \/ Drain \/ StopCompaction \/ WaitForCompactions
  <2>1. UNCHANGED <<cacheVars, conn>> /\ life' \in Lives
    BY <1>1 DEF Signal, Drain, StopCompaction, WaitForCompactions, clientVars, Lives
  <2>2. CachedStates' = CachedStates /\ Loaded' = Loaded
    BY <2>1 DEF cacheVars, CachedStates, Loaded
  <2>3. cached' = cached /\ projectOf' = projectOf /\ byUse' = byUse
        /\ open' = open /\ evicted' = evicted /\ conn' = conn
    BY <2>1 DEF cacheVars
  <2>4. \A d \in Client : conn[d].at # "none" => life' \in {"running", "draining"}
    BY <1>1 DEF CacheInv, Signal, Drain, StopCompaction, WaitForCompactions, NoConn
  <2> HIDE DEF NoRepeats
  <2> QED
    BY <2>1, <2>2, <2>3, <2>4 DEF CacheInv, CacheTypeOK, OnlyCachedAreOpen, ShutdownSparesSearches
<1>2. CASE CloseProjects
  <2>1. cached' = [p \in Project |-> NoState] /\ byUse' = <<>> /\ open' = open \ CachedStates
        /\ life' = "stopped" /\ conn' = conn /\ projectOf' = projectOf
    BY <1>2 DEF CloseProjects, clientVars
  <2>2. CachedStates' = {} /\ Loaded' = Loaded
    BY <2>1 DEF CachedStates, Loaded
  <2>3. open' = {} /\ ToSet(byUse') = {} /\ NoRepeats(byUse')
    BY <2>1 DEF CacheInv, OnlyCachedAreOpen, ToSet, NoRepeats
  <2>4. Cardinality({}) = 0
    BY FS_EmptySet
  <2>5. OnlyCachedAreOpen'
    BY <2>2, <2>3, <2>4, DaemonAssumption DEF OnlyCachedAreOpen
  <2>6. \A d \in Client : conn[d].at = "none"
    BY <1>2 DEF CacheInv, CloseProjects
  <2>7. CacheTypeOK'
    BY <2>1 DEF CacheInv, CacheTypeOK, Lives
  <2> QED
    BY <2>1, <2>2, <2>3, <2>5, <2>6, <2>7 DEF CacheInv, ShutdownSparesSearches
<1> QED
  BY <1>1, <1>2 DEF Shutdown

LEMMA CacheStep == CacheInv /\ [DaemonNext]_daemonVars => CacheInv'
<1> SUFFICES ASSUME CacheInv, [DaemonNext]_daemonVars  PROVE CacheInv'
  OBVIOUS
<1>1. CASE UNCHANGED daemonVars
  BY <1>1, CacheSame DEF daemonVars, clientVars
<1>2. ASSUME NEW c \in Client, Serve(c) \/ \E p \in Project : Accept(c, p)  PROVE CacheInv'
  BY <1>2, CacheServes, CacheTouches, CacheLoads DEF Serve
<1>3. ASSUME NEW p \in Project, OnIdle(p) \/ IdleCall(p)  PROVE CacheInv'
  <2>1. UNCHANGED <<life, cacheVars, conn>>
    BY <1>3 DEF OnIdle, IdleCall, ShouldCompact, StartCompaction, clientVars
  <2> QED
    BY <2>1, CacheSame
<1>4. ASSUME NEW w \in Compaction, Work(w)  PROVE CacheInv'
  <2>1. UNCHANGED <<life, cacheVars, conn>>
    BY <1>4 DEF Work, Spawn, ReadProject, ReadEmbeddings, Rebuild, SaveNew, Swap,
               RecordCompaction, EndCompaction, clientVars
  <2> QED
    BY <2>1, CacheSame
<1>5. CASE Signal \/ Shutdown
  BY <1>5, CacheShutsDown
<1> QED
  BY <1>1, <1>2, <1>3, <1>4, <1>5 DEF DaemonNext

\* However many projects are asked for, fail to load, are evicted and searched
\* meanwhile: the stores that are open are those of the cached projects, within
\* the limit, and a handler finds its project closed only by an eviction, never
\* by the shutdown (daemon.go:318-400, 480-640).
THEOREM DaemonKeepsStores == DaemonSpec => []StoresStayOpen
<1>1. CacheInv => StoresStayOpen
  BY DEF CacheInv, StoresStayOpen
<1> QED
  BY CacheStart, CacheStep, <1>1, PTL DEF DaemonSpec

-----------------------------------------------------------------------------
(***************************************************************************)
(* Background compaction, for any number of projects and compactions: the  *)
(* flag of a project is set as long as a compaction of it goes on, and     *)
(* whichever compactions slip by wg.Wait find the manager cancelled before *)
(* they can save.                                                          *)
(***************************************************************************)

CompactTypeOK ==
    /\ life \in Lives
    /\ compacting \subseteq Project
    /\ worker \in [Compaction -> [at : WorkerAt, project : Project \cup {NoProject},
                                  state : State \cup {NoState}]]
    /\ cached \in [Project -> State \cup {NoState}]

Going(w) == worker[w].at \notin {"unborn", "done"}

\* The steps between the last look at the context and the end.
PastLook == {"rebuild", "save", "swap", "record"}

\* The strengthening of CompactionIsSafe.
CompactInv ==
    /\ CompactTypeOK
    /\ Cardinality(Started) \in Nat /\ Started = 1..Cardinality(Started)
    /\ \A w \in Compaction : worker[w].at = "unborn" <=> worker[w].project = NoProject
    /\ \A w \in Compaction : Going(w) => worker[w].project \in compacting
    /\ \A v, w \in Compaction :
          Going(v) /\ Going(w) /\ worker[v].project = worker[w].project => v = w
    /\ life \in {"closing", "stopped"} => \A w \in Compaction : worker[w].at \notin PastLook

LEMMA CompactStart == DaemonInit => CompactInv
<1> SUFFICES ASSUME DaemonInit  PROVE CompactInv
  OBVIOUS
<1>1. CompactTypeOK
  BY DEF DaemonInit, CompactTypeOK, Lives, WorkerAt
<1>2. \A w \in Compaction : worker[w].at = "unborn" /\ worker[w].project = NoProject
  BY DEF DaemonInit
<1>3. Started = {}
  BY <1>2 DEF Started
<1>4. Cardinality({}) = 0 /\ {} = 1..0
  BY FS_EmptySet
<1> QED
  BY <1>1, <1>2, <1>3, <1>4 DEF CompactInv, DaemonInit, Going

\* Connections, timers and checks start and stop nothing.
LEMMA CompactSame ==
    ASSUME CompactInv, UNCHANGED <<life, compacting, worker>>, CacheInv'  PROVE CompactInv'
<1>1. Started' = Started
  BY DEF Started
<1>2. cached' \in [Project -> State \cup {NoState}]
  BY DEF CacheInv, CacheTypeOK
<1> QED
  BY <1>1, <1>2 DEF CompactInv, CompactTypeOK, Going

\* A compaction goes on: past its last look at the context only while the manager
\* is not cancelled.
LEMMA CompactWorks ==
    ASSUME CompactInv, NEW w \in Compaction, NEW a \in WorkerAt \ {"unborn"},
           NEW s \in State \cup {NoState}, Going(w),
           worker' = [worker EXCEPT ![w].at = a, ![w].state = s],
           UNCHANGED <<life, cached>>,
           a # "done" => compacting' = compacting,
           a = "done" => compacting' = compacting \ {worker[w].project},
           a \in PastLook => worker[w].at \in PastLook \/ ~ManagerCancelled
    PROVE  CompactInv'
<1> DEFINE k == [worker[w] EXCEPT !.at = a, !.state = s]
<1>1. worker[w].project \in Project \cup {NoProject} /\ worker[w].at \in WorkerAt
  BY DEF CompactInv, CompactTypeOK
<1>2. k.at = a /\ k.project = worker[w].project
      /\ k \in [at : WorkerAt, project : Project \cup {NoProject}, state : State \cup {NoState}]
  BY <1>1 DEF CompactInv, CompactTypeOK
<1>3. worker' \in [Compaction -> [at : WorkerAt, project : Project \cup {NoProject},
                                  state : State \cup {NoState}]]
      /\ \A v \in Compaction : worker'[v] = IF v = w THEN k ELSE worker[v]
  BY <1>2 DEF CompactInv, CompactTypeOK
<1> HIDE DEF k
<1>4. CompactTypeOK'
  BY <1>3 DEF CompactInv, CompactTypeOK
<1>5. Started' = Started
  BY <1>2, <1>3 DEF Started, Going
<1>6. \A v \in Compaction : worker'[v].project = worker[v].project /\ (Going(v)' => Going(v))
  BY <1>2, <1>3 DEF Going
<1>7. \A v \in Compaction : Going(v)' => worker'[v].project \in compacting'
  <2> SUFFICES ASSUME NEW v \in Compaction, Going(v)'  PROVE worker'[v].project \in compacting'
    OBVIOUS
  <2>1. Going(v) /\ worker[v].project \in compacting
    BY <1>6 DEF CompactInv
  <2>2. CASE v = w
    <3>1. a # "done"
      BY <1>2, <1>3, <2>2 DEF Going
    <3> QED
      BY <1>6, <2>1, <3>1
  <2>3. CASE v # w
    BY <1>6, <2>1, <2>3 DEF CompactInv
  <2> QED
    BY <2>2, <2>3
<1>8. \A v \in Compaction : worker'[v].at = "unborn" <=> worker'[v].project = NoProject
  BY <1>2, <1>3 DEF CompactInv, Going
<1>9. life' \in {"closing", "stopped"} => \A v \in Compaction : worker'[v].at \notin PastLook
  BY <1>2, <1>3 DEF CompactInv, ManagerCancelled
<1> QED
  BY <1>4, <1>5, <1>6, <1>7, <1>8, <1>9 DEF CompactInv

\* The critical section of startCompaction.
LEMMA CompactBegins == ASSUME CompactInv, NEW p \in Project, StartCompaction(p)  PROVE CompactInv'
<1>1. life' = life /\ cached' = cached
  BY DEF StartCompaction, cacheVars
<1>2. CASE UNCHANGED <<compacting, worker>>
  <2>1. Started' = Started
    BY <1>2 DEF Started
  <2> QED
    BY <1>1, <1>2, <2>1 DEF CompactInv, CompactTypeOK, Going
<1>3. CASE p \notin compacting /\ Begin(p)
  <2> DEFINE w == Cardinality(Started) + 1
             k == [at |-> "starting", project |-> p, state |-> NoState]
  <2>1. Cardinality(Started) \in Nat /\ Started = 1..Cardinality(Started)
    BY DEF CompactInv
  <2>2. w \in Compaction /\ w \in Nat /\ w >= 1 /\ w \notin Started /\ 1..w = Started \cup {w}
    BY <1>3, <2>1 DEF Begin
  <2>3. compacting' = compacting \cup {p} /\ worker' = [worker EXCEPT ![w] = k]
    BY <1>3 DEF Begin
  <2>4. k \in [at : WorkerAt, project : Project \cup {NoProject}, state : State \cup {NoState}]
        /\ k.at = "starting" /\ k.project = p
    BY DEF WorkerAt
  <2> HIDE DEF w, k
  <2>5. worker' \in [Compaction -> [at : WorkerAt, project : Project \cup {NoProject},
                                    state : State \cup {NoState}]]
        /\ \A v \in Compaction : worker'[v] = IF v = w THEN k ELSE worker[v]
    BY <2>2, <2>3, <2>4 DEF CompactInv, CompactTypeOK
  <2>6. CompactTypeOK'
    BY <1>1, <2>3, <2>5 DEF CompactInv, CompactTypeOK
  <2>7. Started' = 1..w
    BY <2>2, <2>4, <2>5 DEF Started
  <2>8. Cardinality(1..w) = w
    BY <2>2, FS_Interval
  <2>9. \A v \in Compaction : Going(v) => worker[v].project # p
    BY <1>3 DEF CompactInv
  <2>10. \A v \in Compaction : v # w => worker'[v] = worker[v] /\ (Going(v)' <=> Going(v))
    BY <2>5 DEF Going
  <2>11. \A u, v \in Compaction :
             Going(u)' /\ Going(v)' /\ worker'[u].project = worker'[v].project => u = v
    BY <2>4, <2>5, <2>9, <2>10 DEF CompactInv
  <2>12. \A v \in Compaction : Going(v)' => worker'[v].project \in compacting'
    BY <2>3, <2>4, <2>5, <2>10 DEF CompactInv
  <2>13. \A v \in Compaction : worker'[v].at = "unborn" <=> worker'[v].project = NoProject
    BY <2>4, <2>5, DaemonAssumption DEF CompactInv
  <2>14. life' \in {"closing", "stopped"} => \A v \in Compaction : worker'[v].at \notin PastLook
    BY <1>1, <2>4, <2>5 DEF CompactInv, PastLook
  <2> QED
    BY <2>2, <2>6, <2>7, <2>8, <2>11, <2>12, <2>13, <2>14 DEF CompactInv
<1> QED
  BY <1>2, <1>3 DEF StartCompaction

LEMMA CompactGoesOn == ASSUME CompactInv, NEW w \in Compaction, Work(w)  PROVE CompactInv'
<1>1. life' = life /\ cached' = cached
  BY DEF Work, Spawn, ReadProject, ReadEmbeddings, Rebuild, SaveNew, Swap, RecordCompaction,
         EndCompaction, cacheVars
<1>2. worker[w] \in [at : WorkerAt, project : Project \cup {NoProject}, state : State \cup {NoState}]
  BY DEF CompactInv, CompactTypeOK
<1>3. ASSUME NEW from \in WorkerAt \ {"unborn", "done"}, NEW to \in WorkerAt \ {"unborn", "done"},
             Go(w, from, to), compacting' = compacting,
             to \in PastLook => from \in PastLook \/ ~ManagerCancelled
      PROVE  CompactInv'
  <2>1. worker' = [worker EXCEPT ![w].at = to, ![w].state = worker[w].state]
    BY <1>2, <1>3 DEF Go, CompactInv, CompactTypeOK
  <2>2. Going(w) /\ worker[w].at = from /\ worker[w].state \in State \cup {NoState}
    BY <1>2, <1>3 DEF Go, Going
  <2> QED
    BY <1>1, <1>3, <2>1, <2>2, CompactWorks
<1>4. CASE Spawn(w) \/ ReadEmbeddings(w) \/ Rebuild(w) \/ SaveNew(w) \/ Swap(w) \/ RecordCompaction(w)
  <2>1. compacting' = compacting
    BY <1>4 DEF Spawn, ReadEmbeddings, Rebuild, SaveNew, Swap, RecordCompaction
  <2>2. \/ Go(w, "starting", "project") \/ Go(w, "embeddings", "end") \/ Go(w, "rebuild", "end")
        \/ Go(w, "save", "end") \/ Go(w, "save", "swap") \/ Go(w, "swap", "record")
        \/ Go(w, "record", "end")
        \/ ~ManagerCancelled /\ (Go(w, "embeddings", "rebuild") \/ Go(w, "rebuild", "save"))
    BY <1>4 DEF Spawn, ReadEmbeddings, Rebuild, SaveNew, Swap, RecordCompaction, Interrupted
  <2>3. {"starting", "project", "embeddings", "end", "rebuild", "save", "swap", "record"}
            \subseteq WorkerAt \ {"unborn", "done"}
        /\ PastLook = {"rebuild", "save", "swap", "record"}
    BY DEF WorkerAt, PastLook
  <2> QED
    BY <1>3, <2>1, <2>2, <2>3
<1>5. CASE ReadProject(w)
  <2> DEFINE s == cached[worker[w].project]
             a == IF s = NoState THEN "end" ELSE "embeddings"
  <2>1. worker[w].at = "project" /\ worker' = [worker EXCEPT ![w].at = a, ![w].state = s]
        /\ compacting' = compacting
    BY <1>5 DEF ReadProject
  <2>2. worker[w].project \in Project /\ Going(w)
    BY <2>1 DEF CompactInv, CompactTypeOK, Going
  <2>3. s \in State \cup {NoState}
    BY <2>2 DEF CompactInv, CompactTypeOK
  <2>4. a \in WorkerAt \ {"unborn"} /\ a # "done" /\ a \notin PastLook
    BY DEF WorkerAt, PastLook
  <2> HIDE DEF s, a
  <2> QED
    BY <1>1, <2>1, <2>2, <2>3, <2>4, CompactWorks
<1>6. CASE EndCompaction(w)
  <2>1. worker[w].at = "end" /\ compacting' = compacting \ {worker[w].project}
        /\ worker' = [worker EXCEPT ![w].at = "done", ![w].state = worker[w].state]
    BY <1>2, <1>6 DEF EndCompaction, Go, CompactInv, CompactTypeOK
  <2>2. Going(w) /\ worker[w].state \in State \cup {NoState} /\ "done" \in WorkerAt \ {"unborn"}
        /\ "done" \notin PastLook
    BY <1>2, <2>1 DEF Going, WorkerAt, PastLook
  <2> QED
    BY <1>1, <2>1, <2>2, CompactWorks
<1> QED
  BY <1>4, <1>5, <1>6 DEF Work

\* wg.Wait leaves nobody past the last look behind.
LEMMA CompactStops == ASSUME CompactInv, CacheInv', Signal \/ Shutdown  PROVE CompactInv'
<1>1. compacting' = compacting /\ worker' = worker
  BY DEF Signal, Shutdown, Drain, StopCompaction, WaitForCompactions, CloseProjects, compactVars
<1>2. Started' = Started
  BY <1>1 DEF Started
<1>3. CompactTypeOK'
  BY <1>1 DEF CompactInv, CompactTypeOK, CacheInv, CacheTypeOK
<1>4. life' \in {"closing", "stopped"} => \A w \in Compaction : worker[w].at \notin PastLook
  BY DEF CompactInv, Signal, Shutdown, Drain, StopCompaction, WaitForCompactions, CloseProjects,
         InGroup, PastLook
<1> QED
  BY <1>1, <1>2, <1>3, <1>4 DEF CompactInv, Going

LEMMA CompactStep == CacheInv /\ CompactInv /\ [DaemonNext]_daemonVars => CompactInv'
<1> SUFFICES ASSUME CacheInv, CompactInv, [DaemonNext]_daemonVars  PROVE CompactInv'
  OBVIOUS
<1>0. CacheInv'
  BY CacheStep
<1>1. CASE UNCHANGED daemonVars
  BY <1>0, <1>1, CompactSame DEF daemonVars, compactVars
<1>2. ASSUME NEW c \in Client, Serve(c) \/ \E p \in Project : Accept(c, p)  PROVE CompactInv'
  <2>1. UNCHANGED <<life, compacting, worker>>
    BY <1>2 DEF Serve, HandleRequest, InterruptCompaction, Lookup, LoadProject, Touch, Search,
               OnSearchComplete, Accept, compactVars
  <2> QED
    BY <1>0, <2>1, CompactSame
<1>3. ASSUME NEW p \in Project, OnIdle(p) \/ IdleCall(p)  PROVE CompactInv'
  <2>1. CASE OnIdle(p) \/ ShouldCompact(p)
    <3>1. UNCHANGED <<life, compacting, worker>>
      BY <2>1 DEF OnIdle, ShouldCompact
    <3> QED
      BY <1>0, <3>1, CompactSame
  <2> QED
    BY <1>3, <2>1, CompactBegins DEF IdleCall
<1>4. ASSUME NEW w \in Compaction, Work(w)  PROVE CompactInv'
  BY <1>4, CompactGoesOn
<1>5. CASE Signal \/ Shutdown
  BY <1>0, <1>5, CompactStops
<1> QED
  BY <1>1, <1>2, <1>3, <1>4, <1>5 DEF DaemonNext

\* What no step does when the daemon has stopped.
LEMMA StoppedIsQuiet ==
    ASSUME CacheInv, CompactInv, [DaemonNext]_daemonVars, life = "stopped"
    PROVE  UNCHANGED <<fileOrphaned, vectorOf>>
<1>1. ASSUME NEW w \in Compaction, Work(w)  PROVE UNCHANGED <<fileOrphaned, vectorOf>>
  <2>1. worker[w].at \notin PastLook
    BY DEF CompactInv
  <2>2. ~SaveNew(w) /\ ~Swap(w)
    BY <2>1 DEF SaveNew, Swap, Go, PastLook
  <2> QED
    BY <1>1, <2>2 DEF Work, Spawn, ReadProject, ReadEmbeddings, Rebuild, RecordCompaction,
                     EndCompaction, vectorVars
<1>2. ASSUME NEW c \in Client, Serve(c) \/ \E p \in Project : Accept(c, p)
      PROVE  UNCHANGED <<fileOrphaned, vectorOf>>
  BY <1>2 DEF Serve, HandleRequest, InterruptCompaction, Lookup, LoadProject, Touch, Search,
             OnSearchComplete, Accept, vectorVars
<1>3. ASSUME NEW p \in Project, OnIdle(p) \/ IdleCall(p)  PROVE UNCHANGED <<fileOrphaned, vectorOf>>
  BY <1>3 DEF OnIdle, IdleCall, ShouldCompact, StartCompaction, vectorVars
<1>4. CASE Signal \/ Shutdown \/ UNCHANGED daemonVars
  BY <1>4 DEF Signal, Shutdown, Drain, StopCompaction, WaitForCompactions, CloseProjects,
             daemonVars, vectorVars
<1> QED
  BY <1>1, <1>2, <1>3, <1>4 DEF DaemonNext

\* However the idle timers race each other and the shutdown: a project has one
\* compaction at a time, and a daemon that has stopped replaces no vector file
\* and no store (compaction.go:160-300).
THEOREM CompactionRunsAlone == DaemonSpec => CompactionIsSafe
<1>1. CompactInv => OneCompaction
  BY DEF CompactInv, OneCompaction, Going
<1>2. CacheInv /\ CompactInv /\ [DaemonNext]_daemonVars
         => [OneCompaction' /\ StoppedSavesNothing]_daemonVars
  <2> SUFFICES ASSUME CacheInv, CompactInv, [DaemonNext]_daemonVars
               PROVE  OneCompaction' /\ StoppedSavesNothing
    OBVIOUS
  <2>1. CompactInv'
    BY CompactStep
  <2>2. OneCompaction'
    BY <1>1, <2>1 DEF OneCompaction, CompactInv, Going
  <2>3. StoppedSavesNothing
    BY StoppedIsQuiet DEF StoppedSavesNothing
  <2> QED
    BY <2>2, <2>3
<1> QED
  BY CacheStart, CacheStep, CompactStart, CompactStep, <1>2, PTL DEF DaemonSpec, CompactionIsSafe
-----------------------------------------------------------------------------
(***************************************************************************)
(* After .gitignore files were edited (IgnoreSync).  With nothing queued   *)
(* and nothing unsure, what a scan found is what it would find now, and so *)
(* is the index once that is done.  A scan that read a newer .gitignore    *)
(* than the one of its event is right because the newer one has an event   *)
(* of its own, and the cache holds no matcher of an older file: beside the *)
(* watcher it was cleared, in a start an edit leaves something unsure.     *)
(***************************************************************************)

\* A set of numbers that is not empty has a least one.
LEMMA LeastIsThere ==
    ASSUME NEW S \in SUBSET Nat, S # {}
    PROVE  \E n \in S : \A m \in S : n <= m
<1>1. PICK n \in S : \A m \in S : ~(<<m, n>> \in OpToRel(<, Nat))
  BY NatLessThanWellFounded, WFMin, Zenon
<1>2. \A m \in S : ~(m < n)
  BY <1>1, Zenon DEF OpToRel
<1> QED
  BY <1>2

-----------------------------------------------------------------------------
\* What the scanner and the matcher make of .gitignore files.

\* Names paths are made of.
Name == UNION {Range(p) : p \in File \cup IgnoreDir}

\* A path from the root is itself, and no file is a directory with a .gitignore.
LEMMA Paths ==
    /\ \A p \in File \cup IgnoreDir : p \in Seq(Name)
    /\ <<>> \in IgnoreDir /\ \A p \in File : p \notin IgnoreDir /\ Len(p) > 0
    /\ \A p \in File \cup IgnoreDir : From(<<>>, p) = p /\ IsPrefix(<<>>, p)
<1>1. ASSUME NEW p \in File \cup IgnoreDir  PROVE p \in Seq(Name)
  <2>1. p \in Seq(Range(p)) /\ Range(p) \subseteq Name
    BY ScanningAssumption, IgnoreAssumption DEF Name
  <2> DEFINE R == Range(p)
  <2> HIDE DEF R
  <2>2. p \in Seq(R) /\ R \subseteq Name
    BY <2>1 DEF R
  <2> QED
    BY <2>2
<1>2. <<>> \in IgnoreDir /\ \A p \in File : p \notin IgnoreDir
  BY IgnoreAssumption
<1>3. ASSUME NEW p \in File  PROVE Len(p) > 0
  <2>1. p \in Seq(Name) /\ p # <<>>
    BY <1>1, <1>2
  <2> QED
    BY <2>1
<1>4. ASSUME NEW p \in File \cup IgnoreDir  PROVE From(<<>>, p) = p /\ IsPrefix(<<>>, p)
  <2>1. p \in Seq(Name)
    BY <1>1
  <2> QED
    BY <2>1 DEF From, IsPrefix
<1> QED
  BY <1>1, <1>2, <1>3, <1>4

\* Every file is below the root.
LEMMA UnderRoot == \A p \in File : Under(p, <<>>)
BY Paths DEF Under

\* The .gitignore file of d keeps p out.
Hides(files, d, p) == files[d] # <<>> /\ Match(Matcher(files[d][1], d), p, FALSE)

\* What the configuration and the file itself keep out.
Eligible(p, top, excludes) == p \in Reached(top, excludes) /\ ~ExcludedByName(p, excludes) /\ Readable(p)

\* What .gitignore files there may be.
Files == [IgnoreDir -> {<<>>} \cup {<<c>> : c \in UNION {Contents[d] : d \in IgnoreDir}}]

\* Without rules nothing is ignored.
LEMMA NoRuleHidesNothing == \A p : ~Match(<<>>, p, FALSE)
BY DEF Match

\* A cache that holds what would be parsed again makes no difference.
LEMMA IgnoredBy ==
    ASSUME NEW F, DOMAIN F = IgnoreDir, NEW kept, NEW p \in File,
           \A d \in IgnoreDir : kept[d] = <<>> \/ (F[d] # <<>> /\ kept[d] = <<Matcher(F[d][1], d)>>)
    PROVE  Ignoring(p, <<>>, F, kept) # {} <=> \E d \in IgnoreDir : Under(p, d) /\ Hides(F, d, p)
<1>1. \A d \in IgnoreDir : From(<<>>, d) = d /\ IsPrefix(<<>>, d)
  BY Paths
<1>2. From(<<>>, p) = p
  BY Paths
<1>3. ASSUME NEW d \in IgnoreDir
      PROVE  RulesAt(d, <<>>, F, kept) = IF F[d] = <<>> THEN <<>> ELSE Matcher(F[d][1], d)
  BY <1>1 DEF RulesAt
<1>4. \A d \in IgnoreDir : Match(RulesAt(d, <<>>, F, kept), p, FALSE) <=> Hides(F, d, p)
  BY <1>3, NoRuleHidesNothing DEF Hides
<1>5. IgnoreFilesOver(p, <<>>, F) = {d \in IgnoreDir : Under(p, d)}
  BY <1>1 DEF IgnoreFilesOver
<1> QED
  BY <1>2, <1>4, <1>5 DEF Ignoring

\* A scan has exactly the files that may be indexed and that no .gitignore over them hides.
LEMMA Scanned ==
    ASSUME NEW F, DOMAIN F = IgnoreDir, NEW kept, NEW p \in File, NEW excludes, NEW top,
           \A d \in IgnoreDir : kept[d] = <<>> \/ (F[d] # <<>> /\ kept[d] = <<Matcher(F[d][1], d)>>)
    PROVE  /\ p \in Scan(excludes, F, kept) <=>
                 Eligible(p, <<>>, excludes) /\ \A d \in IgnoreDir : Under(p, d) => ~Hides(F, d, p)
           /\ p \in ScanFrom(top, excludes, F, kept) <=>
                 Eligible(p, top, excludes) /\ \A d \in IgnoreDir : Under(p, d) => ~Hides(F, d, p)
<1>1. Ignoring(p, <<>>, F, kept) # {} <=> \E d \in IgnoreDir : Under(p, d) /\ Hides(F, d, p)
  BY IgnoredBy
<1>2. From(<<>>, p) = p
  BY Paths
<1> QED
  BY <1>1, <1>2 DEF Scan, ScanFrom, Eligible, ShouldExcludeFile

\* A scan returns files of the project.
LEMMA ScansAreFiles ==
    \A top, excludes, F, kept :
        Scan(excludes, F, kept) \subseteq File /\ ScanSubtree(top, excludes, F, kept) \subseteq File
BY DEF Scan, ScanFrom, ScanSubtree, Reached

\* The cache that was cleared.
LEMMA EmptyCache == DOMAIN Empty = IgnoreDir /\ \A d \in IgnoreDir : Empty[d] = <<>>
BY DEF Empty

\* A prefix, name by name.
LEMMA PrefixNames ==
    ASSUME NEW S, NEW a \in Seq(S), NEW T, NEW b \in Seq(T)
    PROVE  IsPrefix(a, b) <=> Len(a) <= Len(b) /\ \A i \in 1..Len(a) : a[i] = b[i]
<1>1. PICK m \in Nat, n \in Nat : m = Len(a) /\ n = Len(b)
  OBVIOUS
<1>2. SubSeq(a, 1, m) = a
  BY <1>1
<1>3. ASSUME m <= n  PROVE SubSeq(b, 1, m) \in Seq(T) /\ Len(SubSeq(b, 1, m)) = m /\ \A i \in 1..m : SubSeq(b, 1, m)[i] = b[i]
  BY <1>1, <1>3
<1>4. IsPrefix(a, b) <=> m <= n /\ a = SubSeq(b, 1, m)
  BY <1>1, <1>2 DEF IsPrefix
<1>5. ASSUME m <= n, \A i \in 1..m : a[i] = b[i]  PROVE a = SubSeq(b, 1, m)
  <2> DEFINE t == SubSeq(b, 1, m)
  <2>1. t \in Seq(T) /\ Len(t) = m /\ \A i \in 1..m : t[i] = a[i]
    BY <1>3, <1>5
  <2> HIDE DEF t
  <2>2. a \in Seq(S \cup T) /\ t \in Seq(S \cup T)
    BY <2>1
  <2>3. a = t
    BY <1>1, <2>1, <2>2, SeqEqual
  <2> QED
    BY <2>3 DEF t
<1> QED
  BY <1>1, <1>3, <1>4, <1>5

\* A directory is excluded with the one it is in.
LEMMA ExcludedBelow ==
    ASSUME NEW S, NEW d \in Seq(S), NEW t \in Seq(S), IsPrefix(d, t),
           NEW excludes, \A e \in excludes : e.dir \in Seq(Range(e.dir)), ShouldExcludeDir(d, excludes)
    PROVE  ShouldExcludeDir(t, excludes)
<1>1. Len(d) <= Len(t) /\ Len(d) \in Nat /\ Len(t) \in Nat /\ \A i \in 1..Len(d) : d[i] = t[i]
  BY PrefixNames
<1>2. PICK P \in DefaultDirs \cup excludes : MatchDirPattern(d, P)
  BY DEF ShouldExcludeDir
<1>3. P.dir \in Seq(Range(P.dir))
  <2>1. ASSUME NEW D \in DefaultDirs  PROVE D.dir = <<>>
    BY DEF DefaultDirs, Pattern
  <2>2. ASSUME P.dir = <<>>  PROVE P.dir \in Seq(Range(P.dir))
    <3> DEFINE R == Range(P.dir)
    <3> HIDE DEF R
    <3>1. P.dir \in Seq(R)
      BY <2>2
    <3> QED
      BY <3>1 DEF R
  <2> QED
    BY <2>1, <2>2
<1>4. CASE P.form = "anywhere"
  <2>1. PICK i \in DOMAIN d : d[i] \in P.names
    BY <1>2, <1>4 DEF MatchDirPattern
  <2>2. i \in DOMAIN t /\ t[i] \in P.names
    BY <1>1, <2>1
  <2>3. MatchDirPattern(t, P)
    BY <1>4, <2>2 DEF MatchDirPattern
  <2> QED
    BY <2>3 DEF ShouldExcludeDir
<1>5. CASE P.form \in {"under", "exact"}
  <2>1. IsPrefix(P.dir, d)
    BY <1>2, <1>5 DEF MatchDirPattern
  <2>2. Len(P.dir) <= Len(d) /\ Len(P.dir) \in Nat /\ \A i \in 1..Len(P.dir) : P.dir[i] = d[i]
    <3> DEFINE R == Range(P.dir)
    <3> HIDE DEF R
    <3>1. P.dir \in Seq(R)
      BY <1>3 DEF R
    <3> QED
      BY <2>1, <3>1, PrefixNames
  <2>3. Len(P.dir) <= Len(t) /\ \A i \in 1..Len(P.dir) : P.dir[i] = t[i]
    BY <1>1, <2>2
  <2>4. IsPrefix(P.dir, t)
    <3> DEFINE R == Range(P.dir)
    <3> HIDE DEF R
    <3>1. P.dir \in Seq(R)
      BY <1>3 DEF R
    <3> QED
      BY <2>3, <3>1, PrefixNames
  <2>5. MatchDirPattern(t, P)
    BY <1>5, <2>4 DEF MatchDirPattern
  <2> QED
    BY <2>5 DEF ShouldExcludeDir
<1>6. P.form = "anywhere" \/ P.form \in {"under", "exact"}
  BY <1>2 DEF MatchDirPattern
<1> QED
  BY <1>4, <1>5, <1>6

\* The walk from top meets the files that the walk from the root meets there.
LEMMA ReachedFromTop ==
    ASSUME NEW p \in File, NEW top \in Seq(Name), top # <<>>,
           NEW excludes, \A e \in excludes : e.dir \in Seq(Range(e.dir))
    PROVE  p \in Reached(top, excludes) <=> Under(p, top) /\ p \in Reached(<<>>, excludes)
<1>1. p \in Seq(Name) /\ Len(p) > 0
  BY Paths
<1>2. Under(p, <<>>)
  BY UnderRoot
<1>3. ASSUME p \in Reached(<<>>, excludes), Under(p, top)  PROVE p \in Reached(top, excludes)
  <2>1. Entered(p, top) \subseteq Entered(p, <<>>)
    BY <1>1 DEF Entered, IsPrefix, Directories
  <2> QED
    BY <1>3, <2>1 DEF Reached
<1>4. ASSUME p \in Reached(top, excludes)  PROVE Under(p, top) /\ p \in Reached(<<>>, excludes)
  <2>1. Under(p, top) /\ p \notin Symlink /\ \A d \in Entered(p, top) : ~ShouldExcludeDir(d, excludes)
    BY <1>4 DEF Reached
  <2>2. PICK k \in Nat, l \in Nat : k = Len(top) /\ l = Len(p) /\ k < l /\ k > 0
    BY <1>1, <2>1 DEF Under
  <2>3. \A i \in 1..k : top[i] = p[i]
    BY <1>1, <2>1, <2>2, PrefixNames DEF Under
  <2>4. top = SubSeq(p, 1, k)
    BY <1>1, <2>1, <2>2 DEF Under, IsPrefix
  <2>5. top \in Entered(p, top)
    <3>1. k \in 0..(l - 1)
      BY <2>2
    <3>2. top \in Directories(p)
      BY <2>2, <2>4, <3>1 DEF Directories
    <3> QED
      BY <3>2 DEF Entered, IsPrefix
  <2>6. ASSUME NEW d \in Entered(p, <<>>)  PROVE ~ShouldExcludeDir(d, excludes)
    <3>1. PICK n \in 0..(l - 1) : d = SubSeq(p, 1, n)
      BY <2>2 DEF Entered, Directories
    <3>2. d \in Seq(Name) /\ Len(d) = n /\ n \in Nat /\ \A i \in 1..n : d[i] = p[i]
      BY <1>1, <2>2, <3>1
    <3>3. CASE n < k
      <4>1. \A i \in 1..Len(d) : d[i] = top[i]
        BY <2>2, <2>3, <3>2, <3>3
      <4>2. IsPrefix(d, top)
        BY <2>2, <3>2, <3>3, <4>1, PrefixNames
      <4> QED
        BY <2>1, <2>5, <3>2, <4>2, ExcludedBelow
    <3>4. CASE ~(n < k)
      <4>1. \A i \in 1..Len(top) : top[i] = d[i]
        BY <2>2, <2>3, <3>2, <3>4
      <4>2. IsPrefix(top, d)
        BY <2>2, <3>2, <3>4, <4>1, PrefixNames
      <4>3. d \in Entered(p, top)
        BY <4>2 DEF Entered
      <4> QED
        BY <2>1, <4>3
    <3> QED
      BY <3>3, <3>4
  <2> QED
    BY <1>2, <2>1, <2>6 DEF Reached
<1> QED
  BY <1>3, <1>4 DEF Reached

\* A subtree scanned by itself gives what the scan of the project finds there.
LEMMA SubtreeOfScan ==
    ASSUME NEW F, DOMAIN F = IgnoreDir, NEW p \in File, NEW top \in Seq(Name), top # <<>>,
           NEW excludes, \A e \in excludes : e.dir \in Seq(Range(e.dir))
    PROVE  p \in ScanFrom(top, excludes, F, Empty) <=> Under(p, top) /\ p \in Scan(excludes, F, Empty)
<1>1. p \in ScanFrom(top, excludes, F, Empty) <=>
          Eligible(p, top, excludes) /\ \A d \in IgnoreDir : Under(p, d) => ~Hides(F, d, p)
  BY Scanned, EmptyCache
<1>2. p \in Scan(excludes, F, Empty) <=>
          Eligible(p, <<>>, excludes) /\ \A d \in IgnoreDir : Under(p, d) => ~Hides(F, d, p)
  BY Scanned, EmptyCache
<1>3. Eligible(p, top, excludes) <=> Under(p, top) /\ Eligible(p, <<>>, excludes)
  BY ReachedFromTop DEF Eligible
<1> QED
  BY <1>1, <1>2, <1>3

-----------------------------------------------------------------------------
\* Rules without a negation.

\* A set of indexes that is not empty has a last one: the rule that decides.
LEMMA LastThereIs ==
    ASSUME NEW n \in Nat, NEW S \in SUBSET (1..n), S # {}
    PROVE  \E i \in S : \A j \in S : j <= i
<1> DEFINE T == {n - i : i \in S}
<1>0. \A i \in S : i \in Nat /\ n - i \in Nat
  OBVIOUS
<1>1. T \in SUBSET Nat /\ T # {}
  BY <1>0
<1> HIDE DEF T
<1>2. PICK m \in T : \A k \in T : m <= k
  BY <1>1, LeastIsThere
<1>3. PICK i \in S : m = n - i
  BY <1>2 DEF T
<1>4. \A j \in S : m <= n - j
  BY <1>2 DEF T
<1> QED
  BY <1>0, <1>3, <1>4

\* Without negations the order of the rules does not matter: one that matches decides.
LEMMA PlainMatch ==
    ASSUME NEW S, NEW lines \in Seq(S), NEW base, NEW p,
           \A i \in DOMAIN lines : ~lines[i].negation
    PROVE  Match(Matcher(lines, base), p, FALSE) <=>
              \E line \in Range(lines) : MatchRule(p, FALSE, Rule(line, base))
<1> DEFINE rules == Matcher(lines, base)
           matching == {i \in DOMAIN rules : MatchRule(p, FALSE, rules[i])}
           last == CHOOSE i \in matching : \A j \in matching : j <= i
<1>1. DOMAIN rules = 1..Len(lines) /\ Len(lines) \in Nat /\ \A i \in 1..Len(lines) : rules[i] = Rule(lines[i], base)
  BY DEF Matcher
<1>2. \A i \in 1..Len(lines) : ~rules[i].negation
  BY <1>1 DEF Rule
<1>3. Match(rules, p, FALSE) <=> matching # {} /\ ~rules[last].negation
  BY Zenon DEF Match
<1>4. matching \in SUBSET (1..Len(lines))
  BY <1>1
<1>5. matching # {} => last \in matching
  <2> HIDE DEF matching
  <2>1. SUFFICES ASSUME matching # {}  PROVE last \in matching
    OBVIOUS
  <2>2. \E i \in matching : \A j \in matching : j <= i
    BY <1>1, <1>4, <2>1, LastThereIs
  <2> QED
    BY <2>2
<1> HIDE DEF last
<1>6. Match(rules, p, FALSE) <=> matching # {}
  BY <1>2, <1>3, <1>4, <1>5
<1>7. matching # {} <=> \E i \in 1..Len(lines) : MatchRule(p, FALSE, Rule(lines[i], base))
  BY <1>1
<1>8. Range(lines) = {lines[i] : i \in 1..Len(lines)}
  BY DEF Range
<1> HIDE DEF matching
<1> QED
  BY <1>6, <1>7, <1>8

-----------------------------------------------------------------------------
\* The invariant of the coordinator.

\* The lines there are, and the tasks.
Lines == UNION {UNION {Range(c) : c \in Contents[d]} : d \in IgnoreDir}
Tasks == [at : {"idle", "scan", "apply", "hash", "next"}, want : SUBSET File,
          event : {<<>>} \cup {<<x>> : x \in IgnoreDir \cup Files}, found : {<<>>} \cup {<<F>> : F \in Files}]

\* The matchers cached are of the files as they are.
FreshCache ==
    \A d \in IgnoreDir : cache[d] = <<>> \/ (ignores[d] # <<>> /\ cache[d] = <<Matcher(ignores[d][1], d)>>)

IgnoreTypeOK ==
    /\ ignores \in Files /\ index \subseteq File /\ queue \in Seq(IgnoreDir \cup {ConfigFile})
    /\ phase \in {"down", "gitignore", "files", "watching"} /\ task \in Tasks

\* A server that is down has nothing on its way.
DownInv == phase = "down" => task = Idle /\ cache = Empty

\* A scan beside the watcher finds the cache cleared; the scans of a start find it of
\* the files as they are, unless one was edited since.
MatchersInv ==
    /\ phase = "watching" /\ task.at = "scan" => cache = Empty
    /\ phase \in {"gitignore", "files"} /\ "unreported" \notin unsure => FreshCache

\* Nothing is under way to the coordinator, and nothing unsure.
Sure == queue = <<>> /\ unsure = {}

\* What was found is what would be found now.
FoundInv == task.at = "apply" /\ Sure => task.want = Wanted(ignores)

\* The index is right once what was found is done, and stays so between two tasks.
Rests ==
    \/ task.at = "hash"
    \/ task.at = "next" /\ task.found # <<>>
    \/ task.at = "idle" /\ phase = "watching"
RestInv == Rests /\ Sure => index = Wanted(ignores)

IgnoreInv == IgnoreTypeOK /\ DownInv /\ MatchersInv /\ FoundInv /\ RestInv

\* A .gitignore file is not there, or it is its lines.
LEMMA LinesOfFiles ==
    ASSUME NEW F \in Files, NEW d \in IgnoreDir
    PROVE  /\ DOMAIN F = IgnoreDir /\ LinesOf(F[d]) \in Seq(Lines)
           /\ F[d] = <<>> \/ F[d] = <<LinesOf(F[d])>>
<1> DEFINE all == UNION {Contents[e] : e \in IgnoreDir}
<1>1. F[d] = <<>> \/ \E c \in all : F[d] = <<c>>
  BY DEF Files
<1>2. ASSUME NEW c \in all  PROVE c \in Seq(Lines)
  <2>1. PICK e \in IgnoreDir : c \in Contents[e]
    BY <1>2
  <2>2. c \in Seq(Range(c))
    BY <2>1, IgnoreAssumption
  <2>3. Range(c) \subseteq Lines
    BY <2>1 DEF Lines
  <2> DEFINE R == Range(c)
  <2> HIDE DEF R
  <2>4. c \in Seq(R) /\ R \subseteq Lines
    BY <2>2, <2>3 DEF R
  <2> QED
    BY <2>4
<1>3. DOMAIN F = IgnoreDir
  BY DEF Files
<1> HIDE DEF all
<1>4. CASE F[d] = <<>>
  BY <1>3, <1>4 DEF LinesOf
<1>5. ASSUME NEW c \in all, F[d] = <<c>>  PROVE LinesOf(F[d]) = c /\ F[d] # <<>>
  BY <1>5 DEF LinesOf
<1> QED
  BY <1>1, <1>2, <1>3, <1>4, <1>5

\* The tasks the coordinator begins with.
LEMMA TasksBegin ==
    /\ Idle \in Tasks /\ Idle.at = "idle" /\ Idle.found = <<>>
    /\ \A event \in {<<>>} \cup {<<x>> : x \in IgnoreDir \cup Files} :
          Rescan(event) \in Tasks /\ Rescan(event).at = "scan" /\ Rescan(event).found = <<>>
BY DEF Idle, Rescan, Tasks

\* A cache that was cleared is of any files.
LEMMA ClearedIsFresh == cache = Empty => FreshCache
BY EmptyCache DEF FreshCache

\* The server is down, with an index that is a scan of no .gitignore files.
LEMMA IgnoreStart == IgnoreInit => IgnoreInv
<1> SUFFICES ASSUME IgnoreInit  PROVE IgnoreInv
  OBVIOUS
<1>1. ignores \in Files
  BY DEF IgnoreInit, Files
<1>2. index \subseteq File
  BY ScansAreFiles DEF IgnoreInit, Wanted
<1> QED
  BY <1>1, <1>2, TasksBegin
  DEF IgnoreInit, IgnoreInv, IgnoreTypeOK, DownInv, MatchersInv, FoundInv, RestInv, Rests

\* An edit is reported, and then queued, or leaves something unsure. It clears no cache.
LEMMA IgnoreEditIgnore == ASSUME NEW d \in IgnoreDir PROVE IgnoreInv /\ EditIgnore(d) => IgnoreInv'
<1> SUFFICES ASSUME IgnoreInv, EditIgnore(d)  PROVE IgnoreInv'
  OBVIOUS
<1>1. ignores' \in Files
  BY DEF IgnoreInv, IgnoreTypeOK, EditIgnore, Files
<1>2. IgnoreTypeOK'
  BY <1>1 DEF IgnoreInv, IgnoreTypeOK, EditIgnore
<1>3. DownInv' /\ (phase' = "watching" /\ task'.at = "scan" => cache' = Empty)
  BY DEF IgnoreInv, DownInv, MatchersInv, EditIgnore
<1>4. phase = phase' /\ task' = task /\ (phase \in {"gitignore", "files"} => "unreported" \in unsure')
  BY DEF EditIgnore
<1>5. phase = "watching" => ~Sure'
  <2>1. CASE d \notin watch.off \cup watch.hidden
    <3>1. SUFFICES ASSUME phase = "watching"  PROVE queue' # <<>>
      BY DEF Sure
    <3>2. queue' = IF Contains(queue, d) THEN queue ELSE Append(queue, d)
      BY <2>1, <3>1 DEF EditIgnore
    <3>3. Contains(queue, d) => queue # <<>>
      BY DEF Contains
    <3> QED
      BY <3>2, <3>3
  <2>2. CASE d \in watch.off \cup watch.hidden
    BY <2>2 DEF EditIgnore, Sure
  <2> QED
    BY <2>1, <2>2
<1>6. phase = "down" => ~Rests /\ task.at # "apply"
  BY TasksBegin DEF IgnoreInv, DownInv, Rests
<1>7. phase \in {"gitignore", "files"} => ~Sure'
  BY <1>4 DEF Sure
<1> QED
  BY <1>2, <1>3, <1>4, <1>5, <1>6, <1>7
  DEF IgnoreInv, IgnoreTypeOK, DownInv, MatchersInv, FoundInv, RestInv, Rests

\* The configuration file is queued, whatever else is.
LEMMA IgnoreEditConfig == IgnoreInv /\ EditConfig => IgnoreInv'
<1> SUFFICES ASSUME IgnoreInv, EditConfig  PROVE IgnoreInv'
  OBVIOUS
<1>1. queue' \in Seq(IgnoreDir \cup {ConfigFile}) /\ queue' # <<>>
  BY DEF EditConfig, IgnoreInv, IgnoreTypeOK
<1>2. UNCHANGED <<ignores, index, cache, phase, task, unsure>>
  BY DEF EditConfig
<1>3. FreshCache' <=> FreshCache
  BY <1>2 DEF FreshCache
<1>4. ~Sure'
  BY <1>1 DEF Sure
<1> QED
  BY <1>1, <1>2, <1>3, <1>4 DEF IgnoreInv, IgnoreTypeOK, DownInv, MatchersInv, FoundInv, RestInv

\* An event is taken from the queue, and the cache is cleared for the scan to come.
LEMMA IgnoreHandles == IgnoreInv /\ (HandleGitignoreChange \/ HandleConfigChange) => IgnoreInv'
<1> SUFFICES ASSUME IgnoreInv, HandleGitignoreChange \/ HandleConfigChange  PROVE IgnoreInv'
  OBVIOUS
<1>1. /\ phase = "watching" /\ phase' = phase /\ cache' = Empty /\ UNCHANGED <<ignores, index>>
      /\ queue # <<>> /\ queue' = Tail(queue)
  BY DEF HandleGitignoreChange, HandleConfigChange
<1>2. task' \in Tasks /\ task'.at = "scan"
  BY TasksBegin DEF HandleGitignoreChange, HandleConfigChange
<1>3. queue' \in Seq(IgnoreDir \cup {ConfigFile})
  BY <1>1 DEF IgnoreInv, IgnoreTypeOK
<1> QED
  BY <1>1, <1>2, <1>3 DEF IgnoreInv, IgnoreTypeOK, DownInv, MatchersInv, FoundInv, RestInv, Rests

\* A scan with a cache of what would be parsed again is a scan with none.
LEMMA SameScan ==
    ASSUME NEW F, DOMAIN F = IgnoreDir, NEW kept, NEW excludes,
           \A d \in IgnoreDir : kept[d] = <<>> \/ (F[d] # <<>> /\ kept[d] = <<Matcher(F[d][1], d)>>)
    PROVE  Scan(excludes, F, kept) = Scan(excludes, F, Empty)
<1>1. ASSUME NEW p \in File
      PROVE  p \in Scan(excludes, F, kept) <=> p \in Scan(excludes, F, Empty)
  <2>1. p \in Scan(excludes, F, kept) <=>
           Eligible(p, <<>>, excludes) /\ \A d \in IgnoreDir : Under(p, d) => ~Hides(F, d, p)
    BY Scanned
  <2>2. p \in Scan(excludes, F, Empty) <=>
           Eligible(p, <<>>, excludes) /\ \A d \in IgnoreDir : Under(p, d) => ~Hides(F, d, p)
    BY Scanned, EmptyCache
  <2> QED
    BY <2>1, <2>2
<1>2. Scan(excludes, F, kept) \subseteq File /\ Scan(excludes, F, Empty) \subseteq File
  BY ScansAreFiles
<1> QED
  BY <1>1, <1>2

\* A scan finds what the .gitignore files say now, and keeps matchers of them.
LEMMA IgnoreScanAgain == IgnoreInv /\ ScanAgain => IgnoreInv'
<1> SUFFICES ASSUME IgnoreInv, ScanAgain  PROVE IgnoreInv'
  OBVIOUS
<1>1. /\ task.at = "scan" /\ UNCHANGED <<ignores, index, queue, phase>>
      /\ task' = [task EXCEPT !.at = "apply", !.found = <<ignores>>, !.want = Scan(Excludes, ignores, cache)]
      /\ cache' = CachedBy(<<>>, Excludes, ignores, cache)
      /\ unsure' = IF phase = "watching" THEN {} ELSE unsure \ {"failed"}
  BY DEF ScanAgain
<1>2. DOMAIN ignores = IgnoreDir
  BY DEF IgnoreInv, IgnoreTypeOK, Files
<1>3. task' \in Tasks /\ task'.at = "apply" /\ task'.want = Scan(Excludes, ignores, cache)
  BY <1>1, ScansAreFiles DEF IgnoreInv, IgnoreTypeOK, Tasks
<1>4. phase # "down"
  BY <1>1, TasksBegin DEF IgnoreInv, DownInv
<1>5. FreshCache => FreshCache' /\ Scan(Excludes, ignores, cache) = Wanted(ignores)
  <2>1. SUFFICES ASSUME FreshCache  PROVE FreshCache' /\ Scan(Excludes, ignores, cache) = Wanted(ignores)
    OBVIOUS
  <2>2. Scan(Excludes, ignores, cache) = Wanted(ignores)
    BY <1>2, <2>1, SameScan, Zenon DEF FreshCache, Wanted
  <2>3. ASSUME NEW d \in IgnoreDir
        PROVE  cache'[d] \in {cache[d], <<Matcher(ignores[d][1], d)>>} /\ (cache'[d] # cache[d] => ignores[d] # <<>>)
    BY <1>1, <1>2 DEF CachedBy
  <2> QED
    BY <1>1, <2>1, <2>2, <2>3 DEF FreshCache
<1>6. Sure' => FreshCache
  BY <1>1, <1>4, ClearedIsFresh DEF IgnoreInv, IgnoreTypeOK, MatchersInv, Sure
<1>7. "unreported" \notin unsure' /\ phase \in {"gitignore", "files"} => FreshCache
  BY <1>1 DEF IgnoreInv, MatchersInv
<1> QED
  BY <1>1, <1>3, <1>4, <1>5, <1>6, <1>7
  DEF IgnoreInv, IgnoreTypeOK, DownInv, MatchersInv, FoundInv, RestInv, Rests, Wanted

\* Without a scan something is unsure.
LEMMA IgnoreScanFails == IgnoreInv /\ ScanFails => IgnoreInv'
<1> SUFFICES ASSUME IgnoreInv, ScanFails  PROVE IgnoreInv'
  OBVIOUS
<1>1. /\ task.at = "scan" /\ UNCHANGED <<ignores, index, cache, queue, phase>> /\ task' = Over
      /\ unsure' = unsure \cup {"failed"}
  BY DEF ScanFails
<1>2. task' \in Tasks /\ task'.at # "scan"
  BY <1>1, TasksBegin DEF IgnoreInv, IgnoreTypeOK, Tasks, Over
<1>3. phase # "down"
  BY <1>1, TasksBegin DEF IgnoreInv, DownInv
<1>4. FreshCache' <=> FreshCache
  BY <1>1 DEF FreshCache
<1>5. ~Sure'
  BY <1>1 DEF Sure
<1> QED
  BY <1>1, <1>2, <1>3, <1>4, <1>5 DEF IgnoreInv, IgnoreTypeOK, DownInv, MatchersInv, FoundInv, RestInv

\* What is left of a task: nothing, and the index is what it should be.
LEMMA AllDone == IgnoreInv => IndexBut({}) = task.want /\ \A left \in SUBSET ToDo : IndexBut(left) \subseteq File
BY DEF IgnoreInv, IgnoreTypeOK, Tasks, IndexBut, ToDo

\* What was found is done, but for a file that leaves something unsure.
LEMMA IgnoreApply == IgnoreInv /\ Apply => IgnoreInv'
<1> SUFFICES ASSUME IgnoreInv, Apply  PROVE IgnoreInv'
  OBVIOUS
<1>1. /\ task.at = "apply" /\ UNCHANGED <<ignores, cache, queue, phase>>
      /\ task' = IF task.event = <<>> THEN Over ELSE [task EXCEPT !.at = "hash"]
  BY DEF Apply
<1>2. PICK failed \in SUBSET ToDo : /\ index' = IndexBut(failed)
                                    /\ unsure' = IF failed = {} THEN unsure ELSE unsure \cup {"failed"}
  BY DEF Apply
<1>3. task' \in Tasks /\ task'.at \in {"idle", "next", "hash"}
  BY <1>1, TasksBegin DEF IgnoreInv, IgnoreTypeOK, Tasks, Over
<1>4. phase # "down"
  BY <1>1, TasksBegin DEF IgnoreInv, DownInv
<1>5. FreshCache' <=> FreshCache
  BY <1>1 DEF FreshCache
<1>6. Sure' => Sure /\ failed = {}
  BY <1>1, <1>2 DEF Sure
<1>7. index' \subseteq File /\ (Sure' => index' = Wanted(ignores))
  BY <1>1, <1>2, <1>6, AllDone DEF IgnoreInv, FoundInv
<1>8. "unreported" \notin unsure' => "unreported" \notin unsure
  BY <1>2
<1> QED
  BY <1>1, <1>3, <1>4, <1>5, <1>7, <1>8
  DEF IgnoreInv, IgnoreTypeOK, DownInv, MatchersInv, FoundInv, RestInv, Wanted

\* Keeping the hash changes nothing else.
LEMMA IgnoreSavesHash == IgnoreInv /\ ((phase = "watching" /\ SaveHash) \/ SaveHashOfStart) => IgnoreInv'
<1> SUFFICES ASSUME IgnoreInv, (phase = "watching" /\ SaveHash) \/ SaveHashOfStart  PROVE IgnoreInv'
  OBVIOUS
<1>1. /\ task.at = "hash" /\ UNCHANGED <<ignores, index, cache, queue, phase, unsure>> /\ phase # "down"
  BY DEF SaveHash, SaveHashOfStart
<1>2. task' \in Tasks /\ task'.at \in {"idle", "next"}
  BY TasksBegin DEF IgnoreInv, IgnoreTypeOK, Tasks, SaveHash, SaveHashOfStart
<1>3. FreshCache' <=> FreshCache
  BY <1>1 DEF FreshCache
<1>4. Sure => index = Wanted(ignores)
  BY <1>1 DEF IgnoreInv, RestInv, Rests
<1> QED
  BY <1>1, <1>2, <1>3, <1>4
  DEF IgnoreInv, IgnoreTypeOK, DownInv, MatchersInv, FoundInv, RestInv, Sure, Wanted

\* A start has the cache empty, and goes on to a scan or to where nothing is claimed.
LEMMA IgnoreStarts == IgnoreInv /\ (StartUp \/ StartUpSkipping) => IgnoreInv'
<1> SUFFICES ASSUME IgnoreInv, StartUp \/ StartUpSkipping  PROVE IgnoreInv'
  OBVIOUS
<1>1. /\ phase = "down" /\ task = Idle /\ cache = Empty /\ UNCHANGED <<ignores, index, cache, queue>>
  BY DEF StartUp, StartUpSkipping, IgnoreInv, DownInv
<1>2. FreshCache'
  BY <1>1, ClearedIsFresh DEF FreshCache
<1>3. CASE StartUp
  <2>1. phase' = "gitignore" /\ (task' = [Idle EXCEPT !.at = "next"] \/ task' = Rescan(<<ignores>>))
    BY <1>3 DEF StartUp
  <2>2. <<ignores>> \in {<<>>} \cup {<<x>> : x \in IgnoreDir \cup Files}
    BY DEF IgnoreInv, IgnoreTypeOK
  <2>3. /\ task' \in Tasks /\ task'.at \in {"next", "scan"}
        /\ task'.found = <<>>
    BY <2>1, <2>2, TasksBegin DEF Tasks, Idle
  <2> QED
    BY <1>1, <1>2, <2>1, <2>3 DEF IgnoreInv, IgnoreTypeOK, DownInv, MatchersInv, FoundInv, RestInv, Rests
<1>4. CASE StartUpSkipping
  <2>1. phase' = "watching" /\ task' = task /\ ~Sure'
    BY <1>4 DEF StartUpSkipping, Sure
  <2> QED
    BY <1>1, <2>1, TasksBegin DEF IgnoreInv, IgnoreTypeOK, DownInv, MatchersInv, FoundInv, RestInv
<1> QED
  BY <1>3, <1>4

\* The files are scanned next, or the watcher starts: beside an index that is right,
\* or not known to be.
LEMMA IgnoreNextPhase == IgnoreInv /\ NextPhase => IgnoreInv'
<1> SUFFICES ASSUME IgnoreInv, NextPhase  PROVE IgnoreInv'
  OBVIOUS
<1>1. task.at = "next" /\ UNCHANGED <<ignores, index, cache, queue>>
  BY DEF NextPhase
<1>2. FreshCache' <=> FreshCache
  BY <1>1 DEF FreshCache
<1>3. CASE phase = "gitignore" /\ index # {}
  <2>1. phase' = "files" /\ task' = Rescan(<<>>) /\ unsure' = unsure
    BY <1>3 DEF NextPhase
  <2> QED
    BY <1>1, <1>2, <1>3, <2>1, TasksBegin
    DEF IgnoreInv, IgnoreTypeOK, DownInv, MatchersInv, FoundInv, RestInv, Rests
<1>4. CASE ~(phase = "gitignore" /\ index # {})
  <2>1. phase' = "watching" /\ task' = Idle /\ unsure' = unsure \cup (IF task.found = <<>> THEN {"empty"} ELSE {})
    BY <1>4 DEF NextPhase
  <2>2. Sure' => index = Wanted(ignores)
    BY <1>1, <2>1 DEF IgnoreInv, RestInv, Rests, Sure
  <2> QED
    BY <1>1, <2>1, <2>2, TasksBegin
    DEF IgnoreInv, IgnoreTypeOK, DownInv, MatchersInv, FoundInv, RestInv, Wanted
<1> QED
  BY <1>3, <1>4

\* A server that stopped has no task and no matchers.
LEMMA IgnoreStops == IgnoreInv /\ StopServer => IgnoreInv'
<1> SUFFICES ASSUME IgnoreInv, StopServer  PROVE IgnoreInv'
  OBVIOUS
<1>1. phase' = "down" /\ task' = Idle /\ cache' = Empty /\ queue' = <<>> /\ UNCHANGED ignores
  BY DEF StopServer
<1>2. index' \subseteq File
  <2>1. CASE index' = index
    BY <2>1 DEF IgnoreInv, IgnoreTypeOK
  <2>2. CASE \E left \in SUBSET ToDo : index' = IndexBut(left)
    BY <2>2, AllDone
  <2> QED
    BY <2>1, <2>2 DEF StopServer
<1> QED
  BY <1>1, <1>2, TasksBegin
  DEF IgnoreInv, IgnoreTypeOK, DownInv, MatchersInv, FoundInv, RestInv, Rests

\* Where nothing changes, nothing does.
LEMMA IgnoreStutters == IgnoreInv /\ UNCHANGED ignoreVars => IgnoreInv'
BY DEF ignoreVars, IgnoreInv, IgnoreTypeOK, DownInv, MatchersInv, FreshCache, FoundInv, RestInv, Rests, Sure, Wanted

\* Every step keeps the invariant.
LEMMA IgnoreStep == IgnoreInv /\ [IgnoreNext]_ignoreVars => IgnoreInv'
BY IgnoreEditIgnore, IgnoreEditConfig, IgnoreHandles, IgnoreScanAgain, IgnoreScanFails, IgnoreApply,
   IgnoreSavesHash, IgnoreStarts, IgnoreNextPhase, IgnoreStops, IgnoreStutters DEF IgnoreNext

\* Whatever .gitignore files are edited, in whatever order, while the coordinator
\* scans, fails, is killed halfway and starts (coordinator.go:717-768, 1066-1290): once
\* every change is handled, the index is what a scan would return.
THEOREM SettledStaysScan == IgnoreSpec => []SettledIndexIsScan
<1>1. IgnoreInit => IgnoreInv
  BY IgnoreStart
<1>2. IgnoreInv /\ [IgnoreNext]_ignoreVars => IgnoreInv'
  BY IgnoreStep
<1>3. IgnoreInv => SettledIndexIsScan
  BY DEF IgnoreInv, RestInv, Rests, Sure, SettledIndexIsScan, Settled
<1> QED
  BY <1>1, <1>2, <1>3, PTL DEF IgnoreSpec

(***************************************************************************)
(* The rules for what is scanned, whatever the .gitignore files are        *)
(* (Gitignore, Scanning).  A rule keeps a path out for what it says of the *)
(* path below its base or of a way to it, and at that way git's reading of *)
(* the same rule matches; a directory that is excluded excludes the ones   *)
(* in it, so a walk may begin anywhere; a rule says of a path seen from    *)
(* another root what it says of the path.  Regex and Discovered are        *)
(* recursive functions: that there is such a function is proved by taking  *)
(* the least number of steps for which there is none.                      *)
(***************************************************************************)

\* How Regex goes through a pattern, from its end.
LEMMA RegexIs ==
    ASSUME NEW segments, Len(segments) \in Nat, NEW path
    PROVE  \E f : /\ f[0] = {Len(path) + 1}
                  /\ \A k \in 1..Len(segments) : f[k] = Starts(segments, path, k, f[k - 1])
                  /\ Regex(segments, path) <=> 1 \in f[Len(segments)]
<1> DEFINE N == Len(segments)
           Good(n) == \E f : /\ DOMAIN f = 0..n /\ f[0] = {Len(path) + 1}
                             /\ \A k \in 1..n : f[k] = Starts(segments, path, k, f[k - 1])
           bad == {n \in 0..N : ~Good(n)}
           Is(f) == f = [n \in 0..N |-> IF n = 0 THEN {Len(path) + 1} ELSE Starts(segments, path, n, f[n - 1])]
           g == CHOOSE g : Is(g)
<1>1. bad = {}
  <2>1. SUFFICES ASSUME bad # {}  PROVE FALSE
    OBVIOUS
  <2>2. PICK m \in bad : \A k \in bad : m <= k
    <3>1. bad \in SUBSET Nat
      OBVIOUS
    <3> HIDE DEF bad
    <3> QED
      BY <2>1, <3>1, LeastIsThere
  <2>3. m \in 0..N /\ ~Good(m)
    OBVIOUS
  <2>4. CASE m = 0
    <3> DEFINE h == [n \in 0..0 |-> {Len(path) + 1}]
    <3>1. DOMAIN h = 0..m /\ h[0] = {Len(path) + 1} /\ \A k \in 1..m : h[k] = Starts(segments, path, k, h[k - 1])
      BY <2>4
    <3> HIDE DEF h
    <3> QED
      BY <2>3, <3>1
  <2>5. CASE m # 0
    <3>1. m - 1 \in 0..N /\ m \in 1..N
      BY <2>3, <2>5
    <3>2. Good(m - 1)
      <4> HIDE DEF Good
      <4>1. ~(m <= m - 1)
        BY <3>1
      <4> QED
        BY <2>2, <3>1, <4>1
    <3>3. PICK f : /\ DOMAIN f = 0..(m - 1) /\ f[0] = {Len(path) + 1}
                   /\ \A k \in 1..(m - 1) : f[k] = Starts(segments, path, k, f[k - 1])
      BY <3>2
    <3> DEFINE h == [n \in 0..m |-> IF n = m THEN Starts(segments, path, m, f[m - 1]) ELSE f[n]]
    <3>4. DOMAIN h = 0..m /\ h[0] = {Len(path) + 1}
      BY <3>1, <3>3
    <3>5. \A k \in 1..m : h[k] = Starts(segments, path, k, h[k - 1])
      <4> TAKE k \in 1..m
      <4>1. h[k - 1] = f[k - 1]
        BY <3>1
      <4>2. CASE k = m
        BY <3>1, <4>1, <4>2
      <4>3. CASE k # m
        BY <3>1, <3>3, <4>1, <4>3
      <4> QED
        BY <4>2, <4>3
    <3> HIDE DEF h
    <3> QED
      BY <2>3, <3>4, <3>5
  <2> QED
    BY <2>4, <2>5
<1>2. PICK f : /\ DOMAIN f = 0..N /\ f[0] = {Len(path) + 1}
               /\ \A k \in 1..N : f[k] = Starts(segments, path, k, f[k - 1])
  <2>1. N \in 0..N /\ N \notin bad
    <3> HIDE DEF bad
    <3> QED
      BY <1>1
  <2> QED
    BY <2>1
<1> DEFINE h == [n \in 0..N |-> f[n]]
<1>3. Is(h)
  <2>1. \A n \in 0..N : h[n] = f[n]
    OBVIOUS
  <2>2. \A n \in 0..N : f[n] = IF n = 0 THEN {Len(path) + 1} ELSE Starts(segments, path, n, f[n - 1])
    BY <1>2
  <2>3. \A n \in 0..N : n # 0 => h[n - 1] = f[n - 1]
    OBVIOUS
  <2>4. \A n \in 0..N : f[n] = IF n = 0 THEN {Len(path) + 1} ELSE Starts(segments, path, n, h[n - 1])
    <3> HIDE DEF h
    <3> QED
      BY <2>2, <2>3
  <2> QED
    BY <2>4
<1>4. Is(g)
  <2> HIDE DEF h
  <2> QED
    BY <1>3, Zenon
<1>5. Regex(segments, path) <=> 1 \in g[N]
  BY Zenon DEF Regex
<1> HIDE DEF g
<1>6. g[0] = {Len(path) + 1} /\ \A k \in 1..N : g[k] = Starts(segments, path, k, g[k - 1])
  <2>1. \A n \in 0..N : g[n] = IF n = 0 THEN {Len(path) + 1} ELSE Starts(segments, path, n, g[n - 1])
    BY <1>4, Zenon
  <2>2. 0 \in 0..N /\ \A k \in 1..N : k \in 0..N /\ k # 0
    OBVIOUS
  <2> HIDE DEF N
  <2> QED
    BY <2>1, <2>2, Zenon
<1> QED
  BY <1>5, <1>6

\* A pattern of several segments matches a single name only if it begins with "**",
\* and then it matches whatever ends with that name.
LEMMA SeveralSegments ==
    ASSUME NEW segments, Len(segments) \in Nat, Len(segments) > 1, NEW p, NEW i \in Nat \ {0}, Len(p) = i,
           Regex(segments, <<p[i]>>)
    PROVE  segments[1] = AnyDirs /\ Regex(segments, p)
<1> DEFINE x == <<p[i]>>
<1>0. PICK N \in Nat : N = Len(segments) /\ N > 1
  OBVIOUS
<1>1. Len(x) = 1 /\ x[1] = p[i]
  OBVIOUS
<1>2. PICK f : /\ f[0] = {2} /\ \A k \in 1..N : f[k] = Starts(segments, x, k, f[k - 1])
               /\ 1 \in f[N]
  <2>1. PICK f : /\ f[0] = {Len(x) + 1} /\ \A k \in 1..N : f[k] = Starts(segments, x, k, f[k - 1])
                 /\ Regex(segments, x) <=> 1 \in f[N]
    BY <1>0, RegexIs
  <2> QED
    BY <1>1, <2>1
<1>3. PICK g : /\ g[0] = {i + 1} /\ \A k \in 1..N : g[k] = Starts(segments, p, k, g[k - 1])
               /\ Regex(segments, p) <=> 1 \in g[N]
  <2>1. PICK g : /\ g[0] = {Len(p) + 1} /\ \A k \in 1..Len(segments) : g[k] = Starts(segments, p, k, g[k - 1])
                 /\ Regex(segments, p) <=> 1 \in g[Len(segments)]
    BY RegexIs
  <2> QED
    BY <1>0, <2>1
<1>4. ASSUME NEW k \in 1..N
      PROVE  LET s == segments[N - k + 1]
             IN  /\ f[k] = IF s = AnyDirs
                           THEN IF k = 1 THEN 1..1 ELSE {j \in 1..2 : \E l \in f[k - 1] : j <= l}
                           ELSE {j \in 1..1 : x[j] \in s /\ j + 1 \in f[k - 1]}
                 /\ s = AnyDirs =>
                       g[k] = IF k = 1 THEN 1..i ELSE {j \in 1..(i + 1) : \E l \in g[k - 1] : j <= l}
                 /\ s # AnyDirs => {j \in 1..i : p[j] \in s /\ j + 1 \in g[k - 1]} \subseteq g[k]
  <2> DEFINE t == segments[N - k + 1]
  <2>1. /\ f[k] = IF t = AnyDirs
                  THEN IF k = 1 THEN 1..1 ELSE {j \in 1..2 : \E l \in f[k - 1] : j <= l}
                  ELSE {j \in 1..1 : \E m \in j..1 : (m = j \/ AnyDirs \subseteq t) /\ x[m] \in t /\ m + 1 \in f[k - 1]}
        /\ g[k] = IF t = AnyDirs
                  THEN IF k = 1 THEN 1..i ELSE {j \in 1..(i + 1) : \E l \in g[k - 1] : j <= l}
                  ELSE {j \in 1..i : \E m \in j..i : (m = j \/ AnyDirs \subseteq t) /\ p[m] \in t /\ m + 1 \in g[k - 1]}
    <3>1. f[k] = Starts(segments, x, k, f[k - 1]) /\ g[k] = Starts(segments, p, k, g[k - 1])
      BY <1>2, <1>3
    <3>2. Len(x) + 1 = 2 /\ Len(segments) - k + 1 = N - k + 1
      BY <1>0, <1>1
    <3> HIDE DEF x
    <3> QED
      BY <1>0, <1>1, <3>1, <3>2, Zenon DEF Starts
  <2> HIDE DEF x, t
  <2>2. t # AnyDirs => f[k] = {j \in 1..1 : x[j] \in t /\ j + 1 \in f[k - 1]}
    BY <2>1
  <2>3. t # AnyDirs => {j \in 1..i : p[j] \in t /\ j + 1 \in g[k - 1]} \subseteq g[k]
    <3>1. SUFFICES ASSUME t # AnyDirs, NEW j \in 1..i, p[j] \in t, j + 1 \in g[k - 1]
                   PROVE  j \in g[k]
      OBVIOUS
    <3>2. j \in j..i
      OBVIOUS
    <3> QED
      BY <2>1, <3>1, <3>2
  <2> QED
    BY <2>1, <2>2, <2>3, Zenon DEF t
<1> HIDE DEF x
<1> DEFINE Good(k) == /\ f[k] \subseteq 1..2 /\ (k # 0 => 2 \notin f[k])
                      /\ \A j \in f[k] : j + i - 1 \in g[k]
           bad == {k \in 0..N : ~Good(k)}
<1>5. bad = {}
  <2>1. SUFFICES ASSUME bad # {}  PROVE FALSE
    OBVIOUS
  <2>2. PICK m \in bad : \A k \in bad : m <= k
    <3>1. bad \in SUBSET Nat
      OBVIOUS
    <3> HIDE DEF bad
    <3> QED
      BY <2>1, <3>1, LeastIsThere
  <2>3. m \in 0..N /\ ~Good(m)
    OBVIOUS
  <2>4. m # 0
    <3>1. Good(0)
      BY <1>2, <1>3
    <3> HIDE DEF Good
    <3> QED
      BY <2>3, <3>1
  <2>5. m - 1 \in 0..N /\ m \in 1..N
    BY <2>3, <2>4
  <2>6. Good(m - 1)
    <3> HIDE DEF Good
    <3>1. ~(m <= m - 1)
      BY <2>5
    <3> QED
      BY <2>2, <2>5, <3>1
  <2> DEFINE s == segments[N - m + 1]
  <2>7. CASE s = AnyDirs /\ m = 1
    <3>1. f[m] = 1..1 /\ g[m] = 1..i
      BY <1>4, <2>5, <2>7
    <3> QED
      BY <2>3, <3>1
  <2>8. CASE s = AnyDirs /\ m # 1
    <3>1. f[m] = {j \in 1..2 : \E l \in f[m - 1] : j <= l} /\ g[m] = {j \in 1..(i + 1) : \E l \in g[m - 1] : j <= l}
      BY <1>4, <2>5, <2>8
    <3>2. \A l \in f[m - 1] : l = 1
      BY <2>5, <2>6, <2>8
    <3>3. f[m] \subseteq 1..1
      BY <3>1, <3>2
    <3>4. \A j \in f[m] : j + i - 1 \in g[m]
      <4> TAKE j \in f[m]
      <4>1. j = 1 /\ 1 \in f[m - 1]
        BY <3>1, <3>2, <3>3
      <4>2. i \in g[m - 1]
        BY <2>6, <4>1
      <4> QED
        BY <3>1, <4>1, <4>2
    <3> QED
      BY <2>3, <3>3, <3>4
  <2>9. CASE s # AnyDirs
    <3>1. /\ f[m] = {j \in 1..1 : x[j] \in s /\ j + 1 \in f[m - 1]}
          /\ {j \in 1..i : p[j] \in s /\ j + 1 \in g[m - 1]} \subseteq g[m]
      BY <1>4, <2>5, <2>9
    <3>2. ASSUME NEW j \in f[m]  PROVE j + i - 1 \in g[m] /\ j = 1
      <4>1. j = 1 /\ x[1] \in s /\ 2 \in f[m - 1]
        BY <3>1
      <4>2. i + 1 \in g[m - 1] /\ p[i] \in s
        BY <1>1, <2>6, <4>1
      <4> QED
        BY <3>1, <4>1, <4>2
    <3> QED
      BY <2>3, <3>2
  <2> QED
    BY <2>7, <2>8, <2>9
<1>6. Good(N - 1) /\ N - 1 # 0
  <2>1. N - 1 \in 0..N /\ N - 1 \notin bad /\ N - 1 # 0
    <3> HIDE DEF bad
    <3> QED
      BY <1>0, <1>5
  <2>2. Good(N - 1)
    <3> HIDE DEF Good
    <3> QED
      BY <2>1
  <2> QED
    BY <2>1, <2>2
<1>7. N \in 1..N /\ N - N + 1 = 1
  BY <1>0
<1>8. segments[1] = AnyDirs
  <2>1. SUFFICES ASSUME segments[1] # AnyDirs  PROVE FALSE
    OBVIOUS
  <2>2. ASSUME NEW k \in 1..N, segments[N - k + 1] # AnyDirs
        PROVE  f[k] = {j \in 1..1 : x[j] \in segments[N - k + 1] /\ j + 1 \in f[k - 1]}
    BY <1>4, <2>2
  <2>3. \A j \in f[N] : j = 1 /\ j + 1 \in f[N - 1]
    BY <1>7, <2>1, <2>2
  <2> QED
    BY <1>2, <1>6, <2>3
<1>9. f[N] = {j \in 1..2 : \E l \in f[N - 1] : j <= l} /\ g[N] = {j \in 1..(i + 1) : \E l \in g[N - 1] : j <= l}
  <2>1. N # 1
    BY <1>0
  <2>2. segments[N - N + 1] = AnyDirs
    BY <1>7, <1>8, Zenon
  <2> QED
    BY <1>4, <1>7, <2>1, <2>2, Zenon
<1>10. PICK l \in f[N - 1] : 1 <= l
  BY <1>2, <1>9
<1>11. l + i - 1 \in g[N - 1] /\ l \in 1..2
  BY <1>6
<1>12. 1 \in g[N]
  BY <1>9, <1>11
<1> QED
  BY <1>3, <1>8, <1>12

\* A pattern of one segment, or none.
LEMMA OneSegment ==
    ASSUME NEW segments, Len(segments) \in {0, 1}, NEW p, Len(p) \in Nat \ {0}, Regex(segments, p)
    PROVE  Len(segments) = 1 /\ Regex(segments, <<p[Len(p)]>>)
<1> DEFINE N == Len(segments)
           L == Len(p)
           x == <<p[L]>>
<1>0. N \in {0, 1} /\ N \in Nat
  OBVIOUS
<1>1. PICK g : /\ g[0] = {L + 1} /\ \A k \in 1..N : g[k] = Starts(segments, p, k, g[k - 1])
               /\ 1 \in g[N]
  BY <1>0, RegexIs
<1>2. PICK f : /\ f[0] = {Len(x) + 1} /\ \A k \in 1..N : f[k] = Starts(segments, x, k, f[k - 1])
               /\ Regex(segments, x) <=> 1 \in f[N]
  BY <1>0, RegexIs
<1>3. N = 1
  BY <1>0, <1>1
<1>4. Len(x) = 1 /\ x[1] = p[L]
  OBVIOUS
<1>5. g[1] = Starts(segments, p, 1, {L + 1}) /\ f[1] = Starts(segments, x, 1, {2})
  <2>1. 1 \in 1..N /\ 1 - 1 = 0 /\ Len(x) + 1 = 2
    BY <1>3, <1>4
  <2> HIDE DEF N, L, x
  <2>2. g[1] = Starts(segments, p, 1, g[0]) /\ g[0] = {L + 1}
    BY <1>1, <2>1
  <2>3. f[1] = Starts(segments, x, 1, f[0]) /\ f[0] = {2}
    BY <1>2, <2>1
  <2> QED
    BY <2>2, <2>3
<1>6. CASE segments[1] = AnyDirs
  BY <1>2, <1>3, <1>4, <1>5, <1>6 DEF Starts
<1>7. CASE segments[1] # AnyDirs
  <2> DEFINE s == segments[1]
             Taken(q, n, k) == (k = 1 \/ AnyDirs \subseteq s) /\ q[k] \in s /\ k + 1 \in {n + 1}
  <2>0. L \in Nat \ {0}
    OBVIOUS
  <2>1. 1 \in g[1] => \E k \in 1..L : Taken(p, L, k)
    BY <1>3, <1>5, <1>7 DEF Starts
  <2>2. Taken(x, 1, 1) => 1 \in f[1]
    <3>1. \A k \in 1..1 : Taken(x, 1, k) => 1 \in {j \in 1..Len(x) : \E m \in j..Len(x) :
                              (m = j \/ AnyDirs \subseteq s) /\ x[m] \in s /\ m + 1 \in {2}}
      BY <1>4
    <3> QED
      BY <1>3, <1>5, <1>7, <3>1 DEF Starts
  <2>3. 1 \in g[1]
    BY <1>1, <1>3
  <2>4. p[L] \in s
    <3>1. PICK k \in 1..L : Taken(p, L, k)
      BY <2>1, <2>3
    <3> HIDE DEF L
    <3>2. k = L
      BY <2>0, <3>1
    <3> QED
      BY <3>1, <3>2
  <2> QED
    BY <1>2, <1>3, <1>4, <2>2, <2>4
<1> QED
  BY <1>3, <1>6, <1>7


-----------------------------------------------------------------------------

\* What Regex asks of the last name of a path it asks of the path itself.
LEMMA NameOrPath ==
    ASSUME NEW segments, Len(segments) \in Nat, NEW p, Len(p) \in Nat \ {0}, Len(segments) > 1,
           Regex(segments, <<p[Len(p)]>>)
    PROVE  Regex(segments, p)
BY SeveralSegments

\* What the rule of a plain line matches, git ignores: the path itself or a directory on the way to it.
LEMMA RuleIsGits ==
    ASSUME NEW S, NEW path \in Seq(S), NEW base \in Seq(S), NEW line, Len(line.segments) \in Nat, Plain(line),
           MatchRule(path, FALSE, Rule(line, base))
    PROVE  \E n \in 1..Len(path) : GitMatches(SubSeq(path, 1, n), n < Len(path), Rule(line, base))
<1> DEFINE rule == Rule(line, base)
           p == SubSeq(path, Len(base) + 1, Len(path))
           segments == line.segments
           names == {i \in 1..Len(p) : Regex(segments, <<p[i]>>)}
           Way(i) == SubSeq(p, 1, i)
<1>1. rule.base = base /\ rule.segments = segments /\ rule.git = segments /\ rule.dirOnly = line.dirOnly
  BY DEF Rule, Plain
<1>2. /\ Under(path, base)
      /\ IF rule.anchored
         THEN \/ /\ Regex(segments, p)
                 /\ ~rule.dirOnly
              \/ /\ rule.dirOnly
                 /\ \E i \in 1..(Len(p) - 1) : Regex(segments, Way(i))
         ELSE IF rule.dirOnly
         THEN \E i \in names : i < Len(p)
         ELSE names # {} \/ Regex(segments, p)
  BY <1>1, Zenon DEF MatchRule
<1>3. PICK m \in Nat, l \in Nat : m = Len(base) /\ l = Len(path) /\ m < l /\ Len(p) = l - m
  BY <1>2 DEF Under
<1>4. Way(Len(p)) = p /\ \A i \in 1..Len(p) : Len(Way(i)) = i /\ Way(i)[i] = p[i]
  <2>1. p \in Seq(S)
    BY <1>3
  <2> HIDE DEF p
  <2> QED
    BY <2>1
<1>5. ASSUME NEW i \in 1..(l - m), rule.dirOnly => i < l - m,
             IF rule.anchored \/ Len(segments) > 1 THEN Regex(segments, Way(i)) ELSE Regex(segments, <<p[i]>>)
      PROVE  \E n \in 1..Len(path) : GitMatches(SubSeq(path, 1, n), n < Len(path), rule)
  <2> DEFINE way == SubSeq(path, 1, m + i)
             q == Way(i)
  <2>0. i \in 1..l /\ m + i \in 1..l /\ \A j \in 1..i : m + j \in 1..(m + i) /\ m + j \in 1..l /\ j \in 1..(l - m)
    BY <1>3
  <2>1. p \in Seq(S) /\ \A j \in 1..(l - m) : p[j] = path[m + j]
    BY <1>3
  <2>2. way \in Seq(S) /\ Len(way) = m + i /\ \A j \in 1..(m + i) : way[j] = path[j]
    BY <1>3, <2>0
  <2> HIDE DEF p, way, rule, segments, names
  <2>3. q \in Seq(S) /\ Len(q) = i /\ \A j \in 1..i : q[j] = p[j]
    BY <1>3, <2>1
  <2>4. SubSeq(way, m + 1, m + i) = q
    <3> DEFINE t == SubSeq(way, m + 1, m + i)
    <3>1. t \in Seq(S) /\ Len(t) = i /\ \A j \in 1..i : t[j] = way[m + j]
      BY <2>0, <2>2
    <3>2. \A j \in 1..i : way[m + j] = q[j]
      BY <2>0, <2>1, <2>2, <2>3
    <3> HIDE DEF t, q
    <3>3. t = q
      BY <2>3, <3>1, <3>2, SeqEqual
    <3> QED
      BY <3>3 DEF t
  <2>5. Under(way, base)
    <3>1. \A j \in 1..m : base[j] = path[j]
      BY <1>2, <1>3, PrefixNames DEF Under
    <3>2. \A j \in 1..m : base[j] = way[j]
      BY <1>3, <2>0, <2>2, <3>1
    <3>3. m <= m + i /\ m < m + i
      BY <2>0
    <3> QED
      BY <1>3, <2>2, <3>2, <3>3, PrefixNames DEF Under
  <2>6. Last(q) = p[i]
    <3> HIDE DEF q
    <3> QED
      BY <2>0, <2>3 DEF Last
  <2>7. m + i < l <=> i < l - m
    BY <1>3
  <2>8. SubSeq(way, Len(base) + 1, Len(way)) = q
    BY <1>3, <2>2, <2>4
  <2> HIDE DEF q
  <2>9. rule.dirOnly => m + i < l
    BY <1>5, <2>7
  <2>10. IF rule.anchored \/ Len(rule.git) > 1 THEN Regex(rule.git, q) ELSE Regex(rule.git, <<Last(q)>>)
    BY <1>1, <1>5, <2>6, Zenon DEF q
  <2>11. GitMatches(way, m + i < l, rule)
    BY <1>1, <2>5, <2>8, <2>9, <2>10, Zenon DEF GitMatches
  <2>12. m + i \in 1..Len(path) /\ GitMatches(SubSeq(path, 1, m + i), m + i < Len(path), rule)
    BY <1>3, <2>0, <2>11 DEF way
  <2> QED
    BY <2>12
<1>6. ASSUME NEW i \in names  PROVE IF Len(segments) > 1 THEN Regex(segments, Way(i)) ELSE Regex(segments, <<p[i]>>)
  <2>0. i \in 1..Len(p) /\ Regex(segments, <<p[i]>>)
    OBVIOUS
  <2> HIDE DEF p, segments, Way, names
  <2>1. Len(Way(i)) = i /\ Way(i)[i] = p[i] /\ i \in Nat \ {0} /\ Regex(segments, <<p[i]>>)
    BY <1>3, <1>4, <2>0
  <2>2. Len(segments) \in Nat
    BY DEF segments
  <2> QED
    BY <2>1, <2>2, NameOrPath
<1>7. ASSUME rule.anchored, Regex(segments, p), ~rule.dirOnly
      PROVE  \E n \in 1..Len(path) : GitMatches(SubSeq(path, 1, n), n < Len(path), rule)
  <2>1. Len(p) \in 1..(l - m) /\ Regex(segments, Way(Len(p)))
    <3>1. Len(p) \in 1..(l - m) /\ Way(Len(p)) = p
      BY <1>3, <1>4
    <3> QED
      BY <1>7, <3>1, Zenon
  <2> HIDE DEF rule, Way, p, segments
  <2> QED
    BY <1>5, <1>7, <2>1
<1>8. CASE rule.anchored /\ rule.dirOnly /\ \E i \in 1..(Len(p) - 1) : Regex(segments, Way(i))
  <2>1. PICK i \in 1..(Len(p) - 1) : Regex(segments, Way(i))
    BY <1>8
  <2> HIDE DEF rule, Way
  <2>2. i \in 1..(l - m) /\ i < l - m
    BY <1>3
  <2> QED
    BY <1>5, <1>8, <2>1, <2>2 DEF rule
<1>9. CASE ~rule.anchored /\ \E i \in names : rule.dirOnly => i < Len(p)
  <2>1. PICK i \in names : rule.dirOnly => i < Len(p)
    BY <1>9
  <2>2. i \in 1..(l - m) /\ (rule.dirOnly => i < l - m)
    BY <1>3, <2>1
  <2> QED
    BY <1>5, <1>6, <1>9, <2>2
<1>10. ASSUME ~rule.anchored, ~rule.dirOnly, Regex(segments, p)
      PROVE  \E n \in 1..Len(path) : GitMatches(SubSeq(path, 1, n), n < Len(path), rule)
  <2>1. Len(p) \in 1..(l - m) /\ Len(p) = l - m /\ Len(p) \in Nat \ {0}
    BY <1>3
  <2>2. Len(segments) > 1 => Regex(segments, Way(Len(p)))
    BY <1>4, <1>10
  <2>3. ~(Len(segments) > 1) => Regex(segments, <<p[Len(p)]>>)
    <3>1. Len(segments) \in Nat
      OBVIOUS
    <3>2. ~(Len(segments) > 1) => Len(segments) \in {0, 1}
      <4>1. PICK n \in Nat : n = Len(segments)
        BY <3>1
      <4> HIDE DEF segments
      <4>2. ~(n > 1) => n \in {0, 1}
        OBVIOUS
      <4> QED
        BY <4>1, <4>2
    <3> HIDE DEF p, segments
    <3> QED
      BY <1>10, <2>1, <3>2, OneSegment
  <2> HIDE DEF rule, Way, p, segments
  <2>4. IF rule.anchored \/ Len(segments) > 1 THEN Regex(segments, Way(Len(p))) ELSE Regex(segments, <<p[Len(p)]>>)
    BY <1>10, <2>2, <2>3
  <2> QED
    BY <1>5, <1>10, <2>1, <2>4
<1> QED
  BY <1>2, <1>7, <1>8, <1>9, <1>10

\* Without a negation, a file of plain lines keeps no path out that git would not.
LEMMA LinesAreGits ==
    ASSUME NEW S, NEW lines \in Seq(S), \A l \in Range(lines) : Len(l.segments) \in Nat,
           NEW T, NEW path \in Seq(T), NEW base \in Seq(T),
           \A i \in DOMAIN lines : ~lines[i].negation /\ Plain(lines[i]),
           Match(Matcher(lines, base), path, FALSE)
    PROVE  GitIgnores(Matcher(lines, base), path)
<1> DEFINE rules == Matcher(lines, base)
<1>1. DOMAIN rules = DOMAIN lines /\ \A i \in DOMAIN lines : rules[i] = Rule(lines[i], base)
  BY DEF Matcher
<1>2. \A i \in DOMAIN lines : ~lines[i].negation
  OBVIOUS
<1>3. PICK line \in Range(lines) : MatchRule(path, FALSE, Rule(line, base))
  BY <1>2, PlainMatch
<1>4. PICK i \in DOMAIN lines : line = lines[i]
  BY DEF Range
<1>5. PICK n \in 1..Len(path) : GitMatches(SubSeq(path, 1, n), n < Len(path), Rule(line, base))
  <2>1. Len(line.segments) \in Nat
    OBVIOUS
  <2>2. Plain(line)
    BY <1>4
  <2> QED
    BY <1>3, <2>1, <2>2, RuleIsGits
<1>6. i \in DOMAIN rules /\ rules[i] = Rule(line, base)
  BY <1>1, <1>4
<1> HIDE DEF rules
<1>7. GitIgnores(rules, path)
  BY <1>5, <1>6 DEF GitIgnores
<1> QED
  BY <1>7 DEF rules

\* What the lines are made of.
LEMMA LinesHaveSegments == \A l \in Lines \cup OtherLines : Len(l.segments) \in Nat
<1> SUFFICES ASSUME NEW l \in Lines \cup OtherLines  PROVE Len(l.segments) \in Nat
  OBVIOUS
<1>1. l.segments \in Seq(Range(l.segments))
  <2>1. Lines \subseteq UNION {Range(lines) : lines \in UNION {Contents[d] : d \in IgnoreDir}}
    BY DEF Lines
  <2> QED
    BY <2>1, RulesAssumption
<1> DEFINE R == Range(l.segments)
<1> HIDE DEF R
<1>2. l.segments \in Seq(R)
  BY <1>1 DEF R
<1> QED
  BY <1>2

\* Whatever the .gitignore files are, git keeps out what they keep out.
LEMMA GitHidesToo == ignores \in Files => IgnoresNoMoreThanGit
<1> SUFFICES ASSUME ignores \in Files, NEW p \in File, NEW d \in IgnoreDir,
                    NEW lines \in {LinesOf(ignores[d])} \cup {<<l>> : l \in OtherLines},
                    \A i \in DOMAIN lines : ~lines[i].negation /\ Plain(lines[i]),
                    Match(Matcher(lines, d), p, FALSE)
             PROVE  GitIgnores(Matcher(lines, d), p)
  BY Zenon DEF IgnoresNoMoreThanGit, LinesAskedAbout
<1>1. lines \in Seq(Lines \cup OtherLines)
  <2>1. LinesOf(ignores[d]) \in Seq(Lines)
    BY LinesOfFiles
  <2> DEFINE R == Lines \cup OtherLines
  <2>2. ASSUME NEW l \in OtherLines, lines = <<l>>  PROVE lines \in Seq(R)
    BY <2>2
  <2>3. ASSUME lines = LinesOf(ignores[d])  PROVE lines \in Seq(R)
    <3>1. Lines \subseteq R
      OBVIOUS
    <3> HIDE DEF R
    <3> QED
      BY <2>1, <2>3, <3>1
  <2> HIDE DEF R
  <2>4. lines \in Seq(R)
    BY <2>2, <2>3
  <2> QED
    BY <2>4 DEF R
<1>2. \A l \in Range(lines) : Len(l.segments) \in Nat
  <2>1. Range(lines) \subseteq Lines \cup OtherLines
    <3> DEFINE R == Lines \cup OtherLines
    <3> HIDE DEF R
    <3>1. lines \in Seq(R)
      BY <1>1 DEF R
    <3>2. Range(lines) \subseteq R
      BY <3>1 DEF Range
    <3> QED
      BY <3>2 DEF R
  <2> QED
    BY <2>1, LinesHaveSegments
<1>3. p \in Seq(Name) /\ d \in Seq(Name)
  BY Paths
<1> QED
  BY <1>1, <1>2, <1>3, LinesAreGits

-----------------------------------------------------------------------------

\* What a rule says of a path, it says of the path seen from another root.
LEMMA RuleFromRoot ==
    ASSUME NEW S, NEW root \in Seq(S), NEW p \in Seq(S), NEW d \in Seq(S), IsPrefix(root, d), Under(p, d), NEW line
    PROVE  MatchRule(From(root, p), FALSE, Rule(line, From(root, d))) <=> MatchRule(p, FALSE, Rule(line, d))
<1> DEFINE q == From(root, p)
           e == From(root, d)
<1>1. PICK k \in Nat, b \in Nat, l \in Nat : k = Len(root) /\ b = Len(d) /\ l = Len(p) /\ k <= b /\ b < l
  <2>1. Len(root) <= Len(d) /\ Len(d) < Len(p)
    BY Zenon DEF Under, IsPrefix
  <2>2. Len(root) \in Nat /\ Len(d) \in Nat /\ Len(p) \in Nat
    OBVIOUS
  <2> QED
    BY <2>1, <2>2
<1>2. (\A i \in 1..k : root[i] = d[i]) /\ \A i \in 1..b : d[i] = p[i]
  BY <1>1, PrefixNames DEF Under
<1>3. q \in Seq(S) /\ Len(q) = l - k /\ \A i \in 1..(l - k) : q[i] = p[k + i]
  BY <1>1 DEF From
<1>4. e \in Seq(S) /\ Len(e) = b - k /\ \A i \in 1..(b - k) : e[i] = d[k + i]
  BY <1>1 DEF From
<1> HIDE DEF q, e
<1>5. Under(q, e)
  <2>1. \A i \in 1..Len(e) : e[i] = q[i]
    <3> TAKE i \in 1..Len(e)
    <3>1. i \in 1..(b - k) /\ i \in 1..(l - k) /\ k + i \in 1..b
      BY <1>1, <1>4
    <3>2. e[i] = d[k + i] /\ q[i] = p[k + i] /\ d[k + i] = p[k + i]
      BY <1>2, <1>3, <1>4, <3>1
    <3> QED
      BY <3>2
  <2>2. Len(e) < Len(q) /\ Len(e) <= Len(q)
    BY <1>1, <1>3, <1>4
  <2> QED
    BY <1>3, <1>4, <2>1, <2>2, PrefixNames DEF Under
<1>6. SubSeq(q, Len(e) + 1, Len(q)) = SubSeq(p, Len(d) + 1, Len(p))
  <2> DEFINE s == SubSeq(q, b - k + 1, l - k)
             t == SubSeq(p, b + 1, l)
  <2>1. s \in Seq(S) /\ Len(s) = l - b /\ \A i \in 1..(l - b) : s[i] = q[b - k + i]
    BY <1>1, <1>3
  <2>2. t \in Seq(S) /\ Len(t) = l - b /\ \A i \in 1..(l - b) : t[i] = p[b + i]
    BY <1>1
  <2>3. \A i \in 1..(l - b) : q[b - k + i] = p[b + i]
    BY <1>1, <1>3
  <2> HIDE DEF s, t
  <2>4. \A i \in 1..(l - b) : s[i] = t[i]
    BY <2>1, <2>2, <2>3
  <2>5. s = t
    BY <2>1, <2>2, <2>4, SeqEqual
  <2> QED
    BY <1>1, <1>3, <1>4, <2>5 DEF s, t
<1> DEFINE A == Rule(line, e)
           B == Rule(line, d)
<1>7. A.base = e /\ B.base = d /\ A.segments = B.segments /\ A.anchored = B.anchored /\ A.dirOnly = B.dirOnly
  BY DEF Rule
<1> HIDE DEF A, B
<1>8. MatchRule(q, FALSE, A) <=> MatchRule(p, FALSE, B)
  BY <1>5, <1>6, <1>7, Zenon DEF MatchRule
<1> QED
  BY <1>8 DEF A, B, q, e

\* ... and so do the rules of a file.
LEMMA RulesFromRoot ==
    ASSUME NEW S, NEW root \in Seq(S), NEW p \in Seq(S), NEW d \in Seq(S), IsPrefix(root, d), Under(p, d),
           NEW T, NEW lines \in Seq(T)
    PROVE  Match(Matcher(lines, From(root, d)), From(root, p), FALSE) <=> Match(Matcher(lines, d), p, FALSE)
<1> DEFINE A == Matcher(lines, From(root, d))
           B == Matcher(lines, d)
<1>1. DOMAIN A = DOMAIN B /\ \A i \in DOMAIN B : A[i].negation = B[i].negation
  BY DEF Matcher, Rule
<1>2. \A i \in DOMAIN B : MatchRule(From(root, p), FALSE, A[i]) <=> MatchRule(p, FALSE, B[i])
  BY RuleFromRoot DEF Matcher
<1>3. {i \in DOMAIN A : MatchRule(From(root, p), FALSE, A[i])} = {i \in DOMAIN B : MatchRule(p, FALSE, B[i])}
  <2> HIDE DEF A, B
  <2> QED
    BY <1>1, <1>2
<1> HIDE DEF A, B
<1> DEFINE matching == {i \in DOMAIN B : MatchRule(p, FALSE, B[i])}
           last == CHOOSE i \in matching : \A j \in matching : j <= i
<1>4. Match(B, p, FALSE) <=> matching # {} /\ ~B[last].negation
  BY Zenon DEF Match
<1>5. Match(A, From(root, p), FALSE) <=> matching # {} /\ ~A[last].negation
  BY <1>3, Zenon DEF Match
<1>6. matching \in SUBSET (1..Len(lines)) /\ Len(lines) \in Nat /\ DOMAIN B = 1..Len(lines)
  <2>1. DOMAIN B = 1..Len(lines)
    BY DEF B, Matcher
  <2>2. matching \subseteq DOMAIN B
    OBVIOUS
  <2> HIDE DEF matching
  <2> QED
    BY <2>1, <2>2
<1>7. matching # {} => last \in DOMAIN B
  <2> HIDE DEF matching
  <2>1. SUFFICES ASSUME matching # {}  PROVE last \in DOMAIN B
    OBVIOUS
  <2>2. \E i \in matching : \A j \in matching : j <= i
    BY <1>6, <2>1, LastThereIs
  <2> QED
    BY <1>6, <2>2
<1> HIDE DEF matching, last
<1> QED
  BY <1>1, <1>4, <1>5, <1>7 DEF A, B

\* The path of a submodule that has a file is one of names.
LEMMA SubmodulePaths ==
    ASSUME NEW d \in DOMAIN Submodules, NEW m \in Gitmodules(Submodules[d], d), NEW p \in File, Under(p, m.path)
    PROVE  m.path \in Seq(Name)
<1>1. PICK e \in Submodules[d] : m = [e EXCEPT !.path = d \o @]
  BY DEF Gitmodules
<1>2. /\ e = [name |-> e.name, path |-> e.path] /\ e.path \in Seq(Range(e.path)) /\ d \in Seq(Range(d))
  <2>1. e \in UNION Range(Submodules)
    BY DEF Range
  <2> QED
    BY <2>1, RulesAssumption
<1>3. m.path = d \o e.path
  BY <1>1, <1>2
<1> DEFINE R == Range(e.path)
           D == Range(d)
<1> HIDE DEF R, D
<1>4. m.path \in Seq(R \cup D)
  <2>1. e.path \in Seq(R) /\ d \in Seq(D)
    BY <1>2 DEF R, D
  <2>2. e.path \in Seq(R \cup D) /\ d \in Seq(R \cup D)
    BY <2>1
  <2> QED
    BY <1>3, <2>2
<1>5. p \in Seq(Name)
  BY Paths
<1>6. m.path = SubSeq(p, 1, Len(m.path)) /\ Len(m.path) \in Nat /\ Len(m.path) < Len(p)
  BY <1>4, <1>5 DEF Under, IsPrefix
<1> QED
  BY <1>5, <1>6

\* A submodule scanned as a project of its own lacks no file that the scan of the
\* project finds in it.
LEMMA SubmoduleOfScan ==
    ASSUME NEW F \in Files, NEW m, m.path \in Seq(Name), NEW p \in Scan({}, F, Empty), Under(p, m.path)
    PROVE  p \in ScanSubmodule(m, {}, F, Empty)
<1> DEFINE root == m.path
<1>1. p \in File /\ root \in Seq(Name) /\ Under(p, root) /\ p \in Seq(Name)
  BY Paths DEF Scan, Reached
<1>2. Eligible(p, <<>>, {}) /\ \A d \in IgnoreDir : Under(p, d) => ~Hides(F, d, p)
  <2>1. DOMAIN F = IgnoreDir
    BY DEF Files
  <2> QED
    BY <1>1, <2>1, Scanned, EmptyCache
<1>3. p \notin Symlink /\ Readable(p) /\ (\A d \in Entered(p, <<>>) : ~ShouldExcludeDir(d, {})) /\ Last(p) \notin Sensitive
  BY <1>2 DEF Eligible, Reached, ExcludedByName
<1> HIDE DEF root
<1>4. PICK k \in Nat, l \in Nat : k = Len(root) /\ l = Len(p) /\ k < l
  BY <1>1 DEF Under
<1>5. ASSUME NEW d \in Entered(p, root) \ {root}
      PROVE  Last(d) # ".git" /\ ~ShouldExcludeDir(From(root, d), {})
  <2>1. PICK n \in 0..(l - 1) : d = SubSeq(p, 1, n)
    BY <1>4 DEF Entered, Directories
  <2>2. d \in Seq(Name) /\ Len(d) = n
    BY <1>1, <1>4, <2>1
  <2>3. d \in Entered(p, <<>>) /\ d # <<>> /\ IsPrefix(root, d)
    BY <2>2 DEF Entered, IsPrefix
  <2>4. n > 0 /\ k <= n
    BY <1>4, <2>2, <2>3 DEF IsPrefix
  <2> DEFINE P == Pattern("anywhere", <<>>, {"node_modules", ".git", "vendor", "dist", "build"})
  <2>5. \A i \in 1..n : d[i] \notin P.names
    <3>1. P \in DefaultDirs /\ P.form = "anywhere"
      BY DEF DefaultDirs, Pattern
    <3>2. ~MatchDirPattern(d, P)
      BY <1>3, <2>3, <3>1 DEF ShouldExcludeDir
    <3> HIDE DEF P
    <3> QED
      BY <2>2, <3>1, <3>2 DEF MatchDirPattern
  <2>6. Last(d) # ".git"
    <3>1. ".git" \in P.names
      BY DEF Pattern
    <3>2. Last(d) = d[n] /\ n \in 1..n
      BY <2>2, <2>4 DEF Last
    <3> HIDE DEF P
    <3> QED
      BY <2>5, <3>1, <3>2
  <2>7. ~ShouldExcludeDir(From(root, d), {})
    <3>1. SUFFICES ASSUME ShouldExcludeDir(From(root, d), {})  PROVE FALSE
      OBVIOUS
    <3> DEFINE e == From(root, d)
    <3>2. MatchDirPattern(e, P) /\ P.form = "anywhere"
      BY <3>1 DEF ShouldExcludeDir, DefaultDirs, Pattern
    <3>3. DOMAIN e = 1..(n - k) /\ \A i \in 1..(n - k) : e[i] = d[k + i] /\ k + i \in 1..n
      <4> HIDE DEF P
      <4>1. e = SubSeq(d, k + 1, n)
        BY <1>4, <2>2 DEF From
      <4>2. k \in Nat /\ n \in Nat /\ k <= n /\ d \in Seq(Name) /\ Len(d) = n
        BY <1>4, <2>2, <2>4
      <4> QED
        BY ONLY <4>1, <4>2
    <3> HIDE DEF e, P
    <3>4. PICK i \in DOMAIN e : e[i] \in P.names
      BY <3>2 DEF MatchDirPattern
    <3> QED
      BY <2>5, <3>3, <3>4
  <2> QED
    BY <2>6, <2>7
<1>6. Last(From(root, p)) = Last(p)
  <2> DEFINE q == From(root, p)
  <2>1. q \in Seq(Name) /\ Len(q) = l - k /\ \A i \in 1..(l - k) : q[i] = p[k + i]
    BY <1>1, <1>4 DEF From
  <2> HIDE DEF q
  <2>2. l - k \in 1..(l - k) /\ k + (l - k) = l
    BY <1>4
  <2>3. q[l - k] = p[l]
    BY <2>1, <2>2
  <2> QED
    BY <1>4, <2>1, <2>3 DEF Last, q
<1>7. ASSUME NEW d \in Ignoring(p, root, F, Empty)  PROVE FALSE
  <2>1. d \in IgnoreDir /\ IsPrefix(root, d) /\ Under(p, d) /\ Match(RulesAt(d, root, F, Empty), From(root, p), FALSE)
    BY <1>7 DEF Ignoring, IgnoreFilesOver, Files
  <2>2. d \in Seq(Name)
    BY <2>1, Paths
  <2>3. RulesAt(d, root, F, Empty) = IF F[d] = <<>> THEN <<>> ELSE Matcher(F[d][1], From(root, d))
    BY <2>1, EmptyCache DEF RulesAt
  <2>4. F[d] # <<>> /\ Match(Matcher(F[d][1], From(root, d)), From(root, p), FALSE)
    BY <2>1, <2>3, NoRuleHidesNothing
  <2>5. F[d][1] \in Seq(Lines)
    <3>1. LinesOf(F[d]) \in Seq(Lines)
      BY <2>1, LinesOfFiles
    <3> QED
      BY <2>4, <3>1 DEF LinesOf
  <2>6. Match(Matcher(F[d][1], d), p, FALSE)
    BY <1>1, <2>1, <2>2, <2>4, <2>5, RulesFromRoot
  <2> QED
    BY <1>2, <2>1, <2>4, <2>6 DEF Hides
<1>8. ~ShouldExcludeFile(p, root, {}, F, Empty)
  BY <1>3, <1>6, <1>7 DEF ShouldExcludeFile, ExcludedByName
<1> QED
  BY <1>1, <1>3, <1>5, <1>8 DEF ScanSubmodule, root

\* A part is scanned as the whole is.
LEMMA PartsOfScans == ignores \in Files => SubtreeIsPartOfScan
<1> SUFFICES ASSUME ignores \in Files  PROVE SubtreeIsPartOfScan
  OBVIOUS
<1>1. ASSUME NEW top \in UNION {Directories(p) : p \in File}, NEW excludes \in {{}, Excludes} \cup OtherExcludes
      PROVE  ScanSubtree(top, excludes, ignores, Empty) = {p \in Scan(excludes, ignores, Empty) : Under(p, top)}
  <2>1. top \in Seq(Name)
    <3>1. PICK p \in File : \E n \in 0..(Len(p) - 1) : top = SubSeq(p, 1, n)
      BY DEF Directories
    <3>2. p \in Seq(Name)
      BY Paths
    <3> QED
      BY <3>1, <3>2
  <2>2. \A e \in excludes : e.dir \in Seq(Range(e.dir))
    BY RulesAssumption
  <2>3. Scan(excludes, ignores, Empty) \subseteq File /\ ScanSubtree(top, excludes, ignores, Empty) \subseteq File
    BY ScansAreFiles
  <2>4. CASE top = <<>>
    BY <2>3, <2>4, UnderRoot DEF ScanSubtree
  <2>5. CASE top # <<>>
    <3>1. DOMAIN ignores = IgnoreDir
      BY DEF Files
    <3>2. \A p \in File : p \in ScanFrom(top, excludes, ignores, Empty) <=>
                              Under(p, top) /\ p \in Scan(excludes, ignores, Empty)
      BY <2>1, <2>2, <2>5, <3>1, SubtreeOfScan
    <3>3. ScanSubtree(top, excludes, ignores, Empty) = ScanFrom(top, excludes, ignores, Empty)
      BY <2>5 DEF ScanSubtree
    <3> QED
      BY <2>3, <3>2, <3>3
  <2> QED
    BY <2>4, <2>5
<1>2. ASSUME NEW d \in DOMAIN Submodules, NEW m \in Gitmodules(Submodules[d], d),
             NEW p \in Scan({}, ignores, Empty), Under(p, m.path)
      PROVE  p \in ScanSubmodule(m, {}, ignores, Empty)
  <2>1. p \in File
    BY ScansAreFiles
  <2>2. m.path \in Seq(Name)
    BY <1>2, <2>1, SubmodulePaths
  <2> QED
    BY <1>2, <2>2, SubmoduleOfScan
<1> QED
  BY <1>1, <1>2 DEF SubtreeIsPartOfScan

-----------------------------------------------------------------------------

\* The submodules of a directory that are included.
IncludedIn(modules, dir, include, exclude) ==
    IF dir \notin DOMAIN modules THEN {}
    ELSE {m \in Gitmodules(modules[dir], dir) : IncludesSubmodule(m, include, exclude)}

\* Those found a level further down.
OneDeeper(modules, found, include, exclude) ==
    UNION {IncludedIn(modules, m.path, include, exclude) : m \in {x \in found : Initialized(x.path)}}

\* How the search for submodules descends.
LEMMA DiscoveredIs ==
    ASSUME NEW modules, NEW include, NEW exclude, NEW depth \in Nat
    PROVE  \E f : /\ f[0] = IncludedIn(modules, <<>>, include, exclude)
                  /\ \A k \in 1..depth : f[k] = OneDeeper(modules, f[k - 1], include, exclude)
                  /\ Discovered(modules, include, exclude, depth) = UNION {f[n] : n \in 0..depth}
<1> DEFINE First == IncludedIn(modules, <<>>, include, exclude)
           Deeper(found) == OneDeeper(modules, found, include, exclude)
           Good(n) == \E f : /\ DOMAIN f = 0..n /\ f[0] = First
                             /\ \A k \in 1..n : f[k] = Deeper(f[k - 1])
           bad == {n \in 0..depth : ~Good(n)}
           Is(f) == f = [n \in 0..depth |-> IF n = 0 THEN First ELSE Deeper(f[n - 1])]
           g == CHOOSE g : Is(g)
<1>1. Discovered(modules, include, exclude, depth) = UNION {g[n] : n \in 0..depth}
  BY Zenon DEF Discovered, IncludedIn, OneDeeper
<1> HIDE DEF First, Deeper
<1>2. bad = {}
  <2>1. SUFFICES ASSUME bad # {}  PROVE FALSE
    OBVIOUS
  <2>2. PICK m \in bad : \A k \in bad : m <= k
    <3>1. bad \in SUBSET Nat
      OBVIOUS
    <3> HIDE DEF bad
    <3> QED
      BY <2>1, <3>1, LeastIsThere
  <2>3. m \in 0..depth /\ ~Good(m)
    OBVIOUS
  <2>4. CASE m = 0
    <3> DEFINE h == [n \in 0..0 |-> First]
    <3>1. DOMAIN h = 0..m /\ h[0] = First /\ \A k \in 1..m : h[k] = Deeper(h[k - 1])
      BY <2>4
    <3> HIDE DEF h
    <3> QED
      BY <2>3, <3>1
  <2>5. CASE m # 0
    <3>1. m - 1 \in 0..depth /\ m \in 1..depth
      BY <2>3, <2>5
    <3>2. Good(m - 1)
      <4> HIDE DEF Good
      <4>1. ~(m <= m - 1)
        BY <3>1
      <4> QED
        BY <2>2, <3>1, <4>1
    <3>3. PICK f : /\ DOMAIN f = 0..(m - 1) /\ f[0] = First
                   /\ \A k \in 1..(m - 1) : f[k] = Deeper(f[k - 1])
      BY <3>2
    <3> DEFINE h == [n \in 0..m |-> IF n = m THEN Deeper(f[m - 1]) ELSE f[n]]
    <3>4. DOMAIN h = 0..m /\ h[0] = First
      BY <3>1, <3>3
    <3>5. \A k \in 1..m : h[k] = Deeper(h[k - 1])
      <4> TAKE k \in 1..m
      <4>1. h[k - 1] = f[k - 1]
        BY <3>1
      <4>2. CASE k = m
        BY <3>1, <4>1, <4>2
      <4>3. CASE k # m
        BY <3>1, <3>3, <4>1, <4>3
      <4> QED
        BY <4>2, <4>3
    <3> HIDE DEF h
    <3> QED
      BY <2>3, <3>4, <3>5
  <2> QED
    BY <2>4, <2>5
<1>3. PICK f : DOMAIN f = 0..depth /\ f[0] = First /\ \A k \in 1..depth : f[k] = Deeper(f[k - 1])
  <2>1. depth \in 0..depth /\ depth \notin bad
    <3> HIDE DEF bad
    <3> QED
      BY <1>2
  <2> QED
    BY <2>1
<1> DEFINE h == [n \in 0..depth |-> f[n]]
<1>4. Is(h)
  <2>1. \A n \in 0..depth : f[n] = IF n = 0 THEN First ELSE Deeper(f[n - 1])
    BY <1>3
  <2>2. \A n \in 0..depth : n # 0 => h[n - 1] = f[n - 1]
    OBVIOUS
  <2>3. \A n \in 0..depth : f[n] = IF n = 0 THEN First ELSE Deeper(h[n - 1])
    <3> HIDE DEF h
    <3> QED
      BY <2>1, <2>2
  <2> QED
    BY <2>3
<1>5. Is(g)
  <2> HIDE DEF h
  <2> QED
    BY <1>4, Zenon
<1> HIDE DEF g
<1>6. g[0] = First /\ \A k \in 1..depth : g[k] = Deeper(g[k - 1])
  <2>1. \A n \in 0..depth : g[n] = IF n = 0 THEN First ELSE Deeper(g[n - 1])
    BY <1>5, Zenon
  <2>2. 0 \in 0..depth /\ \A k \in 1..depth : k \in 0..depth /\ k # 0
    OBVIOUS
  <2> QED
    BY <2>1, <2>2, Zenon
<1> QED
  BY <1>1, <1>6 DEF First, Deeper

\* What is found is included, and was found where the project or a submodule says.
LEMMA SubmodulesFound == SubmodulesAreChosen
<1> SUFFICES ASSUME NEW include \in SUBSET SubmodulePatterns, NEW exclude \in SUBSET SubmodulePatterns,
                    NEW depth \in 0..MaxSubmoduleDepth
             PROVE  LET found == Discovered(Submodules, include, exclude, depth)
                        own   == Gitmodules(Submodules[<<>>], <<>>)
                    IN  /\ {m \in own : IncludesSubmodule(m, include, exclude)} \subseteq found
                        /\ \A m \in found :
                              /\ IncludesSubmodule(m, include, exclude)
                              /\ \/ m \in own
                                 \/ /\ depth > 0
                                    /\ \E x \in found : /\ x.path \in DOMAIN Submodules /\ Initialized(x.path)
                                                        /\ m \in Gitmodules(Submodules[x.path], x.path)
  BY DEF SubmodulesAreChosen
<1> DEFINE found == Discovered(Submodules, include, exclude, depth)
           own   == Gitmodules(Submodules[<<>>], <<>>)
<1>0. depth \in Nat /\ <<>> \in DOMAIN Submodules
  BY RulesAssumption
<1>1. PICK f : /\ f[0] = IncludedIn(Submodules, <<>>, include, exclude)
               /\ \A k \in 1..depth : f[k] = OneDeeper(Submodules, f[k - 1], include, exclude)
               /\ found = UNION {f[n] : n \in 0..depth}
  BY <1>0, DiscoveredIs
<1> HIDE DEF found
<1>2. f[0] = {m \in own : IncludesSubmodule(m, include, exclude)}
  BY <1>0, <1>1 DEF IncludedIn
<1>3. \A n \in 0..depth : f[n] \subseteq found
  BY <1>1
<1>4. ASSUME NEW m \in found
      PROVE  /\ IncludesSubmodule(m, include, exclude)
             /\ \/ m \in own
                \/ /\ depth > 0
                   /\ \E x \in found : /\ x.path \in DOMAIN Submodules /\ Initialized(x.path)
                                       /\ m \in Gitmodules(Submodules[x.path], x.path)
  <2>1. PICK n \in 0..depth : m \in f[n]
    BY <1>1
  <2>2. CASE n = 0
    BY <1>2, <2>1, <2>2
  <2>3. CASE n # 0
    <3>1. n \in 1..depth /\ n - 1 \in 0..depth /\ depth > 0
      BY <1>0, <2>3
    <3>2. m \in OneDeeper(Submodules, f[n - 1], include, exclude)
      BY <1>1, <2>1, <3>1
    <3>3. PICK x \in f[n - 1] : Initialized(x.path) /\ m \in IncludedIn(Submodules, x.path, include, exclude)
      BY <3>2 DEF OneDeeper
    <3>4. /\ x.path \in DOMAIN Submodules /\ m \in Gitmodules(Submodules[x.path], x.path)
          /\ IncludesSubmodule(m, include, exclude)
      BY <3>3 DEF IncludedIn
    <3>5. x \in found
      BY <1>3, <3>1
    <3> QED
      BY <3>1, <3>3, <3>4, <3>5
  <2> QED
    BY <2>2, <2>3
<1>5. {m \in own : IncludesSubmodule(m, include, exclude)} \subseteq found
  <2>1. 0 \in 0..depth
    BY <1>0
  <2> QED
    BY <1>2, <1>3, <2>1
<1> QED
  BY <1>4, <1>5 DEF found

\* Whatever the .gitignore files are, the submodules and the patterns, and in every
\* phase: no plain lines keep out what git would not, a part is scanned as the whole is, and the submodules found are the ones asked for (gitignore.go,
\* scanner.go, submodule.go).
THEOREM RulesStaySame ==
    IgnoreSpec => [](IgnoresNoMoreThanGit /\ SubtreeIsPartOfScan /\ SubmodulesAreChosen /\ RulesMeanTheSame)
<1> DEFINE Agree == IgnoresNoMoreThanGit /\ SubtreeIsPartOfScan /\ SubmodulesAreChosen /\ RulesMeanTheSame
<1>1. IgnoreInit => IgnoreInv
  BY IgnoreStart
<1>2. IgnoreInv /\ [IgnoreNext]_ignoreVars => IgnoreInv'
  BY IgnoreStep
<1>3. IgnoreInv => Agree
  <2>1. IgnoreInv => ignores \in Files
    BY DEF IgnoreInv, IgnoreTypeOK
  <2> QED
    BY <2>1, GitHidesToo, PartsOfScans, SubmodulesFound DEF RulesMeanTheSame
<1> HIDE DEF Agree
<1>4. IgnoreSpec => []Agree
  BY <1>1, <1>2, <1>3, PTL DEF IgnoreSpec
<1> QED
  BY <1>4 DEF Agree

-----------------------------------------------------------------------------
(***************************************************************************)
(* The windows of lines the chunkers cut a file into.  Each is made by a   *)
(* recursion; that it has a value, and what the value is, is argued by the *)
(* least rank at which it would fail (RankInduction, RecursionIsThere).    *)
(***************************************************************************)

\* What holds wherever it holds at all lower ranks holds everywhere.
Inductive(D, rank, S) ==
    /\ \A x \in D : rank[x] \in Nat
    /\ \A x \in D : (\A y \in D : rank[y] < rank[x] => y \in S) => x \in S

LEMMA RankInduction == ASSUME NEW D, NEW rank, NEW S, Inductive(D, rank, S)  PROVE \A x \in D : x \in S
<1> USE DEF Inductive
<1> SUFFICES ASSUME NEW x \in D, x \notin S  PROVE FALSE
  OBVIOUS
<1> DEFINE bad == {rank[y] : y \in D \ S}
<1>1. bad \in SUBSET Nat /\ bad # {}
  OBVIOUS
<1>2. PICK m \in bad : \A n \in bad : m <= n
  <2> HIDE DEF bad
  <2> QED
    BY <1>1, LeastIsThere
<1>3. PICK y \in D \ S : rank[y] = m
  OBVIOUS
<1>4. \A z \in D : rank[z] < rank[y] => z \in S
  <2> SUFFICES ASSUME NEW z \in D, rank[z] < rank[y], z \notin S  PROVE FALSE
    OBVIOUS
  <2>1. rank[z] \in bad
    OBVIOUS
  <2>2. m <= rank[z] /\ rank[z] \in Nat /\ m \in Nat
    <3> HIDE DEF bad
    <3> QED
      BY <1>1, <1>2, <2>1
  <2> QED
    BY <1>3, <2>2
<1> QED
  BY <1>3, <1>4

\* A function whose value at a place is made of its values at places of a lower
\* rank exists.
Recursive(D, V, b, rank, step) ==
    /\ V # {} /\ b \in Nat /\ \A x \in D : rank[x] \in 0..b
    /\ \A x \in D, f \in [D -> V] : step[<<x, f>>] \in V
    /\ \A x \in D, f, g \in [D -> V] :
          (\A y \in D : rank[y] < rank[x] => f[y] = g[y]) => step[<<x, f>>] = step[<<x, g>>]

Follows(f, D, V, step) == f \in [D -> V] /\ \A x \in D : f[x] = step[<<x, f>>]

LEMMA RecursionIsThere ==
    ASSUME NEW D, NEW V, NEW b, NEW rank, NEW step, Recursive(D, V, b, rank, step)
    PROVE  \E f : Follows(f, D, V, step)
<1> USE DEF Recursive, Follows
<1> PICK v : v \in V
  OBVIOUS
<1> DEFINE Upto(n) == \E f \in [D -> V] : \A x \in D : rank[x] < n => f[x] = step[<<x, f>>]
           bad == {n \in Nat : ~Upto(n)}
<1>1. Upto(0)
  <2>1. [x \in D |-> v] \in [D -> V] /\ \A x \in D : ~(rank[x] < 0)
    OBVIOUS
  <2> QED
    BY <2>1
<1>2. ASSUME NEW n \in Nat, Upto(n)  PROVE Upto(n + 1)
  <2>1. PICK f \in [D -> V] : \A x \in D : rank[x] < n => f[x] = step[<<x, f>>]
    BY <1>2
  <2> DEFINE h == [x \in D |-> IF rank[x] < n THEN f[x] ELSE step[<<x, f>>]]
  <2>2. h \in [D -> V]
    OBVIOUS
  <2>3. ASSUME NEW x \in D, rank[x] < n + 1  PROVE h[x] = step[<<x, h>>]
    <3>1. \A y \in D : rank[y] < rank[x] => h[y] = f[y]
      BY <2>3
    <3>2. step[<<x, h>>] = step[<<x, f>>]
      <4> HIDE DEF h
      <4> QED
        BY <2>2, <3>1
    <3> QED
      BY <2>1, <3>2
  <2> QED
    BY <2>2, <2>3
<1>3. bad = {}
  <2> SUFFICES ASSUME bad # {}  PROVE FALSE
    OBVIOUS
  <2> HIDE DEF Upto
  <2>1. PICK m \in bad : \A k \in bad : m <= k
    <3>1. bad \in SUBSET Nat
      OBVIOUS
    <3> HIDE DEF bad
    <3> QED
      BY <3>1, LeastIsThere
  <2>2. m # 0
    BY <1>1
  <2>3. m - 1 \in Nat /\ ~(m <= m - 1)
    BY <2>2
  <2>4. Upto(m - 1)
    BY <2>1, <2>3
  <2>5. Upto(m)
    <3>1. Upto((m - 1) + 1)
      BY <1>2, <2>3, <2>4
    <3>2. (m - 1) + 1 = m
      BY <2>3
    <3> QED
      BY <3>1, <3>2
  <2> QED
    BY <2>5
<1>4. Upto(b + 1)
  <2> HIDE DEF Upto
  <2> QED
    BY <1>3
<1> QED
  BY <1>4

-----------------------------------------------------------------------------
\* Windows of lines.

SomeLines  == Seq([kind : {"code", "comment", "bare", "blank"}, length : Nat])
LineChunks == [first : Nat, last : Nat, length : Nat, symbols : SUBSET (Nat \X Nat)]

LEMMA NumbersOfChunks ==
    /\ MaxChars \in Nat \ {0} /\ MaxChars = 4 * MaxChunkTokens
    /\ \A n \in Nat : EstimateTokens(n) \in Nat /\ (n <= MaxChars => EstimateTokens(n) <= MaxChunkTokens)
    /\ \A n \in Nat : EstimateTokens(n) > MaxChunkTokens => n > MaxChars
    /\ \A m, n \in Nat : m <= n => EstimateTokens(m) <= EstimateTokens(n)
BY ChunkingAssumption DEF MaxChars, EstimateTokens, TokensPerChar

LEMMA PartsAreEnough ==
    ASSUME NEW n \in Nat, n > 0
    PROVE  /\ Parts(n) \in Nat \ {0} /\ (Parts(n) - 1) * MaxChars < n /\ n <= Parts(n) * MaxChars
<1> DEFINE K == MaxChars
<1>1. K \in Nat \ {0}
  BY NumbersOfChunks
<1> HIDE DEF K
<1>2. \A x \in Nat : /\ x \div K \in Nat /\ (x \div K) * K <= x /\ x < ((x \div K) + 1) * K
  BY <1>1
<1> QED
  BY <1>1, <1>2 DEF Parts, K

LEMMA LinesHaveLength ==
    ASSUME NEW lines \in SomeLines
    PROVE  /\ Len(lines) \in Nat /\ DOMAIN lines = 1..Len(lines)
           /\ \A k \in 1..Len(lines) : lines[k].length \in Nat
<1>1. \A k \in 1..Len(lines) : lines[k] \in [kind : {"code", "comment", "bare", "blank"}, length : Nat]
  BY ElementOfSeq, Zenon DEF SomeLines
<1>2. Len(lines) \in Nat /\ DOMAIN lines = 1..Len(lines)
  BY LenProperties, Zenon DEF SomeLines
<1> QED
  BY <1>1, <1>2

LEMMA WidthIs ==
    ASSUME NEW lines \in SomeLines, NEW i \in 1..Len(lines), NEW j \in i..Len(lines)
    PROVE  /\ Width(lines, i, j) \in Nat /\ lines[j].length <= Width(lines, i, j)
           /\ i = j => Width(lines, i, j) = lines[i].length
<1> DEFINE D == i..j
           rank == [k \in D |-> k - i]
           next(k, f) == IF k = i THEN lines[i].length ELSE f[k - 1] + 1 + lines[k].length
           step == [x \in D \X [D -> Nat] |-> next(x[1], x[2])]
           Is(f) == f = [k \in D |-> IF k = i THEN lines[k].length ELSE f[k - 1] + 1 + lines[k].length]
           g == CHOOSE g : Is(g)
<1>1. i \in Nat /\ j \in Nat /\ i <= j /\ i \in D /\ j \in D /\ \A k \in D : k \in Nat /\ (k # i => k - 1 \in D)
  BY DEF SomeLines
<1>2. \A k \in D : lines[k].length \in Nat
  BY <1>1, LinesHaveLength
<1>3. j - i \in Nat /\ \A k \in D : rank[k] \in 0..(j - i)
  BY <1>1
<1>4. \A k \in D, f \in [D -> Nat] : step[<<k, f>>] \in Nat
  <2>1. ASSUME NEW k \in D, NEW f \in [D -> Nat]  PROVE next(k, f) \in Nat
    BY <1>1, <1>2
  <2> HIDE DEF next, D
  <2> QED
    BY <2>1
<1>5. \A k \in D, f, h \in [D -> Nat] : (\A y \in D : rank[y] < rank[k] => f[y] = h[y]) => step[<<k, f>>] = step[<<k, h>>]
  <2> TAKE k \in D, f, h \in [D -> Nat]
  <2> HAVE \A y \in D : rank[y] < rank[k] => f[y] = h[y]
  <2>1. k # i => f[k - 1] = h[k - 1]
    BY <1>1
  <2> QED
    BY <1>1, <2>1
<1>6. PICK f : Follows(f, D, Nat, step)
  <2> HIDE DEF D, rank, step, Is, g
  <2>1. Recursive(D, Nat, j - i, rank, step)
    <3>1. Nat # {}
      OBVIOUS
    <3> QED
      BY <1>3, <1>4, <1>5, <3>1, Zenon DEF Recursive
  <2> QED
    BY <2>1, RecursionIsThere, Zenon
<1>7. \A k \in D : f[k] = next(k, f)
  BY <1>6 DEF Follows
<1>8. Is(g)
  <2>1. Is(f)
    BY <1>6, <1>7 DEF Follows
  <2> QED
    BY <2>1, Zenon
<1>9. Width(lines, i, j) = g[j]
  BY Zenon DEF Width
<1> HIDE DEF g
<1>10. \A k \in D : g[k] = IF k = i THEN lines[k].length ELSE g[k - 1] + 1 + lines[k].length
  BY <1>8, Zenon
<1>11. \A k \in D : g[k] \in Nat
  <2> DEFINE S == {k \in D : g[k] \in Nat}
  <2>1. ASSUME NEW k \in D, \A y \in D : rank[y] < rank[k] => y \in S  PROVE k \in S
    <3>1. k # i => g[k - 1] \in Nat
      BY <1>1, <2>1
    <3>2. g[k] = IF k = i THEN lines[k].length ELSE g[k - 1] + 1 + lines[k].length
      BY <1>10, <2>1
    <3>3. lines[k].length \in Nat
      BY <1>2, <2>1
    <3>4. g[k] \in Nat
      BY <3>1, <3>2, <3>3
    <3> QED
      BY <3>4
  <2> HIDE DEF S
  <2>2. \A k \in D : rank[k] \in Nat
    BY <1>1
  <2>3. \A k \in D : k \in S
    <3> HIDE DEF D, rank
    <3>1. Inductive(D, rank, S)
      BY <2>1, <2>2, Zenon DEF Inductive
    <3> QED
      BY <3>1, RankInduction, Zenon
  <2> QED
    BY <2>3 DEF S
<1>12. g[j] = IF j = i THEN lines[j].length ELSE g[j - 1] + 1 + lines[j].length
  BY <1>1, <1>10
<1>13. /\ lines[j].length \in Nat /\ g[j] \in Nat
       /\ j # i => g[j - 1] \in Nat
  BY <1>1, <1>2, <1>11
<1>14. lines[j].length <= g[j] /\ (i = j => g[j] = lines[i].length)
  BY <1>12, <1>13
<1> QED
  BY <1>9, <1>13, <1>14, Zenon

\* The greatest of some numbers up to a bound is one of them.
LEMMA GreatestIsOne ==
    ASSUME NEW b \in Nat, NEW T \in SUBSET (0..b), T # {}
    PROVE  Max(T) \in T /\ \A t \in T : t <= Max(T)
<1> DEFINE U == {u \in Nat : \A t \in T : t <= u}
<1>1. PICK u \in U : \A v \in U : u <= v
  <2>1. U \in SUBSET Nat /\ b \in U
    OBVIOUS
  <2> HIDE DEF U
  <2> QED
    BY <2>1, LeastIsThere
<1>2. u \in Nat /\ \A t \in T : t <= u
  OBVIOUS
<1>3. u \in T
  <2> SUFFICES ASSUME u \notin T  PROVE FALSE
    OBVIOUS
  <2>1. \A t \in T : t \in Nat /\ t <= u - 1
    BY <1>2
  <2>2. u - 1 \in Nat
    <3>1. PICK t \in T : t \in Nat /\ t <= u - 1
      BY <2>1
    <3> QED
      BY <1>2, <3>1
  <2>3. u - 1 \in U /\ ~(u <= u - 1)
    BY <2>1, <2>2
  <2> QED
    BY <1>1, <2>3
<1>4. \A t \in T : u >= t
  BY <1>2
<1>5. \E x \in T : \A t \in T : x >= t
  BY <1>3, <1>4
<1>6. Max(T) \in T /\ \A t \in T : Max(T) >= t
  BY <1>5, Zenon DEF Max
<1> QED
  BY <1>6

\* A window has the line it begins at, fits unless that line does not, and has no
\* line that is too long by itself.
LEMMA WindowFits ==
    ASSUME NEW lines \in SomeLines, NEW i \in 1..Len(lines), NEW last \in i..Len(lines),
           EstimateTokens(lines[i].length) <= MaxChunkTokens
    PROVE  /\ WindowEnd(lines, i, last) \in i..last
           /\ EstimateTokens(Width(lines, i, WindowEnd(lines, i, last))) <= MaxChunkTokens
           /\ \A j \in i..WindowEnd(lines, i, last) : EstimateTokens(lines[j].length) <= MaxChunkTokens
<1> DEFINE T == {e \in i..last : /\ e = i \/ EstimateTokens(Width(lines, i, e)) <= MaxChunkTokens
                                 /\ \A k \in i..(e - 1) : EstimateTokens(Width(lines, i, k)) < MaxChunkTokens}
           E == WindowEnd(lines, i, last)
<1>1. Len(lines) \in Nat /\ i \in Nat /\ last \in Nat /\ i <= last /\ last <= Len(lines)
  BY LinesHaveLength
<1>2. E \in T
  <2>1. T \in SUBSET (0..last)
    BY <1>1
  <2>2. i \in T
    BY <1>1
  <2>3. E = Max(T)
    BY Zenon DEF WindowEnd
  <2> HIDE DEF T, E
  <2> QED
    BY <1>1, <2>1, <2>2, <2>3, GreatestIsOne
<1>3. /\ E \in i..last /\ (E = i \/ EstimateTokens(Width(lines, i, E)) <= MaxChunkTokens)
      /\ \A k \in i..(E - 1) : EstimateTokens(Width(lines, i, k)) < MaxChunkTokens
  <2> HIDE DEF E
  <2> QED
    BY <1>2
<1> HIDE DEF E
<1>4. MaxChunkTokens \in Nat
  BY ChunkingAssumption
<1>5. EstimateTokens(Width(lines, i, E)) <= MaxChunkTokens
  <2>1. CASE E = i
    <3>1. Width(lines, i, E) = lines[i].length
      BY <1>1, <2>1, WidthIs
    <3> QED
      BY <3>1
  <2> QED
    BY <1>3, <2>1
<1>6. ASSUME NEW j \in i..E  PROVE EstimateTokens(lines[j].length) <= MaxChunkTokens
  <2>1. j \in i..Len(lines) /\ j \in 1..Len(lines) /\ (j = E \/ j \in i..(E - 1))
    BY <1>1, <1>3
  <2>2. /\ Width(lines, i, j) \in Nat /\ lines[j].length <= Width(lines, i, j) /\ lines[j].length \in Nat
    BY <2>1, WidthIs, LinesHaveLength
  <2>3. /\ EstimateTokens(lines[j].length) <= EstimateTokens(Width(lines, i, j))
        /\ EstimateTokens(lines[j].length) \in Nat /\ EstimateTokens(Width(lines, i, j)) \in Nat
    BY <2>2, NumbersOfChunks
  <2>4. EstimateTokens(Width(lines, i, j)) <= MaxChunkTokens
    BY <1>3, <1>4, <1>5, <2>1, <2>3
  <2> QED
    BY <1>4, <2>3, <2>4
<1> QED
  BY <1>3, <1>5, <1>6 DEF E

\* Two sums of the same numbers differ by what they begin with.
Adding(N, a, f, h, c) ==
    /\ N \in Nat /\ c \in Nat /\ f[0] \in Nat /\ h[0] = c + f[0]
    /\ \A k \in 1..N : a[k] \in Nat /\ f[k] = f[k - 1] + a[k] /\ h[k] = h[k - 1] + a[k]
Apart(N, f, h, c) == \A k \in 0..N : f[k] \in Nat /\ h[k] = c + f[k]

LEMMA SumsFollow == ASSUME NEW N, NEW a, NEW f, NEW h, NEW c, Adding(N, a, f, h, c)  PROVE Apart(N, f, h, c)
<1> USE DEF Adding, Apart
<1> DEFINE D == 0..N
           rank == [k \in D |-> k]
           S == {k \in D : f[k] \in Nat /\ h[k] = c + f[k]}
<1>1. ASSUME NEW k \in D, \A y \in D : rank[y] < rank[k] => y \in S  PROVE k \in S
  <2>1. CASE k = 0
    BY <2>1
  <2>2. CASE k # 0
    <3>1. k - 1 \in D /\ rank[k - 1] < rank[k] /\ k \in 1..N
      BY <2>2
    <3>2. f[k - 1] \in Nat /\ h[k - 1] = c + f[k - 1]
      BY <1>1, <3>1
    <3>3. a[k] \in Nat /\ f[k] = f[k - 1] + a[k] /\ h[k] = h[k - 1] + a[k]
      BY <3>1
    <3>4. f[k] \in Nat /\ h[k] = c + f[k]
      BY <3>2, <3>3
    <3> QED
      BY <3>4
  <2> QED
    BY <2>1, <2>2
<1>2. \A k \in D : rank[k] \in Nat
  OBVIOUS
<1>3. \A k \in D : k \in S
  <2> HIDE DEF D, rank, S
  <2>1. Inductive(D, rank, S)
    BY <1>1, <1>2, Zenon DEF Inductive
  <2> QED
    BY <2>1, RankInduction, Zenon
<1> QED
  BY <1>3

\* How the characters of the chunks that begin at a line add up.
Begun(chunk, i) == IF chunk.first = i THEN chunk.length ELSE 0

Totals(f, chunks, i, n) ==
    /\ f[0] = 0 /\ LengthAt(chunks, i) = f[n]
    /\ \A k \in 1..n : f[k] = f[k - 1] + Begun(chunks[k], i)

LEMMA LengthIs == ASSUME NEW chunks \in Seq(LineChunks), NEW i  PROVE \E f : Totals(f, chunks, i, Len(chunks))
<1> DEFINE N == Len(chunks)
           D == 0..N
           rank == [k \in D |-> k]
           next(k, f) == IF k = 0 THEN 0 ELSE f[k - 1] + Begun(chunks[k], i)
           step == [x \in D \X [D -> Nat] |-> next(x[1], x[2])]
           Is(f) == f = [k \in D |-> IF k = 0 THEN 0 ELSE f[k - 1] + IF chunks[k].first = i THEN chunks[k].length ELSE 0]
           g == CHOOSE g : Is(g)
<1>1. N \in Nat
  BY LenProperties
<1>2. \A k \in 1..N : Begun(chunks[k], i) \in Nat
  <2>1. \A k \in 1..N : chunks[k] \in LineChunks
    BY ElementOfSeq
  <2> QED
    BY <2>1 DEF LineChunks, Begun
<1>3. \A k \in D : rank[k] \in 0..N
  OBVIOUS
<1>4. \A k \in D, f \in [D -> Nat] : step[<<k, f>>] \in Nat
  <2>1. ASSUME NEW k \in D, NEW f \in [D -> Nat]  PROVE next(k, f) \in Nat
    <3>1. k # 0 => k \in 1..N /\ k - 1 \in D
      BY <1>1
    <3>2. k # 0 => f[k - 1] \in Nat /\ Begun(chunks[k], i) \in Nat
      BY <1>2, <3>1
    <3> QED
      BY <3>2
  <2> HIDE DEF next, D
  <2> QED
    BY <2>1
<1>5. \A k \in D, f, h \in [D -> Nat] : (\A y \in D : rank[y] < rank[k] => f[y] = h[y]) => step[<<k, f>>] = step[<<k, h>>]
  <2> TAKE k \in D, f, h \in [D -> Nat]
  <2> HAVE \A y \in D : rank[y] < rank[k] => f[y] = h[y]
  <2>1. k # 0 => f[k - 1] = h[k - 1]
    BY <1>1
  <2>2. step[<<k, f>>] = next(k, f) /\ step[<<k, h>>] = next(k, h)
    <3> HIDE DEF next, D
    <3> QED
      OBVIOUS
  <2> QED
    BY <2>1, <2>2
<1>6. PICK f : Follows(f, D, Nat, step)
  <2> HIDE DEF N, D, rank, step, Is, g
  <2>1. Recursive(D, Nat, N, rank, step)
    <3>1. Nat # {}
      OBVIOUS
    <3> QED
      BY <1>1, <1>3, <1>4, <1>5, <3>1, Zenon DEF Recursive
  <2> QED
    BY <2>1, RecursionIsThere, Zenon
<1>7. \A k \in D : f[k] = next(k, f)
  <2> HIDE DEF next, D
  <2> QED
    BY <1>6 DEF Follows
<1>8. Is(g)
  <2>1. Is(f)
    <3>1. f = [k \in D |-> next(k, f)]
      <4> HIDE DEF next, D
      <4> QED
        BY <1>6, <1>7 DEF Follows
    <3> QED
      BY <3>1, Zenon DEF Begun
  <2> QED
    BY <2>1, Zenon
<1>9. LengthAt(chunks, i) = g[N]
  BY Zenon DEF LengthAt
<1> HIDE DEF g
<1>10. \A k \in D : g[k] = next(k, g)
  BY <1>8, Zenon DEF Begun
<1>11. 0 \in D /\ \A k \in 1..N : k \in D /\ k # 0
  BY <1>1
<1>12. g[0] = 0 /\ \A k \in 1..N : g[k] = g[k - 1] + Begun(chunks[k], i)
  BY <1>10, <1>11, Zenon
<1> QED
  BY <1>9, <1>12, Zenon DEF Totals

LEMMA LengthsJoined ==
    ASSUME NEW a \in Seq(LineChunks), NEW b \in Seq(LineChunks), NEW i
    PROVE  LengthAt(a \o b, i) = LengthAt(a, i) + LengthAt(b, i)
<1> DEFINE la == Len(a)
           lb == Len(b)
           ab == a \o b
<1>1. /\ la \in Nat /\ lb \in Nat /\ ab \in Seq(LineChunks) /\ Len(ab) = la + lb
      /\ \A k \in 1..la : ab[k] = a[k] /\ k \in 1..(la + lb)
      /\ \A k \in 1..lb : ab[la + k] = b[k] /\ la + k \in 1..(la + lb) /\ la + (k - 1) = (la + k) - 1
  BY ConcatProperties, LenProperties
<1>2. \A c \in LineChunks : Begun(c, i) \in Nat
  BY DEF LineChunks, Begun
<1>3. /\ \A k \in 1..la : Begun(a[k], i) \in Nat
      /\ \A k \in 1..lb : Begun(b[k], i) \in Nat
  BY <1>2, ElementOfSeq
<1>4. PICK f : Totals(f, a, i, la)
  BY LengthIs, Zenon
<1>5. PICK g : Totals(g, b, i, lb)
  BY LengthIs, Zenon
<1>6. PICK h : Totals(h, ab, i, la + lb)
  <2> HIDE DEF ab
  <2>1. ab \in Seq(LineChunks) /\ Len(ab) = la + lb
    BY <1>1
  <2> HIDE DEF la, lb
  <2> QED
    BY <2>1, LengthIs, Zenon
<1> HIDE DEF la, lb, ab
<1>7. Apart(la, f, h, 0)
  <2> DEFINE x == [k \in 1..la |-> Begun(a[k], i)]
  <2>1. \A k \in 1..la : x[k] \in Nat /\ f[k] = f[k - 1] + x[k] /\ h[k] = h[k - 1] + x[k]
    BY <1>1, <1>3, <1>4, <1>6 DEF Totals
  <2>2. f[0] \in Nat /\ 0 \in Nat /\ h[0] = 0 + f[0]
    BY <1>4, <1>6 DEF Totals
  <2> HIDE DEF x
  <2>3. Adding(la, x, f, h, 0)
    BY <1>1, <2>1, <2>2, Zenon DEF Adding
  <2> QED
    BY <2>3, SumsFollow, Zenon
<1>8. f[la] \in Nat /\ h[la] = f[la]
  BY <1>1, <1>7 DEF Apart
<1>9. \A k \in 0..lb : g[k] \in Nat /\ h[la + k] = f[la] + g[k]
  <2> DEFINE x == [k \in 1..lb |-> Begun(b[k], i)]
             later == [k \in 0..lb |-> h[la + k]]
  <2>1. \A k \in 1..lb : x[k] \in Nat /\ g[k] = g[k - 1] + x[k] /\ later[k] = later[k - 1] + x[k]
    <3> TAKE k \in 1..lb
    <3>1. k \in 0..lb /\ k - 1 \in 0..lb
      BY <1>1
    <3>2. /\ la + k \in 1..(la + lb) /\ la + (k - 1) = (la + k) - 1 /\ ab[la + k] = b[k]
          /\ Begun(b[k], i) \in Nat
      BY <1>1, <1>3, Zenon
    <3>3. h[la + k] = h[la + (k - 1)] + Begun(b[k], i)
      BY <1>6, <3>2, Zenon DEF Totals
    <3> QED
      BY <1>5, <3>1, <3>2, <3>3 DEF Totals
  <2>2. g[0] \in Nat /\ later[0] = f[la] + g[0]
    BY <1>1, <1>5, <1>8 DEF Totals
  <2>3. Apart(lb, g, later, f[la])
    <3> HIDE DEF x, later
    <3>1. Adding(lb, x, g, later, f[la])
      BY <1>1, <1>8, <2>1, <2>2, Zenon DEF Adding
    <3> QED
      BY <3>1, SumsFollow, Zenon
  <2> QED
    BY <2>3 DEF Apart
<1>10. h[la + lb] = f[la] + g[lb]
  <2>1. lb \in 0..lb
    BY <1>1
  <2> QED
    BY <1>9, <2>1, Zenon
<1> QED
  BY <1>4, <1>5, <1>6, <1>10 DEF ab, Totals

LEMMA LesserIs == ASSUME NEW m \in Nat, NEW n \in Nat  PROVE Min({m, n}) = IF m <= n THEN m ELSE n
<1> DEFINE x == IF m <= n THEN m ELSE n
<1>1. x \in {m, n} /\ \A y \in {m, n} : x <= y
  OBVIOUS
<1>2. \A y \in {m, n} : (\A z \in {m, n} : y <= z) => y = x
  OBVIOUS
<1> HIDE DEF x
<1>3. Min({m, n}) = x
  BY <1>1, <1>2, Zenon DEF Min
<1> QED
  BY <1>3 DEF x

\* A line of chunks.
LEMMA LineChunkIs ==
    ASSUME NEW lines \in SomeLines, NEW i \in 1..Len(lines), NEW j \in i..Len(lines)
    PROVE  /\ LineChunk(lines, i, j) \in LineChunks
           /\ LineChunk(lines, i, j).first = i /\ LineChunk(lines, i, j).last = j
           /\ LineChunk(lines, i, j).length = Width(lines, i, j)
<1>1. i \in Nat /\ j \in Nat /\ Width(lines, i, j) \in Nat
  BY LinesHaveLength, WidthIs
<1> QED
  BY <1>1 DEF LineChunk, LineChunks

\* The parts of a line that is too long make it up.
LEMMA PartsMakeUp ==
    ASSUME NEW lines \in SomeLines, NEW i \in 1..Len(lines), EstimateTokens(lines[i].length) > MaxChunkTokens,
           NEW parts, parts = SplitLongLine(lines, i)
    PROVE  /\ parts \in Seq(LineChunks) /\ Len(parts) > 0
           /\ \A k \in 1..Len(parts) :
                 /\ parts[k].first = i /\ parts[k].last = i
                 /\ EstimateTokens(parts[k].length) <= MaxChunkTokens
           /\ LengthAt(parts, i) = lines[i].length
<1> DEFINE n == lines[i].length
           N == Parts(n)
           K == MaxChars
           part(k) == [LineChunk(lines, i, i) EXCEPT !.length = PartLength(n, k)]
<1>1. K \in Nat \ {0} /\ n \in Nat /\ n > K
  BY NumbersOfChunks, LinesHaveLength
<1>2. N \in Nat \ {0} /\ (N - 1) * K < n /\ n <= N * K
  <2>1. n > 0
    BY <1>1
  <2> HIDE DEF n
  <2> QED
    BY <1>1, <2>1, PartsAreEnough, Zenon
<1>3. parts = [k \in 1..N |-> part(k)]
  BY Zenon DEF SplitLongLine
<1> HIDE DEF n, N, K
<1>4. ASSUME NEW k \in 1..N
      PROVE  /\ PartLength(n, k) \in Nat /\ PartLength(n, k) <= K
             /\ PartLength(n, k) = IF k < N THEN K ELSE n - (N - 1) * K
  <2>1. k - 1 \in Nat /\ k - 1 <= N - 1 /\ N - 1 \in Nat
    BY <1>2
  <2>2. (k - 1) * K \in Nat /\ (k - 1) * K <= (N - 1) * K /\ (N - 1) * K \in Nat
    BY <1>1, <2>1
  <2>3. n - (k - 1) * K \in Nat
    BY <1>1, <1>2, <2>2
  <2>4. PartLength(n, k) = IF K <= n - (k - 1) * K THEN K ELSE n - (k - 1) * K
    BY <1>1, <2>3, LesserIs DEF PartLength, K
  <2>5. CASE k < N
    <3>1. k <= N - 1 /\ k \in Nat
      BY <1>2, <2>5
    <3>2. k * K <= (N - 1) * K /\ k * K = (k - 1) * K + K /\ k * K \in Nat
      BY <1>1, <1>2, <3>1
    <3>3. K <= n - (k - 1) * K
      BY <1>1, <1>2, <2>2, <3>2
    <3> QED
      BY <1>1, <2>4, <2>5, <3>3
  <2>6. CASE ~(k < N)
    <3>1. k = N
      BY <1>2, <2>6
    <3>2. n - (N - 1) * K \in Nat /\ n - (N - 1) * K <= K
      <4>1. N * K = (N - 1) * K + K
        BY <1>1, <1>2
      <4> QED
        BY <1>1, <1>2, <2>2, <4>1
    <3> QED
      BY <1>1, <2>4, <3>1, <3>2
  <2> QED
    BY <2>5, <2>6
<1>5. ASSUME NEW k \in 1..N
      PROVE  /\ part(k) \in LineChunks /\ part(k).first = i /\ part(k).last = i /\ part(k).length = PartLength(n, k)
  <2>1. /\ LineChunk(lines, i, i) \in LineChunks /\ LineChunk(lines, i, i).first = i /\ LineChunk(lines, i, i).last = i
    <3>1. i \in i..Len(lines)
      BY LinesHaveLength
    <3> QED
      BY <3>1, LineChunkIs
  <2> QED
    BY <1>4, <2>1 DEF LineChunks
<1> HIDE DEF part
<1>6. parts \in Seq(LineChunks) /\ Len(parts) = N /\ \A k \in 1..N : parts[k] = part(k)
  <2>1. parts \in [1..N -> LineChunks]
    BY <1>3, <1>5
  <2>2. parts \in Seq(LineChunks)
    BY <1>2, <2>1
  <2>3. Len(parts) = N
    BY <1>2, <2>1, <2>2
  <2> QED
    BY <1>3, <2>2, <2>3
<1>7. \A k \in 1..N : EstimateTokens(PartLength(n, k)) <= MaxChunkTokens
  BY <1>4, NumbersOfChunks DEF K
<1>8. LengthAt(parts, i) = n
  <2>1. PICK f : Totals(f, parts, i, N)
    BY <1>6, LengthIs, Zenon
  <2>2. \A k \in 1..N : Begun(parts[k], i) = PartLength(n, k)
    BY <1>5, <1>6 DEF Begun
  <2> DEFINE x == [k \in 1..(N - 1) |-> K]
             h == [k \in 0..(N - 1) |-> k * K]
  <2>3. Adding(N - 1, x, h, f, 0)
    <3>1. N - 1 \in Nat /\ 0 \in Nat /\ h[0] \in Nat /\ f[0] = 0 + h[0]
      BY <1>1, <1>2, <2>1 DEF Totals
    <3>2. ASSUME NEW k \in 1..(N - 1)  PROVE x[k] \in Nat /\ h[k] = h[k - 1] + x[k] /\ f[k] = f[k - 1] + x[k]
      <4>1. k \in 1..N /\ k < N /\ k \in Nat /\ k - 1 \in 0..(N - 1) /\ k \in 0..(N - 1)
        BY <1>2
      <4>2. f[k] = f[k - 1] + K
        BY <1>4, <2>1, <2>2, <4>1 DEF Totals
      <4>3. k * K = (k - 1) * K + K
        BY <1>1, <4>1
      <4> QED
        BY <1>1, <4>1, <4>2, <4>3
    <3> HIDE DEF x, h
    <3> QED
      BY <3>1, <3>2, Zenon DEF Adding
  <2>4. Apart(N - 1, h, f, 0)
    <3> HIDE DEF x, h
    <3> QED
      BY <2>3, SumsFollow, Zenon
  <2>5. f[N - 1] = (N - 1) * K /\ (N - 1) * K \in Nat
    <3>1. N - 1 \in 0..(N - 1)
      BY <1>2
    <3>2. (N - 1) * K \in Nat
      BY <1>1, <1>2
    <3> QED
      BY <2>4, <3>1, <3>2 DEF Apart
  <2>6. f[N] = f[N - 1] + (n - (N - 1) * K)
    <3>1. N \in 1..N /\ ~(N < N)
      BY <1>2
    <3> QED
      BY <1>4, <2>1, <2>2, <3>1 DEF Totals
  <2> QED
    BY <1>1, <2>1, <2>5, <2>6 DEF Totals
<1> QED
  BY <1>2, <1>5, <1>6, <1>7, <1>8 DEF n

\* A turn of the loop: what it adds begins at the line, holds the lines up to the
\* next turn, which begins no later than the line after, and of the long ones all.
LEMMA NextLinesHold ==
    ASSUME NEW lines \in SomeLines, NEW last \in 0..Len(lines), NEW i \in 1..last,
           NEW turn, turn = NextLines(lines, i, last), NEW c, c = turn.chunks
    PROVE  /\ c \in Seq(LineChunks) /\ Len(c) > 0 /\ turn.next \in (i + 1)..(last + 1)
           /\ \A k \in 1..Len(c) :
                 /\ c[k].first = i /\ i <= c[k].last /\ c[k].last <= last /\ turn.next <= c[k].last + 1
                 /\ EstimateTokens(c[k].length) <= MaxChunkTokens
           /\ Len(c) > 1 => lines[i].length > MaxChars
           /\ EstimateTokens(lines[i].length) > MaxChunkTokens => LengthAt(c, i) = lines[i].length
           /\ \A j \in (i + 1)..(turn.next - 1) : EstimateTokens(lines[j].length) <= MaxChunkTokens
<1>1. /\ Len(lines) \in Nat /\ last \in Nat /\ i \in Nat /\ i <= last /\ i \in 1..Len(lines) /\ last \in i..Len(lines)
      /\ lines[i].length \in Nat /\ EstimateTokens(lines[i].length) \in Nat /\ MaxChunkTokens \in Nat
  <2>1. Len(lines) \in Nat /\ MaxChunkTokens \in Nat
    BY LinesHaveLength, ChunkingAssumption
  <2>2. last \in Nat /\ i \in Nat /\ i <= last /\ i \in 1..Len(lines) /\ last \in i..Len(lines)
    BY <2>1
  <2>3. lines[i].length \in Nat
    BY <2>2, LinesHaveLength
  <2>4. EstimateTokens(lines[i].length) \in Nat
    BY <2>3, NumbersOfChunks
  <2> QED
    BY <2>1, <2>2, <2>3, <2>4
<1>2. CASE EstimateTokens(lines[i].length) > MaxChunkTokens
  <2>1. c = SplitLongLine(lines, i) /\ turn.next = i + 1
    BY <1>2 DEF NextLines
  <2>2. /\ c \in Seq(LineChunks) /\ Len(c) > 0
        /\ \A k \in 1..Len(c) : c[k].first = i /\ c[k].last = i /\ EstimateTokens(c[k].length) <= MaxChunkTokens
        /\ LengthAt(c, i) = lines[i].length
    BY <1>1, <1>2, <2>1, PartsMakeUp
  <2>3. lines[i].length > MaxChars
    BY <1>1, <1>2, NumbersOfChunks
  <2>4. \A j \in (i + 1)..(turn.next - 1) : FALSE
    BY <1>1, <2>1
  <2>5. turn.next \in (i + 1)..(last + 1)
    BY <1>1, <2>1
  <2>6. \A k \in 1..Len(c) : /\ c[k].first = i /\ i <= c[k].last /\ c[k].last <= last /\ turn.next <= c[k].last + 1
                             /\ EstimateTokens(c[k].length) <= MaxChunkTokens
    BY <1>1, <2>1, <2>2
  <2> QED
    BY <2>2, <2>3, <2>4, <2>5, <2>6
<1>3. CASE ~(EstimateTokens(lines[i].length) > MaxChunkTokens)
  <2> DEFINE end == WindowEnd(lines, i, last)
             back == IF end = last \/ end + 1 <= i + OverlapLines THEN 0 ELSE OverlapLines
  <2>1. c = <<LineChunk(lines, i, end)>> /\ turn.next = end + 1 - back
    BY <1>3 DEF NextLines
  <2>2. EstimateTokens(lines[i].length) <= MaxChunkTokens
    BY <1>1, <1>3
  <2>3. /\ end \in i..last /\ EstimateTokens(Width(lines, i, end)) <= MaxChunkTokens
        /\ \A j \in i..end : EstimateTokens(lines[j].length) <= MaxChunkTokens
    BY <1>1, <2>2, WindowFits
  <2> HIDE DEF end
  <2>4. OverlapLines \in Nat
    <3>1. (OverlapTokens * TokensPerChar) \div 80 \in Nat
      BY ChunkingAssumption DEF TokensPerChar
    <3> DEFINE o == (OverlapTokens * TokensPerChar) \div 80
    <3>2. OverlapLines = Max({2, o})
      BY DEF OverlapLines
    <3> HIDE DEF o
    <3>3. {2, o} \in SUBSET (0..(2 + o)) /\ 2 + o \in Nat
      BY <3>1 DEF o
    <3>4. Max({2, o}) \in {2, o}
      BY <3>3, GreatestIsOne
    <3> QED
      BY <3>1, <3>2, <3>4 DEF o
  <2>5. turn.next \in (i + 1)..(end + 1) /\ end \in Nat
    BY <1>1, <2>1, <2>3, <2>4
  <2>6. end \in i..Len(lines)
    BY <1>1, <2>3
  <2> DEFINE w == LineChunk(lines, i, end)
  <2>7. /\ w \in LineChunks /\ w.first = i /\ w.last = end /\ EstimateTokens(w.length) <= MaxChunkTokens
    BY <1>1, <2>3, <2>6, LineChunkIs
  <2> HIDE DEF w
  <2>8. c \in Seq(LineChunks) /\ Len(c) = 1 /\ c[1] = w
    BY <2>1, <2>7 DEF w
  <2>9. \A k \in 1..Len(c) : /\ c[k].first = i /\ i <= c[k].last /\ c[k].last <= last /\ turn.next <= c[k].last + 1
                             /\ EstimateTokens(c[k].length) <= MaxChunkTokens
    <3>1. i <= end /\ end <= last /\ turn.next <= end + 1
      BY <1>1, <2>3, <2>5
    <3>2. \A k \in 1..Len(c) : c[k] = w
      BY <2>8
    <3> QED
      BY <2>7, <3>1, <3>2
  <2>10. turn.next \in (i + 1)..(last + 1) /\ \A j \in (i + 1)..(turn.next - 1) : j \in i..end
    BY <1>1, <2>3, <2>5
  <2>11. /\ Len(c) > 1 => lines[i].length > MaxChars
         /\ EstimateTokens(lines[i].length) > MaxChunkTokens => LengthAt(c, i) = lines[i].length
    BY <1>3, <2>8
  <2>12. \A j \in (i + 1)..(turn.next - 1) : EstimateTokens(lines[j].length) <= MaxChunkTokens
    BY <2>3, <2>10
  <2> QED
    BY <2>8, <2>9, <2>10, <2>11, <2>12
<1> QED
  BY <1>2, <1>3

LEMMA LengthOfNone ==
    ASSUME NEW c \in Seq(LineChunks), NEW i, \A k \in 1..Len(c) : c[k].first # i
    PROVE  LengthAt(c, i) = 0
<1> DEFINE N == Len(c)
           none == [k \in 0..N |-> 0]
<1>1. N \in Nat
  BY LenProperties
<1>2. PICK f : Totals(f, c, i, N)
  BY LengthIs, Zenon
<1>3. Adding(N, none, none, f, 0)
  <2>1. ASSUME NEW k \in 1..N  PROVE none[k] \in Nat /\ none[k] = none[k - 1] + none[k] /\ f[k] = f[k - 1] + none[k]
    <3>1. Begun(c[k], i) = 0
      BY DEF Begun
    <3>2. f[k] = f[k - 1] + 0
      <4> HIDE DEF N
      <4> QED
        BY <1>2, <3>1, Zenon DEF Totals
    <3>3. k \in 0..N /\ k - 1 \in 0..N
      BY <1>1
    <3> QED
      BY <3>2, <3>3
  <2>2. none[0] \in Nat /\ f[0] = 0 + none[0]
    BY <1>1, <1>2 DEF Totals
  <2> HIDE DEF N, none
  <2>3. 0 \in Nat
    OBVIOUS
  <2> QED
    BY <1>1, <2>1, <2>2, <2>3, Zenon DEF Adding
<1>4. Apart(N, none, f, 0)
  <2> HIDE DEF none
  <2> QED
    BY <1>3, SumsFollow, Zenon
<1> QED
  BY <1>1, <1>2, <1>4 DEF Apart, Totals

\* What the chunks of the lines from i to last are.
HoldsFrom(lines, c, i, last) ==
    /\ c \in Seq(LineChunks)
    /\ i <= last => Len(c) > 0 /\ c[1].first = i
    /\ \A k \in 1..Len(c) : /\ i <= c[k].first /\ c[k].first <= c[k].last /\ c[k].last <= last
                            /\ EstimateTokens(c[k].length) <= MaxChunkTokens
    /\ \A k \in 1..(Len(c) - 1) : /\ c[k + 1].first <= c[k].last + 1
                                  /\ c[k + 1].first > c[k].first \/ lines[c[k].first].length > MaxChars
    /\ \A j \in i..last : \E k \in 1..Len(c) : j \in c[k].first..c[k].last
    /\ \A j \in i..last : EstimateTokens(lines[j].length) > MaxChunkTokens => LengthAt(c, j) = lines[j].length

LEMMA TurnAndRest ==
    ASSUME NEW lines \in SomeLines, NEW last \in 0..Len(lines), NEW i \in 1..last,
           NEW turn, turn = NextLines(lines, i, last), NEW b, HoldsFrom(lines, b, turn.next, last),
           turn.next > last => b = <<>>
    PROVE  HoldsFrom(lines, turn.chunks \o b, i, last)
<1> DEFINE a == turn.chunks
           next == turn.next
           ab == a \o b
           la == Len(a)
           lb == Len(b)
<1>1. /\ Len(lines) \in Nat /\ last \in Nat /\ i \in Nat /\ i <= last /\ i \in 1..Len(lines)
  BY LinesHaveLength
<1>2. /\ a \in Seq(LineChunks) /\ la > 0 /\ next \in (i + 1)..(last + 1)
      /\ \A k \in 1..la : /\ a[k].first = i /\ i <= a[k].last /\ a[k].last <= last /\ next <= a[k].last + 1
                          /\ EstimateTokens(a[k].length) <= MaxChunkTokens
      /\ la > 1 => lines[i].length > MaxChars
      /\ EstimateTokens(lines[i].length) > MaxChunkTokens => LengthAt(a, i) = lines[i].length
      /\ \A j \in (i + 1)..(next - 1) : EstimateTokens(lines[j].length) <= MaxChunkTokens
  BY NextLinesHold
<1>3. HoldsFrom(lines, b, next, last)
  OBVIOUS
<1>4. (next > last => b = <<>>)
  OBVIOUS
<1> HIDE DEF a, next
<1>5. b \in Seq(LineChunks)
  BY <1>3 DEF HoldsFrom
<1>6. /\ la \in Nat /\ lb \in Nat /\ ab \in Seq(LineChunks) /\ Len(ab) = la + lb
      /\ \A k \in 1..(la + lb) : ab[k] = IF k <= la THEN a[k] ELSE b[k - la]
      /\ \A k \in 1..la : a[k] \in LineChunks
      /\ \A k \in 1..lb : b[k] \in LineChunks
  BY <1>2, <1>5, ConcatProperties, LenProperties, ElementOfSeq
<1> HIDE DEF ab, la, lb
<1>7. /\ \A k \in 1..la : ab[k] = a[k] /\ k \in 1..(la + lb)
      /\ \A k \in 1..lb : ab[la + k] = b[k] /\ la + k \in 1..(la + lb)
      /\ \A k \in 1..(la + lb) : k \in 1..la \/ \E l \in 1..lb : k = la + l
  <2>1. ASSUME NEW k \in 1..la  PROVE ab[k] = a[k] /\ k \in 1..(la + lb)
    BY <1>6
  <2>2. ASSUME NEW k \in 1..lb  PROVE ab[la + k] = b[k] /\ la + k \in 1..(la + lb)
    <3>1. la + k \in 1..(la + lb) /\ ~(la + k <= la) /\ (la + k) - la = k
      BY <1>6
    <3> QED
      BY <1>6, <3>1
  <2>3. ASSUME NEW k \in 1..(la + lb), k \notin 1..la  PROVE \E l \in 1..lb : k = la + l
    <3>1. k - la \in 1..lb /\ k = la + (k - la)
      BY <1>6, <2>3
    <3> QED
      BY <3>1
  <2> QED
    BY <2>1, <2>2, <2>3
<1>8. next \in Nat /\ i + 1 <= next /\ next <= last + 1
  BY <1>1, <1>2
<1>9. /\ next <= last => lb > 0 /\ b[1].first = next
      /\ \A k \in 1..lb : /\ next <= b[k].first /\ b[k].first <= b[k].last /\ b[k].last <= last
                          /\ EstimateTokens(b[k].length) <= MaxChunkTokens
      /\ \A k \in 1..(lb - 1) : /\ b[k + 1].first <= b[k].last + 1
                                /\ b[k + 1].first > b[k].first \/ lines[b[k].first].length > MaxChars
      /\ \A j \in next..last : \E k \in 1..lb : j \in b[k].first..b[k].last
      /\ \A j \in next..last : EstimateTokens(lines[j].length) > MaxChunkTokens => LengthAt(b, j) = lines[j].length
  BY <1>3 DEF HoldsFrom, lb
<1>10. \A k \in 1..lb : b[k].first \in Nat /\ b[k].last \in Nat
  BY <1>6 DEF LineChunks
<1>11. la + lb > 0 /\ ab[1].first = i
  <2>1. 1 \in 1..la
    BY <1>2, <1>6 DEF la
  <2> QED
    BY <1>2, <1>6, <1>7, <2>1 DEF la
<1>12. ASSUME NEW k \in 1..(la + lb)
       PROVE  /\ i <= ab[k].first /\ ab[k].first <= ab[k].last /\ ab[k].last <= last
              /\ EstimateTokens(ab[k].length) <= MaxChunkTokens
  <2>1. CASE k \in 1..la
    <3>1. ab[k] = a[k]
      BY <1>7, <2>1
    <3> QED
      BY <1>1, <1>2, <2>1, <3>1 DEF la
  <2>2. CASE \E l \in 1..lb : k = la + l
    <3>1. PICK l \in 1..lb : k = la + l
      BY <2>2
    <3>2. ab[k] = b[l] /\ next <= b[l].first /\ b[l].first \in Nat
      BY <1>7, <1>9, <1>10, <3>1
    <3>3. i <= b[l].first
      BY <1>1, <1>8, <3>2
    <3> QED
      BY <1>9, <3>1, <3>2, <3>3
  <2> QED
    BY <1>7, <2>1, <2>2
<1>13. ASSUME NEW k \in 1..(la + lb - 1)
       PROVE  /\ ab[k + 1].first <= ab[k].last + 1
              /\ ab[k + 1].first > ab[k].first \/ lines[ab[k].first].length > MaxChars
  <2>1. CASE k + 1 \in 1..la
    <3>1. k \in 1..la /\ la > 1
      BY <1>6, <2>1
    <3>2. ab[k] = a[k] /\ ab[k + 1] = a[k + 1]
      BY <1>7, <2>1, <3>1
    <3>3. a[k].first = i /\ a[k + 1].first = i /\ i <= a[k].last /\ a[k] \in LineChunks
      BY <1>2, <1>6, <2>1, <3>1 DEF la
    <3>4. i <= a[k].last + 1
      BY <1>1, <3>3 DEF LineChunks
    <3> QED
      BY <1>2, <3>1, <3>2, <3>3, <3>4 DEF la
  <2>2. CASE k = la /\ lb > 0
    <3>1. la \in 1..la /\ 1 \in 1..lb
      BY <1>2, <1>6, <2>2 DEF la
    <3>2. ab[k] = a[la] /\ ab[k + 1] = b[1]
      BY <1>7, <2>2, <3>1
    <3>3. next <= last
      <4>1. b # <<>>
        BY <2>2 DEF lb
      <4> QED
        BY <1>1, <1>4, <1>8, <4>1
    <3>4. b[1].first = next /\ a[la].first = i /\ next <= a[la].last + 1
      BY <1>2, <1>9, <3>1, <3>3 DEF la
    <3>5. next > i
      BY <1>1, <1>8
    <3> QED
      BY <3>2, <3>4, <3>5
  <2>3. CASE k > la
    <3>1. k - la \in 1..(lb - 1) /\ k - la \in 1..lb /\ (k - la) + 1 \in 1..lb
      BY <1>6, <2>3
    <3>2. la + (k - la) = k /\ la + ((k - la) + 1) = k + 1
      BY <1>6
    <3>3. ab[k] = b[k - la] /\ ab[k + 1] = b[(k - la) + 1]
      BY <1>7, <3>1, <3>2
    <3> QED
      BY <1>9, <3>1, <3>3
  <2>4. k + 1 \in 1..la \/ (k = la /\ lb > 0) \/ k > la
    BY <1>6
  <2> QED
    BY <2>1, <2>2, <2>3, <2>4
<1>14. ASSUME NEW j \in i..last  PROVE \E k \in 1..(la + lb) : j \in ab[k].first..ab[k].last
  <2>1. CASE j < next
    <3>1. 1 \in 1..la
      BY <1>2, <1>6 DEF la
    <3>2. a[1].first = i /\ next <= a[1].last + 1 /\ a[1].last \in Nat
      BY <1>2, <1>6, <3>1 DEF la, LineChunks
    <3>3. j \in a[1].first..a[1].last
      BY <1>1, <1>8, <2>1, <3>2
    <3> QED
      BY <1>7, <3>1, <3>3
  <2>2. CASE j >= next
    <3>1. j \in next..last
      BY <1>1, <1>8, <2>2
    <3>2. PICK k \in 1..lb : j \in b[k].first..b[k].last
      BY <1>9, <3>1
    <3> QED
      BY <1>7, <3>2
  <2>3. j < next \/ j >= next
    BY <1>1, <1>8
  <2> QED
    BY <2>1, <2>2, <2>3
<1>15. ASSUME NEW j \in i..last, EstimateTokens(lines[j].length) > MaxChunkTokens
       PROVE  LengthAt(ab, j) = lines[j].length
  <2>1. LengthAt(ab, j) = LengthAt(a, j) + LengthAt(b, j)
    BY <1>2, <1>5, LengthsJoined DEF ab
  <2>2. j \in 1..Len(lines) /\ j \in Nat
    BY <1>1
  <2>3. lines[j].length \in Nat
    BY <2>2, LinesHaveLength
  <2>4. CASE j = i
    <3>1. \A k \in 1..lb : b[k].first # j
      BY <1>1, <1>8, <1>9, <1>10, <2>4
    <3>2. LengthAt(b, j) = 0
      BY <1>5, <3>1, LengthOfNone DEF lb
    <3>3. LengthAt(a, j) = lines[j].length
      BY <1>2, <1>15, <2>4
    <3> QED
      BY <2>1, <2>3, <3>2, <3>3
  <2>5. CASE j # i
    <3>1. \A k \in 1..la : a[k].first # j
      BY <1>2, <2>5 DEF la
    <3>2. LengthAt(a, j) = 0
      BY <1>2, <3>1, LengthOfNone DEF la
    <3>3. j \in next..last
      <4>1. MaxChunkTokens \in Nat /\ EstimateTokens(lines[j].length) \in Nat
        BY <2>3, NumbersOfChunks, ChunkingAssumption
      <4>2. j \notin (i + 1)..(next - 1)
        BY <1>2, <1>15, <4>1
      <4> QED
        BY <1>1, <1>8, <2>5, <4>2
    <3>4. LengthAt(b, j) = lines[j].length
      BY <1>9, <1>15, <3>3
    <3> QED
      BY <2>1, <2>3, <3>2, <3>4
  <2> QED
    BY <2>4, <2>5
<1>16. HoldsFrom(lines, ab, i, last)
  <2>1. la + lb = Len(ab)
    BY <1>6
  <2>2. ab \in Seq(LineChunks) /\ (i <= last => Len(ab) > 0 /\ ab[1].first = i)
    BY <1>6, <1>11, <2>1
  <2>3. ASSUME NEW k \in 1..Len(ab)
        PROVE  /\ i <= ab[k].first /\ ab[k].first <= ab[k].last /\ ab[k].last <= last
               /\ EstimateTokens(ab[k].length) <= MaxChunkTokens
    BY <1>12, <2>1
  <2>4. ASSUME NEW k \in 1..(Len(ab) - 1)
        PROVE  /\ ab[k + 1].first <= ab[k].last + 1
               /\ ab[k + 1].first > ab[k].first \/ lines[ab[k].first].length > MaxChars
    <3>1. k \in 1..(la + lb - 1)
      BY <1>6, <2>1, <2>4
    <3> QED
      BY <1>13, <3>1
  <2>5. \A j \in i..last : \E k \in 1..Len(ab) : j \in ab[k].first..ab[k].last
    BY <1>14, <2>1
  <2>6. \A j \in i..last : EstimateTokens(lines[j].length) > MaxChunkTokens => LengthAt(ab, j) = lines[j].length
    BY <1>15
  <2> QED
    BY <2>2, <2>3, <2>4, <2>5, <2>6 DEF HoldsFrom
<1> QED
  BY <1>16 DEF ab, a

\* The chunks of some lines of a file hold them.
LEMMA LinesAreHeld ==
    ASSUME NEW lines \in SomeLines, NEW last \in 0..Len(lines), NEW first \in 1..(last + 1)
    PROVE  HoldsFrom(lines, SplitByLines(lines, first, last), first, last)
<1> DEFINE D == first..(last + 1)
           V == Seq(LineChunks)
           turn(i) == NextLines(lines, i, last)
           rank == [i \in D |-> last + 1 - i]
           next(i, f) == IF i > last THEN <<>> ELSE turn(i).chunks \o f[turn(i).next]
           step == [x \in D \X [D -> V] |-> next(x[1], x[2])]
           Is(f) == f = [i \in D |-> IF i > last THEN <<>> ELSE turn(i).chunks \o f[turn(i).next]]
           g == CHOOSE g : Is(g)
<1>1. /\ Len(lines) \in Nat /\ last \in Nat /\ first \in Nat /\ last + 1 \in Nat /\ first \in D
      /\ \A i \in D : i \in Nat /\ (~(i > last) => i \in 1..last)
  BY LinesHaveLength
<1>2. ASSUME NEW i \in D, ~(i > last)
      PROVE  turn(i).chunks \in V /\ turn(i).next \in D /\ rank[turn(i).next] < rank[i]
  <2>1. i \in 1..last /\ i \in Nat
    BY <1>1, <1>2
  <2>2. turn(i).chunks \in V /\ turn(i).next \in (i + 1)..(last + 1)
    <3> DEFINE t == turn(i)
               c == t.chunks
    <3>1. t = NextLines(lines, i, last) /\ c = t.chunks
      OBVIOUS
    <3> HIDE DEF t
    <3>2. c \in Seq(LineChunks) /\ t.next \in (i + 1)..(last + 1)
      BY <2>1, <3>1, NextLinesHold
    <3> QED
      BY <3>2 DEF t
  <2> HIDE DEF turn
  <2> QED
    BY <1>1, <2>1, <2>2
<1> HIDE DEF turn
<1>3. last + 1 \in Nat /\ \A i \in D : rank[i] \in 0..(last + 1) /\ rank[i] \in Nat
  BY <1>1
<1>4. \A i \in D, f \in [D -> V] : step[<<i, f>>] \in V
  <2>1. ASSUME NEW i \in D, NEW f \in [D -> V]  PROVE next(i, f) \in V
    <3>1. CASE i > last
      BY <3>1
    <3>2. CASE ~(i > last)
      <4>1. turn(i).chunks \in V /\ f[turn(i).next] \in V
        <5> HIDE DEF D, V
        <5> QED
          BY <1>2, <3>2
      <4>2. turn(i).chunks \o f[turn(i).next] \in V
        BY <4>1, ConcatProperties
      <4> QED
        BY <3>2, <4>2
    <3> QED
      BY <3>1, <3>2
  <2> HIDE DEF next, D, V
  <2> QED
    BY <2>1
<1>5. \A i \in D, f, h \in [D -> V] : (\A y \in D : rank[y] < rank[i] => f[y] = h[y]) => step[<<i, f>>] = step[<<i, h>>]
  <2> TAKE i \in D, f, h \in [D -> V]
  <2> HAVE \A y \in D : rank[y] < rank[i] => f[y] = h[y]
  <2>1. ~(i > last) => f[turn(i).next] = h[turn(i).next]
    <3> HIDE DEF D, rank
    <3> QED
      BY <1>2
  <2>2. step[<<i, f>>] = next(i, f) /\ step[<<i, h>>] = next(i, h)
    <3> HIDE DEF next, D, V
    <3> QED
      OBVIOUS
  <2> QED
    BY <2>1, <2>2
<1>6. PICK f : Follows(f, D, V, step)
  <2>1. V # {}
    <3>1. <<>> \in V
      OBVIOUS
    <3> HIDE DEF V
    <3> QED
      BY <3>1
  <2> HIDE DEF D, V, rank, step, Is, g
  <2>2. Recursive(D, V, last + 1, rank, step)
    BY <1>3, <1>4, <1>5, <2>1, Zenon DEF Recursive
  <2> QED
    BY <2>2, RecursionIsThere, Zenon
<1>7. Is(g)
  <2>1. \A i \in D : f[i] = next(i, f)
    <3> HIDE DEF next, D, V
    <3> QED
      BY <1>6 DEF Follows
  <2>2. f = [i \in D |-> next(i, f)]
    <3> HIDE DEF next, D, V
    <3> QED
      BY <1>6, <2>1 DEF Follows
  <2>3. Is(f)
    BY <2>2, Zenon
  <2> QED
    BY <2>3, Zenon
<1>8. SplitByLines(lines, first, last) = g[first]
  BY Zenon DEF SplitByLines, turn
<1> HIDE DEF g
<1>9. \A i \in D : g[i] = next(i, g)
  BY <1>7, Zenon
<1> DEFINE S == {i \in D : HoldsFrom(lines, g[i], i, last)}
<1>10. ASSUME NEW i \in D, \A y \in D : rank[y] < rank[i] => y \in S  PROVE i \in S
  <2>1. CASE i > last
    <3>1. g[i] = <<>>
      <4> HIDE DEF D
      <4> QED
        BY <1>9, <2>1
    <3>2. <<>> \in Seq(LineChunks) /\ Len(<<>>) = 0
      OBVIOUS
    <3>3. HoldsFrom(lines, <<>>, i, last)
      BY <1>1, <2>1, <3>2 DEF HoldsFrom
    <3> QED
      BY <3>1, <3>3
  <2>2. CASE ~(i > last)
    <3> DEFINE t == turn(i)
    <3>1. t.next \in D /\ rank[t.next] < rank[i]
      <4> HIDE DEF D, rank
      <4> QED
        BY <1>2, <2>2
    <3>2. HoldsFrom(lines, g[t.next], t.next, last)
      BY <1>10, <3>1
    <3>3. t.next > last => g[t.next] = <<>>
      <4> HIDE DEF D, t
      <4> QED
        BY <1>9, <3>1
    <3>4. i \in 1..last
      BY <1>1, <2>2
    <3>5. HoldsFrom(lines, t.chunks \o g[t.next], i, last)
      <4>1. t = NextLines(lines, i, last)
        BY DEF turn
      <4> HIDE DEF t
      <4> QED
        BY <3>2, <3>3, <3>4, <4>1, TurnAndRest
    <3>6. g[i] = t.chunks \o g[t.next]
      <4> HIDE DEF D
      <4> QED
        BY <1>9, <2>2
    <3> QED
      BY <3>5, <3>6
  <2> QED
    BY <2>1, <2>2
<1>11. \A i \in D : i \in S
  <2> HIDE DEF D, rank, S
  <2>1. Inductive(D, rank, S)
    BY <1>3, <1>10, Zenon DEF Inductive
  <2> QED
    BY <2>1, RankInduction, Zenon
<1> QED
  BY <1>1, <1>8, <1>11

\* Whatever the lines of a file and the options are, the windows it is cut into hold
\* every line, none is larger than the limit, each begins after the one before and
\* leaves no gap, and a line that is cut is all there (splitByLines, chunkByLines).
THEOREM WindowsKeepLines ==
    \A lines \in SomeLines : KeepsLines(lines, SplitByLines(lines, 1, Len(lines)))
<1> TAKE lines \in SomeLines
<1> DEFINE c == SplitByLines(lines, 1, Len(lines))
<1>1. Len(lines) \in Nat /\ DOMAIN lines = 1..Len(lines)
  BY LinesHaveLength
<1>2. HoldsFrom(lines, c, 1, Len(lines))
  BY <1>1, LinesAreHeld
<1> HIDE DEF c
<1>3. DOMAIN c = 1..Len(c)
  BY <1>2, LenProperties DEF HoldsFrom
<1>4. KeepsLines(lines, c)
  BY <1>1, <1>2, <1>3, Zenon DEF HoldsFrom, KeepsLines
<1> QED
  BY <1>4 DEF c

-----------------------------------------------------------------------------
(***************************************************************************)
(* The chunks of a source file that is parsed.  A symbol that is not a     *)
(* topmost one is found below its nearest ancestor (NearestIs); if all its *)
(* ancestors are split, its chunks are among theirs (SymbolsArePlaced).    *)
(***************************************************************************)

\* What two sequences put together have.
LEMMA JoinedSet ==
    ASSUME NEW X, NEW s \in Seq(X), NEW t \in Seq(X)
    PROVE  s \o t \in Seq(X) /\ ToSet(s \o t) = ToSet(s) \cup ToSet(t)
<1> DEFINE st == s \o t
<1>1. /\ Len(s) \in Nat /\ Len(t) \in Nat /\ DOMAIN s = 1..Len(s) /\ DOMAIN t = 1..Len(t)
      /\ st \in Seq(X) /\ Len(st) = Len(s) + Len(t) /\ DOMAIN st = 1..Len(st)
      /\ \A i \in 1..Len(st) : st[i] = IF i <= Len(s) THEN s[i] ELSE t[i - Len(s)]
  BY ConcatProperties, LenProperties
<1> HIDE DEF st
<1>2. ASSUME NEW i \in DOMAIN s  PROVE i \in DOMAIN st /\ st[i] = s[i]
  BY <1>1
<1>3. ASSUME NEW i \in DOMAIN t  PROVE Len(s) + i \in DOMAIN st /\ st[Len(s) + i] = t[i]
  <2>1. Len(s) + i \in 1..Len(st) /\ ~(Len(s) + i <= Len(s)) /\ (Len(s) + i) - Len(s) = i
    BY <1>1
  <2> QED
    BY <1>1, <2>1
<1>4. ASSUME NEW i \in DOMAIN st
      PROVE  (\E k \in DOMAIN s : st[i] = s[k]) \/ (\E k \in DOMAIN t : st[i] = t[k])
  <2>1. CASE i <= Len(s)
    BY <1>1, <2>1
  <2>2. CASE ~(i <= Len(s))
    <3>1. i - Len(s) \in DOMAIN t
      BY <1>1, <2>2
    <3> QED
      BY <1>1, <2>2, <3>1
  <2> QED
    BY <2>1, <2>2
<1>5. ToSet(st) = ToSet(s) \cup ToSet(t)
  <2>1. \A x : x \in ToSet(s) => x \in ToSet(st)
    BY <1>2 DEF ToSet
  <2>2. \A x : x \in ToSet(t) => x \in ToSet(st)
    BY <1>3 DEF ToSet
  <2>3. \A x : x \in ToSet(st) => x \in ToSet(s) \/ x \in ToSet(t)
    BY <1>4 DEF ToSet
  <2> QED
    BY <2>1, <2>2, <2>3
<1> QED
  BY <1>1, <1>5 DEF st

\* A sequence of sequences put together has what they have.
LEMMA FlattenHolds ==
    ASSUME NEW X, NEW ss \in Seq(Seq(X))
    PROVE  /\ FlattenSeq(ss) \in Seq(X)
           /\ ToSet(FlattenSeq(ss)) = UNION {ToSet(ss[i]) : i \in DOMAIN ss}
<1>1. Len(ss) \in Nat /\ DOMAIN ss = 1..Len(ss) /\ \A i \in 1..Len(ss) : ss[i] \in Seq(X)
  BY LenProperties, ElementOfSeq, Zenon
<1>2. CASE Len(ss) = 0
  <2>1. ss = <<>> /\ FlattenSeq(ss) = ss
    BY <1>2, EmptySeq DEF FlattenSeq
  <2>2. DOMAIN ss = {}
    BY <1>1, <1>2
  <2>3. ToSet(ss) = {} /\ UNION {ToSet(ss[i]) : i \in DOMAIN ss} = {}
    BY <2>2 DEF ToSet
  <2>4. <<>> \in Seq(X)
    OBVIOUS
  <2> QED
    BY <2>1, <2>3, <2>4, Zenon
<1>3. CASE Len(ss) # 0
  <2> DEFINE N == Len(ss)
             D == 1..N
             V == Seq(X)
             rank == [i \in D |-> i]
             next(i, f) == IF i = 1 THEN ss[i] ELSE f[i - 1] \o ss[i]
             step == [x \in D \X [D -> V] |-> next(x[1], x[2])]
             Is(f) == f = [i \in D |-> IF i = 1 THEN ss[i] ELSE f[i - 1] \o ss[i]]
             g == CHOOSE g : Is(g)
  <2>1. N \in Nat /\ N \in D /\ \A i \in D : i \in 0..N /\ (i # 1 => i - 1 \in D)
    BY <1>1, <1>3
  <2>2. \A i \in D, f \in [D -> V] : step[<<i, f>>] \in V
    <3>1. ASSUME NEW i \in D, NEW f \in [D -> V]  PROVE next(i, f) \in V
      <4>1. CASE i = 1
        BY <1>1, <4>1
      <4>2. CASE i # 1
        <5>1. f[i - 1] \in V /\ ss[i] \in V
          BY <1>1, <2>1, <4>2
        <5>2. f[i - 1] \o ss[i] \in V
          BY <5>1, ConcatProperties, Zenon
        <5> QED
          BY <4>2, <5>2
      <4> QED
        BY <4>1, <4>2
    <3> HIDE DEF next, D, V
    <3> QED
      BY <3>1
  <2>3. \A i \in D, f, h \in [D -> V] :
           (\A y \in D : rank[y] < rank[i] => f[y] = h[y]) => step[<<i, f>>] = step[<<i, h>>]
    <3> TAKE i \in D, f, h \in [D -> V]
    <3> HAVE \A y \in D : rank[y] < rank[i] => f[y] = h[y]
    <3>1. i # 1 => f[i - 1] = h[i - 1]
      BY <2>1
    <3>2. next(i, f) = next(i, h)
      BY <3>1
    <3> HIDE DEF next, D, V
    <3> QED
      BY <3>2
  <2>4. PICK f : Follows(f, D, V, step)
    <3>1. V # {}
      OBVIOUS
    <3>2. \A i \in D : rank[i] \in 0..N
      BY <2>1
    <3> HIDE DEF D, rank, step, Is, g, V, N
    <3>3. Recursive(D, V, N, rank, step)
      BY <2>1, <2>2, <2>3, <3>1, <3>2, Zenon DEF Recursive
    <3> QED
      BY <3>3, RecursionIsThere, Zenon
  <2>5. \A i \in D : f[i] = next(i, f)
    <3> HIDE DEF next, D, V
    <3> QED
      BY <2>4 DEF Follows
  <2>6. Is(g)
    <3>1. Is(f)
      BY <2>4, <2>5 DEF Follows
    <3> QED
      BY <3>1, Zenon
  <2>7. FlattenSeq(ss) = g[N]
    BY <1>3, Zenon DEF FlattenSeq
  <2> HIDE DEF g
  <2>8. \A i \in D : g[i] = IF i = 1 THEN ss[i] ELSE g[i - 1] \o ss[i]
    BY <2>6, Zenon
  <2> DEFINE Good(i) == /\ g[i] \in Seq(X)
                        /\ ToSet(g[i]) = UNION {ToSet(ss[k]) : k \in 1..i}
             S == {i \in D : Good(i)}
  <2>9. ASSUME NEW i \in D, \A y \in D : rank[y] < rank[i] => y \in S  PROVE i \in S
    <3>1. i \in Nat /\ ss[i] \in Seq(X)
      BY <1>1
    <3>2. CASE i = 1
      <4>1. g[i] = ss[i] /\ 1..i = {i}
        BY <2>8, <3>2
      <4> QED
        BY <3>1, <4>1
    <3>3. CASE i # 1
      <4>1. i - 1 \in D /\ rank[i - 1] < rank[i]
        BY <2>1, <3>3
      <4>2. Good(i - 1)
        BY <2>9, <4>1
      <4>3. g[i] = g[i - 1] \o ss[i]
        BY <2>8, <3>3
      <4>4. ToSet(g[i]) = ToSet(g[i - 1]) \cup ToSet(ss[i]) /\ g[i] \in Seq(X)
        BY <3>1, <4>2, <4>3, JoinedSet
      <4>5. 1..i = 1..(i - 1) \cup {i}
        BY <3>1, <3>3
      <4> QED
        BY <4>2, <4>4, <4>5
    <3> QED
      BY <3>2, <3>3
  <2>10. \A i \in D : i \in S
    <3>1. \A i \in D : rank[i] \in Nat
      BY <2>1
    <3> HIDE DEF D, rank, S
    <3>2. Inductive(D, rank, S)
      BY <2>9, <3>1, Zenon DEF Inductive
    <3> QED
      BY <3>2, RankInduction, Zenon
  <2> QED
    BY <1>1, <2>1, <2>7, <2>10
<1> QED
  BY <1>2, <1>3

-----------------------------------------------------------------------------
\* Trees, of which every node but the root has a parent.

Node(lines, n, size) == [first : 1..Len(lines), last : 1..Len(lines), named : BOOLEAN, children : Seq((n + 1)..size)]

SomeTree(tree, lines) ==
    /\ \E size \in Nat \ {0} : DOMAIN tree = 1..size /\ \A n \in 1..size : tree[n] \in Node(lines, n, size)
    /\ \A n \in DOMAIN tree : tree[n].first <= tree[n].last
    /\ \A n \in DOMAIN tree \ {1} : \E m \in DOMAIN tree : n \in ToSet(tree[m].children)
    /\ ~tree[1].named

Kids(tree, n) == ToSet(tree[n].children)

\* What the other lemmas use of a tree.
LEMMA TreeIs ==
    ASSUME NEW lines \in SomeLines, NEW tree, SomeTree(tree, lines)
    PROVE  \E size \in Nat \ {0} :
              /\ DOMAIN tree = 1..size
              /\ \A n \in 1..size :
                    /\ tree[n].children \in Seq(1..size) /\ tree[n].children \in Seq((n + 1)..size)
                    /\ Kids(tree, n) \subseteq (n + 1)..size /\ Kids(tree, n) \subseteq 1..size
                    /\ tree[n].named \in BOOLEAN
                    /\ tree[n].first \in 1..Len(lines) /\ tree[n].last \in tree[n].first..Len(lines)
              /\ \A n \in 2..size : \E m \in 1..size : n \in Kids(tree, m)
<1>1. PICK size \in Nat \ {0} : DOMAIN tree = 1..size /\ \A n \in 1..size : tree[n] \in Node(lines, n, size)
  BY DEF SomeTree
<1>2. ASSUME NEW n \in 1..size
      PROVE  /\ tree[n].children \in Seq(1..size) /\ tree[n].children \in Seq((n + 1)..size)
             /\ Kids(tree, n) \subseteq (n + 1)..size /\ Kids(tree, n) \subseteq 1..size
             /\ tree[n].named \in BOOLEAN
             /\ tree[n].first \in 1..Len(lines) /\ tree[n].last \in tree[n].first..Len(lines)
  <2> DEFINE c == tree[n].children
  <2>1. c \in Seq((n + 1)..size) /\ tree[n].named \in BOOLEAN /\ tree[n].first \in 1..Len(lines) /\ tree[n].last \in 1..Len(lines)
    BY <1>1 DEF Node
  <2>2. tree[n].first <= tree[n].last /\ Len(lines) \in Nat
    BY <1>1, LinesHaveLength DEF SomeTree
  <2>3. tree[n].last \in tree[n].first..Len(lines)
    BY <2>1, <2>2
  <2>4. (n + 1)..size \subseteq 1..size
    OBVIOUS
  <2> HIDE DEF c
  <2>5. ToSet(c) \subseteq (n + 1)..size
    BY <2>1, ElementOfSeq, LenProperties DEF ToSet
  <2>6. c \in Seq(1..size)
    <3>1. Len(c) \in Nat /\ DOMAIN c = 1..Len(c) /\ \A i \in 1..Len(c) : c[i] \in 1..size
      BY <2>1, <2>4, ElementOfSeq, LenProperties
    <3>2. c = [i \in 1..Len(c) |-> c[i]]
      BY <2>1, <3>1
    <3> QED
      BY <3>1, <3>2
  <2> QED
    BY <2>1, <2>3, <2>4, <2>5, <2>6 DEF Kids, c
<1>3. \A n \in 2..size : \E m \in 1..size : n \in Kids(tree, m)
  <2>1. \A n \in 2..size : n \in DOMAIN tree \ {1}
    BY <1>1
  <2> QED
    BY <1>1, <2>1 DEF SomeTree, Kids
<1> QED
  BY <1>1, <1>2, <1>3, Zenon

\* B has the nodes below each node, itself among them.
Below(tree, size, B) ==
    /\ B \in [1..size -> SUBSET (1..size)]
    /\ \A m \in 1..size : B[m] = {m} \cup UNION {B[c] : c \in Kids(tree, m)}

LEMMA BelowIs ==
    ASSUME NEW tree, NEW size \in Nat \ {0}, DOMAIN tree = 1..size,
           \A n \in 1..size : Kids(tree, n) \subseteq (n + 1)..size
    PROVE  \E B : /\ Below(tree, size, B)
                  /\ \A n : Ancestors(tree, n) = {m \in 1..size : tree[m].named /\ m # n /\ n \in B[m]}
<1> DEFINE D == 1..size
           V == SUBSET D
           rank == [n \in D |-> size - n]
           next(m, f) == {m} \cup UNION {f[c] : c \in Kids(tree, m)}
           step == [x \in D \X [D -> V] |-> next(x[1], x[2])]
           Is(f) == f = [m \in DOMAIN tree |-> {m} \cup UNION {f[c] : c \in ToSet(tree[m].children)}]
           g == CHOOSE g : Is(g)
<1>1. \A m \in D : /\ Kids(tree, m) \subseteq D /\ rank[m] \in 0..size
                   /\ \A c \in Kids(tree, m) : rank[c] < rank[m]
  <2> TAKE m \in D
  <2>1. \A c \in Kids(tree, m) : c \in (m + 1)..size
    OBVIOUS
  <2>2. \A c \in Kids(tree, m) : c \in D /\ rank[c] < rank[m]
    BY <2>1
  <2> QED
    BY <2>2
<1>2. \A m \in D, f \in [D -> V] : step[<<m, f>>] \in V
  <2>1. ASSUME NEW m \in D, NEW f \in [D -> V]  PROVE next(m, f) \in V
    <3>1. Kids(tree, m) \subseteq D
      BY <1>1
    <3> HIDE DEF D
    <3> QED
      BY <3>1
  <2> HIDE DEF next, D, V
  <2> QED
    BY <2>1
<1>3. \A m \in D, f, h \in [D -> V] : (\A y \in D : rank[y] < rank[m] => f[y] = h[y]) => step[<<m, f>>] = step[<<m, h>>]
  <2> TAKE m \in D, f, h \in [D -> V]
  <2> HAVE \A y \in D : rank[y] < rank[m] => f[y] = h[y]
  <2>1. \A c \in Kids(tree, m) : f[c] = h[c]
    <3> HIDE DEF rank, D
    <3> QED
      BY <1>1
  <2>2. next(m, f) = next(m, h)
    <3> HIDE DEF rank, D
    <3> QED
      BY <2>1
  <2> HIDE DEF next, D, V
  <2> QED
    BY <2>2
<1>4. PICK f : Follows(f, D, V, step)
  <2>1. V # {} /\ size \in Nat
    OBVIOUS
  <2>2. \A n \in D : rank[n] \in 0..size
    BY <1>1
  <2> HIDE DEF D, rank, step, Is, g, V
  <2>3. Recursive(D, V, size, rank, step)
    BY <1>2, <1>3, <2>1, <2>2, Zenon DEF Recursive
  <2> QED
    BY <2>3, RecursionIsThere, Zenon
<1>5. \A m \in D : f[m] = next(m, f)
  <2> HIDE DEF next, D, V
  <2> QED
    BY <1>4 DEF Follows
<1>6. f \in [D -> V]
  BY <1>4, Zenon DEF Follows
<1>7. Is(f)
  <2> HIDE DEF V
  <2>1. f = [m \in D |-> f[m]]
    BY <1>6
  <2>2. [m \in D |-> f[m]] = [m \in D |-> next(m, f)]
    BY <1>5, Zenon
  <2> QED
    BY <2>1, <2>2, Zenon DEF Kids
<1>8. Is(g)
  BY <1>7, Zenon
<1>9. \A n : Ancestors(tree, n) = {m \in D : tree[m].named /\ m # n /\ n \in g[m]}
  BY Zenon DEF Ancestors
<1> HIDE DEF g
<1>10. \A m \in D : g[m] = {m} \cup UNION {g[c] : c \in Kids(tree, m)}
  BY <1>8, Zenon DEF Kids
<1> DEFINE S == {m \in D : g[m] \in SUBSET D}
<1>11. ASSUME NEW m \in D, \A y \in D : rank[y] < rank[m] => y \in S  PROVE m \in S
  <2>1. \A c \in Kids(tree, m) : g[c] \in SUBSET D
    <3> HIDE DEF rank, D
    <3> QED
      BY <1>1, <1>11
  <2> HIDE DEF D, rank
  <2>2. g[m] \in SUBSET D
    BY <1>10, <2>1
  <2> QED
    BY <2>2
<1>12. \A m \in D : m \in S
  <2>1. \A m \in D : rank[m] \in Nat
    BY <1>1
  <2> HIDE DEF D, rank, S
  <2>2. Inductive(D, rank, S)
    BY <1>11, <2>1, Zenon DEF Inductive
  <2> QED
    BY <2>2, RankInduction, Zenon
<1>13. g \in [D -> V]
  <2>1. g = [m \in D |-> {m} \cup UNION {g[c] : c \in Kids(tree, m)}]
    BY <1>8, Zenon DEF Kids
  <2>2. g = [m \in D |-> g[m]]
    <3> HIDE DEF D
    <3> QED
      BY <1>10, <2>1
  <2> HIDE DEF D
  <2>3. \A m \in D : g[m] \in V
    BY <1>12
  <2> QED
    BY <2>2, <2>3
<1> HIDE DEF D
<1>14. Below(tree, size, g)
  BY <1>10, <1>13 DEF Below, D
<1> QED
  BY <1>9, <1>14 DEF D

\* A tree of some size, the kids of which have greater numbers.
Sized(tree, size) ==
    /\ size \in Nat \ {0} /\ DOMAIN tree = 1..size
    /\ \A n \in 1..size : /\ tree[n].children \in Seq(1..size)
                          /\ Kids(tree, n) \subseteq (n + 1)..size /\ Kids(tree, n) \subseteq 1..size

\* The nodes collected at a node are the node, or those collected at its kids.
LEMMA CollectIs ==
    ASSUME NEW tree, NEW size, Sized(tree, size)
    PROVE  \A n \in 1..size :
              /\ CollectSymbolNodes(tree, n) \in Seq(1..size)
              /\ ToSet(CollectSymbolNodes(tree, n)) =
                    IF tree[n].named THEN {n} ELSE UNION {ToSet(CollectSymbolNodes(tree, c)) : c \in Kids(tree, n)}
<1> USE DEF Sized
<1> DEFINE D == 1..size
           V == Seq(D)
           kid(m) == tree[m].children
           rank == [n \in D |-> size - n]
           next(m, f) == IF tree[m].named THEN <<m>> ELSE FlattenSeq([i \in DOMAIN kid(m) |-> f[kid(m)[i]]])
           step == [x \in D \X [D -> V] |-> next(x[1], x[2])]
           Is(f) == f = [m \in DOMAIN tree |-> IF tree[m].named THEN <<m>>
                            ELSE FlattenSeq([i \in DOMAIN tree[m].children |-> f[tree[m].children[i]]])]
           g == CHOOSE g : Is(g)
<1>1. \A m \in D : /\ kid(m) \in Seq(D) /\ rank[m] \in 0..size
                   /\ \A i \in DOMAIN kid(m) : kid(m)[i] \in Kids(tree, m) /\ kid(m)[i] \in D /\ rank[kid(m)[i]] < rank[m]
  <2> TAKE m \in D
  <2>1. \A c \in Kids(tree, m) : c \in (m + 1)..size /\ c \in D /\ m \in Nat
    OBVIOUS
  <2>2. \A c \in Kids(tree, m) : c \in D /\ rank[c] < rank[m]
    BY <2>1
  <2>3. \A i \in DOMAIN kid(m) : kid(m)[i] \in Kids(tree, m)
    BY DEF Kids, ToSet
  <2> QED
    BY <2>2, <2>3
<1>2. ASSUME NEW m \in D, NEW f, \A i \in DOMAIN kid(m) : f[kid(m)[i]] \in V
      PROVE  /\ next(m, f) \in V
             /\ ToSet(next(m, f)) = IF tree[m].named THEN {m} ELSE UNION {ToSet(f[c]) : c \in Kids(tree, m)}
  <2>1. CASE tree[m].named
    <3>1. next(m, f) = <<m>> /\ <<m>> \in V /\ ToSet(<<m>>) = {m}
      BY <2>1 DEF ToSet
    <3> QED
      BY <2>1, <3>1
  <2>2. CASE ~tree[m].named
    <3> DEFINE c == kid(m)
               ss == [i \in DOMAIN c |-> f[c[i]]]
    <3>1. Len(c) \in Nat /\ DOMAIN c = 1..Len(c)
      BY LenProperties
    <3>2. ss \in Seq(V) /\ DOMAIN ss = DOMAIN c
      <4>1. ss \in [1..Len(c) -> V]
        BY <1>2, <3>1
      <4> QED
        BY <3>1, <4>1
    <3>3. next(m, f) = FlattenSeq(ss)
      BY <2>2
    <3> HIDE DEF D
    <3>4. FlattenSeq(ss) \in V /\ ToSet(FlattenSeq(ss)) = UNION {ToSet(ss[i]) : i \in DOMAIN ss}
      BY <3>2, FlattenHolds
    <3>5. {ToSet(ss[i]) : i \in DOMAIN ss} = {ToSet(f[k]) : k \in Kids(tree, m)}
      <4>1. \A i \in DOMAIN c : ss[i] = f[c[i]]
        OBVIOUS
      <4>2. Kids(tree, m) = {c[i] : i \in DOMAIN c}
        BY DEF Kids, ToSet
      <4> HIDE DEF ss, c
      <4> DEFINE A == {ToSet(ss[i]) : i \in DOMAIN ss}
                 B == {ToSet(f[k]) : k \in Kids(tree, m)}
      <4>3. ASSUME NEW x \in A  PROVE x \in B
        <5>1. PICK i \in DOMAIN c : x = ToSet(ss[i])
          BY <3>2
        <5>2. c[i] \in Kids(tree, m) /\ x = ToSet(f[c[i]])
          BY <4>1, <4>2, <5>1
        <5> QED
          BY <5>2
      <4>4. ASSUME NEW x \in B  PROVE x \in A
        <5>1. PICK k \in Kids(tree, m) : x = ToSet(f[k])
          OBVIOUS
        <5>2. PICK i \in DOMAIN c : k = c[i]
          BY <4>2
        <5>3. i \in DOMAIN ss /\ x = ToSet(ss[i])
          BY <3>2, <4>1, <5>1, <5>2
        <5> QED
          BY <5>3
      <4> HIDE DEF A, B
      <4>5. A = B
        BY <4>3, <4>4
      <4> QED
        BY <4>5 DEF A, B
    <3> QED
      BY <2>2, <3>3, <3>4, <3>5
  <2> QED
    BY <2>1, <2>2
<1>3. \A m \in D, f \in [D -> V] : step[<<m, f>>] \in V
  <2>1. ASSUME NEW m \in D, NEW f \in [D -> V]  PROVE next(m, f) \in V
    <3>1. \A i \in DOMAIN kid(m) : f[kid(m)[i]] \in V
      <4> HIDE DEF V, D, rank
      <4> QED
        BY <1>1
    <3> HIDE DEF V, D, rank, next
    <3> QED
      BY <1>2, <3>1
  <2> HIDE DEF next, D, V
  <2> QED
    BY <2>1
<1>4. \A m \in D, f, h \in [D -> V] : (\A y \in D : rank[y] < rank[m] => f[y] = h[y]) => step[<<m, f>>] = step[<<m, h>>]
  <2> TAKE m \in D, f, h \in [D -> V]
  <2> HAVE \A y \in D : rank[y] < rank[m] => f[y] = h[y]
  <2>1. \A i \in DOMAIN kid(m) : f[kid(m)[i]] = h[kid(m)[i]]
    <3> HIDE DEF rank, D, kid
    <3> QED
      BY <1>1
  <2>2. [i \in DOMAIN kid(m) |-> f[kid(m)[i]]] = [i \in DOMAIN kid(m) |-> h[kid(m)[i]]]
    <3> HIDE DEF rank, D, kid, V
    <3> QED
      BY <2>1
  <2>3. next(m, f) = next(m, h)
    BY <2>2, Zenon
  <2> HIDE DEF next, D, V
  <2> QED
    BY <2>3
<1>5. PICK f : Follows(f, D, V, step)
  <2>1. V # {} /\ size \in Nat
    OBVIOUS
  <2>2. \A n \in D : rank[n] \in 0..size
    BY <1>1
  <2> HIDE DEF D, rank, step, Is, g, V
  <2>3. Recursive(D, V, size, rank, step)
    BY <1>3, <1>4, <2>1, <2>2, Zenon DEF Recursive
  <2> QED
    BY <2>3, RecursionIsThere, Zenon
<1>6. \A m \in D : f[m] = next(m, f)
  <2> HIDE DEF next, D, V
  <2> QED
    BY <1>5 DEF Follows
<1>7. f \in [D -> V]
  BY <1>5, Zenon DEF Follows
<1>8. Is(f)
  <2> HIDE DEF V
  <2>1. f = [m \in D |-> f[m]]
    BY <1>7
  <2>2. [m \in D |-> f[m]] = [m \in D |-> next(m, f)]
    BY <1>6, Zenon
  <2> QED
    BY <2>1, <2>2, Zenon
<1>9. Is(g)
  BY <1>8, Zenon
<1>10. \A n : CollectSymbolNodes(tree, n) = g[n]
  BY Zenon DEF CollectSymbolNodes
<1> HIDE DEF g
<1>11. \A m \in D : g[m] = next(m, g)
  BY <1>9, Zenon
<1> DEFINE S == {m \in D : g[m] \in V}
<1>12. ASSUME NEW m \in D, \A y \in D : rank[y] < rank[m] => y \in S  PROVE m \in S
  <2>1. \A i \in DOMAIN kid(m) : g[kid(m)[i]] \in V
    <3> HIDE DEF rank, D, V, kid
    <3> QED
      BY <1>1, <1>12
  <2> HIDE DEF D, rank, V, next, kid
  <2>2. g[m] \in V
    BY <1>2, <1>11, <2>1
  <2> QED
    BY <2>2
<1>13. \A m \in D : m \in S
  <2>1. \A m \in D : rank[m] \in Nat
    BY <1>1
  <2> HIDE DEF D, rank, S
  <2>2. Inductive(D, rank, S)
    BY <1>12, <2>1, Zenon DEF Inductive
  <2> QED
    BY <2>2, RankInduction, Zenon
<1>14. ASSUME NEW m \in D
       PROVE  /\ g[m] \in V
              /\ ToSet(g[m]) = IF tree[m].named THEN {m} ELSE UNION {ToSet(g[c]) : c \in Kids(tree, m)}
  <2>1. \A i \in DOMAIN kid(m) : g[kid(m)[i]] \in V
    <3> HIDE DEF rank, D, V, kid
    <3> QED
      BY <1>1, <1>13
  <2> HIDE DEF D, rank, V, next, kid
  <2> QED
    BY <1>2, <1>11, <1>13, <2>1
<1>15. ASSUME NEW n \in D
       PROVE  /\ CollectSymbolNodes(tree, n) \in V
              /\ ToSet(CollectSymbolNodes(tree, n)) =
                    IF tree[n].named THEN {n} ELSE UNION {ToSet(CollectSymbolNodes(tree, c)) : c \in Kids(tree, n)}
  <2> HIDE DEF D, V
  <2>1. {ToSet(g[c]) : c \in Kids(tree, n)} = {ToSet(CollectSymbolNodes(tree, c)) : c \in Kids(tree, n)}
    BY <1>10, Zenon
  <2>2. CollectSymbolNodes(tree, n) = g[n]
    BY <1>10
  <2> QED
    BY <1>14, <2>1, <2>2, Zenon
<1> QED
  BY <1>15

\* findSymbolNodes: those collected at the kids.
LEMMA FindIs ==
    ASSUME NEW tree, NEW size, Sized(tree, size), NEW n \in 1..size
    PROVE  /\ FindSymbolNodes(tree, n) \in Seq(1..size)
           /\ ToSet(FindSymbolNodes(tree, n)) = UNION {ToSet(CollectSymbolNodes(tree, c)) : c \in Kids(tree, n)}
<1> DEFINE D == 1..size
           c == tree[n].children
           ss == [i \in DOMAIN c |-> CollectSymbolNodes(tree, c[i])]
<1>1. c \in Seq(D) /\ Kids(tree, n) \subseteq D /\ Kids(tree, n) = {c[i] : i \in DOMAIN c}
  BY DEF Sized, Kids, ToSet
<1>2. Len(c) \in Nat /\ DOMAIN c = 1..Len(c)
  BY <1>1, LenProperties
<1> HIDE DEF c
<1>3. \A i \in DOMAIN c : ss[i] \in Seq(D) /\ ss[i] = CollectSymbolNodes(tree, c[i])
  <2>1. \A i \in DOMAIN c : c[i] \in D
    BY <1>1
  <2> QED
    BY <2>1, CollectIs
<1>4. ss \in Seq(Seq(D)) /\ DOMAIN ss = DOMAIN c
  <2>1. ss \in [1..Len(c) -> Seq(D)]
    BY <1>2, <1>3
  <2> QED
    BY <1>2, <2>1
<1>5. FindSymbolNodes(tree, n) = FlattenSeq(ss)
  BY Zenon DEF FindSymbolNodes, c
<1> HIDE DEF D, ss
<1>6. FlattenSeq(ss) \in Seq(D) /\ ToSet(FlattenSeq(ss)) = UNION {ToSet(ss[i]) : i \in DOMAIN ss}
  BY <1>4, FlattenHolds
<1> DEFINE A == {ToSet(ss[i]) : i \in DOMAIN ss}
           B == {ToSet(CollectSymbolNodes(tree, k)) : k \in Kids(tree, n)}
<1>7. ASSUME NEW x \in A  PROVE x \in B
  <2>1. PICK i \in DOMAIN c : x = ToSet(ss[i])
    BY <1>4
  <2>2. c[i] \in Kids(tree, n) /\ x = ToSet(CollectSymbolNodes(tree, c[i]))
    BY <1>1, <1>3, <2>1
  <2> QED
    BY <2>2
<1>8. ASSUME NEW x \in B  PROVE x \in A
  <2>1. PICK k \in Kids(tree, n) : x = ToSet(CollectSymbolNodes(tree, k))
    OBVIOUS
  <2>2. PICK i \in DOMAIN c : k = c[i]
    BY <1>1
  <2>3. i \in DOMAIN ss /\ x = ToSet(ss[i])
    BY <1>3, <1>4, <2>1, <2>2
  <2> QED
    BY <2>3
<1> HIDE DEF A, B
<1>9. A = B
  BY <1>7, <1>8
<1> QED
  BY <1>5, <1>6, <1>9 DEF A, B, D

\* Below a node is also what is below a node below it, and its number is greater.
LEMMA BelowBelow ==
    ASSUME NEW tree, NEW size, Sized(tree, size), NEW B, Below(tree, size, B)
    PROVE  /\ \A m \in 1..size : \A n \in B[m] : B[n] \subseteq B[m] /\ m <= n /\ n \in 1..size
           /\ \A m \in 1..size : \A n \in B[m] : n # m => \E c \in Kids(tree, m) : n \in B[c]
<1> DEFINE D == 1..size
           rank == [m \in D |-> size - m]
           S == {m \in D : \A n \in B[m] : B[n] \subseteq B[m] /\ m <= n}
<1>1. /\ size \in Nat /\ \A m \in D : m \in Nat /\ B[m] \subseteq D /\ B[m] = {m} \cup UNION {B[c] : c \in Kids(tree, m)}
      /\ \A m \in D : \A c \in Kids(tree, m) : c \in D /\ c > m
  <2>1. ASSUME NEW m \in D, NEW c \in Kids(tree, m)  PROVE c \in D /\ c > m
    <3>1. c \in (m + 1)..size
      BY DEF Sized
    <3> QED
      BY <3>1 DEF Sized
  <2>2. size \in Nat /\ \A m \in D : m \in Nat
    BY DEF Sized
  <2>3. \A m \in D : B[m] \subseteq D /\ B[m] = {m} \cup UNION {B[c] : c \in Kids(tree, m)}
    BY DEF Below
  <2> QED
    BY <2>1, <2>2, <2>3
<1>2. ASSUME NEW m \in D, \A y \in D : rank[y] < rank[m] => y \in S  PROVE m \in S
  <2>1. ASSUME NEW n \in B[m]  PROVE B[n] \subseteq B[m] /\ m <= n
    <3>1. CASE n = m
      BY <1>1, <3>1
    <3>2. CASE n # m
      <4>1. PICK c \in Kids(tree, m) : n \in B[c]
        BY <1>1, <3>2
      <4>2. c \in D /\ c > m /\ c \in Nat /\ m \in Nat /\ rank[c] < rank[m] /\ n \in D /\ n \in Nat
        <5>1. c \in D /\ c > m /\ c \in Nat /\ m \in Nat
          BY <1>1
        <5>2. n \in D /\ n \in Nat
          BY <1>1, <4>1, <5>1
        <5> QED
          BY <1>1, <5>1, <5>2
      <4>3. B[n] \subseteq B[c] /\ c <= n
        BY <1>2, <4>1, <4>2
      <4>4. B[c] \subseteq B[m]
        BY <1>1
      <4>5. m <= n
        BY <4>2, <4>3
      <4> QED
        BY <4>3, <4>4, <4>5
    <3> QED
      BY <3>1, <3>2
  <2> QED
    BY <2>1
<1>3. \A m \in D : m \in S
  <2>1. \A m \in D : rank[m] \in Nat
    BY <1>1
  <2> HIDE DEF D, rank, S
  <2>2. Inductive(D, rank, S)
    BY <1>2, <2>1, Zenon DEF Inductive
  <2> QED
    BY <2>2, RankInduction, Zenon
<1> QED
  BY <1>1, <1>3

\* What is collected at a node: the named nodes below it that no other hides.
Hidden(tree, B, m, n) == \E q \in B[m] : tree[q].named /\ q # n /\ n \in B[q]

LEMMA CollectedAre ==
    ASSUME NEW tree, NEW size, Sized(tree, size), NEW B, Below(tree, size, B), NEW m \in 1..size
    PROVE  \A n : /\ n \in ToSet(CollectSymbolNodes(tree, m)) => n \in B[m] /\ tree[n].named
                  /\ n \in B[m] /\ tree[n].named /\ ~Hidden(tree, B, m, n) => n \in ToSet(CollectSymbolNodes(tree, m))
<1> DEFINE D == 1..size
           rank == [k \in D |-> size - k]
           Found(k) == ToSet(CollectSymbolNodes(tree, k))
           Is(k, n) == n \in B[k] /\ tree[n].named /\ ~Hidden(tree, B, k, n)
           Good(k) == \A n : /\ n \in Found(k) => n \in B[k] /\ tree[n].named
                             /\ Is(k, n) => n \in Found(k)
           S == {k \in D : Good(k)}
<1>1. /\ \A k \in D : k \in Nat /\ B[k] \subseteq D /\ k \in B[k] /\ size \in Nat
      /\ \A k \in D : \A c \in Kids(tree, k) : c \in D /\ c > k /\ B[c] \subseteq B[k]
  <2>1. ASSUME NEW k \in D, NEW c \in Kids(tree, k)  PROVE c \in D /\ c > k /\ B[c] \subseteq B[k]
    <3>1. c \in (k + 1)..size
      BY DEF Sized
    <3>2. c \in D /\ c > k
      BY <3>1 DEF Sized
    <3> QED
      BY <3>2 DEF Below
  <2>2. \A k \in D : k \in Nat /\ B[k] \subseteq D /\ k \in B[k] /\ size \in Nat
    BY DEF Sized, Below
  <2> QED
    BY <2>1, <2>2
<1>2. /\ \A k \in D : \A n \in B[k] : B[n] \subseteq B[k] /\ k <= n /\ n \in D
      /\ \A k \in D : \A n \in B[k] : n # k => \E c \in Kids(tree, k) : n \in B[c]
  BY BelowBelow
<1>3. \A k \in D : Found(k) = IF tree[k].named THEN {k} ELSE UNION {Found(c) : c \in Kids(tree, k)}
  BY CollectIs
<1> HIDE DEF Found
<1>4. ASSUME NEW k \in D, \A y \in D : rank[y] < rank[k] => y \in S  PROVE k \in S
  <2>1. CASE tree[k].named
    <3>1. Found(k) = {k}
      BY <1>3, <2>1
    <3>2. \A n : Is(k, n) => n = k
      BY <1>1, <2>1 DEF Hidden
    <3> HIDE DEF Is
    <3> QED
      BY <1>1, <2>1, <3>1, <3>2
  <2>2. CASE ~tree[k].named
    <3>1. Found(k) = UNION {Found(c) : c \in Kids(tree, k)}
      BY <1>3, <2>2
    <3>2. \A c \in Kids(tree, k) : Good(c)
      <4> TAKE c \in Kids(tree, k)
      <4>1. c \in D /\ c > k /\ c \in Nat /\ k \in Nat /\ size \in Nat
        BY <1>1
      <4>2. rank[c] < rank[k]
        BY <4>1
      <4> HIDE DEF Good
      <4> QED
        BY <1>4, <4>1, <4>2
    <3>3. ASSUME NEW n, n \in Found(k)  PROVE n \in B[k] /\ tree[n].named
      BY <1>1, <3>1, <3>2, <3>3
    <3>4. ASSUME NEW n, Is(k, n)  PROVE \E c \in Kids(tree, k) : Is(c, n)
      <4>1. n # k
        BY <2>2, <3>4
      <4>2. PICK c \in Kids(tree, k) : n \in B[c]
        BY <1>2, <3>4, <4>1
      <4>3. B[c] \subseteq B[k]
        BY <1>1
      <4>4. Is(c, n)
        BY <3>4, <4>2, <4>3 DEF Hidden
      <4> QED
        BY <4>4
    <3> HIDE DEF Is
    <3>5. \A n : Is(k, n) => n \in Found(k)
      BY <3>1, <3>2, <3>4
    <3> QED
      BY <3>3, <3>5
  <2> QED
    BY <2>1, <2>2
<1>5. \A k \in D : k \in S
  <2>1. \A k \in D : rank[k] \in Nat
    BY <1>1
  <2> HIDE DEF D, rank, S
  <2>2. Inductive(D, rank, S)
    BY <1>4, <2>1, Zenon DEF Inductive
  <2> QED
    BY <2>2, RankInduction, Zenon
<1> QED
  BY <1>5 DEF Found

\* The symbols a node is split below: of the nearest one it is a symbol found, and
\* that one is below fewer.
LEMMA NearestIs ==
    ASSUME NEW tree, NEW size, Sized(tree, size), \A k \in 2..size : \E m \in 1..size : k \in Kids(tree, m),
           ~tree[1].named, NEW n \in 1..size, tree[n].named
    PROVE  \/ n \in ToSet(FindSymbolNodes(tree, 1))
           \/ \E p \in Ancestors(tree, n) :
                 /\ p \in 1..size /\ p < n /\ tree[p].named /\ n \in ToSet(FindSymbolNodes(tree, p))
                 /\ Ancestors(tree, p) \subseteq Ancestors(tree, n)
                 /\ Cardinality(Ancestors(tree, p)) < Cardinality(Ancestors(tree, n))
<1> DEFINE D == 1..size
           Up == Ancestors(tree, n)
<1>1. size \in Nat /\ 1 \in D /\ DOMAIN tree = D /\ \A k \in D : k \in Nat /\ Kids(tree, k) \subseteq D
  BY DEF Sized
<1>2. \A k \in D : Kids(tree, k) \subseteq (k + 1)..size
  BY DEF Sized
<1>3. PICK B : /\ Below(tree, size, B)
               /\ \A k : Ancestors(tree, k) = {m \in 1..size : tree[m].named /\ m # k /\ k \in B[m]}
  BY <1>1, <1>2, BelowIs DEF Sized
<1>4. /\ \A m \in D : \A k \in B[m] : B[k] \subseteq B[m] /\ m <= k /\ k \in D
      /\ \A m \in D : \A k \in B[m] : k # m => \E c \in Kids(tree, m) : k \in B[c]
      /\ \A m \in D : m \in B[m] /\ \A c \in Kids(tree, m) : B[c] \subseteq B[m]
  <2>1. \A m \in D : m \in B[m] /\ \A c \in Kids(tree, m) : B[c] \subseteq B[m]
    BY <1>3 DEF Below
  <2> QED
    BY <1>3, <2>1, BelowBelow
<1>5. \A k \in D : k \in B[1]
  <2> DEFINE S == {k \in D : k \in B[1]}
             rank == [k \in D |-> k]
  <2>1. ASSUME NEW k \in D, \A y \in D : rank[y] < rank[k] => y \in S  PROVE k \in S
    <3>1. CASE k = 1
      BY <1>1, <1>4, <3>1
    <3>2. CASE k # 1
      <4>1. k \in 2..size
        BY <3>2
      <4>2. PICK m \in D : k \in Kids(tree, m)
        BY <4>1
      <4>3. m < k
        BY <1>1, <1>2, <4>2
      <4>4. m \in B[1]
        BY <2>1, <4>3
      <4>5. k \in B[m]
        BY <1>1, <1>4, <4>2
      <4> QED
        BY <1>1, <1>4, <4>4, <4>5
    <3> QED
      BY <3>1, <3>2
  <2>2. \A k \in D : k \in S
    <3>1. \A k \in D : rank[k] \in Nat
      BY <1>1
    <3> HIDE DEF D, rank, S
    <3>2. Inductive(D, rank, S)
      BY <2>1, <3>1, Zenon DEF Inductive
    <3> QED
      BY <3>2, RankInduction, Zenon
  <2> QED
    BY <2>2
<1>6. ASSUME NEW p \in D, p # n, n \in B[p], \A q \in Up : q <= p  PROVE n \in ToSet(FindSymbolNodes(tree, p))
  <2>1. PICK c \in Kids(tree, p) : n \in B[c]
    BY <1>4, <1>6
  <2>2. c \in D /\ c > p /\ c \in Nat /\ p \in Nat
    BY <1>1, <1>2
  <2>3. ASSUME NEW q \in B[c], tree[q].named, q # n, n \in B[q]  PROVE FALSE
    <3>1. q \in D /\ c <= q /\ q \in Nat
      BY <1>1, <1>4, <2>2
    <3>2. q \in Up
      BY <1>3, <2>3, <3>1
    <3> QED
      BY <1>6, <2>2, <3>1, <3>2
  <2>4. n \in ToSet(CollectSymbolNodes(tree, c))
    BY <1>3, <2>1, <2>2, <2>3, CollectedAre DEF Hidden
  <2> QED
    BY <2>1, <2>4, FindIs
<1>7. CASE Up = {}
  <2>1. n \in B[1] /\ n # 1
    BY <1>5
  <2> QED
    BY <1>1, <1>6, <1>7, <2>1
<1>8. CASE Up # {}
  <2> DEFINE p == Max(Up)
  <2>1. Up \subseteq D /\ Up \in SUBSET (0..size) /\ D \subseteq 0..size /\ Up = {m \in D : tree[m].named /\ m # n /\ n \in B[m]}
    BY <1>1, <1>3
  <2>2. p \in Up /\ \A q \in Up : q <= p
    BY <1>1, <1>8, <2>1, GreatestIsOne
  <2> HIDE DEF p
  <2>3. p \in D /\ tree[p].named /\ p # n /\ n \in B[p]
    BY <2>1, <2>2
  <2>4. p < n
    BY <1>1, <1>4, <2>3
  <2>5. n \in ToSet(FindSymbolNodes(tree, p))
    BY <1>6, <2>2, <2>3
  <2>6. Ancestors(tree, p) = {m \in D : tree[m].named /\ m # p /\ p \in B[m]}
    BY <1>3
  <2>7. ASSUME NEW m \in Ancestors(tree, p)  PROVE m \in Up
    <3>1. m \in D /\ tree[m].named /\ n \in B[m] /\ m <= p /\ m \in Nat /\ p \in Nat /\ n \in Nat
      BY <1>1, <1>4, <2>3, <2>6
    <3>2. m # n
      BY <2>4, <3>1
    <3> QED
      BY <2>1, <3>1, <3>2
  <2>8. Ancestors(tree, p) \subseteq Up /\ p \notin Ancestors(tree, p)
    BY <2>6, <2>7
  <2>9. IsFiniteSet(Up)
    BY <1>1, <2>1, FS_Interval, FS_Subset
  <2>10. Cardinality(Ancestors(tree, p)) < Cardinality(Up)
    <3>1. Ancestors(tree, p) # Up
      BY <2>2, <2>8
    <3>2. IsFiniteSet(Ancestors(tree, p))
      BY <2>8, <2>9, FS_Subset
    <3>3. Cardinality(Ancestors(tree, p)) <= Cardinality(Up) /\ Cardinality(Ancestors(tree, p)) # Cardinality(Up)
      BY <2>8, <2>9, <3>1, FS_Subset
    <3>4. Cardinality(Ancestors(tree, p)) \in Nat /\ Cardinality(Up) \in Nat
      BY <2>9, <3>2, FS_CardinalityType
    <3> QED
      BY <3>3, <3>4
  <2> QED
    BY <2>2, <2>3, <2>4, <2>5, <2>8, <2>10
<1> QED
  BY <1>7, <1>8

-----------------------------------------------------------------------------
\* The chunks of a symbol.

FitChunks == {c \in LineChunks : EstimateTokens(c.length) <= MaxChunkTokens}

\* A chunk of the same lines, listed for as many symbols.
HasChunk(chunks, c) ==
    \E d \in ToSet(chunks) : d.first = c.first /\ d.last = c.last /\ c.symbols \subseteq d.symbols

\* placeParentSymbolsOnce adds to what the first chunk is listed for.
LEMMA PlacedAre ==
    ASSUME NEW c \in Seq(FitChunks), NEW U \in SUBSET (Nat \X Nat)
    PROVE  /\ PlaceParentSymbols(c, U) \in Seq(FitChunks)
           /\ \A b \in ToSet(c) : HasChunk(PlaceParentSymbols(c, U), b)
           /\ c # <<>> => /\ PlaceParentSymbols(c, U) # <<>>
                          /\ \E d \in ToSet(PlaceParentSymbols(c, U)) : U \subseteq d.symbols
<1>1. Len(c) \in Nat /\ DOMAIN c = 1..Len(c) /\ \A k \in 1..Len(c) : c[k] \in FitChunks
  BY LenProperties, ElementOfSeq
<1>2. CASE c = <<>>
  <2>1. PlaceParentSymbols(c, U) = <<>> /\ ToSet(c) = {}
    BY <1>2 DEF PlaceParentSymbols, ToSet
  <2> QED
    BY <1>2, <2>1
<1>3. CASE c # <<>>
  <2>1. 1 \in DOMAIN c
    <3>1. Len(c) # 0
      BY <1>3, EmptySeq
    <3> QED
      BY <1>1, <3>1
  <2> DEFINE d == PlaceParentSymbols(c, U)
  <2>2. d = [k \in DOMAIN c |-> IF k = 1 THEN [c[1] EXCEPT !.symbols = @ \cup U] ELSE c[k]]
    BY <1>3, <2>1 DEF PlaceParentSymbols
  <2>3. /\ DOMAIN d = 1..Len(c) /\ d[1] = [c[1] EXCEPT !.symbols = @ \cup U]
        /\ \A k \in 1..Len(c) : k # 1 => d[k] = c[k]
    BY <1>1, <2>1, <2>2
  <2>4. /\ d[1] \in FitChunks /\ d[1].first = c[1].first /\ d[1].last = c[1].last
        /\ c[1].symbols \subseteq d[1].symbols /\ U \subseteq d[1].symbols
    BY <1>1, <2>1, <2>3 DEF FitChunks, LineChunks
  <2>5. d \in Seq(FitChunks)
    <3>1. d \in [1..Len(c) -> FitChunks]
      BY <1>1, <2>2, <2>3, <2>4
    <3> QED
      BY <1>1, <3>1
  <2> HIDE DEF d
  <2>6. \A b \in ToSet(c) : HasChunk(d, b)
    <3>1. ASSUME NEW k \in DOMAIN c  PROVE HasChunk(d, c[k])
      <4>1. d[k] \in ToSet(d)
        BY <1>1, <2>3 DEF ToSet
      <4>2. d[k].first = c[k].first /\ d[k].last = c[k].last /\ c[k].symbols \subseteq d[k].symbols
        BY <1>1, <2>3, <2>4
      <4> QED
        BY <4>1, <4>2 DEF HasChunk
    <3> QED
      BY <3>1 DEF ToSet
  <2>7. d # <<>> /\ d[1] \in ToSet(d)
    <3>1. 1 \in DOMAIN d
      BY <1>1, <2>1, <2>3
    <3>2. d # <<>>
      BY <3>1
    <3>3. d[1] \in ToSet(d)
      BY <3>1, Zenon DEF ToSet
    <3> QED
      BY <3>2, <3>3
  <2> QED
    BY <2>4, <2>5, <2>6, <2>7 DEF d
<1> QED
  BY <1>2, <1>3

\* The chunk of a symbol, which has its lines and what is above it as a comment.
LEMMA ChunkOfSymbol ==
    ASSUME NEW lines \in SomeLines, NEW tree, NEW n \in Nat,
           tree[n].first \in 1..Len(lines), tree[n].last \in tree[n].first..Len(lines)
    PROVE  /\ CreateChunk(tree, lines, n).first \in 1..tree[n].first /\ CreateChunk(tree, lines, n).last = tree[n].last
           /\ CreateChunk(tree, lines, n).symbols = {Whole(n)} /\ Whole(n) \in Nat \X Nat
           /\ ~TooLong(tree, lines, n) => CreateChunk(tree, lines, n) \in FitChunks
<1> DEFINE first == tree[n].first
           last == tree[n].last
           D == DocLines(lines, first)
           from == Max({1, first - D})
<1>1. Len(lines) \in Nat /\ first \in Nat /\ last \in Nat /\ 1 <= first /\ first <= last
  BY LinesHaveLength
<1>2. D \in Nat
  <2> DEFINE T == {0} \cup {i \in 1..(first - 1) : lines[i].kind = "code"}
             W == {i \in (Max(T) + 1)..(first - 1) : lines[i].kind = "comment"}
             C == {i \in (Max(T) + 1)..(first - 1) :
                      lines[i].kind \in {"comment", "bare"} /\ \E j, k \in W : i \in j..k}
  <2>1. T \in SUBSET (0..first) /\ T # {}
    BY <1>1
  <2> HIDE DEF T
  <2>2. Max(T) \in T
    BY <1>1, <2>1, GreatestIsOne, Zenon
  <2>3. IsFiniteSet((Max(T) + 1)..(first - 1))
    <3> DEFINE top == Max(T)
    <3>1. top \in 0..first
      BY <2>1, <2>2, Zenon
    <3> HIDE DEF top
    <3>2. top + 1 \in Int /\ first - 1 \in Int
      BY <1>1, <3>1
    <3> QED
      BY <3>2, FS_Interval, Zenon DEF top
  <2>4. C \in SUBSET ((Max(T) + 1)..(first - 1))
    OBVIOUS
  <2> HIDE DEF C
  <2>5. Cardinality(C) \in Nat
    BY <2>3, <2>4, FS_Subset, FS_CardinalityType
  <2>6. D = Cardinality(C)
    BY Zenon DEF DocLines, C, W, T
  <2> QED
    BY <2>5, <2>6
<1> HIDE DEF D
<1>3. from \in 1..first
  <2>1. CASE 1 <= first - D
    <3>1. {1, first - D} \in SUBSET (0..first) /\ {1, first - D} # {}
      BY <1>1, <1>2, <2>1
    <3>2. from \in {1, first - D} /\ 1 <= from
      BY <1>1, <3>1, GreatestIsOne
    <3> QED
      BY <1>1, <1>2, <2>1, <3>2
  <2>2. CASE ~(1 <= first - D)
    <3>1. \E x \in {1, first - D} : \A y \in {1, first - D} : x >= y
      BY <1>1, <1>2, <2>2
    <3>2. from \in {1, first - D} /\ \A y \in {1, first - D} : from >= y
      BY <3>1, Zenon DEF Max
    <3> QED
      BY <1>1, <1>2, <2>2, <3>2
  <2> QED
    BY <2>1, <2>2
<1> HIDE DEF from
<1>4. from \in 1..Len(lines) /\ last \in from..Len(lines) /\ from \in Nat
  BY <1>1, <1>3
<1>5. Width(lines, from, last) \in Nat
  BY <1>4, WidthIs
<1>6. WithDocComment(tree, lines, n) = [first |-> from, last |-> last, length |-> Width(lines, from, last), symbols |-> {}]
  BY Zenon DEF WithDocComment, LineChunk, from, D
<1>7. CreateChunk(tree, lines, n) = [first |-> from, last |-> last, length |-> Width(lines, from, last), symbols |-> {Whole(n)}]
  <2> DEFINE w == Width(lines, from, last)
             a == [first |-> from, last |-> last, length |-> w, symbols |-> {}]
  <2>1. CreateChunk(tree, lines, n) = [a EXCEPT !.symbols = {Whole(n)}]
    BY <1>6, Zenon DEF CreateChunk
  <2> HIDE DEF w
  <2>2. ASSUME NEW s  PROVE [a EXCEPT !.symbols = s] = [first |-> from, last |-> last, length |-> w, symbols |-> s]
    OBVIOUS
  <2> HIDE DEF a
  <2> QED
    BY <2>1, <2>2, Zenon DEF w
<1>8. Whole(n) \in Nat \X Nat
  BY DEF Whole
<1>9. CreateChunk(tree, lines, n) \in LineChunks
  BY <1>1, <1>4, <1>5, <1>7, <1>8 DEF LineChunks
<1>10. ~TooLong(tree, lines, n) => EstimateTokens(CreateChunk(tree, lines, n).length) <= MaxChunkTokens
  <2>1. EstimateTokens(Width(lines, from, last)) \in Nat /\ MaxChunkTokens \in Nat
    BY <1>5, NumbersOfChunks, ChunkingAssumption
  <2>2. TooLong(tree, lines, n) <=> EstimateTokens(Width(lines, from, last)) > MaxChunkTokens
    BY <1>6 DEF TooLong
  <2> QED
    BY <1>7, <2>1, <2>2
<1> QED
  BY <1>3, <1>7, <1>8, <1>9, <1>10 DEF FitChunks

\* The lines of a symbol that is not gone into are in the windows it is split into.
LEMMA SplitNodeIs ==
    ASSUME NEW lines \in SomeLines, NEW tree, NEW n \in Nat, Ancestors(tree, n) \subseteq Nat,
           tree[n].first \in 1..Len(lines), tree[n].last \in tree[n].first..Len(lines)
    PROVE  /\ SplitNode(tree, lines, n) \in Seq(FitChunks) /\ SplitNode(tree, lines, n) # <<>>
           /\ \E d \in ToSet(SplitNode(tree, lines, n)) : Whole(n) \in d.symbols
           /\ \A i \in tree[n].first..tree[n].last :
                 \E d \in ToSet(SplitNode(tree, lines, n)) : i \in d.first..d.last
<1> DEFINE first == tree[n].first
           last == tree[n].last
           parts == SplitByLines(lines, first, last)
           listed == [i \in DOMAIN parts |-> [parts[i] EXCEPT !.symbols = {<<n, i>>}]]
           U == {Whole(m) : m \in {n} \cup Ancestors(tree, n)}
           d == SplitNode(tree, lines, n)
<1>1. Len(lines) \in Nat /\ first \in Nat /\ last \in 0..Len(lines) /\ first \in 1..(last + 1) /\ first <= last
  BY LinesHaveLength
<1>2. HoldsFrom(lines, parts, first, last)
  <2> HIDE DEF first, last
  <2> QED
    BY <1>1, LinesAreHeld
<1>3. d = PlaceParentSymbols(listed, U)
  BY Zenon DEF SplitNode
<1> HIDE DEF parts, d
<1>4. /\ parts \in Seq(LineChunks) /\ Len(parts) > 0
      /\ \A k \in 1..Len(parts) : EstimateTokens(parts[k].length) <= MaxChunkTokens
      /\ \A j \in first..last : \E k \in 1..Len(parts) : j \in parts[k].first..parts[k].last
  BY <1>1, <1>2 DEF HoldsFrom
<1>5. Len(parts) \in Nat /\ DOMAIN parts = 1..Len(parts) /\ \A k \in 1..Len(parts) : parts[k] \in LineChunks
  BY <1>4, LenProperties, ElementOfSeq
<1>6. ASSUME NEW k \in 1..Len(parts)
      PROVE  listed[k] \in FitChunks /\ listed[k].first = parts[k].first /\ listed[k].last = parts[k].last
  <2>1. listed[k] = [parts[k] EXCEPT !.symbols = {<<n, k>>}] /\ {<<n, k>>} \in SUBSET (Nat \X Nat)
    BY <1>5
  <2> HIDE DEF listed
  <2>2. /\ listed[k] \in LineChunks /\ listed[k].first = parts[k].first /\ listed[k].last = parts[k].last
        /\ listed[k].length = parts[k].length
    BY <1>5, <2>1 DEF LineChunks
  <2> QED
    BY <1>4, <2>2 DEF FitChunks
<1>7. listed \in Seq(FitChunks) /\ DOMAIN listed = 1..Len(parts) /\ listed # <<>>
  <2>1. listed \in [1..Len(parts) -> FitChunks]
    BY <1>5, <1>6
  <2>2. 1 \in DOMAIN listed
    BY <1>4, <1>5
  <2> QED
    BY <1>5, <2>1, <2>2
<1>8. U \in SUBSET (Nat \X Nat) /\ Whole(n) \in U
  BY DEF Whole
<1> HIDE DEF listed, U
<1>9. /\ d \in Seq(FitChunks) /\ d # <<>>
      /\ \A b \in ToSet(listed) : HasChunk(d, b)
      /\ \E b \in ToSet(d) : U \subseteq b.symbols
  BY <1>3, <1>7, <1>8, PlacedAre
<1>10. ASSUME NEW i \in first..last  PROVE \E b \in ToSet(d) : i \in b.first..b.last
  <2>1. PICK k \in 1..Len(parts) : i \in parts[k].first..parts[k].last
    BY <1>4
  <2>2. listed[k] \in ToSet(listed)
    BY <1>7, Zenon DEF ToSet
  <2>3. PICK b \in ToSet(d) : b.first = listed[k].first /\ b.last = listed[k].last
    BY <1>9, <2>2 DEF HasChunk
  <2> QED
    BY <1>6, <2>1, <2>3
<1> QED
  BY <1>8, <1>9, <1>10 DEF d

\* The chunks of its members, put together and listed for a symbol.
LEMMA ChildrenPlaced ==
    ASSUME NEW ss \in Seq(Seq(FitChunks)), ss # <<>>, \A i \in DOMAIN ss : ss[i] # <<>>,
           NEW U \in SUBSET (Nat \X Nat), NEW d, d = PlaceParentSymbols(FlattenSeq(ss), U)
    PROVE  /\ d \in Seq(FitChunks) /\ d # <<>>
           /\ \E b \in ToSet(d) : U \subseteq b.symbols
           /\ \A i \in DOMAIN ss : \A b \in ToSet(ss[i]) : HasChunk(d, b)
<1> DEFINE all == FlattenSeq(ss)
<1>1. all \in Seq(FitChunks) /\ ToSet(all) = UNION {ToSet(ss[i]) : i \in DOMAIN ss}
  BY FlattenHolds
<1>2. Len(ss) \in Nat /\ DOMAIN ss = 1..Len(ss) /\ 1 \in DOMAIN ss /\ ss[1] \in Seq(FitChunks)
  BY LenProperties, ElementOfSeq, EmptySeq
<1>3. Len(ss[1]) \in Nat /\ DOMAIN ss[1] = 1..Len(ss[1]) /\ Len(ss[1]) # 0
  BY <1>2, LenProperties, EmptySeq
<1>4. ss[1][1] \in ToSet(ss[1])
  <2>1. 1 \in DOMAIN ss[1]
    BY <1>3
  <2> QED
    BY <2>1, Zenon DEF ToSet
<1> HIDE DEF all
<1>5. all # <<>>
  <2>1. ss[1][1] \in ToSet(all)
    BY <1>1, <1>2, <1>4
  <2>2. ToSet(<<>>) = {}
    BY DEF ToSet
  <2> QED
    BY <2>1, <2>2
<1>6. /\ d \in Seq(FitChunks) /\ d # <<>>
      /\ \A b \in ToSet(all) : HasChunk(d, b)
      /\ \E b \in ToSet(d) : U \subseteq b.symbols
  BY <1>1, <1>5, PlacedAre DEF all
<1> QED
  BY <1>1, <1>6

\* findSymbolNodes: what is found below a node has a greater number and a name.
LEMMA FoundAre ==
    ASSUME NEW tree, NEW size, Sized(tree, size), NEW n \in 1..size
    PROVE  /\ Ancestors(tree, n) \subseteq 1..size
           /\ FindSymbolNodes(tree, n) \in Seq(1..size)
           /\ \A m \in ToSet(FindSymbolNodes(tree, n)) : m \in (n + 1)..size /\ tree[m].named
<1>1. size \in Nat /\ DOMAIN tree = 1..size /\ \A k \in 1..size : Kids(tree, k) \subseteq (k + 1)..size /\ Kids(tree, k) \subseteq 1..size
  BY DEF Sized
<1>2. PICK B : /\ Below(tree, size, B)
               /\ \A k : Ancestors(tree, k) = {m \in 1..size : tree[m].named /\ m # k /\ k \in B[m]}
  <2>1. size \in Nat \ {0} /\ \A k \in 1..size : Kids(tree, k) \subseteq (k + 1)..size
    BY DEF Sized
  <2> QED
    <3>1. DOMAIN tree = 1..size
      BY <1>1
    <3> QED
      BY <2>1, <3>1, BelowIs
<1>3. ASSUME NEW m \in ToSet(FindSymbolNodes(tree, n))  PROVE m \in (n + 1)..size /\ tree[m].named
  <2>1. PICK c \in Kids(tree, n) : m \in ToSet(CollectSymbolNodes(tree, c))
    BY FindIs
  <2>2. c \in 1..size /\ c \in (n + 1)..size
    BY <1>1
  <2>3. m \in B[c] /\ tree[m].named
    BY <1>2, <2>1, <2>2, CollectedAre
  <2>4. c <= m /\ m \in 1..size
    BY <1>2, <2>2, <2>3, BelowBelow
  <2> QED
    BY <1>1, <2>2, <2>3, <2>4
<1> QED
  BY <1>2, <1>3, FindIs

\* splitSymbolRecursive, where it goes into a symbol and where it does not.
GoneInto(tree, n) == FindSymbolNodes(tree, n) # <<>> /\ Cardinality(Ancestors(tree, n)) < MaxCASTSplitDepth

Placed(tree, size, lines) ==
    /\ Sized(tree, size) /\ lines \in SomeLines
    /\ \A n \in 1..size : tree[n].first \in 1..Len(lines) /\ tree[n].last \in tree[n].first..Len(lines)

SplitHolds(tree, lines, n) ==
    LET d == SplitLargeSymbol(tree, lines, n)
    IN  /\ d \in Seq(FitChunks) /\ d # <<>>
        /\ \E b \in ToSet(d) : Whole(n) \in b.symbols
        /\ GoneInto(tree, n) =>
              \A m \in ToSet(FindSymbolNodes(tree, n)) : \A b \in ToSet(CreateChunksFromNode(tree, lines, m)) : HasChunk(d, b)
        /\ ~GoneInto(tree, n) => d = SplitNode(tree, lines, n)

LEMMA SplitIs ==
    ASSUME NEW lines, NEW tree, NEW size, Placed(tree, size, lines)
    PROVE  \A n \in 1..size : SplitHolds(tree, lines, n)
<1> DEFINE D == 1..size
           V == {s \in Seq(FitChunks) : s # <<>>}
           kid(n) == FindSymbolNodes(tree, n)
           rank == [n \in D |-> size - n]
           chunk(c, f) == IF TooLong(tree, lines, c) THEN f[c] ELSE <<CreateChunk(tree, lines, c)>>
           U(n) == {Whole(m) : m \in {n} \cup Ancestors(tree, n)}
           next(n, f) == IF GoneInto(tree, n)
                         THEN PlaceParentSymbols(FlattenSeq([i \in DOMAIN kid(n) |-> chunk(kid(n)[i], f)]), U(n))
                         ELSE SplitNode(tree, lines, n)
           step == [x \in D \X [D -> V] |-> next(x[1], x[2])]
           Is(f) == f = [n \in DOMAIN tree |->
                            IF FindSymbolNodes(tree, n) # <<>> /\ Cardinality(Ancestors(tree, n)) < MaxCASTSplitDepth
                            THEN PlaceParentSymbols(
                                     FlattenSeq([i \in DOMAIN FindSymbolNodes(tree, n) |->
                                         IF TooLong(tree, lines, FindSymbolNodes(tree, n)[i])
                                         THEN f[FindSymbolNodes(tree, n)[i]]
                                         ELSE <<CreateChunk(tree, lines, FindSymbolNodes(tree, n)[i])>>]),
                                     {Whole(m) : m \in {n} \cup Ancestors(tree, n)})
                            ELSE SplitNode(tree, lines, n)]
           g == CHOOSE g : Is(g)
<1>1. /\ size \in Nat /\ DOMAIN tree = D /\ lines \in SomeLines
      /\ \A n \in D : /\ n \in Nat /\ tree[n].first \in 1..Len(lines) /\ tree[n].last \in tree[n].first..Len(lines)
                      /\ rank[n] \in 0..size
  BY DEF Placed, Sized
<1>2. ASSUME NEW n \in D
      PROVE  /\ Ancestors(tree, n) \subseteq Nat /\ kid(n) \in Seq(D)
             /\ \A i \in DOMAIN kid(n) : kid(n)[i] \in ToSet(kid(n)) /\ kid(n)[i] \in D /\ rank[kid(n)[i]] < rank[n]
  <2>1. /\ Ancestors(tree, n) \subseteq D /\ kid(n) \in Seq(D)
        /\ \A m \in ToSet(kid(n)) : m \in (n + 1)..size
    BY FoundAre DEF Placed
  <2>2. \A i \in DOMAIN kid(n) : kid(n)[i] \in ToSet(kid(n))
    BY DEF ToSet
  <2>3. \A m \in (n + 1)..size : m \in D /\ rank[m] < rank[n]
    BY <1>1
  <2> HIDE DEF kid, rank
  <2> QED
    BY <2>1, <2>2, <2>3
<1>3. ASSUME NEW n \in D, NEW f, \A i \in DOMAIN kid(n) : f[kid(n)[i]] \in V
      PROVE  /\ next(n, f) \in V
             /\ \E b \in ToSet(next(n, f)) : Whole(n) \in b.symbols
             /\ GoneInto(tree, n) => \A i \in DOMAIN kid(n) : \A b \in ToSet(chunk(kid(n)[i], f)) : HasChunk(next(n, f), b)
  <2>1. CASE GoneInto(tree, n)
    <3> DEFINE c == kid(n)
               ss == [i \in DOMAIN c |-> chunk(c[i], f)]
    <3>1. Len(c) \in Nat /\ DOMAIN c = 1..Len(c) /\ c # <<>>
      BY <1>2, <2>1, LenProperties DEF GoneInto
    <3>2. ASSUME NEW i \in DOMAIN c  PROVE ss[i] = chunk(c[i], f) /\ ss[i] \in Seq(FitChunks) /\ ss[i] # <<>>
      <4>1. CASE TooLong(tree, lines, c[i])
        <5>1. ss[i] = f[c[i]]
          BY <4>1
        <5> QED
          BY <1>3, <4>1, <5>1
      <4>2. CASE ~TooLong(tree, lines, c[i])
        <5>1. ss[i] = <<CreateChunk(tree, lines, c[i])>>
          BY <4>2
        <5>2. CreateChunk(tree, lines, c[i]) \in FitChunks
          <6>1. c[i] \in D
            BY <1>2
          <6> HIDE DEF c
          <6> QED
            BY <1>1, <4>2, <6>1, ChunkOfSymbol
        <5> QED
          BY <4>2, <5>1, <5>2
      <4> QED
        BY <4>1, <4>2
    <3>3. ss \in Seq(Seq(FitChunks)) /\ ss # <<>> /\ DOMAIN ss = DOMAIN c
      <4>1. ss \in [1..Len(c) -> Seq(FitChunks)]
        BY <3>1, <3>2
      <4>2. Len(c) # 0
        BY <1>2, <3>1, EmptySeq
      <4> HIDE DEF ss
      <4> QED
        BY <3>1, <4>1, <4>2
    <3>4. U(n) \in SUBSET (Nat \X Nat) /\ Whole(n) \in U(n)
      BY <1>1, <1>2 DEF Whole
    <3>5. next(n, f) = PlaceParentSymbols(FlattenSeq(ss), U(n))
      BY <2>1
    <3> HIDE DEF ss, U, next, c
    <3>6. /\ next(n, f) \in Seq(FitChunks) /\ next(n, f) # <<>>
          /\ \E b \in ToSet(next(n, f)) : U(n) \subseteq b.symbols
          /\ \A i \in DOMAIN ss : \A b \in ToSet(ss[i]) : HasChunk(next(n, f), b)
      BY <3>2, <3>3, <3>4, <3>5, ChildrenPlaced
    <3> QED
      BY <3>2, <3>3, <3>4, <3>6 DEF c
  <2>2. CASE ~GoneInto(tree, n)
    <3>1. next(n, f) = SplitNode(tree, lines, n)
      BY <2>2
    <3>2. /\ SplitNode(tree, lines, n) \in Seq(FitChunks) /\ SplitNode(tree, lines, n) # <<>>
          /\ \E d \in ToSet(SplitNode(tree, lines, n)) : Whole(n) \in d.symbols
      BY <1>1, <1>2, SplitNodeIs
    <3> QED
      BY <2>2, <3>1, <3>2
  <2> QED
    BY <2>1, <2>2
<1>4. \A n \in D, f \in [D -> V] : step[<<n, f>>] \in V
  <2>1. ASSUME NEW n \in D, NEW f \in [D -> V]  PROVE next(n, f) \in V
    <3>1. \A i \in DOMAIN kid(n) : f[kid(n)[i]] \in V
      <4> HIDE DEF V, D, rank, kid
      <4> QED
        BY <1>2
    <3> HIDE DEF V, D, rank, next, kid
    <3> QED
      BY <1>3, <3>1
  <2> HIDE DEF next, D, V
  <2> QED
    BY <2>1
<1>5. \A n \in D, f, h \in [D -> V] : (\A y \in D : rank[y] < rank[n] => f[y] = h[y]) => step[<<n, f>>] = step[<<n, h>>]
  <2> TAKE n \in D, f, h \in [D -> V]
  <2> HAVE \A y \in D : rank[y] < rank[n] => f[y] = h[y]
  <2>1. \A i \in DOMAIN kid(n) : chunk(kid(n)[i], f) = chunk(kid(n)[i], h)
    <3>1. \A i \in DOMAIN kid(n) : f[kid(n)[i]] = h[kid(n)[i]]
      <4> HIDE DEF rank, D, kid, V
      <4> QED
        BY <1>2
    <3> QED
      BY <3>1, Zenon
  <2>2. [i \in DOMAIN kid(n) |-> chunk(kid(n)[i], f)] = [i \in DOMAIN kid(n) |-> chunk(kid(n)[i], h)]
    <3> HIDE DEF rank, D, kid, V, chunk
    <3> QED
      BY <2>1, Zenon
  <2>3. next(n, f) = next(n, h)
    <3> HIDE DEF kid, chunk, D, V, U
    <3> QED
      BY <2>2, Zenon
  <2> HIDE DEF next, D, V
  <2> QED
    BY <2>3
<1>6. PICK f : Follows(f, D, V, step)
  <2>1. V # {}
    <3>1. [first |-> 0, last |-> 0, length |-> 0, symbols |-> {}] \in FitChunks
      <4>1. EstimateTokens(0) <= MaxChunkTokens
        BY NumbersOfChunks
      <4> QED
        BY <4>1 DEF FitChunks, LineChunks
    <3>2. \A c \in FitChunks : <<c>> \in V
      OBVIOUS
    <3> HIDE DEF V
    <3> QED
      BY <3>1, <3>2
  <2>2. \A n \in D : rank[n] \in 0..size
    BY <1>1
  <2> HIDE DEF D, rank, step, Is, g, V
  <2>3. Recursive(D, V, size, rank, step)
    BY <1>1, <1>4, <1>5, <2>1, <2>2, Zenon DEF Recursive
  <2> QED
    BY <2>3, RecursionIsThere, Zenon
<1>7. \A n \in D : f[n] = next(n, f)
  <2> HIDE DEF next, D, V
  <2> QED
    BY <1>6 DEF Follows
<1>8. f \in [D -> V]
  BY <1>6, Zenon DEF Follows
<1>9. Is(f)
  <2> HIDE DEF V
  <2>1. f = [n \in D |-> f[n]]
    BY <1>8
  <2>2. [n \in D |-> f[n]] = [n \in D |-> next(n, f)]
    BY <1>7, Zenon
  <2> QED
    BY <1>1, <2>1, <2>2, Zenon DEF GoneInto
<1>10. Is(g)
  BY <1>9, Zenon
<1>11. \A n : SplitLargeSymbol(tree, lines, n) = g[n]
  BY Zenon DEF SplitLargeSymbol
<1> HIDE DEF g
<1>12. \A n \in D : g[n] = next(n, g)
  BY <1>1, <1>10, Zenon DEF GoneInto
<1> DEFINE S == {n \in D : g[n] \in V}
<1>13. ASSUME NEW n \in D, \A y \in D : rank[y] < rank[n] => y \in S  PROVE n \in S
  <2>1. \A i \in DOMAIN kid(n) : g[kid(n)[i]] \in V
    <3> HIDE DEF rank, D, V, kid
    <3> QED
      BY <1>2, <1>13
  <2> HIDE DEF D, rank, V, next, kid
  <2>2. g[n] \in V
    BY <1>3, <1>12, <2>1
  <2> QED
    BY <2>2
<1>14. \A n \in D : n \in S
  <2>1. \A n \in D : rank[n] \in Nat
    BY <1>1
  <2> HIDE DEF D, rank, S
  <2>2. Inductive(D, rank, S)
    BY <1>13, <2>1, Zenon DEF Inductive
  <2> QED
    BY <2>2, RankInduction, Zenon
<1>15. ASSUME NEW n \in D  PROVE SplitHolds(tree, lines, n)
  <2>1. \A i \in DOMAIN kid(n) : g[kid(n)[i]] \in V
    <3> HIDE DEF rank, D, V, kid
    <3> QED
      BY <1>2, <1>14
  <2>2. /\ g[n] \in V
        /\ \E b \in ToSet(g[n]) : Whole(n) \in b.symbols
        /\ GoneInto(tree, n) => \A i \in DOMAIN kid(n) : \A b \in ToSet(chunk(kid(n)[i], g)) : HasChunk(g[n], b)
    <3> HIDE DEF D, rank, V, next, kid, chunk
    <3> QED
      BY <1>3, <1>12, <2>1
  <2>3. ~GoneInto(tree, n) => g[n] = SplitNode(tree, lines, n)
    BY <1>12
  <2>4. \A m : chunk(m, g) = CreateChunksFromNode(tree, lines, m)
    BY <1>11 DEF CreateChunksFromNode
  <2>5. GoneInto(tree, n) =>
           \A m \in ToSet(kid(n)) : \A b \in ToSet(CreateChunksFromNode(tree, lines, m)) : HasChunk(g[n], b)
    <3> HIDE DEF chunk, kid
    <3>1. \A m \in ToSet(kid(n)) : \E i \in DOMAIN kid(n) : m = kid(n)[i]
      BY DEF ToSet
    <3> QED
      BY <2>2, <2>4, <3>1
  <2>6. SplitLargeSymbol(tree, lines, n) = g[n]
    BY <1>11
  <2> QED
    BY <2>2, <2>3, <2>5, <2>6 DEF SplitHolds
<1> QED
  BY <1>15

\* createChunksFromNode: the chunks of one symbol.
LEMMA ChunksOfSymbol ==
    ASSUME NEW lines, NEW tree, NEW size, Placed(tree, size, lines), NEW n \in 1..size,
           NEW d, d = CreateChunksFromNode(tree, lines, n)
    PROVE  /\ d \in Seq(FitChunks) /\ d # <<>>
           /\ \E b \in ToSet(d) : Whole(n) \in b.symbols
           /\ FindSymbolNodes(tree, n) = <<>> =>
                 \A i \in tree[n].first..tree[n].last : \E b \in ToSet(d) : i \in b.first..b.last
           /\ TooLong(tree, lines, n) /\ GoneInto(tree, n) =>
                 \A m \in ToSet(FindSymbolNodes(tree, n)) :
                     \A b \in ToSet(CreateChunksFromNode(tree, lines, m)) : HasChunk(d, b)
<1>1. /\ size \in Nat /\ lines \in SomeLines /\ n \in Nat /\ Sized(tree, size)
      /\ tree[n].first \in 1..Len(lines) /\ tree[n].last \in tree[n].first..Len(lines)
  BY DEF Placed, Sized
<1>2. CASE TooLong(tree, lines, n)
  <2>1. d = SplitLargeSymbol(tree, lines, n)
    BY <1>2 DEF CreateChunksFromNode
  <2>2. SplitHolds(tree, lines, n)
    BY SplitIs
  <2>3. /\ d \in Seq(FitChunks) /\ d # <<>>
        /\ \E b \in ToSet(d) : Whole(n) \in b.symbols
        /\ GoneInto(tree, n) =>
              \A m \in ToSet(FindSymbolNodes(tree, n)) :
                  \A b \in ToSet(CreateChunksFromNode(tree, lines, m)) : HasChunk(d, b)
        /\ ~GoneInto(tree, n) => d = SplitNode(tree, lines, n)
    BY <2>1, <2>2, Zenon DEF SplitHolds
  <2>4. ASSUME FindSymbolNodes(tree, n) = <<>>, NEW i \in tree[n].first..tree[n].last
        PROVE  \E b \in ToSet(d) : i \in b.first..b.last
    <3>1. d = SplitNode(tree, lines, n)
      BY <2>3, <2>4 DEF GoneInto
    <3>2. Ancestors(tree, n) \subseteq Nat
      <4>1. Ancestors(tree, n) \subseteq 1..size
        BY <1>1, FoundAre
      <4> QED
        BY <1>1, <4>1
    <3> QED
      BY <1>1, <3>1, <3>2, SplitNodeIs
  <2> QED
    BY <2>3, <2>4
<1>3. CASE ~TooLong(tree, lines, n)
  <2> DEFINE c == CreateChunk(tree, lines, n)
  <2>1. d = <<c>>
    BY <1>3 DEF CreateChunksFromNode
  <2>2. c.first \in 1..tree[n].first /\ c.last = tree[n].last /\ c.symbols = {Whole(n)} /\ c \in FitChunks
    BY <1>1, <1>3, ChunkOfSymbol
  <2> HIDE DEF c
  <2>3. d \in Seq(FitChunks) /\ d # <<>> /\ c \in ToSet(d)
    <3>1. DOMAIN d = {1} /\ d[1] = c
      BY <2>1
    <3>2. c \in ToSet(d)
      BY <3>1 DEF ToSet
    <3> QED
      BY <2>1, <2>2, <3>2
  <2>4. ASSUME NEW i \in tree[n].first..tree[n].last  PROVE i \in c.first..c.last
    BY <1>1, <2>2
  <2> QED
    BY <1>3, <2>2, <2>3, <2>4
<1> QED
  BY <1>2, <1>3

\* Chunk: the chunks of every symbol that is gone into are among those of the file.
LEMMA SymbolsArePlaced ==
    ASSUME NEW lines, NEW tree, NEW size, Placed(tree, size, lines), ~tree[1].named,
           \A k \in 2..size : \E m \in 1..size : k \in Kids(tree, m),
           NEW chunks, chunks = CodeChunks(tree, lines)
    PROVE  /\ chunks \in Seq(FitChunks)
           /\ \A n \in 1..size :
                 tree[n].named /\ (\A a \in Ancestors(tree, n) : TooLong(tree, lines, a))
                    /\ Cardinality(Ancestors(tree, n)) <= MaxCASTSplitDepth =>
                    \A b \in ToSet(CreateChunksFromNode(tree, lines, n)) : HasChunk(chunks, b)
<1> DEFINE D == 1..size
           nodes == FindSymbolNodes(tree, 1)
           own(n) == CreateChunksFromNode(tree, lines, n)
           ss == [i \in DOMAIN nodes |-> own(nodes[i])]
           Deep(n) == /\ tree[n].named /\ \A a \in Ancestors(tree, n) : TooLong(tree, lines, a)
                      /\ Cardinality(Ancestors(tree, n)) <= MaxCASTSplitDepth
           rank == [n \in D |-> n]
           S == {n \in D : Deep(n) => \A b \in ToSet(own(n)) : HasChunk(chunks, b)}
<1>1. size \in Nat /\ 1 \in D /\ Sized(tree, size) /\ \A n \in D : n \in Nat /\ rank[n] \in Nat
  BY DEF Placed, Sized
<1>2. nodes \in Seq(D) /\ Len(nodes) \in Nat /\ DOMAIN nodes = 1..Len(nodes) /\ \A i \in DOMAIN nodes : nodes[i] \in D
  <2>1. nodes \in Seq(D)
    BY <1>1, FindIs
  <2> HIDE DEF nodes
  <2> QED
    BY <2>1, LenProperties, ElementOfSeq
<1>3. ss \in Seq(Seq(FitChunks)) /\ DOMAIN ss = DOMAIN nodes
  <2>1. \A i \in DOMAIN nodes : own(nodes[i]) \in Seq(FitChunks)
    BY <1>2, ChunksOfSymbol
  <2> HIDE DEF own, nodes
  <2>2. ss \in [1..Len(nodes) -> Seq(FitChunks)]
    BY <1>2, <2>1
  <2> QED
    BY <1>2, <2>2
<1>4. chunks = FlattenSeq(ss)
  BY Zenon DEF CodeChunks
<1>5. chunks \in Seq(FitChunks) /\ ToSet(chunks) = UNION {ToSet(ss[i]) : i \in DOMAIN ss}
  <2> HIDE DEF ss
  <2> QED
    BY <1>3, <1>4, FlattenHolds
<1>6. ASSUME NEW n \in ToSet(nodes), NEW b \in ToSet(own(n))  PROVE HasChunk(chunks, b)
  <2>1. PICK i \in DOMAIN nodes : n = nodes[i]
    BY DEF ToSet
  <2>2. i \in DOMAIN ss /\ ss[i] = own(n)
    BY <1>3, <2>1
  <2> HIDE DEF ss, own, nodes
  <2>3. b \in ToSet(chunks)
    BY <1>5, <2>2
  <2> QED
    BY <2>3 DEF HasChunk
<1>7. ASSUME NEW n \in D, \A y \in D : rank[y] < rank[n] => y \in S  PROVE n \in S
  <2> SUFFICES ASSUME Deep(n), NEW b \in ToSet(own(n))  PROVE HasChunk(chunks, b)
    OBVIOUS
  <2>1. CASE n \in ToSet(nodes)
    BY <1>6, <2>1
  <2>2. CASE \E p \in Ancestors(tree, n) :
                /\ p \in 1..size /\ p < n /\ tree[p].named /\ n \in ToSet(FindSymbolNodes(tree, p))
                /\ Ancestors(tree, p) \subseteq Ancestors(tree, n)
                /\ Cardinality(Ancestors(tree, p)) < Cardinality(Ancestors(tree, n))
    <3>1. PICK p \in Ancestors(tree, n) :
                /\ p \in 1..size /\ p < n /\ tree[p].named /\ n \in ToSet(FindSymbolNodes(tree, p))
                /\ Ancestors(tree, p) \subseteq Ancestors(tree, n)
                /\ Cardinality(Ancestors(tree, p)) < Cardinality(Ancestors(tree, n))
      BY <2>2
    <3>2. Cardinality(Ancestors(tree, p)) \in Nat /\ Cardinality(Ancestors(tree, n)) \in Nat
      <4>1. Ancestors(tree, p) \in SUBSET (1..size) /\ Ancestors(tree, n) \in SUBSET (1..size)
        BY <1>1, <3>1, FoundAre
      <4>2. IsFiniteSet(1..size)
        BY <1>1, FS_Interval
      <4> QED
        BY <4>1, <4>2, FS_Subset, FS_CardinalityType
    <3>3. Cardinality(Ancestors(tree, p)) < MaxCASTSplitDepth /\ Cardinality(Ancestors(tree, p)) <= MaxCASTSplitDepth
      BY <3>1, <3>2, ChunkingAssumption
    <3>4. Deep(p) /\ TooLong(tree, lines, p)
      BY <3>1, <3>3
    <3>5. \A e \in ToSet(own(p)) : HasChunk(chunks, e)
      BY <1>7, <3>1, <3>4
    <3>6. GoneInto(tree, p)
      <4>1. ToSet(<<>>) = {}
        BY DEF ToSet
      <4> QED
        BY <3>1, <3>3, <4>1 DEF GoneInto
    <3> HIDE DEF Deep, S
    <3>7. HasChunk(own(p), b)
      BY <3>1, <3>4, <3>6, ChunksOfSymbol
    <3> HIDE DEF own
    <3>8. PICK e \in ToSet(own(p)) : e.first = b.first /\ e.last = b.last /\ b.symbols \subseteq e.symbols
      BY <3>7 DEF HasChunk
    <3>9. PICK c \in ToSet(chunks) : c.first = e.first /\ c.last = e.last /\ e.symbols \subseteq c.symbols
      BY <3>5 DEF HasChunk
    <3> QED
      BY <3>8, <3>9 DEF HasChunk
  <2>3. tree[n].named
    OBVIOUS
  <2> HIDE DEF nodes, own, Deep
  <2> QED
    BY <1>1, <2>1, <2>2, <2>3, NearestIs DEF nodes
<1>8. \A n \in D : n \in S
  <2>1. \A n \in D : rank[n] \in Nat
    BY <1>1
  <2> HIDE DEF D, rank, S
  <2>2. Inductive(D, rank, S)
    BY <1>7, <2>1, Zenon DEF Inductive
  <2> QED
    BY <2>2, RankInduction, Zenon
<1> HIDE DEF own
<1> QED
  BY <1>5, <1>8 DEF own

\* Whatever the syntax tree of a file is: no chunk is larger than the limit, a symbol
\* the chunker goes into is listed with one, and the lines of a symbol that has none
\* in it are all in chunks (createChunksFromNode, splitSymbolRecursive,
\* splitBySemanticChildren, placeParentSymbolsOnce).
THEOREM SymbolsStayListed ==
    \A lines \in SomeLines : \A tree : SomeTree(tree, lines) => KeepsSymbols(tree, lines, CodeChunks(tree, lines))
<1> SUFFICES ASSUME NEW lines \in SomeLines, NEW tree, SomeTree(tree, lines)
             PROVE  KeepsSymbols(tree, lines, CodeChunks(tree, lines))
  OBVIOUS
<1> DEFINE chunks == CodeChunks(tree, lines)
<1>1. PICK size \in Nat \ {0} :
         /\ DOMAIN tree = 1..size
         /\ \A n \in 1..size :
               /\ tree[n].children \in Seq(1..size) /\ tree[n].children \in Seq((n + 1)..size)
               /\ Kids(tree, n) \subseteq (n + 1)..size /\ Kids(tree, n) \subseteq 1..size
               /\ tree[n].named \in BOOLEAN
               /\ tree[n].first \in 1..Len(lines) /\ tree[n].last \in tree[n].first..Len(lines)
         /\ \A n \in 2..size : \E m \in 1..size : n \in Kids(tree, m)
  BY TreeIs
<1>2. Placed(tree, size, lines) /\ ~tree[1].named
  BY <1>1 DEF Placed, Sized, SomeTree
<1>3. /\ chunks \in Seq(FitChunks)
      /\ \A n \in 1..size :
            tree[n].named /\ (\A a \in Ancestors(tree, n) : TooLong(tree, lines, a))
               /\ Cardinality(Ancestors(tree, n)) <= MaxCASTSplitDepth =>
               \A b \in ToSet(CreateChunksFromNode(tree, lines, n)) : HasChunk(chunks, b)
  BY <1>1, <1>2, SymbolsArePlaced
<1> HIDE DEF chunks
<1>4. /\ \A k \in DOMAIN chunks : EstimateTokens(chunks[k].length) <= MaxChunkTokens
      /\ \A d \in ToSet(chunks) : \E k \in DOMAIN chunks : d = chunks[k]
  <2>1. \A k \in DOMAIN chunks : chunks[k] \in FitChunks
    BY <1>3, LenProperties, ElementOfSeq
  <2>2. \A d \in ToSet(chunks) : \E k \in DOMAIN chunks : d = chunks[k]
    BY DEF ToSet
  <2> QED
    BY <2>1, <2>2 DEF FitChunks
<1>5. ASSUME NEW n \in 1..size, tree[n].named, \A a \in Ancestors(tree, n) : TooLong(tree, lines, a),
             Cardinality(Ancestors(tree, n)) <= MaxCASTSplitDepth
      PROVE  /\ \E k \in DOMAIN chunks : Whole(n) \in chunks[k].symbols
             /\ FindSymbolNodes(tree, n) = <<>> =>
                   \A i \in tree[n].first..tree[n].last : \E k \in DOMAIN chunks : i \in chunks[k].first..chunks[k].last
  <2> DEFINE own == CreateChunksFromNode(tree, lines, n)
  <2>1. \A b \in ToSet(own) : HasChunk(chunks, b)
    BY <1>3, <1>5
  <2>2. /\ \E b \in ToSet(own) : Whole(n) \in b.symbols
        /\ FindSymbolNodes(tree, n) = <<>> =>
              \A i \in tree[n].first..tree[n].last : \E b \in ToSet(own) : i \in b.first..b.last
    BY <1>2, ChunksOfSymbol
  <2> HIDE DEF own
  <2>3. \A b \in ToSet(own) : \E k \in DOMAIN chunks :
           chunks[k].first = b.first /\ chunks[k].last = b.last /\ b.symbols \subseteq chunks[k].symbols
    BY <1>4, <2>1 DEF HasChunk
  <2>4. \E k \in DOMAIN chunks : Whole(n) \in chunks[k].symbols
    BY <2>2, <2>3
  <2>5. ASSUME FindSymbolNodes(tree, n) = <<>>, NEW i \in tree[n].first..tree[n].last
        PROVE  \E k \in DOMAIN chunks : i \in chunks[k].first..chunks[k].last
    <3>1. PICK b \in ToSet(own) : i \in b.first..b.last
      BY <2>2, <2>5
    <3>2. PICK k \in DOMAIN chunks : chunks[k].first = b.first /\ chunks[k].last = b.last
      BY <2>3
    <3> QED
      BY <3>1, <3>2
  <2> QED
    BY <2>4, <2>5
<1>6. KeepsSymbols(tree, lines, chunks)
  BY <1>1, <1>4, <1>5 DEF KeepsSymbols
<1> QED
  BY <1>6 DEF chunks
=============================================================================
