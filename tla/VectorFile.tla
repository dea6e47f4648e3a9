----------------------------- MODULE VectorFile -----------------------------
(***************************************************************************)
(* The vector store (HNSWStore) of one process and the two files it is     *)
(* saved in: vectors.hnsw, the graph, and vectors.hnsw.meta, the key of    *)
(* every id.  Deletion is lazy: a node of the graph whose key has no id is *)
(* an orphan, and a key is never given twice.  Only stores that were made  *)
(* anew are saved: amanmcp index, amanmcp compact and background           *)
(* compaction all start from NewHNSWStore, with its keys; a store that was *)
(* loaded (serve, daemon, search) is used and never saved.                 *)
(***************************************************************************)
EXTENDS Naturals, FiniteSets, Functions

CONSTANTS
    VectorId,    \* ids of vectors (chunk ids)
    MaxVectors,  \* bound: vectors ever added, which name the vectors
    NoKey, NoVector, NoFile

Vector    == 1..MaxVectors
VectorKey == 0..MaxVectors

SavedGraph == [VectorKey -> Vector \cup {NoVector}]
SavedIDs   == [idMap : [VectorId -> VectorKey \cup {NoKey}], nextKey : VectorKey]

ASSUME VectorAssumption ==
    /\ MaxVectors \in Nat
    /\ NoKey \notin VectorKey
    /\ NoFile \notin SavedGraph \cup SavedIDs

VARIABLES
    graph,      \* [VectorKey -> Vector or NoVector]: the nodes of the HNSW graph
    idMap,      \* [VectorId -> VectorKey or NoKey]
    keyMap,     \* [VectorKey -> VectorId or NoVector], the other way round
    nextKey,
    storeAt,    \* "new", "fresh" (used without Load), "saving" (between the two
                \* renames), "serving" (loaded, or saved), "mixed" (loaded from a
                \* graph and ids of two saves), "down"
    graphFile,  \* NoFile, or the graph as it was saved
    metaFile,   \* NoFile, or the ids and nextKey as they were saved
    added,      \* number of vectors added so far
    given,      \* the vector its users have last given this store for each id
    lastSave,   \* what had been given to the store of the last Save that returned nil
    torn        \* a graph was renamed into place and its ids have not followed

memoryVars == <<graph, idMap, keyMap, nextKey, given>>
vectorFileVars == <<graph, idMap, keyMap, nextKey, given, storeAt, graphFile, metaFile, added, lastSave, torn>>

NoVectors == [id \in VectorId |-> NoVector]

\* What a store answers for each id, from its graph and its ids.
VectorsOf(g, ids) ==
    [id \in VectorId |-> IF ids[id] = NoKey THEN NoVector ELSE g[ids[id]]]

\* NewHNSWStore
NewHNSWStore ==
    /\ graph' = [k \in VectorKey |-> NoVector]
    /\ idMap' = [id \in VectorId |-> NoKey]
    /\ keyMap' = [k \in VectorKey |-> NoVector]
    /\ nextKey' = 0
    /\ given' = NoVectors

VectorFileTypeOK ==
    /\ graph \in SavedGraph
    /\ idMap \in [VectorId -> VectorKey \cup {NoKey}]
    /\ keyMap \in [VectorKey -> VectorId \cup {NoVector}]
    /\ nextKey \in VectorKey
    /\ storeAt \in {"new", "fresh", "saving", "serving", "mixed", "down"}
    /\ graphFile \in SavedGraph \cup {NoFile}
    /\ metaFile \in SavedIDs \cup {NoFile}
    /\ added \in 0..MaxVectors
    /\ given \in [VectorId -> Vector \cup {NoVector}]
    /\ lastSave \in [VectorId -> Vector \cup {NoVector}]
    /\ torn \in BOOLEAN

VectorFileInit ==
    /\ graph = [k \in VectorKey |-> NoVector]
    /\ idMap = [id \in VectorId |-> NoKey]
    /\ keyMap = [k \in VectorKey |-> NoVector]
    /\ nextKey = 0
    /\ storeAt = "new"
    /\ graphFile = NoFile
    /\ metaFile = NoFile
    /\ added = 0
    /\ given = NoVectors
    /\ lastSave = NoVectors
    /\ torn = FALSE

InUse == storeAt \in {"fresh", "serving", "mixed"}

\* Lazy deletion: both maps lose the id, the node stays in the graph.
ForgetID(id) ==
    /\ idMap' = [idMap EXCEPT ![id] = NoKey]
    /\ keyMap' = IF idMap[id] = NoKey THEN keyMap
                 ELSE [keyMap EXCEPT ![idMap[id]] = NoVector]

\* HNSWStore.Add of one id: an id that is there is orphaned first.
AddVector(id) ==
    /\ InUse
    /\ added < MaxVectors
    /\ added' = added + 1
    /\ graph' = [graph EXCEPT ![nextKey] = added + 1]
    /\ idMap' = [idMap EXCEPT ![id] = nextKey]
    /\ keyMap' = [k \in VectorKey |-> IF k = nextKey THEN id
                                      ELSE IF k = idMap[id] THEN NoVector ELSE keyMap[k]]
    /\ nextKey' = nextKey + 1
    /\ given' = [given EXCEPT ![id] = added + 1]
    /\ UNCHANGED <<storeAt, graphFile, metaFile, lastSave, torn>>

\* HNSWStore.Delete
DeleteVector(id) ==
    /\ InUse
    /\ idMap[id] # NoKey
    /\ ForgetID(id)
    /\ given' = [given EXCEPT ![id] = NoVector]
    /\ UNCHANGED <<graph, nextKey, storeAt, graphFile, metaFile, added, lastSave, torn>>

\* Save, the first half: the exported graph is renamed into place, over the graph
\* of an earlier save.  An error before the rename removes the temporary file and
\* leaves everything alone.
SaveGraph ==
    /\ storeAt = "fresh"
    /\ graphFile' = graph
    /\ torn' = TRUE
    /\ storeAt' = "saving"
    /\ UNCHANGED <<memoryVars, metaFile, added, lastSave>>

\* saveMetadata: the second rename, after which the store is used on and not
\* saved again, or an error, with which its process or compaction ends.  The read
\* lock is held from the first half on: nothing is added.
SaveMetadata ==
    /\ storeAt = "saving"
    /\ metaFile' = [idMap |-> idMap, nextKey |-> nextKey]
    /\ lastSave' = given
    /\ torn' = FALSE
    /\ storeAt' = "serving"
    /\ UNCHANGED <<memoryVars, graphFile, added>>

\* A slip: nextKey stays as NewHNSWStore has set it.
LoadMetadataOnly ==
    /\ idMap' = metaFile.idMap
    /\ nextKey' = nextKey
    /\ keyMap' = [k \in VectorKey |->
                    IF \E id \in VectorId : metaFile.idMap[id] = k
                    THEN CHOOSE id \in VectorId : metaFile.idMap[id] = k ELSE NoVector]

\* loadMetadata: keyMap is rebuilt from the ids.
LoadMetadata ==
    /\ idMap' = metaFile.idMap
    /\ nextKey' = metaFile.nextKey
    /\ keyMap' = [k \in VectorKey |->
                    IF \E id \in VectorId : metaFile.idMap[id] = k
                    THEN CHOOSE id \in VectorId : metaFile.idMap[id] = k ELSE NoVector]

\* Load: the ids, then the graph.  Every caller looks for the graph file first.
LoadVectors ==
    /\ storeAt = "new"
    /\ graphFile # NoFile
    /\ metaFile # NoFile
    /\ LoadMetadata
    /\ graph' = graphFile
    /\ given' = lastSave
    /\ storeAt' = IF torn THEN "mixed" ELSE "serving"
    /\ UNCHANGED <<graphFile, metaFile, added, lastSave, torn>>

\* A store that is used without Load: there is no file to load or no file of
\* ids, which LoadVectors refuses, or its maker builds the index anew.
UseEmpty ==
    /\ storeAt = "new"
    /\ storeAt' = "fresh"
    /\ UNCHANGED <<memoryVars, graphFile, metaFile, added, lastSave, torn>>

\* Close, a Save that fails, or a crash, at any moment: only the files are left.
CloseOrCrash ==
    /\ storeAt \notin {"new", "down"}
    /\ storeAt' = "down"
    /\ NewHNSWStore
    /\ UNCHANGED <<graphFile, metaFile, added, lastSave, torn>>

\* The next process makes a store.
NextProcess ==
    /\ storeAt = "down"
    /\ storeAt' = "new"
    /\ NewHNSWStore
    /\ UNCHANGED <<graphFile, metaFile, added, lastSave, torn>>

VectorFileNext ==
    \/ \E id \in VectorId : AddVector(id) \/ DeleteVector(id)
    \/ SaveGraph \/ SaveMetadata
    \/ LoadVectors \/ UseEmpty \/ CloseOrCrash \/ NextProcess

VectorFileSpec == VectorFileInit /\ [][VectorFileNext]_vectorFileVars

-----------------------------------------------------------------------------
(* Reads.                                                                  *)

\* Search: the graph knows nothing of ids, so orphans take places among the
\* nodes that are found and are skipped afterwards.
SearchResult(found) == {keyMap[k] : k \in found} \ {NoVector}

\* AllIDs, Contains and Count read idMap; Stats compares it with the graph.
AllIDs      == {id \in VectorId : idMap[id] # NoKey}
GraphNodes  == {k \in VectorKey : graph[k] # NoVector}
OrphanNodes == GraphNodes \ Range(idMap)

-----------------------------------------------------------------------------
(* Properties.                                                             *)

\* The files say what the last completed Save had.
FilesAreLastSave ==
    lastSave = IF NoFile \in {metaFile, graphFile} THEN NoVectors ELSE VectorsOf(graphFile, metaFile.idMap)

\* Save is atomic, a crash included (hnsw.go:285-286, "Uses atomic save (temp file +
\* rename)"). It is not where the process ends between the renames: a store made
\* anew gives the keys of the old ids to vectors of its own.
SaveIsAtomic == storeAt # "saving" => FilesAreLastSave

\* What is true of the vector file (hnsw.go:81-426). Unless a Save was cut between
\* its renames and none has completed since, the files say what the last one had;
\* and a store that was not loaded from such files answers each id with the vector
\* last given for it, by this process or before the save it has loaded, whatever was
\* added, deleted and added again, saved and loaded in between.
VectorsAreTheirs ==
    /\ ~torn => FilesAreLastSave
    /\ storeAt # "mixed" => VectorsOf(graph, idMap) = given

=============================================================================
