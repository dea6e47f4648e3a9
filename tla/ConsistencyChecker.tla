------------------------ MODULE ConsistencyChecker ------------------------
(***************************************************************************)
(* The consistency check serve makes when it starts: a comparison of       *)
(* counts before the watcher is set up and, when they differ, a full check *)
(* and a repair in a goroutine of its own.  The full check reads the three *)
(* stores one after the other, the repair deletes from two of them by what *)
(* was read, and the coordinator goes on writing all three meanwhile.      *)
(***************************************************************************)
EXTENDS Coordinator

VARIABLES
    check,         \* the checker's next step, "off" when there is none
    seenMetadata,  \* IDs of chunks with an embedding
    seenBM25,      \* IDs in the BM25 index
    seenVector     \* IDs in the vector store

checkVars == <<check, seenMetadata, seenBM25, seenVector>>
allVars   == <<vars, checkVars>>

NothingSeen == seenMetadata = {} /\ seenBM25 = {} /\ seenVector = {}
Forget      == seenMetadata' = {} /\ seenBM25' = {} /\ seenVector' = {}

CheckInit == Init /\ check = "off" /\ NothingSeen

-----------------------------------------------------------------------------
\* runServe makes the quick check after it has loaded the vectors.
StartChecked ==
    /\ Start
    /\ check' = "quick"
    /\ Forget

\* The goroutine dies with the process.
KillChecked ==
    /\ Kill
    /\ check' = "off"
    /\ Forget

\* QuickCheck: counts only.  An error is logged and nothing is checked.
QuickCheck ==
    /\ check = "quick"
    /\ \/ /\ check' = IF /\ Cardinality(EmbeddedIDs(chunks)) = Cardinality(bm25)
                         /\ Cardinality(EmbeddedIDs(chunks)) = Cardinality(vector)
                      THEN "off" ELSE "readMetadata"
          /\ Succeeds
       \/ check' = "off" /\ Fails("GetAllEmbeddings")
    /\ UNCHANGED <<disk, storeVars, vectorFile, phase, pending, todo, handlerVars, kills,
                   seenMetadata, seenBM25, seenVector>>

\* What the coordinator and the user do in the meantime.  Reconciliation is
\* set up only after the quick check.
Others ==
    /\ \/ User
       \/ check # "quick" /\ DetectChanges
       \/ StartWatcher
       \/ \E p \in Path : ApplyChange(p) \/ HandleEvent(p)
       \/ Handler
    /\ UNCHANGED checkVars

Reads == UNCHANGED <<disk, storeVars, vectorFile, phase, pending, todo, handlerVars, kills>>

\* Check, one store at a time.
ReadMetadata ==
    /\ check = "readMetadata"
    /\ \/ seenMetadata' = EmbeddedIDs(chunks) /\ check' = "readBM25" /\ Succeeds
       \/ seenMetadata' = {} /\ check' = "off" /\ Fails("GetAllEmbeddings")
    /\ UNCHANGED <<seenBM25, seenVector>>
    /\ Reads

ReadBM25 ==
    /\ check = "readBM25"
    /\ check' = "readVector"
    /\ \/ seenBM25' = bm25 /\ Succeeds
       \/ seenBM25' = {} /\ Fails("bm25.AllIDs")
    /\ UNCHANGED <<seenMetadata, seenVector>>
    /\ Reads

ReadVector ==
    /\ check = "readVector"
    /\ check' = "repairBM25"
    /\ seenVector' = vector
    /\ UNCHANGED <<seenMetadata, seenBM25, faults>>
    /\ Reads

\* Mutation of Orphans: the other index is taken for the source of truth.
OrphansOfTheOther(seen) == seen \ (seenVector \cap seenBM25)

\* Entries without matching metadata.
Orphans(seen) == seen \ seenMetadata

\* Mutation of RepairVector: the orphans of BM25 are removed twice.
RepairVectorByBM25 ==
    /\ check = "repairVector"
    /\ vector' = vector \ Orphans(seenBM25)
    /\ check' = "off"
    /\ Forget
    /\ UNCHANGED <<disk, rows, chunks, indexModel, bm25, vectorFile, phase, pending, todo,
                   handlerVars, kills, faults>>

\* Repair: orphans are deleted, best effort; missing entries only logged.
RepairBM25 ==
    /\ check = "repairBM25"
    /\ check' = "repairVector"
    /\ \/ bm25' = bm25 \ Orphans(seenBM25) /\ Succeeds
       \/ bm25' = bm25 /\ Fails("bm25.Delete")
    /\ UNCHANGED <<disk, rows, chunks, indexModel, vector, vectorFile, phase, pending, todo,
                   handlerVars, kills, seenMetadata, seenBM25, seenVector>>

RepairVector ==
    /\ check = "repairVector"
    /\ vector' = vector \ Orphans(seenVector)
    /\ check' = "off"
    /\ Forget
    /\ UNCHANGED <<disk, rows, chunks, indexModel, bm25, vectorFile, phase, pending, todo,
                   handlerVars, kills, faults>>

Checker == QuickCheck \/ ReadMetadata \/ ReadBM25 \/ ReadVector \/ RepairBM25 \/ RepairVector

CheckNext == StartChecked \/ KillChecked \/ Others \/ Checker

\* The check has the stores to itself, from its first read to the last repair,
\* and the process is not killed inside a handler.
Alone ==
    /\ check \notin {"off", "quick"} => UNCHANGED <<pc, phase>> \/ phase' = "down"
    /\ pc # "idle" => phase' # "down"

AloneSpec == CheckInit /\ [][CheckNext /\ Alone]_allVars

-----------------------------------------------------------------------------
(* Properties.                                                             *)

\* Repair takes nothing away that a search needs: what it removes from BM25 or
\* from the vector store is the ID of no chunk row.
RepairKeepsLiveEntries ==
    [][Checker => /\ (bm25 \ bm25') \cap IDs(chunks) = {}
                  /\ (vector \ vector') \cap IDs(chunks) = {}]_allVars

\* After a repair nothing is left of what earlier failures or an old vector
\* file left behind: every entry belongs to a chunk row.  Of a BM25 index that
\* could not be read nothing is known.
RepairRemovesOrphans ==
    [][/\ RepairBM25 /\ seenBM25 # {} /\ faults' = faults => bm25' \subseteq IDs(chunks)
       /\ check = "repairVector" /\ check' = "off" /\ phase' # "down"
             => vector' \subseteq IDs(chunks)]_allVars

=============================================================================
