------------------------- MODULE CoordinatorHistory -------------------------
(***************************************************************************)
(* The coordinator with a history variable, and the promise of IndexPromise *)
(* it is meant to keep.                                                    *)
(***************************************************************************)
EXTENDS Coordinator

VARIABLE newest    \* [Path -> ...]: the newest version the chunk rows ever held

historyVars == <<vars, newest>>

\* What no version of a file is: some of its chunks, or chunks of several versions.
Broken == MaxVersion + 1

\* The version the chunk rows of p are the whole text of, 0 when there are none.
PublishedIn(cs, p) ==
    LET of(v) == /\ {c.gen : c \in ChunksOfPath(cs, p)} = {v}
                 /\ {c.content : c \in ChunksOfPath(cs, p)} = Pieces[p][v]
    IN  CASE ChunksOfPath(cs, p) = {}                        -> 0
          [] ChunksOfPath(cs, p) # {} /\ \E v \in Version : of(v) -> CHOOSE v \in Version : of(v)
          [] OTHER                                           -> Broken

Published(p) == PublishedIn(chunks, p)

HistoryInit == Init /\ newest = [p \in Path |-> Published(p)]

HistoryNext ==
    /\ Next
    /\ newest' = [p \in Path |-> IF PublishedIn(chunks', p) = 0 THEN newest[p]
                                                               ELSE PublishedIn(chunks', p)]

HistorySpec == HistoryInit /\ [][HistoryNext]_historyVars

Promise == INSTANCE IndexPromise
              WITH version <- [p \in Path |-> disk[p].ver],
                   text    <- [p \in Path |-> Published(p)]

\* The coordinator keeps the promise, across edits at any moment, kills,
\* restarts and failing store calls: what the chunk rows of a file hold is a
\* whole text of that file, and a later one never gives way to an earlier one.
KeepsPromise == Promise!Spec

=============================================================================
