---------------------------- MODULE IndexPromise ----------------------------
(***************************************************************************)
(* What an incremental index promises of the text of each file, whoever    *)
(* keeps it and however: a text is published as a whole or not at all, it  *)
(* is one the file has had, it is withdrawn before another one takes its   *)
(* place, and it is never older than one published before, whatever is     *)
(* killed, restarted or fails in between.                                  *)
(***************************************************************************)
EXTENDS Naturals

CONSTANTS Path, MaxVersion

VARIABLES
    version,   \* how often the user has edited the file
    text,      \* the version a search can find, 0 for none
    newest     \* the newest version ever published, 0 for none

vars == <<version, text, newest>>

Init ==
    /\ version \in [Path -> 0..1]
    /\ text \in [Path -> 0..1]
    /\ \A p \in Path : text[p] <= version[p]
    /\ newest = text

Edit(p) ==
    /\ version[p] < MaxVersion
    /\ version' = [version EXCEPT ![p] = @ + 1]
    /\ UNCHANGED <<text, newest>>

Withdraw(p) ==
    /\ text[p] # 0
    /\ text' = [text EXCEPT ![p] = 0]
    /\ UNCHANGED <<version, newest>>

Publish(p, v) ==
    /\ text[p] = 0
    /\ newest[p] <= v
    /\ v <= version[p]
    /\ text' = [text EXCEPT ![p] = v]
    /\ newest' = [newest EXCEPT ![p] = v]
    /\ UNCHANGED version

Next == \E p \in Path : Edit(p) \/ Withdraw(p) \/ \E v \in 1..MaxVersion : Publish(p, v)

Spec == Init /\ [][Next]_vars

=============================================================================
