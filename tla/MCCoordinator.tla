--------------------------- MODULE MCCoordinator ---------------------------
EXTENDS CoordinatorHistory, TLC

\* Two source files that differ in nothing but their names; the second version
\* shares a piece with the first.
TwoFiles       == {"a.go", "b.go"}
TwoFilesKind   == [p \in Path |-> <<"code", "code">>]
TwoFilesPieces == [p \in Path |-> <<{"f", "g"}, {"g", "h"}>>]
AnyOrder       == Permutations(Path)

\* A source file and a configuration file.
MixedKind   == [p \in TwoFiles |->
                   IF p = "a.go" THEN <<"code", "code", "code">>
                                 ELSE <<"config", "config", "config">>]
MixedPieces == [p \in TwoFiles |->
                   IF p = "a.go" THEN <<{"f"}, {"f", "g"}, {"f"}>>
                                 ELSE <<{}, {}, {}>>]

\* OrdinarySpec and OrdinaryFairSpec, without the history: no property of their
\* runs looks at it.
NoHistoryInit == Init /\ newest = [p \in Path |-> 0]
NoHistory     == /\ NoHistoryInit
                 /\ [][Next /\ NeverEmpty /\ QuietScan /\ CleanStop /\ UNCHANGED newest]_historyVars
NoHistoryFair == NoHistory /\ Fairness
=============================================================================
