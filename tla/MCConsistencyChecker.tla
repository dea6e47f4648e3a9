------------------------ MODULE MCConsistencyChecker ------------------------
EXTENDS ConsistencyChecker

TwoFiles       == {"a.go", "b.go"}
TwoFilesKind   == [p \in TwoFiles |-> <<"code", "code">>]
TwoFilesPieces == [p \in TwoFiles |-> <<{"f", "g"}, {"g", "h"}>>]
=============================================================================
