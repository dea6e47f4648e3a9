--------------------------- MODULE MCBulkIndexer ---------------------------
EXTENDS BulkIndexer

\* A source file, and before it in the scan one that at first holds a secret.
TwoFiles       == {"a.go", "b.go"}
TwoFilesKind   == [p \in TwoFiles |->
                      IF p = "a.go" THEN <<"refused", "code">> ELSE <<"code", "code">>]
TwoFilesPieces == [p \in TwoFiles |->
                      IF p = "a.go" THEN <<{}, {"f"}>> ELSE <<{"f", "g"}, {"g", "h"}>>]

\* Files and their pieces in alphabetical order.
ScanOrder == [id \in TwoFiles \X {"f", "g", "h"} |->
                 (IF id[1] = "a.go" THEN 0 ELSE 3)
                 + (CASE id[2] = "f" -> 0 [] id[2] = "g" -> 1 [] id[2] = "h" -> 2)]
=============================================================================
