SPECIFICATION NoHistoryFair
CONSTANTS
    Path <- TwoFiles
    Content = {"f", "g", "h"}
    MaxVersion = 3
    Kind <- MixedKind
    Pieces <- MixedPieces
    Model = {"m1"}
    NoModel = "none"
    ServeModel = "m1"
    MaxKills = 1
    FaultyCalls = {}
    MaxFaults = 0
\* The user may stop editing and the process may be left stopped.
CHECK_DEADLOCK FALSE
INVARIANTS
    StaleIsScheduled
    SearchableUnlessDeleting
PROPERTIES
    Converges
