SPECIFICATION NoHistory
CONSTANTS
    Path <- TwoFiles
    Content = {"f", "g", "h"}
    MaxVersion = 2
    Kind <- TwoFilesKind
    Pieces <- TwoFilesPieces
    Model = {"m1"}
    NoModel = "none"
    ServeModel = "m1"
    MaxKills = 0
    FaultyCalls = {}
    MaxFaults = 0
\* The user may stop editing and the process may be left stopped.
CHECK_DEADLOCK FALSE
INVARIANTS
    DeletedFilesLeave
