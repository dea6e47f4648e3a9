SPECIFICATION AloneSpec
CONSTANTS
    Path <- TwoFiles
    Content = {"f", "g", "h"}
    MaxVersion = 2
    Kind <- TwoFilesKind
    Pieces <- TwoFilesPieces
    Model = {"m1"}
    NoModel = "none"
    ServeModel = "m1"
    MaxKills = 1
    FaultyCalls = {"GetChunksByFile", "DeleteFile", "bm25.Delete", "DeleteChunks", "SaveFiles", "bm25.Index", "vector.Add", "SaveChunks", "SetState", "GetAllEmbeddings", "bm25.AllIDs"}
    MaxFaults = 1
\* The user may stop editing and the process may be left stopped.
CHECK_DEADLOCK FALSE
PROPERTIES
    RepairKeepsLiveEntries
    RepairRemovesOrphans
