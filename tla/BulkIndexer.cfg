SPECIFICATION CarefulSpec
CONSTANTS
    Path <- TwoFiles
    Content = {"f", "g", "h"}
    MaxVersion = 2
    Kind <- TwoFilesKind
    Pieces <- TwoFilesPieces
    Model = {"m1", "m2"}
    NoModel = "none"
    Rank <- ScanOrder
    BatchSize = 1
    MaxKills = 1
    FaultyCalls = {"LoadIndexCheckpoint", "LoadCheckpointModel", "SaveFiles", "GetChunksByFile", "bm25.Delete", "DeleteChunksByFile", "SaveChunks", "SaveIndexCheckpoint", "EmbedBatch", "bm25.Index", "GetAllEmbeddings", "SaveChunkEmbeddings", "vector.Save", "UpdateProjectStats", "ClearIndexCheckpoint", "SetState"}
    MaxFaults = 1
\* The user need not run the command again.
CHECK_DEADLOCK FALSE
INVARIANTS
    IncompleteIsBlocked
    ServedIsOfNow
PROPERTIES
    ResumeCompletes
