CONSTANTS
    WatchedFile = {"a", "d/b"}
    SubDir = {"d"}
    Root = "root"
    In <- OneSubDir
    MaxChanges = 5
    KernelCap = 3
    PollCap = 2
    OutputCap = 1
    EventsCap = 1
    File <- MCFile
    TooLarge = {}
    Binary = {}
    Symlink = {}
    Sensitive = {}
    IgnoreDir <- MCIgnoreDir
    Contents <- MCContents
    Excludes <- MCExcludes
    OtherLines <- MCOtherLines
    OtherExcludes <- MCOtherExcludes
    Submodules <- MCSubmodules
    SubmodulePatterns <- MCSubmodulePatterns
    MaxSubmoduleDepth = 2
    MaxEdits = 3
    MaxStarts = 2
    MaxChunkTokens = 2
    OverlapTokens = 1
    MaxCASTSplitDepth = 2
    Command = {"setup", "init", "ensure"}
    Tags = {"small", "large"}
    MaxUpsets = 1
    Process = {p1, p2}
    MaxDownloadRetries = 1
    MaxKills = 2
    Machines = {"watcher", "ignore", "chunks", "setup", "download"}
SPECIFICATION Spec
CHECK_DEADLOCK FALSE
INVARIANTS
    NoChangeForgotten
    SettledIndexIsScan
    RulesMeanTheSame
    ChunksHoldTheFile
    SetupIsSound
PROPERTIES
    Settles
