SPECIFICATION MCSpec
CHECK_DEADLOCK FALSE
CONSTANTS
  Path <- MCPath
  Shape <- MCShape
  PathOrder <- MCOrder
  MaxTargets = 2
  StaleAfter = 1
  Retention = 0
  TextOf <- MCTextOf
  HalfOf <- MCHalfOf
  Absent = Absent
  Source <- MCSource
  Chunkless = {"none"}
  Blocked = {"secret"}
  MaxEdits = 2
  MaxTroubles = 1
  Faults = {"list", "replace", "mark", "record", "snapshot", "rows", "all"}
  MaxClock = 2
  NodeOrder <- MCNodeOrder
  EdgeOrder <- MCEdgeOrder
  IdOrder <- MCIdOrder
  SourceOrder <- MCSourceOrder
  KindOrder <- MCKindOrder
  Likeness <- MCLikeness
  Distance <- MCDistance
  LooksLikePath <- MCLooksLikePath
  Unsafe <- MCUnsafe
  LanguageOf <- MCLanguageOf
  CodeLanguages = {"go", "rust", "python"}
  Marks <- MCMarks
  Size <- MCSize
  Defaults <- MCDefaults
  Policy <- MCPolicy
  Configured <- MCConfigured
  CandidateLimit = 1
  HintLimit = 2
  MaxDistance = 3
  Project <- MCProject
  PartsOf <- MCPartsOf
  Requests <- MCRequests
  MaxWrites = 2
INVARIANTS
    GraphFollowsIndex
    NoLiveEdgeToDeleted
    NothingDroppedSilently
    EvidenceIsComplete
