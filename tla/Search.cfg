\* Four chunks of four kinds of sources, one of them perhaps gone before the
\* search and one deleted during it, two sub-queries; lists of up to three.
CONSTANTS
    Chunk <- MCChunk
    SourceOf <- MCSourceOf
    SymbolChunk <- MCSymbolChunk
    SymbolRank <- MCSymbolRank
    SymbolMinimum = 1
    ADRChunk <- MCADRChunk
    PathChunk <- MCPathChunk
    Request <- MCRequest
    Policy = "auto"
    MaxSubQueries = 2
    MaxDeletes = 1
    Source <- MCSource
    NoSource = NoSource
    Doc <- MCDoc
    K = 1
    WeightPair <- MCWeightPair
    SubWeights <- MCSubWeights
    Unit = 60
SPECIFICATION Spec
\* A search ends.
CHECK_DEADLOCK FALSE
INVARIANTS
    NoGhostReturned
    DefinitionsAreFound
    FailsOnlyWhenItMust
    FusionIsSound
PROPERTIES
    ProfilesAreRight
