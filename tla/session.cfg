CONSTANTS
    PageSize = 2
    NoSnap = NoSnap
    Base = 2
    NumSize = 2
    NumAlign = 2
    Layout <- MCLayout
    Memories <- MCMemories
    ChunkSize = 4
    Filters <- MCFilters
    CompareSizes <- MCCompareSizes
    Numbers <- MCNumbers
    Strings <- MCStrings
    Buffers <- MCBuffers
    Reach = 3
    MaxEvents = 1
    MaxSteps = 4
    MaxNodes = 2
SPECIFICATION Spec
CHECK_DEADLOCK FALSE
INVARIANTS
    SessionTypeOK
PROPERTIES
    CaptureIsHonest
    WholePairsInBounds
    ChangedIsFaithful
    HitsAreReal
    ActiveIsExact
