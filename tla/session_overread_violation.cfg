CONSTANTS
    PageSize = 2
    NoSnap = NoSnap
    Base = 2
    NumSize = 2
    NumAlign = 2
    Layout <- MCLayout
    Memories <- MCMemories
    ChunkSize = 4
    Filters <- MCFilters
    CompareSizes = {}
    Numbers <- MCNumbers
    Strings = {}
    Buffers = {}
    Reach = 1
    MaxEvents = 1
    MaxSteps = 3
    MaxNodes = 2
SPECIFICATION Spec
CHECK_DEADLOCK FALSE
PROPERTIES
    NumberScansInBounds
