CONSTANTS
    Primitives <- MCPrimitives
    PtrSize = 8
    StructNames = {"S", "T"}
    FieldNames = {1, 2, 3}
    Lengths = {2}
    MaxFields = 3
    MaxTypes = 5
    MaxSize = 9
SPECIFICATION Spec
CHECK_DEADLOCK FALSE
INVARIANTS
    RegistryTypeOK
    NothingDanglesWithoutDuplicates
    FieldsInsideStruct
    OverlapNeedsPadding
    CrashesExplained
