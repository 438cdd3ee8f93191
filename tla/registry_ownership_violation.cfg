CONSTANTS
    Primitives <- MCPrimitives
    PtrSize = 8
    StructNames = {"S"}
    FieldNames = {1, 2, 3}
    Lengths = {2}
    MaxFields = 1
    MaxTypes = 5
    MaxSize = 9
SPECIFICATION Spec
CHECK_DEADLOCK FALSE
INVARIANTS
    TypesOwned
