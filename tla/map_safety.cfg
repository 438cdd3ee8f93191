CONSTANTS
    Consumers = {w1, w2}
    w1 = w1
    w2 = w2
    Size = 4
    MaxItems = 4
    Empty = Empty
    ThrowingTasks = {3}
    Arguments <- ManyArguments
    DataSizes = {1, 5}
    Outside = Outside
SPECIFICATION MapSpec
SYMMETRY Symmetry
INVARIANTS
    MapTypeOK
    ResultsMatchSequential
    BorrowedDataAlive
    VoidTasksRun
    CrashesOnlyOnBadSizes
