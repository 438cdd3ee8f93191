CONSTANTS
    Consumers = {w1, w2}
    w1 = w1
    w2 = w2
    Size = 4
    MaxItems = 4
    Empty = Empty
    ThrowingTasks = {3}
SPECIFICATION Spec
SYMMETRY Symmetry
INVARIANTS
    TypeOK
    RunningIsCounted
    AwaitLeavesNoneQueued
    AwaitedTasksSurviveDestroy
    DestroySettlesFutures
    AbortsOnlyOnThrow
PROPERTIES
    FutureSettlesOnce
    ServiceImplemented
