CONSTANTS
    Consumers = {w1}
    w1 = w1
    Size = 3
    MaxItems = 1
    Empty = Empty
    ThrowingTasks = {}
SPECIFICATION Spec
INVARIANTS
    AwaitReturnsOnlyWhenDone
