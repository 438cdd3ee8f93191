CONSTANTS
    Consumers = {w1, w2}
    w1 = w1
    w2 = w2
    Size = 3
    MaxItems = 4
    Empty = Empty
    ThrowingTasks = {}
SPECIFICATION Spec
SYMMETRY Symmetry
INVARIANTS
    AwaitedNeverBroken
