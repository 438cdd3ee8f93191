CONSTANTS
    Consumers = {w1, w2}
    w1 = w1
    w2 = w2
    Size = 3
    MaxItems = 6
    Empty = Empty
    ThrowingTasks = {}
    Arguments <- LongArguments
    DataSizes = {1, 4}
    Outside = Outside
SPECIFICATION MapFairSpec
INVARIANTS
    QueueTypeOK
    PermitsMatchItems
    CommitCountsMoves
    CapacityRespected
    ClaimsDistinct
    ResultsMatchSequential
PROPERTIES
    CallReturns
