CONSTANTS
    Consumers = {w1, w2}
    w1 = w1
    w2 = w2
    Size = 3
    MaxItems = 3
    Empty = Empty
    ThrowingTasks = {}
SPECIFICATION FairSpec
PROPERTIES
    PushReturns
    AwaitReturns
    DestroyReturns
    FuturesSettle
