CONSTANTS
    Consumers = {w1}
    w1 = w1
    Size = 3
    MaxItems = 2
    Empty = Empty
    ThrowingTasks = {}
    Arguments <- UnequalArguments
    DataSizes = {1}
    Outside = Outside
SPECIFICATION MapSpec
INVARIANTS
    UnequalPreparesNothing
