CONSTANTS
    Consumers = {c1}
    c1 = c1
    Size = 4
    MaxItems = 10
    Empty = Empty
SPECIFICATION QueueSpec
INVARIANTS
    CommitMeansDone
    DeliveredInPlace
    NoSlotRace
    UnclaimedIntact
PROPERTIES
    NeverOverwrites
