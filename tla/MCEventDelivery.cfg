SPECIFICATION GroupsSpec
CONSTANTS
    Events = {1}
    Relays = {r1, r2}
    Consumers = {w1, w2}
    Operators = {o1}
    RelayBatch = 2
    ConsumerBatch = 2
    MaxDeliveries = 1
    MaxLen = 9
    MaxFaults = 1
    NotifyDeliveries = 3
INVARIANTS
    NothingLost
    ProcessedIsPostedOnce
    SentWasHanded
PROPERTY
    ImplementsPromise
CHECK_DEADLOCK FALSE
