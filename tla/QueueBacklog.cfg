SPECIFICATION FairSpec
CONSTANTS
    Producers = {p1, p2}
    Consumers = {c1, c2}
    Closers = {x1}
    MaxItems = 3
    Outstanding = 3
    NULL = NULL
    Junk = Junk
INVARIANTS
    TypeOK
    SemaphoreAccounts
    ListIsSound
PROPERTIES
    OrderUntilFreed
    NoWakeupLost
