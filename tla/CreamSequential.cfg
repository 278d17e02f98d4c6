SPECIFICATION FairSpec
CONSTANTS
    Acceptor = main
    Workers = {w1, w2}
    k1 = k1
    k2 = k2
    Keys = {k1, k2}
    KeySize <- SizesAcross
    Requests <- Sequential
    Capacity = 2
    Hash <- HashApart
    MaxItems = 3
    Concurrent = 1
    Impatient = FALSE
    NULL = NULL
    Junk = Junk
    Free = Free
    ByReaders = ByReaders
    InTable = InTable
INVARIANTS AnswersAreRight CachedWasAcknowledged
PROPERTY EveryClientAnswered
