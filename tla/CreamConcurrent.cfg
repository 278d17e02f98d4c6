SPECIFICATION Spec
CONSTANTS
    Acceptor = main
    Workers = {w1, w2}
    k1 = k1
    k2 = k2
    Keys = {k1, k2}
    KeySize <- SizesInside
    Requests <- Puts
    Capacity = 2
    Hash <- HashApart
    MaxItems = 2
    Concurrent = 2
    Impatient = FALSE
    NULL = NULL
    Junk = Junk
    Free = Free
    ByReaders = ByReaders
    InTable = InTable
INVARIANT WorkerServesWhatItDequeued
