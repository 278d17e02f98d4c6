SPECIFICATION FairSpec
CONSTANTS
    Threads = {t1, t2, t3}
    k1 = k1
    k2 = k2
    k3 = k3
    Keys = {k1, k2}
    Lens = {1}
    ForceArgs = {TRUE}
    Ops = {"put", "get", "delete", "invalidate"}
    Capacity = 2
    MaxCalls = 3
    Hash <- HashZero
    NULL = NULL
    Free = Free
    ByReaders = ByReaders
    InTable = InTable
INVARIANT NoOrphanLock
PROPERTIES ImplementsRWLock EveryCallReturns
