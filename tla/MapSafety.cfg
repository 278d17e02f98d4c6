SPECIFICATION Spec
CONSTANTS
    Threads = {t1, t2}
    k1 = k1
    k2 = k2
    k3 = k3
    Keys = {k1, k2, k3}
    Lens = {1}
    ForceArgs = {TRUE, FALSE}
    Ops = {"put", "get", "delete", "clear"}
    Capacity = 2
    MaxCalls = 4
    Hash <- HashMixed
    NULL = NULL
    Free = Free
    ByReaders = ByReaders
    InTable = InTable
SYMMETRY ThreadSymmetry
INVARIANTS
    TypeOK
    LockProtocol
    SizeCountsLive
    ProbeChains
    OwnedBuffers
CHECK_DEADLOCK FALSE
