SPECIFICATION Spec
CONSTANTS
    Producers = {p1, p2}
    Consumers = {c1, c2}
    Closers = {}
    MaxItems = 4
    Outstanding = 2
    NULL = NULL
    Junk = Junk
PROPERTIES
    ImplementsFifo
SYMMETRY ThreadSymmetry
