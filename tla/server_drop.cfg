CONSTANTS
    Conns = {c1, c2, c3}
    NoConn = NoConn
    NumThreads = 1
    NumWorkers = 1
    MaxOpen = 2
SPECIFICATION Spec
INVARIANTS
    ClosedProperly
