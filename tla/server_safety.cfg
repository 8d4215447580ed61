\* Fewer workers than admitted connections: dequeue may find none free.
CONSTANTS
    Conns = {c1, c2, c3, c4}
    NoConn = NoConn
    NumThreads = 2
    NumWorkers = 1
    MaxOpen = 2
SPECIFICATION Spec
SYMMETRY ConnSymmetry
INVARIANTS
    TypeOK
    OneOwner
    CountExact
    WithinLimit
    SocketUsable
    RetentionBound
PROPERTIES
    LifecycleSpec
