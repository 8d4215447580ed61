\* Silent clients allowed; one more worker per thread than MaxOpen.
CONSTANTS
    Conns = {c1, c2}
    NoConn = NoConn
    NumThreads = 2
    NumWorkers = 2
    MaxOpen = 1
SPECIFICATION FairSpec
INVARIANTS
    NothingLost
PROPERTIES
    QueueDrains
    StopNoticed
    EverySocketCloses
