CONSTANTS
    c1 = c1
    c2 = c2
    c3 = c3
    Conns = {c1, c2, c3}
    NoConn = NoConn
    Sends <- ThreeRequests
    Clients = {k1, k2, k3}
    Uses = 2
    Limit = 1
    MaxSignals = 2
SPECIFICATION ServeSpec
INVARIANTS
    FieldsOwn
    CrashOnlyAtEdges
PROPERTIES
    AnsweredOnce
    WorkerComesBack
    StopEndsProcess
CHECK_DEADLOCK FALSE
