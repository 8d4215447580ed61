\* Clients that do not stall; every thread may keep a closed connection.
CONSTANTS
    Conns = {c1, c2, c3}
    NoConn = NoConn
    NumThreads = 2
    NumWorkers = 1
    MaxOpen = 2
SPECIFICATION ClientSpec
PROPERTIES
    AcceptorUnblocks
