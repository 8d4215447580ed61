CONSTANTS
    c1 = c1
    c2 = c2
    c3 = c3
    Conns = {c1, c2, c3}
    NoConn = NoConn
    Sends <- ThreeRequests
SPECIFICATION Spec
INVARIANTS
    AnswersOwnRequest
CHECK_DEADLOCK FALSE
