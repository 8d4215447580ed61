CONSTANTS
    a = a
    b = b
    Unset = Unset
    ParamLists <- MCParamLists
    Answers <- MCAnswers
    Threads = {t1, t2, t3}
    NoThread = NoThread
    Requests = {r1, r2, r3, r4}
    NoRequest = NoRequest
SPECIFICATION DbSpec
INVARIANTS
    ConnectSerialised
    SessionBound
    SessionsClosed
    RowsExact
PROPERTIES
    Answered
