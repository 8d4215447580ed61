CONSTANTS
    Threads = {t1, t2}
    NoThread = NoThread
    Requests = {r1, r2}
    NoRequest = NoRequest
SPECIFICATION FairSpec
PROPERTIES
    RetryAnswered
