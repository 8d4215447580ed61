CONSTANTS
    e1 = e1
    e2 = e2
    p1 = p1
    p2 = p2
    r1 = r1
    r2 = r2
    r3 = r3
    Requests = {r1, r2, r3}
    Emails = {e1, e2}
    Passwords = {p1, p2}
    Known <- OneUser
    Plans <- MCPlans
    Default = Default
    SessionLength = 1
    MaxTime = 1
SPECIFICATION ApiSpec
INVARIANTS
    ServedAsOwner
    SessionsOfUsers
    FilesOfOwner
    StoredIsOwn
PROPERTIES
    RefreshNeverShortens
    ExpiredForGood
CHECK_DEADLOCK FALSE
