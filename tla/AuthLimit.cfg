\* One request at a time, no failure: a second login at a limit of one.
SPECIFICATION Spec
CONSTANTS
    Requests = {r1}
    Tokens = {t1, t2, t3}
    NoToken = NoToken
    MaxLogins = 2
    SessionLimit = 1
    MaxStrays = 1
    MaxPassword = 0
    MaxFaults = 0
INVARIANTS LiveSessionsListed
CHECK_DEADLOCK FALSE
