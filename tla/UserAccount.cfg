\* Three requests, two passwords, one clock tick; two attempts lock.
CONSTANTS
    Passwords = {p1, p2}
    Requests = {1, 2, 3}
    OldLink = 9
    Links = {1, 2, 3, 9}
    OldTokens = 2
    MaxUsers = 2
    MaxAttempts = 2
    LockTime = 1
    LinkTime = 1
    MaxTime = 1

SPECIFICATION Spec

INVARIANTS TypeOK SweptTokensStayDead DeadlocksNeedRefresh

PROPERTIES RowFollowsLedger EveryRequestEnds

CHECK_DEADLOCK FALSE
