\* Two overlapping requests, two logins, one failure.
SPECIFICATION Spec
CONSTANTS
    Requests = {r1, r2}
    Tokens = {t1, t2, t3}
    NoToken = NoToken
    MaxLogins = 2
    SessionLimit = 1
    MaxStrays = 1
    MaxPassword = 1
    MaxFaults = 1
SYMMETRY Symmetry
INVARIANTS OneActiveTokenPerSession BarredSessionsStayRevoked StoresAgree IndexWithinLimit
PROPERTIES DeadSessionsStayDead KeepsLedger
CHECK_DEADLOCK FALSE
