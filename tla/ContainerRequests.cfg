\* Two requests with a failed command or crash, or three, on two servers.
SPECIFICATION Spec
CONSTANTS
    s1 = s1
    s2 = s2
    c1 = c1
    c2 = c2
    Requests = {1, 2, 3}
    Servers = {s1, s2}
    Caches = {c1, c2}
    CacheMaps <- MCCacheMaps
    Plans <- MCPlans
INVARIANTS ChangesReachTheCache WritersSeeTheirChange AuditTellsTheTruth
PROPERTIES ChangesAreLoggedAndSeen
CHECK_DEADLOCK FALSE
