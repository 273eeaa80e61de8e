\* Two replicas, one failure of any kind; every run must end.
SPECIFICATION FairSpec
CONSTANTS
    Replicas = {p1, p2}
    NoReplica = NoReplica
    Containers = {1, 2}
    Items = {1}
    Home <- AllInFirst
    BatchSize = 1
    Fine = 2
    Retention = 2
    MaxTime = 4
    MaxFaults = 1
    Broken = {}
INVARIANTS RunsHoldTheLock NoneSkipped
PROPERTIES LiveRowsSurvive RunsEnd NothingStaysExpired
