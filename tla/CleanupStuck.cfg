\* One replica, no failure; the deletion of one container always times out.
SPECIFICATION FairSpec
CONSTANTS
    Replicas = {p1}
    NoReplica = NoReplica
    Containers = {1, 2}
    Items = {1}
    Home <- AllInFirst
    BatchSize = 1
    Fine = 2
    Retention = 2
    MaxTime = 4
    MaxFaults = 0
    Broken = {1}
PROPERTY RunsEnd
