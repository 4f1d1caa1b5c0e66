SPECIFICATION FairSpec
CONSTANTS
    Seeds = {s1}
    Objects = {o1, o2}
    Ports = {p1, p2}
    Rpcs = {t1, t2}
    MaxSessions = 2
    MaxResources = 1
    MaxServers = 2
PROPERTY
    OrphanServerDestroyed
CHECK_DEADLOCK FALSE
