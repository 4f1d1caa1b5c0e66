\* Two seeds compete for two ports and two sessions for one object.
SPECIFICATION Spec
CONSTANTS
    Seeds = {s1, s2}
    Objects = {o1}
    Ports = {p1, p2}
    Rpcs = {t1, t2}
    MaxSessions = 2
    MaxResources = 1
    MaxServers = 3
SYMMETRY Symmetry
INVARIANTS
    NodesInv
    ServersHeld
    IndexesAgree
    ClaimsExclusive
    ListenersDisjoint
PROPERTIES
    NodeStaysUnderSession
    LifecycleSpec
CHECK_DEADLOCK FALSE
