SPECIFICATION FairSpec
CONSTANTS
    r1 = r1
    r2 = r2
    w1 = w1
    w2 = w2
    Sessions = {h1, h2}
    Resources <- MCResources
    Threads <- MCThreads
    ThreadOf <- MCThreadOf
    Buffer = 1
    MaxActivations = 2
INVARIANTS
    RouterInv
    OutcomeFaithful
PROPERTY
    ThreadReleased
CHECK_DEADLOCK FALSE
