SPECIFICATION LockFairSpec
CONSTANTS
    n1 = n1
    w1 = w1
    Free = Free
    Nodes = {n1}
    Threads = {w1}
    ThreadNode <- MCThreadNode
    Requests = {"add", "annotate", "subscribe", "close"}
    KindOf <- MCKindOf
    NodeOf <- MCNodeOf
    Workers = 1
INVARIANT
    LockInv
PROPERTY
    NobodyStarves
CHECK_DEADLOCK FALSE
