SPECIFICATION Spec
CONSTANTS
    MaxSessions = 2
    MaxChanges = 3
    MaxActivations = 1
    MaxSwapFailures = 1
    MaxErrors = 1
INVARIANTS
    SessionsHeld
    NothingTwice
    PausedIsSynced
    PublishedAgrees
CHECK_DEADLOCK FALSE
