SPECIFICATION StoreFairSpec
CONSTANTS
    TextFields = {"label"}
    Texts = {"a"}
    Tags = {"t"}
    ReadOnlyTags = {"r"}
    StoreKeys = {"node", "sender"}
    EntryLimit = 1
    MaxUpdates = 2
    MaxFaults = 2
INVARIANTS
    CheckpointInv
    FlushedIsSaved
PROPERTY
    UpdateReachesFile
CHECK_DEADLOCK FALSE
