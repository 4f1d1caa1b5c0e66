SPECIFICATION Spec
CONSTANTS
    TextFields = {"label"}
    Texts = {"a"}
    Tags = {"t"}
    ReadOnlyTags = {"r"}
    Sessions = {s1, s2}
    Objects <- MCObjects
    ResourceTypes = {"node", "sender"}
    Checkpoints <- MCCheckpoints
    Handlers = {h1}
    EntryLimit = 1
    SUBSCRIPTION_BUFFER = 2
    MaxUpdates = 1
    MaxStreams = 2
    MaxAdds = 2
SYMMETRY Symmetry
INVARIANTS
    LiveViewCurrent
    ShownIsStored
CHECK_DEADLOCK FALSE
