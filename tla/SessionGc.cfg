\* Two kinds of stream of one session that end together, and a third
\* subscription that races their tasks.
SPECIFICATION FairSpec
CONSTANTS
    Sessions = {h1}
    Kinds = {is05, is08}
    SubscribeTimeout = 2
    ResubscribeTimeout = 1
    MaxIds = 4
INVARIANT
    GraceInv
PROPERTIES
    LiveStreamKeepsSession
    AbandonedSessionClosed
    RemovalsRun
