\* Two triggers, a channel of one update that fills up, a connection that breaks.
SPECIFICATION FairSpec
CONSTANTS
    t1 = t1
    t2 = t2
    Triggers = {t1, t2}
    MaxWrites = 2
    Cap = 1
    Faults = {"connection"}
CHECK_DEADLOCK FALSE
INVARIANTS
    NothingLost
PROPERTIES
    ImplementsFeed
    UpdatesArrive
    CtxEndsListener
