\* Two instances compete for one trigger, fail and die.
SPECIFICATION Spec
CONSTANTS
    i1 = i1
    i2 = i2
    t1 = t1
    t2 = t2
    s1 = s1
    s2 = s2
    NoWorker = NoWorker
    Instances = {i1, i2}
    Triggers = {t1}
    Ids = {t1}
    InternalID <- PrimaryKey
    Workers <- UnevenSlots
    Home <- HomeOfSlot
    Faults = {"crash", "db"}
    MaxHold = 2
    Cap = 0
CHECK_DEADLOCK FALSE
INVARIANTS
    SingleRunner
    RunsUnderLock
    RestartKeepsLock
    NoOrphanLock
PROPERTIES
    OwnershipSpec
