\* One instance, one trigger, a channel of one event, every fault but the death of the process.
SPECIFICATION FairSpec
CONSTANTS
    i1 = i1
    i2 = i2
    t1 = t1
    t2 = t2
    s1 = s1
    s2 = s2
    NoWorker = NoWorker
    Instances = {i1}
    Triggers = {t1}
    Ids = {t1}
    InternalID <- PrimaryKey
    Workers <- OneInstanceTwoSlots
    Home <- HomeOfSlot
    Faults = {"db", "decode", "subscribe", "release", "feed"}
    MaxHold = 2
    Cap = 1
CHECK_DEADLOCK FALSE
INVARIANTS
    ClosedIsQuiet
    ActiveIsRegistered
PROPERTIES
    ShutdownCompletes
    SupersededWorkerEnds
    UpdateIsServed
