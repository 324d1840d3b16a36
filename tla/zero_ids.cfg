\* All triggers have the id 0, as with the in-memory store (store_mock.go:43).
SPECIFICATION Spec
CONSTANTS
    i1 = i1
    i2 = i2
    t1 = t1
    t2 = t2
    s1 = s1
    s2 = s2
    NoWorker = NoWorker
    Instances = {i1}
    Triggers = {t1, t2}
    Ids = {0}
    InternalID <- AlwaysZero
    Workers <- OneInstanceTwoSlots
    Home <- HomeOfSlot
    Faults = {}
    MaxHold = 2
    Cap = 0
CHECK_DEADLOCK FALSE
INVARIANTS
    UpdateStopsOwnWorker
