\* Three instances, three migrations, deaths and restarts.
SPECIFICATION FairSpec
CONSTANTS
    i1 = i1
    i2 = i2
    i3 = i3
    Instances = {i1, i2, i3}
    N = 3
INVARIANTS
    RecordedIsEffective
    InOrder
    ReadyIsMigrated
PROPERTIES
    SomeoneReady
