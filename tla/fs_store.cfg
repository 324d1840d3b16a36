\* One trigger, two handlers, writes that fail, a channel of two updates.
SPECIFICATION FairSpec
CONSTANTS
    t1 = t1
    t2 = t2
    c1 = c1
    c2 = c2
    NoClient = NoClient
    Triggers = {t1}
    Clients = {c1, c2}
    MaxWrites = 3
    MaxEvents = 3
    Cap = 2
    Faults = {"disk", "watch"}
CHECK_DEADLOCK FALSE
INVARIANTS
    NoSendOnClosed
PROPERTIES
    LoadSeesWholeFiles
    ImplementsFeed
    UpdatesArrive
    ShutdownReturnsIfRead
