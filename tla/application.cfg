\* Two callers, in three roles; two triggers and two workflows; four calls, or six of workflows.
SPECIFICATION AppSpec
CONSTANTS
    t1 = t1
    t2 = t2
    c1 = c1
    c2 = c2
    w1 = w1
    w2 = w2
    NoTrigger = NoTrigger
    NilId = NilId
    Triggers = {t1, t2}
    Clients = {c1, c2}
    Callers = {c1, c2}
    Workflows = {w1, w2}
    Roles <- TestsAndServer
    MaxWrites = 3
    MaxEdits = 4
    MaxCalls <- CallBound
    MaxEvents = 2
    Cap = 1
CHECK_DEADLOCK FALSE
INVARIANTS
    ServiceIsCurrent
    ListingSound
PROPERTIES
    OnlyAddIsOvertaken
    ImplementsRegistry
    EventsRouted
