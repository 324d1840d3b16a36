\* Workflows of two or three steps of every kind, every container configuration, two deaths of the program.
SPECIFICATION FairRunSpec
CONSTANTS
    a = a
    b = b
    c = c
    Names = {a, b, c}
    NoName = NoName
    Plans <- AllPlans
    Specs <- StepSpecs
    MaxCrashes = 2
    CommandMayFail = TRUE
    RequestMayFail = TRUE
    Policies = {"always", "missing", "never", "unknown"}
    Settings = {"true", "false", "absent"}
    Timed = TRUE
    Faults = {"registry", "create", "start", "wait", "stop", "logs"}
    Maps = {"map"}
    Structs <- SmallStructs
    Envs <- SmallEnvs
CHECK_DEADLOCK FALSE
INVARIANTS
    KeptExitSucceeds
    TrueAnswers
    ParseIsExact
    ReadsRecorded
    OneRepeatPerCrash
    VerdictIsTrue
PROPERTIES
    ImplementsDurableRun
    RunEnds
