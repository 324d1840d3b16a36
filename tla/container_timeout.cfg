\* A timeout at any step, and no other fault.
SPECIFICATION Spec
CONSTANTS
    Policies = {"always", "missing", "never", "unknown"}
    Settings = {"true"}
    Timed = TRUE
    Faults = {}
CHECK_DEADLOCK FALSE
INVARIANTS
    NothingRunsOn
