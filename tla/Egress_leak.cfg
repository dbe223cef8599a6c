SPECIFICATION Spec
CONSTANTS
    Allowing = {TRUE}
    KillSwitchEnv = TRUE
    AddMayFail = FALSE
    MaxChanges = 1
    MaxStops = 0
CHECK_DEADLOCK FALSE
INVARIANTS
    NoLeakWhenBlocking
