SPECIFICATION Spec
CONSTANTS
    Allowing = {TRUE, FALSE}
    KillSwitchEnv = TRUE
    AddMayFail = TRUE
    MaxChanges = 5
    MaxStops = 3
CHECK_DEADLOCK FALSE
INVARIANTS
    IInv
    HonestLast
    HostPathExplained
PROPERTIES
    Converges
