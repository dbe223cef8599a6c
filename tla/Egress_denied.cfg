SPECIFICATION Spec
CONSTANTS
    Allowing = {FALSE}
    KillSwitchEnv = FALSE
    AddMayFail = FALSE
    MaxChanges = 1
    MaxStops = 0
CHECK_DEADLOCK FALSE
PROPERTIES
    DirectWhenOff
