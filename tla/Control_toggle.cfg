SPECIFICATION Spec
CONSTANTS
    Slots = {p1, p2}
    Locs = {l1, l2}
    BootLoc = l1
    SavedToggle = TRUE
    MaxOps = 2
    MaxFaults = 0
    MaxStops = 0
CHECK_DEADLOCK FALSE
INVARIANTS
    ToggleIsStatus
