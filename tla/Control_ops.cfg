SPECIFICATION Spec
CONSTANTS
    Slots = {p1, p2}
    Locs = {l1, l2}
    BootLoc = l1
    SavedToggle = TRUE
    MaxOps = 3
    MaxFaults = 1
    MaxStops = 1
CHECK_DEADLOCK FALSE
INVARIANTS
    IInv
    StoppedHasOwner
    TunnelFollowsTarget
    LocWasTarget
PROPERTIES
    OpsEnd
    CycleRestores
