SPECIFICATION Spec
CONSTANTS
    Procs = {p1, p2}
    userOn = userOn
    toggle = toggle
    location = location
    Fields = {userOn, toggle, location}
    Wide = {location}
    Reported = {userOn, toggle}
    BootFields = {userOn}
    NoProc = NoProc
    MaxWrites <- MCMaxWrites
    MaxCrashes = 1
CHECK_DEADLOCK FALSE
INVARIANTS
    IInv
    AckedDurable
    AckedVisible
    TornHeals
PROPERTIES
    DiskMonotone
    AtomicSpec
    SaveTerminates
