SPECIFICATION Spec
CONSTANTS
    Procs = {p1}
    userOn = userOn
    toggle = toggle
    location = location
    Fields = {userOn, toggle}
    Wide = {}
    Reported = {userOn, toggle}
    BootFields = {userOn}
    NoProc = NoProc
    MaxWrites <- MCMaxWrites
    MaxCrashes = 1
CHECK_DEADLOCK FALSE
PROPERTY UserTogglesWin
