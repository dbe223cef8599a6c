SPECIFICATION Spec
CONSTANTS
    Publishers = {p1, p2}
    Conns = {c1, c2}
    NoProc = NoProc
    BufLen = 2
    MaxEvents = 4
CHECK_DEADLOCK FALSE
INVARIANTS
    IInv
    NoSendOnClosed
    InOrder
PROPERTIES
    NobodyWaits
    WakesSpec
    ReadersWoken
