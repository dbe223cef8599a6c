SPECIFICATION NativeSpec
CONSTANTS
    Endpoints = {e1, e2}
    NoEndpoint = NoEndpoint
    Last = 5
    Locations <- MCLocations
    Preferences <- MCPreferences
CHECK_DEADLOCK FALSE
INVARIANTS
    IInv
    NoLoop
    ArmedBlocks
    SearchInv
PROPERTIES
    CallsEnd
    GivesUpExhausted
    NextIsNearest
    RecoverEnds
