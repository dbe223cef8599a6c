SPECIFICATION FilesSpec
CONSTANTS
    Writers = {w1, w2}
    Others = {o1, o2}
    Junk = Junk
    Countries = {c1, c2}
    Cities = {t1}
    NoLine = NoLine
    NoCity = NoCity
    MaxEdits = 4
    MaxFaults = 2
    Slugs = {s1, s2, s3}
    Versions = {v1, v2}
    Keys = {k1, k2, k3}
    EnvKey = EnvKey
    Absent = Absent
    Empty = Empty
SYMMETRY Symmetric
CHECK_DEADLOCK FALSE
INVARIANTS
    IInv
    EditsKeepTheRest
    CountryAlwaysThere
    StoreInv
    KeyKept
    ListExact
