SPECIFICATION RecordsSpec
CONSTANTS
    p1 = p1
    p2 = p2
    k1 = k1
    k2 = k2
    v1 = v1
    v2 = v2
    Process = {p1, p2}
    Key = {k1, k2}
    Value = {v1, v2}
    Absent = Absent
    Empty = Empty
    NoWrite = NoWrite
    Unique = TRUE
    MaxCrashes = 1
INVARIANTS
    RecordsTypeOK
    RecordsWhole
PROPERTY
    PublishesOwn
