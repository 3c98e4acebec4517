\* Progress of VACUUM, inserts and scans, on one backend and one tuple per page.
SPECIFICATION FairSpec
CONSTANTS
    t1 = t1
    t2 = t2
    t3 = t3
    t4 = t4
    b1 = b1
    b2 = b2
    Tids = {t1, t2}
    Backends = {b1}
    PerPage = 1
    M = 1
    Level <- FlatLevel
    InitTids <- TwoRows
    MaxNodes = 3
    MaxRows = 3
PROPERTY Progress
