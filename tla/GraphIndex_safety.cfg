\* Inserts, VACUUM, scans and caches with the failures the code recovers from.
SPECIFICATION Spec
CONSTANTS
    t1 = t1
    t2 = t2
    t3 = t3
    t4 = t4
    b1 = b1
    b2 = b2
    Tids = {t1, t2}
    Backends = {b1, b2}
    PerPage = 2
    M = 1
    Level <- FlatLevel
    InitTids <- TwoRows
    MaxNodes = 3
    MaxRows = 3
SYMMETRY BackendSymmetry
INVARIANTS
    IndexSound
    NoLostRow
    ScanSound
    ScanComplete
    CacheFresh
