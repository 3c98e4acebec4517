\* The writers alone on a graph large enough for VACUUM to repair edges.
SPECIFICATION SpecWrite
CONSTANTS
    t1 = t1
    t2 = t2
    t3 = t3
    t4 = t4
    b1 = b1
    b2 = b2
    Tids = {t1, t2, t3}
    Backends = {b1}
    PerPage = 2
    M = 1
    Level <- StepLevel
    InitTids <- ThreeRows
    MaxNodes = 4
    MaxRows = 4
INVARIANT ValidatorOk
PROPERTIES
    RepairSound
CHECK_DEADLOCK FALSE
