CONSTANTS
    b1 = b1
    b2 = b2
    Backends = {b1, b2}
    Terms = {1, 2}
    Buckets = {1, 2}
    BucketNo <- BucketNoDef
    InitDocs <- InitDocsDef
    NewDocs <- NewDocsDef
    Readers = {b1}
    Queries <- QueriesDef
    PerPage = 1
    Threshold = 25
    MaxNodes = 3
    MaxVacuums = 1
    MaxQueries = 2
    MaxDeletes = 1
    MaxFaults = 1
SPECIFICATION Spec
INVARIANTS
    StoreExact
    BookkeepingAgrees
    QueryExact
CHECK_DEADLOCK FALSE
