SPECIFICATION Spec
CHECK_DEADLOCK FALSE
CONSTANTS
    Heaps <- MCHeaps
    NodeCount = 10
    Terms = {1, 2, 3, 4}
    TermHash <- MCHash
    TermLen <- MCLen
    Budgets = {14, 17, 19, 22, 60}
    DocCap = 2
    TermCap = 2
    BytesCap = 2
    DocSize = 2
    TermSize = 2
    TidSize = 1
    Max16 = 3
    VarBase = 2
    MaxPerChunk = 3
    MaxDocsPerTuple = 4
    MaxPerImpact = 1
    PerPage = 2
    MinDf = 2
    HeadK = 3
    Precompute = {TRUE, FALSE}
INVARIANTS
    PagesReadBack
    BoundsSound
    WithinBudget
