CONSTANTS
    Queries = {"top", "join", "all", "docs", "bad"}
    Plan <- MCPlan
    Args <- MCArgs
    Index <- MCIndex
    Ranking <- MCRanking
    FirstNodes = 4
    MaxNodes = 5
    MaxDepth = 2
    MaxSubs = 1
    OpenPortals = FALSE
    HashThreshold = 4
    MinSlots = 4
    MinBudget = 2
    LimitMultiplier = 2
    QualityCap = 4
    DefaultFinalK = 2
    MaxUnion = 4
    Scale = 3600
    MaxGeneration = 2
SPECIFICATION Spec
INVARIANT ScanIsolated
INVARIANT LimitedScanNotCapped
 
