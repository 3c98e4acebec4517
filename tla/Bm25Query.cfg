SPECIFICATION Spec
CHECK_DEADLOCK FALSE
CONSTANTS
    Cases <- MCCases
    Nodes = {0, 1, 2, 3, 4}
    Terms = {1, 2, 3, 4}
    MaxTerms = 3
    MaxPerChunk = 2
    MinDf = 2
    HeadK = 3
    Tiers <- MCTiers
    DenseThreshold = 4
    DfPercent = 60
    GenMod = 3
INVARIANTS
    ResultsTrue
    ExactTopK
    FusedBoundSafe
    WandLoopSound
