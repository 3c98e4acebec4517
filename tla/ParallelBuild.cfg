SPECIFICATION Spec
CHECK_DEADLOCK FALSE
CONSTANTS
  M = 1
  EfConstruction = 2
  FastEdges = FALSE
  Segments = 1
  Backbone = TRUE
  Pos <- MCPosOf
  Level <- MCLevel
  Key <- MCKey
  MaxRouting = 1
  Representatives = 3
  Strategy = "hybrid"
  Rows <- MCRows
  Indexable <- MCIndexable
  MaxWorkers = 2
  Warmup = 2
  BatchPer = 1
  BatchMax = 2
  InitialHeaps <- MCInitialHeaps
  Workers <- MCWorkers
  MaxFail = 1
INVARIANTS
  
  IndexUsable
PROPERTIES
  BuildsOneScan
  BuildEnds
