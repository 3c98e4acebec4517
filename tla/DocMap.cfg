SPECIFICATION Spec
CONSTANTS
  Tids = {1, 2}
  Rows = {1, 2, 3}
  Shape <- MCShape
  Options <- MCOptions
  NodeCap = 2
  ChunkCap = 2
  PostingCap = 2
  PageCap = 5
  Tables <- MCTables
  MaxOps = 6
INVARIANTS DocMapReadable LoadFailsOnlyBehindInsert ScoredByOwnVectors
CHECK_DEADLOCK FALSE
