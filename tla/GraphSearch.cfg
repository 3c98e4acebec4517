SPECIFICATION Spec
CONSTANTS
  Indexes <- MCIndexes
  Queries <- MCQueries
  Policies <- MCPolicies
  EfSearch = 1
  Oversampling = 1
  DefaultFinalK = 2
  MaxScanTuples = 4
  MaxEntryPoints = 2
  EntrySampleCount = 2
  PayloadSeedCount = 2
  PayloadExactMax = 1
  TightFillMult = 3
  Unit = 50
  GenModulus = 3
  MaxScans = 3
  MaxDead = 1
INVARIANTS BeamSettled
PROPERTIES CollectsSound ShortOnlyWhenExhausted
CHECK_DEADLOCK FALSE
