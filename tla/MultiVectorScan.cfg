SPECIFICATION Spec
CONSTANTS
  Lanes = 2
  BlockQ = 2
  Corpora <- MCCorpora
  Queries <- MCQueries
  Requests <- MCRequests
  Estimates <- MCEstimates
  Options <- MCOptions
  Blind <- MCBlind
  Hidden <- MCHidden
  Dim = 3
  MaxQueryVectors = 3
  SubvectorK = 2
  UniqueDocsPerToken = 3
  MaxRawHits = 6
  DocCandidateK = 4
  ExactRerankK = 3
  PerTokenReservoirK = 1
  CoverageReservoirK = 1
  PlainMaxDocs = 4
  ChunkMin = 2
  ChunkMax = 4
  MaxAccumulator = 60
INVARIANTS RerankTopExact AdmissionSound PerTokenBestAdmitted
CHECK_DEADLOCK FALSE
