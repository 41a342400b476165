CONSTANTS
  Malformed = Malformed
  None = None
  Rows <- MCRows
  MaxRows = 4
  Targets <- MCTargets
  Batches <- MCBatches
  SeqLens <- MCSeqLens
  CommandLines <- MCCommandLines
  Prompts = {1, 4}
  PricedRows = 2
  MaxBatch = 3
  MaxKvLen = 7
  ClampDen = 50
SPECIFICATION PricedSpec
INVARIANTS
  LookupMatchesRows LongerTakesLonger NearestBatchAnswers
  BatchingPays LinksMatchPlacement CrossNodeNeverHelps
  ExpertsShardLikeWeights FewerBitsNeverSlower AdvanceIsExpected PoolFitsMemory
PROPERTY LongerNeverCheaper
CHECK_DEADLOCK FALSE
