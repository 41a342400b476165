CONSTANTS
  RequestId = {1, 2, 3}
  TotalBlocks = 3
  BlockSize = 2
  MaxBatchTokens = 5
  ChunkSize = 2
  Prompts = {1, 4}
  Outputs = {1, 3}
  Arrivals = {0, 2}
  Workloads <- AllWorkloads
  Configs <- AllConfigs
  Horizons = {Forever, 6}
  Forever = Forever
  Advance = 1
  PrefillLatencies = {1, 2}
  DecodeLatencies = {1, 3}
  TransferLatencies = {1, 3}
SPECIFICATION ObservedSpec
INVARIANTS TypeOK OnePlace BlocksMatchPhases OneEventPerRequest OneDecodeStep
  WorkTakesTurns BatchWithinBudget KvLengthsFit NobodyStranded
  WholePromptCharged
PROPERTIES TickLeavesNoRoom ImplementsLifecycle
