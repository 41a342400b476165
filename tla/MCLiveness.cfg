CONSTANTS
  RequestId = {1, 2, 3}
  TotalBlocks = 6
  BlockSize = 2
  MaxBatchTokens = 5
  ChunkSize = 2
  Prompts = {1, 3}
  Outputs = {1, 3}
  Arrivals = {0, 2}
  Workloads <- AllWorkloads
  Configs <- AllConfigs
  Horizons = {Forever, 9}
  Forever = Forever
  Advance = 1
  PrefillLatencies = {2}
  DecodeLatencies = {1}
  TransferLatencies = {3}
SPECIFICATION Spec
PROPERTIES ClockAdvances RunReturns ServedWithoutPressure
