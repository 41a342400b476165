CONSTANTS
  RequestId = {1, 2}
  TotalBlocks = 8
  BlockSize = 2
  MaxBatchTokens = 16
  ChunkSize = 2
  Prompts = {1}
  Outputs = {3}
  Arrivals = {0}
  Workloads <- AllWorkloads
  Configs <- ContinuousConfigs
  Horizons = {Forever}
  Forever = Forever
  Advance = 1
  PrefillLatencies = {1}
  DecodeLatencies = {1}
  TransferLatencies = {3}
SPECIFICATION ObservedSpec
PROPERTY DecodeWaitsForKv
