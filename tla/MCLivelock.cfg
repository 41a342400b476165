CONSTANTS
  RequestId = {1, 2}
  TotalBlocks = 2
  BlockSize = 2
  MaxBatchTokens = 8
  ChunkSize = 2
  Prompts = {1}
  Outputs = {3}
  Arrivals = {0}
  Workloads <- AllWorkloads
  Configs <- ContinuousConfigs
  Horizons = {Forever}
  Forever = Forever
  Advance = 1
  PrefillLatencies = {1}
  DecodeLatencies = {1}
  TransferLatencies = {1}
SPECIFICATION Spec
PROPERTY EverybodyServed
