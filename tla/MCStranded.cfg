CONSTANTS
  RequestId = {1, 2}
  TotalBlocks = 3
  BlockSize = 2
  MaxBatchTokens = 8
  ChunkSize = 8
  Prompts = {2, 6}
  Outputs = {1}
  Arrivals = {0}
  Workloads <- AllWorkloads
  Configs <- ChunkedConfigs
  Horizons = {Forever}
  Forever = Forever
  Advance = 1
  PrefillLatencies = {1}
  DecodeLatencies = {1}
  TransferLatencies = {1}
SPECIFICATION Spec
INVARIANT FeasibleNotStranded
