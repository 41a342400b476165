CONSTANTS
  RequestId = {1}
  TotalBlocks = 4
  BlockSize = 2
  MaxBatchTokens = 8
  ChunkSize = 2
  Prompts = {6}
  Outputs = {1}
  Arrivals = {0}
  Workloads <- AllWorkloads
  Configs <- ChunkedConfigs
  Horizons = {Forever}
  Forever = Forever
  Advance = 1
  PrefillLatencies = {1}
  DecodeLatencies = {1}
  TransferLatencies = {1}
SPECIFICATION ObservedSpec
INVARIANT ChunksCoverPrompt
