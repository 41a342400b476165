CONSTANTS
  RequestId = {1, 2, 3}
  TotalBlocks = 3
  BlockSize = 2
  MaxBatchTokens = 5
  ChunkSize = 2
  Prompts = {1, 4}
  Outputs = {1, 3}
  Arrivals = {0, 2}
  Workloads <- AllWorkloads
  Configs <- AllConfigs
  Horizons = {3, 12}
  Forever = Forever
  Advance = 2
  PrefillLatencies = {1, 2}
  DecodeLatencies = {1}
  TransferLatencies = {1, 3}
  None = None
  Deployments <- MCDeployments
SPECIFICATION ReportSpec
INVARIANTS CountersMatchLives BusyFitsTime SamplesPossible
  EnergyWithinEnvelope
