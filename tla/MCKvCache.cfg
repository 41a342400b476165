CONSTANTS
  RequestId = {1, 2, 3}
  TotalBlocks = 5
  BlockSize = 2
  TokenCounts = {0, 1, 2, 5}
SPECIFICATION KvSpec
INVARIANTS KvTypeOK BlocksConserved RoomForGrantedTokens
