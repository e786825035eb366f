CONSTANTS
  MaxId = 6
  Prices <- MCPrices
  Market <- MCMarket
  DepthLimit = 3
  MaxEvent = 1
  MaxBufferSize = 2
  CheckpointDiffThreshold = 2
  Faulty = {}
  LossyBootstrap = TRUE
  None = None
SPECIFICATION Spec
INVARIANT
  BookTracksMarket
CHECK_DEADLOCK FALSE
