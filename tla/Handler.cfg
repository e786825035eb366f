SPECIFICATION FairSpec
CONSTANTS
  MaxId = 6
  Prices <- MCPrices
  Market <- MCMarket
  DepthLimit = 2
  MaxEvent = 2
  MaxBufferSize = 2
  CheckpointDiffThreshold = 2
  Faulty = {"l2", "checkpoint"}
  LossyBootstrap = FALSE
  None = None
\* the feed, and with it the market, ends after MaxId updates
CHECK_DEADLOCK FALSE
INVARIANTS
  BookTracksMarket
  NeverStranded
  NoMissedAlignment
  BufferBounded
  CheckpointsTrackMarket
  PublishedIsLogged
PROPERTIES
  FeedSpec
  SnapshotArrives
  HopelessSnapshotDropped
  FetchesEnd
