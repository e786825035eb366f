SPECIFICATION Spec
CONSTANTS
  MaxId = 6
  Prices <- MCPrices
  Market <- MCMarket
  DepthLimit = 2
  From = 2
  To = 5
  MaxEvent = 2
  Delays <- MCDelays
  MaxCheckpoints = 2
  Faulty = {"checkpoint", "diffs", "publish", "control", "gap"}
  None = None
\* the replay ends
CHECK_DEADLOCK FALSE
INVARIANTS
  TrueWhereUnbroken
  NothingLeftOut
  HolesAreRecorded
PROPERTIES
  SourceSpec
  ReplayEnds
