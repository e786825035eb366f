SPECIFICATION Spec
CONSTANTS
  Symbols = {btc, eth}
  BasisPoints = 10
  SlippageBps = 1
  TakerFeeBps = 1
  InitialCapital = 1000
  MaxDrawdownPct = 30
  RunLossLimitPct = 25
  MaxPositionQty <- NoLimits
  TradeQty = 1
  Entries <- MCEntries
  btc = btc
  eth = eth
  MaxEntries <- MCMaxEntries
  MaxTotal = 3
  Faults = {"status", "control", "order", "metrics", "drain"}
  MaxFaults = 1
  None = None
\* the run is over
CHECK_DEADLOCK FALSE
INVARIANTS
  NothingLost
  BooksAgree
  OvershootBounded
  StatusIsTrue
  ProfitsAddUp
PROPERTIES
  CancelledAreMarked
  RunEnds
