SPECIFICATION Spec
CONSTANTS
  BasisPoints = 1
  SlippageBps = 0
  TakerFeeBps = 0
  Symbols = {btc}
  InitialCapital = 100
  MaxDrawdownPct = 5
  RunLossLimitPct = 0
  MaxPositionQty <- MCLimits
  TradeQty = 1
  Wants <- MCWants
  Quotes <- MCOneQuote
  BatchSize = 2
  SkewedTimes = FALSE
  CrashAfterCommit = TRUE
  Faults = {"db", "unknown", "status", "ack", "order", "read", "haltset", "crash", "stop"}
  MaxFaults = 2
  MaxSignals = 3
  MaxSessions = 3
CHECK_DEADLOCK FALSE
INVARIANTS
  PositionBounded
  OrdersArePersisted
PROPERTIES
  HaltedTradesNoMore
  EverySignalSettles
