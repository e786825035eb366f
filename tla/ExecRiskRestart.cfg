SPECIFICATION Spec
CONSTANTS
  BasisPoints = 1
  SlippageBps = 0
  TakerFeeBps = 1
  Symbols = {btc}
  InitialCapital = 100
  MaxDrawdownPct = 0
  RunLossLimitPct = 0
  MaxPositionQty <- MCLimits
  TradeQty = 1
  Wants <- MCWants
  Quotes <- MCOneQuote
  BatchSize = 2
  SkewedTimes = FALSE
  CrashAfterCommit = FALSE
  Faults = {"crash"}
  MaxFaults = 1
  MaxSignals = 3
  MaxSessions = 1
CHECK_DEADLOCK FALSE
INVARIANTS
  RiskPositionsAgree
