SPECIFICATION Spec
CONSTANTS
  BasisPoints = 2
  SlippageBps = 1
  TakerFeeBps = 1
  Symbols = {btc}
  InitialCapital = 1000
  MaxDrawdownPct = 15
  RunLossLimitPct = 0
  MaxPositionQty <- MCNoLimits
  TradeQty = 1
  Wants <- MCWants
  Quotes <- MCQuotes
  BatchSize = 2
  SkewedTimes = FALSE
  CrashAfterCommit = FALSE
  Faults = {"crash", "stop", "order", "haltset"}
  MaxFaults = 3
  MaxSignals = 3
  MaxSessions = 3
INVARIANTS
  PositionsAgree
  LedgerConsistent
  ProfitIsCashFlow
  EquityIsLedger
PROPERTIES
  AccountSpec
CHECK_DEADLOCK FALSE
