SPECIFICATION Spec
CONSTANTS
  MaxEntries = 3
  MaxLen = 2
  SignalBatch = 2
  CacheBatch = 2
  Faults = {"read", "publish", "ack", "crash", "stop", "restart"}
  MaxFaults = 1
\* the stream ends after MaxEntries entries
CHECK_DEADLOCK FALSE
INVARIANTS
  SignalsInOrder
  AckedAreSignalled
PROPERTIES
  SignalsCome
  PriceMovesForward
  QuotesReachCache
