CONSTANTS
  MaxSubscribers = 2
  MaxWrites = 2
  MaxExchanges = 2
  Pipelining = FALSE
SPECIFICATION Spec
CHECK_DEADLOCK FALSE
INVARIANT OneWriteInFlight
