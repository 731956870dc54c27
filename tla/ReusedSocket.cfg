CONSTANTS
  MaxSubscribers = 2
  MaxWrites = 2
  MaxExchanges = 2
  Pipelining = FALSE
SPECIFICATION FairSpec
CHECK_DEADLOCK FALSE
PROPERTY NeverLeftPending
