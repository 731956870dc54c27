CONSTANTS
  MaxSubscribers = 2
  MaxWrites = 2
  MaxExchanges = 2
  Pipelining = FALSE
SPECIFICATION FairSpec
CHECK_DEADLOCK FALSE
INVARIANTS
  TypeOK
  MockedStaysLocal
  
  NothingLost
  DecidedInItsExchange
PROPERTIES
  RetargetedForGood
  AcknowledgedOnce
  VerdictsTakeEffect
