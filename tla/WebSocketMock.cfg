SPECIFICATION FairSpec
CONSTANTS
  MaxMessages = 3
  MaxConnections = 2
CHECK_DEADLOCK FALSE
INVARIANTS
  TypeOK
  MockedInOrder
  ForwardedInOrder
  NothingLost
  ClosesTogether
PROPERTY OpensOrCloses
