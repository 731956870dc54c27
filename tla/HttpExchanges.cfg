SPECIFICATION Spec
CONSTANTS
  HighWaterMark = 1
  MaxRequests = 2
  MaxChunks = 3
  MaxPauses = 1
INVARIANTS
  TypeOK
  ClosedOnce
  HeadGated
  
  PassedToItsTarget
PROPERTIES
  ReadsAsPromised
  DeliversAndCloses
CHECK_DEADLOCK FALSE
