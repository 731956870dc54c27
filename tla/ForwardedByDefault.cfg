SPECIFICATION Spec
CONSTANTS
  MaxMessages = 3
  MaxConnections = 2
CHECK_DEADLOCK FALSE
INVARIANT ForwardedByDefault
