SPECIFICATION Spec
CONSTANTS
  MaxListeners = 1
  MaxExceptionListeners = 1
  FailingCalls = {}
INVARIANT PassthroughPerforms
CHECK_DEADLOCK FALSE
