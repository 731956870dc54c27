\* Only source.passthrough() fails: fetch's "response" listeners throw in it.
SPECIFICATION CooperativeSpec
CONSTANTS
  MaxListeners = 1
  MaxExceptionListeners = 1
  FailingCalls = {"passthrough"}
PROPERTY HandledResolves
CHECK_DEADLOCK FALSE
