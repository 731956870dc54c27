\* Two listeners of each kind: a second one is what a throw of the first skips.
SPECIFICATION FetchSpec
CONSTANTS
  MaxListeners = 2
  MaxExceptionListeners = 2
  FailingCalls <- AnyFailure
INVARIANTS
  FetchTypeOK
  OneVerdict
  ReturnedMeansDecided
  ErrorsNeverPassThrough
  ExceptionVerdictStands
  AbortedNeverResolves
PROPERTIES
  CollisionsComeFromListeners
  ImplementsOutcome
  FetchSettles
\* Handling a request ends.
CHECK_DEADLOCK FALSE
