SPECIFICATION Spec
CONSTANTS
  MaxSends = 2
  MaxUploads = 2
  MaxChunks = 2
  MaxRedirects = 1
  MaxBreaks = 2
INVARIANTS
  TypeOK
  EventsInOrder
  NeverBoth
  AnsweredWhole
PROPERTIES
  EventuallySettles
CHECK_DEADLOCK FALSE
