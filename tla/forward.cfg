SPECIFICATION Spec
CONSTANTS
  Depth = 2
  Span = {0, 1, 2}
  Patience = 3
  MaxFlight = 1
  None = None
CHECK_DEADLOCK FALSE
INVARIANTS
  TypeOK
  NoLateWork
  FailuresCross
PROPERTIES
  CallersEnd
