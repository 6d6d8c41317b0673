SPECIFICATION Spec
CONSTANTS
  Node = {1, 2}
  Second = 2
  Lease = 7
  Heartbeat = 2
  Scan = 1
  MaxStarts = 3
  MaxFaults = 3
CHECK_DEADLOCK FALSE
INVARIANTS
  TypeOK
  StaysListed
  GoneInTime
PROPERTIES
  ViewsConverge
  ImplementsMembership
