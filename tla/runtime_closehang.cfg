SPECIFICATION FairSpec
CONSTANTS
  c1 = c1
  c2 = c2
  c3 = c3
  g1 = g1
  g2 = g2
  g3 = g3
  a1 = a1
  a2 = a2
  a3 = a3
  a4 = a4
  None = None
  Sweeper = Sweeper
  Closer = Closer
  Caller = {c1}
  Grain = {g1}
  Registered = {g1}
  Reentrant = {}
  Timed = {g1}
  Activation = {a1, a2}
  MaxActivations = None
  Env = {"idle", "close", "timeout"}
PROPERTIES
  CloseTerminates
CHECK_DEADLOCK FALSE
