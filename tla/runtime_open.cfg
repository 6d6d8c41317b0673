SPECIFICATION Spec
CONSTANTS
  c1 = c1
  c2 = c2
  c3 = c3
  g1 = g1
  g2 = g2
  g3 = g3
  a1 = a1
  a2 = a2
  a3 = a3
  a4 = a4
  None = None
  Sweeper = Sweeper
  Closer = Closer
  Caller = {c1, c2, c3}
  Grain = {g1, g2}
  Registered = {g1, g2}
  Reentrant = {g2}
  Timed = {g1}
  Activation = {a1, a2, a3}
  MaxActivations = None
  Env = {"cancel", "fail", "idle"}
SYMMETRY Symmetry
INVARIANTS
  TypeOK
  SingleActivation
  NothingLost
  ServedWhileOpen
  OneAtATime
  CancelIsolation
  WaitersHaveBuilder
  InFlightExact
  QuietTeardown
PROPERTIES
  ImplementsVirtualActor
