SPECIFICATION Spec
CONSTANTS
  Node = {0, 1}
  Replica = {0, 1}
  Place <- RingPlace
  Id = {"job", "alarm"}
  Where <- IdWhere
  Kind <- IdKind
  Interval = 2
  Delay = 1
  MaxAsks = 3
  MaxMoves = 0
  MaxStops = 0
  None = None
INVARIANTS
  Forgotten
