SPECIFICATION Spec
CONSTANTS
  Node = {0, 1}
  Replica = {0, 1}
  Place <- RingPlace
  Id = {"job", "alarm"}
  Where <- IdWhere
  Kind <- IdKind
  Interval = 2
  Delay = 1
  MaxAsks = 3
  MaxMoves = 1
  MaxStops = 1
  None = None
INVARIANTS
  TypeOK
  ScheduleStands
PROPERTIES
  Paced
  DueIsTaken
