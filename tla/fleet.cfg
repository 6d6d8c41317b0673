SPECIFICATION Spec
CONSTANTS
  Node = {1, 2, 3}
  MaxChanges = 4
  Replica = {0, 1}
  Place <- RingPlace
  Id = {"k"}
  Where <- IdWhere
  Call = {"c"}
  NoNode = 0
INVARIANTS
  TypeOK
  OneViewOneOwner
PROPERTIES
  MovesAreMinimal
  SettlesOnOwners
