SPECIFICATION FairSpec
CONSTANTS
  c1 = c1
  c2 = c2
  h1 = h1
  h2 = h2
  i1 = i1
  i2 = i2
  None = None
  Call = {c1, c2}
  Handle = {h1, h2}
  Interleaved = {h2}
  Item = {i1, i2}
  Interrupts = TRUE
INVARIANTS
  TypeOK
  VersionNamesData
  NoLostUpdate
PROPERTIES
  ImplementsPromise
  RecoveryEnds
