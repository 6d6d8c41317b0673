SPECIFICATION Spec
CONSTANTS
  h1 = h1
  h2 = h2
  i1 = i1
  i2 = i2
  i3 = i3
  o1 = o1
  o2 = o2
  o3 = o3
  o4 = o4
  None = None
  Handle = {h1, h2}
  Item = {i1, i2, i3}
  Object = {o1, o2, o3, o4}
  CopiesOnRead = TRUE
SYMMETRY Symmetry
INVARIANTS
  TypeOK
  AddedOnce
