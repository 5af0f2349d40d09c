SPECIFICATION Spec
CONSTANTS
  Null = Null
  Empty = Empty
  d1 = d1
  d2 = d2
  Conclaves = {c1, c2}
  Data = {d1, d2}
  Fields <- SomeFields
  Patches <- SomePatches
  Files = {f1, f2}
  Slots = {s1, s2}
INVARIANTS
  FilesMatch
  InStep
  OnlyEditsCollide
SYMMETRY Symmetry
CHECK_DEADLOCK FALSE
