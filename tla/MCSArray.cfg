CONSTANTS
  Size = 3
  Words = {0, 1, 2, 3}
  Values = {"NULL", "v"}
SPECIFICATION Spec
INVARIANT InBounds
PROPERTY IsSparseMap
