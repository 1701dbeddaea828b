SPECIFICATION Spec
CONSTANTS
  Data = {1453, 45785}
  Sizes = {5, 11, 16}
  Width = 16
  MaxBytes = 3
  MaxNest = 2
  Capacity = 1
INVARIANTS
  InBounds
  TakesFresh
  ReadsValue
PROPERTY
  SwitchKeepsBits
CHECK_DEADLOCK FALSE
