CONSTANTS
  RequestedSize = 3
  Sizes = {0, 1, 2, 4}
  LinkSize = 3
  PointerSize = 1
  ArenaSize = 5
  MaxLinks = 3
  MaxUsed = 9
SPECIFICATION Spec
INVARIANTS
  RegionsSound
  EachFreedOnce
PROPERTY DeletionEnds
