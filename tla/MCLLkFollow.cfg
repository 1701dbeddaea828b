CONSTANTS
  KMaxs = {1}
  Grammars <- FollowCycle
  TablesOf <- Compiled
  Bytes = {1, 2, 3}
  MaxInput = 2
SPECIFICATION Spec
INVARIANT FollowIsUnion
CHECK_DEADLOCK FALSE
