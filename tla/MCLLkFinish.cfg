CONSTANTS
  KMaxs = {2}
  Grammars <- TwoRules
  TablesOf <- Compiled
  Bytes = {1, 2}
  MaxInput = 2
SPECIFICATION Spec
INVARIANT FinishAssert
CHECK_DEADLOCK FALSE
