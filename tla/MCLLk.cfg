CONSTANTS
  KMaxs = {1, 2, 3}
  Grammars <- TwoRules
  TablesOf <- Compiled
  Bytes = {1, 2}
  MaxInput = 4
SPECIFICATION Spec
INVARIANTS
  NoAbort
  FinishAssertLL1
  ChunksInvisible
  Complete
  BitLength
PROPERTIES
  BytesInOrder
  Returns
CHECK_DEADLOCK FALSE
