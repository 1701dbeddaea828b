SPECIFICATION Spec
CONSTANTS
  Graphs <- AllGraphs
  Grammars <- Converted
  TablesOf <- Compiled
  Reshape <- ReshapeOf
  Pred <- PredOf
  Action <- ActionOf
  Bytes = {1, 2}
  MaxInput = 3
INVARIANTS
  NoAbort
  TableSane
  HandleOnTop
  Correct
  Unambiguous
PROPERTY
  Returns
CHECK_DEADLOCK FALSE
