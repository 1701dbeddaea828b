SPECIFICATION Spec
CONSTANTS
  Graphs <- BoundInside
  Grammars <- Converted
  TablesOf <- Compiled
  Reshape <- ReshapeOf
  Pred <- PredOf
  Action <- ActionOf
  Bytes = {1, 2}
  MaxInput = 3
INVARIANT Sound
CHECK_DEADLOCK FALSE
