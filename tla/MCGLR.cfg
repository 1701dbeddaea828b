SPECIFICATION Spec
CONSTANTS
  Graphs <- AllGraphs
  Grammars <- Converted
  TablesOf <- Compiled
  Inputs <- AllInputs
  MaxInput = 5
  Reshape <- ReshapeOf
  Pred <- PredOf
  Action <- ActionOf
INVARIANTS
  StackPath
  MergedTogether
  Correct
PROPERTY Returns
CHECK_DEADLOCK FALSE
