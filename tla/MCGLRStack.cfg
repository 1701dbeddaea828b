SPECIFICATION Spec
CONSTANTS
  Graphs <- Plus
  Grammars <- Converted
  TablesOf <- Compiled
  Inputs <- FourTerms
  MaxInput = 7
  Reshape <- ReshapeOf
  Pred <- PredOf
  Action <- ActionOf
INVARIANT EnoughStack
CHECK_DEADLOCK FALSE
