SPECIFICATION Spec
CONSTANTS
  Grammars <- TwoThreads
  Programs <- Compiled
  Shapes <- ShapesOf
  Bytes = {200, 2}
  MaxInput = 2
INVARIANT
  ChoiceFindsAMatch
