SPECIFICATION Spec
CONSTANTS
  Grammars <- Undisciplined
  Programs <- Compiled
  Shapes <- ShapesOf
  Bytes = {200, 2}
  MaxInput = 2
INVARIANT
  NoAbort
