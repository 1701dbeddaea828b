SPECIFICATION Spec
CONSTANTS
  Grammars <- AllGrammars
  Programs <- Compiled
  Shapes <- ShapesOf
  Bytes = {200, 2, 32}
  MaxInput = 3
INVARIANTS
  QueueInBounds
  MarksKept
  Correct
PROPERTY
  Terminates
