CONSTANTS
  MaxLen = 3
  Grammars <- StaleNone
  Inputs <- SmallInputs
SPECIFICATION Spec
INVARIANT Correct
