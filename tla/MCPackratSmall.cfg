CONSTANTS
  MaxLen = 3
  Grammars <- Small
  Inputs <- SmallInputs
SPECIFICATION Spec
INVARIANTS
  LRStackMatches
  Correct
PROPERTIES
  ResultsStay
  Terminates
