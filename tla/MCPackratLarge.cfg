CONSTANTS
  MaxLen = 4
  Grammars <- Large
  Inputs <- LargeInputs
SPECIFICATION Spec
INVARIANTS
  CacheIsSound
  NoAbort
  HeadsAreGrowing
  SymbolAssert
