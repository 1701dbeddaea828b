CONSTANTS
  Tables = {"a", "b"}
  Keys = {"k1", "k2", "k3"}
  Values = {"NULL", "v"}
  Hash <- MCHash
  Combine <- MCCombine
  InitialCapacity = 2
  MaxUsed <- MCMaxUsed
SPECIFICATION Spec
INVARIANT EqualSetsAgree
PROPERTY IsMap
CHECK_DEADLOCK FALSE
