SPECIFICATION Spec
CONSTANTS
  W = 2
  Known <- MCKnown
  Givens <- MCGivens
  NumbersOf <- MCNumbersOf
  MaxCalls = 3
CHECK_DEADLOCK FALSE
INVARIANTS
  WordsAreSets
  UnknownNameChangesNothing
