SPECIFICATION Spec
CONSTANTS
  Codes = {0, 7}
  Faults <- MCFaults
CHECK_DEADLOCK FALSE
INVARIANTS
  RequestWaits
  LaunchedFromWholeRequest
  RunReturnsOutcome
  NothingLeftBehind
