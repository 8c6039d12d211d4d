SPECIFICATION FairSpec
CONSTANTS
  Requests <- MCDefault
  Faults <- PivotFault
  MaxSignals = 0
  Codes = {0, 7}
CHECK_DEADLOCK FALSE
PROPERTY
  ChildEndIsReported
