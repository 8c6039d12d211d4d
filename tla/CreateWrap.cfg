SPECIFICATION FairSpec
CONSTANTS
  Requests <- MCRequests
  Faults <- AllFaults
  MaxSignals = 2
  Codes = {0, 7}
CHECK_DEADLOCK FALSE
INVARIANTS
  IInv
  ConfiguredBeforeExec
  PivotPermitted
  ConfigurationPermitted
  ForwardingReady
PROPERTIES
  UsernsFrozenOnceReleased
  ImplementsSupervision
  EndIsReported
  WrapResolves
