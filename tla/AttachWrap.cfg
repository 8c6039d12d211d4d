SPECIFICATION AttachFairSpec
CONSTANTS
  Requests <- MCRequests
  Faults <- MCFaults
  MaxSignals = 0
  Codes = {0, 7}
  AttachRequests <- MCAttachRequests
  AttachFaults <- MCAttachFaults
  MaxAttachSignals = 1
CHECK_DEADLOCK FALSE
INVARIANTS
  InsideContainer
  NeverInHostRoot
  EndsWithContainer
  AccountedWithContainer
  AttachForwardingReady
PROPERTIES
  AttachImplementsSupervision
  EndReachesSupervisor
