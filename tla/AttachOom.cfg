SPECIFICATION AttachSpec
CONSTANTS
  Requests <- MCDefault
  Faults <- NoFaults
  MaxSignals = 0
  Codes = {0, 7}
  AttachRequests <- MCAttachScored
  AttachFaults <- NoFaults
  MaxAttachSignals = 0
CHECK_DEADLOCK FALSE
INVARIANT
  OomScoreWritable
