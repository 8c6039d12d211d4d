SPECIFICATION Spec
CONSTANTS
  Caps = {setpcap, setgid, setuid}
  SETPCAP = setpcap
  SETGID = setgid
  SETUID = setuid
  Ids <- MCIds
  Requests <- MCRequests
  Callers <- MCCallers
CHECK_DEADLOCK FALSE
INVARIANTS
  WorkloadCapabilities
  DroppedForGood
  IdentityAssumed
  FailsOnlyForCause
