SPECIFICATION Spec
CONSTANTS
  p1 = p1
  p2 = p2
  p3 = p3
  wid = wid
  Procs <- MCProcs
  Requests <- MCThreads
  Ids = {wid}
  Bases <- MCBases
  RealRoot = "root"
  Available <- MCAvailable
  Keys <- MCKeys
  PrefixOf <- MCPrefixOf
  PathOf <- MCPathOf
  Leftover <- MCLeftover
  NrOpen = 2
  Unlimited = 4
  Faults <- NoFaults
CHECK_DEADLOCK FALSE
INVARIANT
  ProcessLimitsSet
