SPECIFICATION Spec
CONSTANTS
  Paths <- MCPaths
  Root = "/"
  Proc = "/proc"
  Stage = "/tmp"
  Beneath <- MCBeneath
  Sources <- MCSources
  Content <- MCContent
  Refused = {"gone"}
  Locked = {"home"}
  Unsettable = {"stuck"}
  Trees <- MCTrees
  Requests <- MCRequests
CHECK_DEADLOCK FALSE
INVARIANTS
  NothingEscapes
  MaskedPathsHidden
  ReadonlyPathsHold
  RootSealed
  MountFlagsHold
  PivotFailsOnlyForCause
