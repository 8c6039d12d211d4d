SPECIFICATION JailSpec
CONSTANTS
  Paths <- MCPaths
  Root = "/"
  Proc = "/proc"
  Stage = "/tmp"
  Beneath <- MCBeneath
  Sources <- JailSources
  Content <- JailContent
  Refused = {"gone"}
  Locked = {"home", "slash"}
  Unsettable = {"stuck"}
  Trees <- MCTrees
  Requests = {}
  Clis <- MCClis
  Hosts <- MCHosts
  HostFiles <- MCHostFiles
CHECK_DEADLOCK FALSE
INVARIANTS
  JailWritable
  UserMountsShow
  NeverRefused
PROPERTY
  JailEntered
