SPECIFICATION Spec
CONSTANTS
  None = None
  HeadName <- MCHeads
  KindOf <- MCKindOf
  NonDesktop = {}
  Pluggable = {"A", "pipewire"}
  Group = {"A", "B"}
  NativeSize <- MCNativeSize
  ResizedTo <- MCResizedTo
  FarRight = 2000
  Requests <- MCRequests
  DefaultNames <- MCDefaultNames
  Prefixed = {"X1", "WL1"}
  Connectors <- MCConnectors
PROPERTY NoSilentFlag
CHECK_DEADLOCK FALSE
