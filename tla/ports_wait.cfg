SPECIFICATION Spec
CONSTANTS
  MaxPorts = 3
  kDeviceSize = 3
  Unsupported = {}
  MaxPlugs = 2
  MaxUnplugs = 2
  MayFail = FALSE
INVARIANT WaitersAreServed
CHECK_DEADLOCK FALSE
