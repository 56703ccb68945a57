SPECIFICATION FairSpec
CONSTANTS
  MaxPorts = 3
  kDeviceSize = 3
  Unsupported = {2}
  MaxPlugs = 1
  MaxUnplugs = 1
  MayFail = TRUE
INVARIANTS AnswersFindPorts
PROPERTIES InOrder AllPolled
CHECK_DEADLOCK FALSE
