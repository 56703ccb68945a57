SPECIFICATION ApiSpec
CONSTANTS
  MaxTasks = 4
  kMaxLevel = 2
  Messages = {m}
  MaxMessages = 1
  ExitCodes = {e}
PROPERTIES
  StrictPriority
