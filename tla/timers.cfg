SPECIFICATION TimersSpec
CONSTANTS
  MaxTasks = 4
  kMaxLevel = 3
  Messages = {}
  MaxMessages = 6
  ExitCodes = {e}
  MaxTick = 4
  kTaskTimerPeriod = 2
  kTimerFreq = 2
  BlinkPeriod = 1
  AppTimeouts = {1, 3}
  MaxAppTimers = 1
  MaxKeys = 1
INVARIANTS SwitchesInTime ChainsKeepOn
PROPERTY TickFiresDue
