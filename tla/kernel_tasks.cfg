SPECIFICATION FairSpec
CONSTANTS
  MaxTasks = 5
  kMaxLevel = 3
  Messages = {m}
  MaxMessages = 2
  ExitCodes = {e}
INVARIANTS
  RunQueues
  CpuIsCurrentTask
  NoDanglingTask
  NoLostWakeup
  ExitCodeKept
PROPERTY RoundRobin
