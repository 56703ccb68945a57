SPECIFICATION FairPipeSpec
CONSTANTS
  MaxTasks = 5
  kMaxLevel = 3
  Messages = {}
  MaxMessages = 5
  ExitCodes = {e}
  MaxBytes = 3
  MaxWrite = 3
  MaxRead = 2
  PipeData = 2
  MaxWrites = 2
  MaxKeys = 2
  MaxPrints = 1
INVARIANTS PipeEndsCleanly
PROPERTIES PipeIsStream PipelineEnds
