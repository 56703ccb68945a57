SPECIFICATION StartupSpec
CONSTANTS
  buf_size = 4
  event_buf_size = 3
  MaxOutstanding = 2
  MaxCommands = 10
  MaxOther = 4
  PageCells = 2
  MemoryPages = 6
  FirmwarePages <- MCFirmwarePages
  Kernels <- MCKernels
  Volumes <- MCVolumes
  MaxVolumeCells = 2
  MaxFirmwareEvents = 2
  Machines <- MCMachines
  BusDevices = 2
  Functions = 3
  DevicesSize = 5
  ApicId = 0
  XhciVector = 64
  Firmwares <- MCFirmwares
  PMTimerBits <- MCTimerBits
  MaxGap = 3
  WaitTicks = 6
  LapicRate = 20
  kCountMax = 1000
  kTimerFreq = 100
  PoolStarts <- MCPoolStarts
  kMemoryPoolSize = 131072
  SlotsEnabled = 8
  Scratchpads <- MCScratchpads
  ExtendedLists <- MCExtendedLists
  ResetTicks = 1
  ScreenWidth = 2
  ScreenHeight = 2
  Windows <- MCWindows
  MainWindow = "main"
  WindowSize <- MCWindowSize
  Positions <- MCPositions
  DrawnIn = {"app"}
  Colors <- MCColors
  conRows = 2
  conColumns = 3
  LogTexts <- MCLogTexts
  MaxLogged = 5
  BaseLen = 2
  ExtLen = 1
  Paths <- MCPaths
  Volume <- MCVolume
  Upper <- MCUpper
  AppsDir <- MCAppsDir
  MaxEntries = 4
  ViewWidth = 5
  ViewHeight = 4
  ViewTab = 3
  ViewBuffer = 20
  ViewFiles <- MCViewFiles
  kNumBlocksX = 2
  kNumBlocksY = 1
  kBlockWidth = 4
  kBlockHeight = 4
  kBarWidth = 6
  kBarHeight = 1
  kBallRadius = 1
  kGapWidth = 6
  kGapHeight = 6
  kGapBar = 8
  kBarFloat = 4
  BallGap = 4
  DPagingBegin = 4096
  StackFrame = 20480
  Increments = {2048, 4096, 6144}
  Demands = {1}
  FileSizes = {10}
INVARIANTS MachineIsHandedOver DevicesAreFound TickIsRight ControllerIsPrepared
  ScreenIsComposition ShowsTheLog NamesAreKept ViewShowsLines HeapIsSound
PROPERTIES RingsAreFifo AllCompleted BallIsBounced
CHECK_DEADLOCK FALSE
