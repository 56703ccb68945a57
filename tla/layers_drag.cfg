SPECIFICATION DesktopSpec
CONSTANTS
  Tasks = {t1, t2}
  NoTask = NoTask
  MaxLayer = 6
  MaxMsgs = 2
  Patient = TRUE
  UsbKinds = {}
  TrSize = 4
  MapSize = 2
  KeySlots <- MCKeySlots
  MaxReports = 3
  MaxSerial = 3
  MaxUsbCommands = 2
  MaxPacket = 2
  Senders <- MCSenders
  TransfersFail = TRUE
  PastRaces = FALSE
  PaintWidth = 6
  PaintHeight = 4
  FrameLeft = 1
  FrameTop = 1
  MouseScreen <- MCScreen
  Displacements <- MCMoves
  MaxEvents = 3
SYMMETRY Symmetry
INVARIANT MovesExistingLayers
CHECK_DEADLOCK FALSE
