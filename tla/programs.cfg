INIT ProgramsInit
NEXT ProgramsNext
CONSTANTS
  NumClusters = 4
  BytesPerCluster = 2
  EntriesPerCluster = 1
  Names = {"a", "b"}
  Fds = {f, g}
  f = f
  g = g
  NoFile = NoFile
  MaxLen = 2
  MaxSize = 3
  Mixed = FALSE
  Width = 4
  Height = 2
  TabSize = 3
  MaxLines = 3
  MaxChars = 2
  Texts <- MCTexts
  Typed <- MCTyped
  kColumns = 9
  kRows = 2
  kLineMax = 8
  kHistory = 2
  kArgs = 2
  Lines <- MCLines
  Inputs <- MCInputs
  Results <- MCResults
  Root <- MCRoot
  Apps <- MCApps
  Directories <- MCDirectories
  MaxLinesRun = 2
INVARIANTS FilesSound ViewSound NothingUnsaved LineIsShown DoesAsAsked
PROPERTY StoresFiles
SYMMETRY Symmetry
CHECK_DEADLOCK FALSE
