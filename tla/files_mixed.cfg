SPECIFICATION FatSpec
CONSTANTS
  NumClusters = 6
  BytesPerCluster = 2
  EntriesPerCluster = 1
  Names = {"a", "b"}
  Fds = {f, g}
  f = f
  g = g
  NoFile = NoFile
  MaxLen = 2
  MaxSize = 4
  Mixed = TRUE
INVARIANT ReadsClusters
