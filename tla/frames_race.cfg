SPECIFICATION Spec
CONSTANTS
  kFrameCount = 7
  Top = 7
  Descriptors <- MCDescriptors
  MaxDescriptors = 3
  BootBlocks <- MCBootBlocks
  Tasks = {t1, t2}
  Sizes = {1}
  MaxBlocks = 2
INVARIANT ZeroMeansFree
CHECK_DEADLOCK FALSE
