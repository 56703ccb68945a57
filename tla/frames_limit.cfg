SPECIFICATION Spec
CONSTANTS
  kFrameCount = 8
  Top = 10
  Descriptors <- AnyDescriptors
  MaxDescriptors = 4
  BootBlocks <- MCBootBlocks
  Tasks = {t1}
  Sizes = {1}
  MaxBlocks = 2
INVARIANT RangeFitsBitmap
CHECK_DEADLOCK FALSE
