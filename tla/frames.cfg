SPECIFICATION Spec
CONSTANTS
  kFrameCount = 7
  Top = 8
  Descriptors <- MCDescriptors
  MaxDescriptors = 4
  BootBlocks <- MCBootBlocks
  Tasks = {t1, t2}
  Sizes = {1, 2}
  MaxBlocks = 2
INVARIANTS FramesSound
PROPERTY FindsFirstFit
CHECK_DEADLOCK FALSE
