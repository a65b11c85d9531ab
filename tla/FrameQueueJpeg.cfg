SPECIFICATION Spec
CONSTANTS
  Size = 3
  FrameSizes = {1, 2, 3}
  InitSz = 1
  Slack = 1
  MaxFrames = 7
INVARIANTS
  HoldsNewestInOrder
  EveryFrameAccounted
  EntriesFit
  DiscardedOnlyAfterGrowth
PROPERTIES
  ImplementsBoundedQueue
CHECK_DEADLOCK FALSE
