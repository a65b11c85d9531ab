SPECIFICATION Spec
CONSTANTS
  QueueSize = 2
  MaxEmptyFrames = 1
  MaxWaits = 2
  MaxFrames = 4
  MaxSwitches = 2
INVARIANTS
  QueueConsistent
  QueuedEntriesPaired
  OnlyWrittenFrames
  OverwrittenOnlyByLap
PROPERTIES
  FramesInOrder
CHECK_DEADLOCK FALSE
