SPECIFICATION Spec
CONSTANTS
  QueueSize = 2
  MaxEmptyFrames = 1
  MaxWaits = 2
  MaxFrames = 3
  MaxSwitches = 2
INVARIANTS
  EntriesSynchronized
CHECK_DEADLOCK FALSE
