SPECIFICATION FairSpec
CONSTANTS
  QueueSize = 2
  MaxEmptyFrames = 1
  MaxWaits = 2
  MaxFrames = 2
  MaxSwitches = 1
PROPERTIES
  StopEndsWorkers
  ProducerEndStopsAll
CHECK_DEADLOCK FALSE
