SPECIFICATION Spec
CONSTANTS
  MaxClients = 3
  MaxStreaming = 2
  QueueSize = 1
  NoFrameLimit = 0
  StopPoll = 2
  MaxThreads = 3
  MaxFrames = 2
INVARIANTS
  StreamCountExact
  SlotsOwnedByStreamers
PROPERTIES
  FramesInOrder
CHECK_DEADLOCK FALSE
