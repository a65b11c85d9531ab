SPECIFICATION Spec
CONSTANTS
  MaxClients = 1
  MaxStreaming = 1
  QueueSize = 1
  NoFrameLimit = 0
  StopPoll = 1
  MaxThreads = 3
  MaxFrames = 0
INVARIANTS
  ClientsBounded
CHECK_DEADLOCK FALSE
