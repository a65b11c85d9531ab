SPECIFICATION FairSpec
CONSTANTS
  MaxClients = 2
  MaxStreaming = 2
  QueueSize = 1
  NoFrameLimit = 1
  StopPoll = 2
  MaxThreads = 3
  MaxFrames = 0
INVARIANTS
  HandlersNeverOvercounted
PROPERTIES
  StopEndsServer
  LostStreamEnds
CHECK_DEADLOCK FALSE
