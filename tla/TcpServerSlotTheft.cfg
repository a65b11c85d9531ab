SPECIFICATION Spec
CONSTANTS
  MaxClients = 3
  MaxStreaming = 2
  QueueSize = 1
  NoFrameLimit = 0
  StopPoll = 1
  MaxThreads = 3
  MaxFrames = 0
INVARIANTS
  StreamersHaveQueues
CHECK_DEADLOCK FALSE
