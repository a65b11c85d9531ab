SPECIFICATION FairSpec
CONSTANTS
  InitialFps = 30
  DropCounts = {0, 10, 11, 30, 31, 50, 51, 100, 101}
  MaxEmptyFrames = 3
INVARIANTS
  TypeOK
  ReductionPending
PROPERTIES
  StreamsCatchUp
