SPECIFICATION FairSpec
CONSTANTS
  MAX_TRIES = 2
  MinPatterns = 3
  MaxPatterns = 4
  CopyEvery = 2
  Handlers = {h1, h2}
  MaxRequests = 3
  MaxRestarts = 1
INVARIANTS
  CalibrationSaved
  ResetWins
  StartTakesEffect
PROPERTIES
  ResetLasts
  DoneConverges
