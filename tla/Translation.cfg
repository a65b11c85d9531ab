SPECIFICATION FairSpec
CONSTANTS
  Deltas = {0, 1}
  Handlers = {h1, h2}
  NoFile = NoFile
  MaxRestarts = 1
INVARIANTS
  FileMatchesFilter
  ShownIsApplied
  DynDeltaStaysReset
PROPERTIES
  FlagsServed
