SPECIFICATION OptionsSpec
CONSTANTS
  Handlers = {h1, h2}
  Values = {0, 1}
  MAX = 2
  Corners = {p, q}
  NoFile = NoFile
  MaxPosts = 3
  Key = Key
  Equals = Equals
  Ampersand = Ampersand
  Huge = Huge
  MaxQuery = 6
INVARIANTS
  LeftCameraSuffices
  FilesMatchFilters
  SettingsShownAreApplied
  FileMatchesTransform
  CornersShownAreUsed
  ResetLasts
  QueryParamsFound
  AcceptedInRange
PROPERTIES
  SoundSnapshotsStaySound
  ChangeServed
