SPECIFICATION FairSpec
CONSTANTS
  Values = {0, 1}
  Reports = {1, 4}
  Uuids = {"u", "null"}
  NullUuid = "null"
  Windows = {1, 2}
  NULL = NULL
  Tokens <- MCTokens
  Plugins <- MCPlugins
  Directories <- MCDirectories
  Flags <- MCFlags
  Found <- MCFound
  Talkative = {"whole", "small"}
  Paths = {"", "/p"}
  Seconds = {0}
  Days = {0}
  Addresses <- MCAddresses
  EditsAtMost = 1
INVARIANTS
  Restored
  EditsStartTrue
  EnabledAsReported
  WindowsTracked
PROPERTIES
  WindowEnds
  OnlyUserChanges
CHECK_DEADLOCK FALSE
