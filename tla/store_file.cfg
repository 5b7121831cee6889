SPECIFICATION FileSpec
CONSTANTS
  FirstVersions = {0, 2, 4, 8, 9}
  MayLock = TRUE
  N = 2
  Links = {1}
  MaxStored = 1
  MaxLocal = 2
INVARIANTS
  VersionMeansComplete
  MigrationWhole
  CompactionKeeps
  SessionsWhole
  QuietExportImports
  AllOrNothing
  LocalKept
CHECK_DEADLOCK FALSE
