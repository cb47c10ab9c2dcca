SPECIFICATION Spec
CONSTANTS
  PageSize = 6
  LsnOffset = 2
  ByteBase = 3
  Files = {f}
  MaxPages = 1
  MaxXid = 1
  LogBufferSize = 4
  Names = {a}
  PoolSize = 1
  Policy = "LRU"
  CheckpointInterval = 9
  NoPage = NoPage
  NoXid = NoXid
  LsnLimit = 3
  WriteSets <- InsertIntoFirst
  Values = {1}
  CatalogFile = f
  TypeCell = 0
  CatalogType = 4
  DirtyWrites = FALSE
  MaxRuns = 2
  CrashInRecovery = FALSE
SYMMETRY Symmetry
INVARIANTS
  SkippedIsOnDisk
CHECK_DEADLOCK FALSE
