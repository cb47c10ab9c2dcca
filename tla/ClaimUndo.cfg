SPECIFICATION Spec
CONSTANTS
  PageSize = 6
  LsnOffset = 2
  ByteBase = 3
  Files = {f}
  MaxPages = 1
  MaxXid = 1
  LogBufferSize = 1
  Names = {a}
  PoolSize = 1
  Policy = "LRU"
  CheckpointInterval = 9
  NoPage = NoPage
  NoXid = NoXid
  LsnLimit = 3
  WriteSets <- InsertIntoFirst
  Values = {1}
  CatalogFile = f
  TypeCell = 0
  CatalogType = 4
  DirtyWrites = FALSE
  MaxRuns = 3
  CrashInRecovery = FALSE
SYMMETRY Symmetry
INVARIANTS
  LosersStayUndone
CHECK_DEADLOCK FALSE
