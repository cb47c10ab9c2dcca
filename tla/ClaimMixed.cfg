SPECIFICATION Spec
CONSTANTS
  PageSize = 5
  LsnOffset = 1
  ByteBase = 2
  Files = {f}
  MaxPages = 1
  MaxXid = 2
  LogBufferSize = 2
  Names = {a, b}
  PoolSize = 1
  Policy = "LRU"
  CheckpointInterval = 9
  NoPage = NoPage
  NoXid = NoXid
  LsnLimit = 4
  WriteSets <- EitherSlot
  Values = {1}
  CatalogFile = f
  TypeCell = 0
  CatalogType = 4
  DirtyWrites = FALSE
  MaxRuns = 3
  CrashInRecovery = TRUE
SYMMETRY Symmetry
CHECK_DEADLOCK FALSE
INVARIANT UndoSparesCommitted
