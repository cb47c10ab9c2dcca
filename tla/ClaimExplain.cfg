SPECIFICATION ExplainSpec
CONSTANTS
  PageSize = 5
  LsnOffset = 1
  ByteBase = 3
  Files = {cat, idx}
  MaxPages = 1
  MaxXid = 1
  LogBufferSize = 4
  Names = {a}
  PoolSize = 2
  Policy = "LRU"
  CheckpointInterval = 9
  NoPage = NoPage
  NoXid = NoXid
  LsnLimit = 4
  WriteSets <- EitherSlot
  Values = {1}
  CatalogFile = cat
  TypeCell = 0
  CatalogType = 4
  DirtyWrites = FALSE
  MaxRuns = 2
  CrashInRecovery = FALSE
PROPERTY RecordPrecedesPage
CHECK_DEADLOCK FALSE
