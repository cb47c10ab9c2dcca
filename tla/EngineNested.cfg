SPECIFICATION EitherSpec
CONSTANTS
  PageSize = 5
  LsnOffset = 1
  ByteBase = 16
  Files = {f}
  MaxPages = 1
  MaxXid = 2
  LogBufferSize = 2
  Names = {a, b}
  PoolSize = 1
  Policy = "LRU"
  CheckpointInterval = 3
  NoPage = NoPage
  NoXid = NoXid
  LsnLimit = 7
  WriteSets <- WriteEitherSlot
  Values = {1}
  CatalogFile = f
  TypeCell = 0
  CatalogType = 4
  DirtyWrites = FALSE
  MaxRuns = 3
  CrashInRecovery = TRUE
SYMMETRY Symmetry
CONSTRAINT FreshIsShort
INVARIANTS
  TypeOK
  CommitIsDurable
  LogOrdered
  MasterIsComplete
  ChainIntact
  ServedIsHistory
  NoZombies
CHECK_DEADLOCK FALSE
