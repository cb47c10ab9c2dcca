SPECIFICATION AgedStoreSpec
CONSTANTS
  PageSize = 5
  LsnOffset = 1
  ByteBase = 3
  Files = {f}
  MaxPages = 1
  MaxXid = 2
  LogBufferSize = 2
  Names = {a, b}
  PoolSize = 1
  Policy = "LRU"
  CheckpointInterval = 5
  NoPage = NoPage
  NoXid = NoXid
  LsnLimit = 6
  WriteSets <- WriteEitherSlot
  Values = {1, 2}
  CatalogFile = f
  TypeCell = 0
  CatalogType = 4
  DirtyWrites = FALSE
  MaxRuns = 2
  Followed <- AllPages
  CrashInRecovery = FALSE
SYMMETRY Symmetry
INVARIANTS
  RepeatsHistory
  LosersFound
  ServiceInv
PROPERTY ImplementsStore
CHECK_DEADLOCK FALSE
