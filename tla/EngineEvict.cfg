SPECIFICATION FairAgedSpec
CONSTANTS
  PageSize = 5
  LsnOffset = 1
  ByteBase = 3
  Files = {f}
  MaxPages = 3
  MaxXid = 2
  LogBufferSize = 4
  Names = {a, b}
  PoolSize = 2
  Policy = "MRU"
  CheckpointInterval = 3
  NoPage = NoPage
  NoXid = NoXid
  LsnLimit = 5
  WriteSets <- WriteSecondSlot
  Values = {1}
  CatalogFile = f
  TypeCell = 0
  CatalogType = 4
  DirtyWrites = TRUE
  MaxRuns = 3
  CrashInRecovery = TRUE
INVARIANTS
  PoolSound
  RecLsnReachesBack
  WalInv
  CommittedPagesServed
  ReplayInv
PROPERTIES
  OperationsFinish
  WriteAheadRule
CHECK_DEADLOCK FALSE
