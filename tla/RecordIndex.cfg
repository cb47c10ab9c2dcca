SPECIFICATION ViewSpec
CONSTANTS
  FileIds = {"data", "index", "catalog"}
  Heap = "data"
  Index = "index"
  Catalog = "catalog"
  Relation = Relation
  Zero = Zero
  MaxPages = 4
  Width = 5
  Tx = {t1}
  Keys = {1, 2, 3}
  AsStored <- Faithful
  MaxBatch = 2
  MaxSlots = 1
  MaxRecords = 1
  Buckets = 2
  MaxKeys = 2
  Strategies = {"heap_scan", "hash_index", "bplus_tree"}
  Deletes = {1, 3}
  Interleaved = {}
INVARIANTS
  TypeOK
  KeysUnique
  CountMatchesHeap
  IndexMatchesHeap
  RangeIsExact
PROPERTY ImplementsMap
CHECK_DEADLOCK FALSE
