SPECIFICATION ViewSpec
CONSTANTS
  FileIds = {"data", "index", "catalog"}
  Heap = "data"
  Index = "index"
  Catalog = "catalog"
  Relation = Relation
  Zero = Zero
  MaxPages = 3
  Width = 5
  Tx = {t1}
  Keys = {1, 2, 3}
  AsStored <- Faithful
  MaxBatch = 4
  MaxSlots = 1
  MaxRecords = 1
  Buckets = 2
  MaxKeys = 2
  Strategies = {"hash_index"}
  Deletes = {1, 2, 3}
  Interleaved = {}
INVARIANTS
  LookupReturns
CHECK_DEADLOCK FALSE
