SPECIFICATION ViewSpec
CONSTANTS
  FileIds = {"data", "index", "catalog"}
  Heap = "data"
  Index = "index"
  Catalog = "catalog"
  Relation = Relation
  Zero = Zero
  MaxPages = 7
  Width = 5
  Tx = {t1, t2}
  Keys = {1, 2, 3, 4, 5}
  AsStored <- Faithful
  MaxBatch = 2
  MaxSlots = 3
  MaxRecords = 3
  Buckets = 2
  MaxKeys = 2
  Strategies = {"heap_scan", "bplus_tree"}
  Deletes = {}
  Interleaved <- HeapOfTwo
SYMMETRY Symmetry
PROPERTY ImplementsMap
CHECK_DEADLOCK FALSE
