SPECIFICATION ViewSpec
CONSTANTS
  FileIds = {"data", "index", "catalog"}
  Heap = "data"
  Index = "index"
  Catalog = "catalog"
  Relation = Relation
  Zero = Zero
  MaxPages = 4
  Width = 5
  Tx = {t1, t2}
  Keys = {1, 2, 3}
  AsStored <- Faithful
  MaxBatch = 4
  MaxSlots = 2
  MaxRecords = 2
  Buckets = 2
  MaxKeys = 2
  Strategies = {"bplus_tree"}
  Deletes = {}
  Interleaved <- TreeOfThree
PROPERTY TreeSurvives
CHECK_DEADLOCK FALSE
