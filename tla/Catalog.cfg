SPECIFICATION Spec
CONSTANTS
  FileIds = {"catalog"}
  Catalog = "catalog"
  Zero = Zero
  MaxPages = 4
  Width = 1
  Tx = {t1}
  Types = {a, b, c}
  Stats = {1, 2}
  PerPage = 1
  FirstPages <- BothFirstPages
INVARIANTS EntriesReachable
PROPERTY UpdatesHit
CHECK_DEADLOCK FALSE
