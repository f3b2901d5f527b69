SPECIFICATION Spec
CONSTANTS
  Rows = {"a", "b", "c"}
  Reads = {"report"}
  Clears = {"clear"}
  None = None
  BatchSize = 2
  MayFail = TRUE
INVARIANTS
  TypeOK
  NothingVanishes
  ReadsSeeSaves
  StoredOnce
PROPERTIES
  RowsSettle
CHECK_DEADLOCK FALSE
