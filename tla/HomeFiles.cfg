SPECIFICATION Spec
CONSTANTS
  r1 = r1
  r2 = r2
  h1 = h1
  h2 = h2
  None = None
  Runs = {r1, r2}
  Hashes = {h1}
  RotateAt = 2
  MaxRecords = 6
  MaxStored = 3
  MaxTears = 2
  MaxBlocked = 2
SYMMETRY RunSymmetry
INVARIANTS
  TypeOK
  LedgerBounded
  OnlyTheOldestGo
  TearSpoilsTwo
  HistoryFloor
  WholePutsStay
CHECK_DEADLOCK FALSE
