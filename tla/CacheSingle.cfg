SPECIFICATION Spec
CONSTANTS
  e1 = e1
  small = small
  big = big
  Missing = Missing
  Engines = {e1}
  Keys = {1, 2, 3}
  Values = {small, big}
  SizeOf <- TwoSizes
  Limits = {0, 2, 3}
  MaxClock = 2
  Persistent = TRUE
  MayFail = TRUE
INVARIANTS
  TypeOK
  MemoryMirrorsRows
PROPERTIES
  ImplementsStore
  EvictionIsLRU
