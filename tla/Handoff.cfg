SPECIFICATION Spec
CONSTANTS
  Sessions = {s1, s2}
  s1 = s1
  s2 = s2
  None = None
  Keep = 1
  MaxTime = 2
  MaxTaken = 3
  MaxPassed = 2
SYMMETRY SessionSymmetry
INVARIANTS
  TypeOK
  DirectoryBounded
  RestoreNotBehind
PROPERTIES
  ImplementsArchive
CHECK_DEADLOCK FALSE
