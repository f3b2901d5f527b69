SPECIFICATION Spec
CONSTANTS
  s1 = s1
  s2 = s2
  f1 = f1
  a = a
  b = b
  indented = indented
  Nothing = Nothing
  Servers = {s1}
  Files = {f1}
  Contents = {a, b, indented}
  Text <- TextOf
  Size <- AllSmall
  ShortDiffs <- SomeDiffs
  MaxWrites = 1
  MaxRestarts = 1
INVARIANTS
  TypeOK
  SearchSeesOwnWrites
PROPERTIES
  DiffsFollowReads
