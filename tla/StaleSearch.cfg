SPECIFICATION Spec
CONSTANTS
  s1 = s1
  s2 = s2
  f1 = f1
  a = a
  b = b
  indented = indented
  Nothing = Nothing
  Servers = {s1}
  Files = {f1}
  Contents = {a, b}
  Text <- TextOf
  Size <- AllSmall
  ShortDiffs <- NoDiff
  MaxWrites = 1
  MaxRestarts = 1
INVARIANT OwnWritesInvalidate
