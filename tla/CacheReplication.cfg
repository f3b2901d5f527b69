SPECIFICATION Spec
CONSTANTS
  p = p
  r = r
  k1 = k1
  k2 = k2
  text = text
  other = other
  None = None
  Absent = Absent
  Nodes = {p, r}
  First = p
  Modes = {"primary-replica", "master-slave"}
  Offered = {"last-write-wins"}
  Keys = {k1, k2}
  Texts = {text, other}
  Fields <- MCFields
  Incoming <- MCIncoming
  Foreign = {text}
  Persistent = TRUE
  MaxResolved = 2
  MaxRestored = 1
  MaxSnapshots = 1
  MaxForeign = 1
INVARIANTS
  TypeOK
  Primaries
  CacheFollowsLog
  SidesAgree
PROPERTIES
  RestoreBringsBack
  ReplicasCatchUp
