------------------------- MODULE ConflictResolution -------------------------
(***************************************************************************)
(* How CacheReplicationTool settles a conflict between two entries of one  *)
(* key (tools/advanced-caching/cache-replication.ts).  A vector clock is a *)
(* function over all nodes: the code reads a missing counter as 0.         *)
(***************************************************************************)
EXTENDS Naturals

CONSTANTS
  Nodes,    \* node ids
  Keys,     \* cache keys
  Texts,    \* values with a length: strings that are no JSON text, arrays
  Fields,   \* fields of the values that are objects
  Absent,   \* a field an object does not have
  None      \* no value

Clocks == [Nodes -> Nat]
Objects == [Fields -> Nat \cup {Absent}]
Values == Texts \cup Objects
Entries == [key : Keys, op : {"set", "delete"}, value : Values \cup {None},
            at : Nat, clock : Clocks]

ASSUME ConflictAssumption ==
  /\ Absent \notin Nat
  /\ None \notin Values
  /\ Texts \cap Objects = {}

Strategies == {"last-write-wins", "first-write-wins", "vector-clock", "merge"}

-----------------------------------------------------------------------------
\* A slip in happenedBefore: one smaller counter is enough.
HappenedBeforeSomewhere(c, d) == \E n \in Nodes : c[n] < d[n]

\* happenedBefore: nowhere greater, somewhere less.
HappenedBefore(c, d) ==
  /\ \A n \in Nodes : c[n] <= d[n]
  /\ \E n \in Nodes : c[n] < d[n]

MergeClocks(c, d) == [n \in Nodes |-> IF c[n] > d[n] THEN c[n] ELSE d[n]]

Later(local, remote) == IF local.at > remote.at THEN local ELSE remote
Earlier(local, remote) == IF local.at < remote.at THEN local ELSE remote

\* resolveWithVectorClock: concurrent entries are ordered by time.
ByClock(local, remote) ==
  CASE HappenedBefore(local.clock, remote.clock) -> remote
    [] HappenedBefore(remote.clock, local.clock) -> local
    [] OTHER -> Later(local, remote)

\* The spread of two objects: the remote one's fields replace the local one's.
Spread(o, p) == [f \in Fields |-> IF p[f] # Absent THEN p[f] ELSE o[f]]

\* mergeConflict: two objects are merged, of anything else the later is taken;
\* all but value, time and clock is the local entry's.
Merged(local, remote) ==
  [local EXCEPT
     !.value = IF {local.value, remote.value} \subseteq Objects
               THEN Spread(local.value, remote.value) ELSE Later(local, remote).value,
     !.at = Later(local, remote).at,
     !.clock = MergeClocks(local.clock, remote.clock)]

Resolve(strategy, local, remote) ==
  CASE strategy = "last-write-wins" -> Later(local, remote)
    [] strategy = "first-write-wins" -> Earlier(local, remote)
    [] strategy = "vector-clock" -> ByClock(local, remote)
    [] strategy = "merge" -> Merged(local, remote)
=============================================================================
