----------------------- MODULE CacheReplicationProofs -----------------------
(***************************************************************************)
(* What the replication tool guarantees for any nodes, keys, values and    *)
(* entries, and any number of conflicts, snapshots and restores.           *)
(***************************************************************************)
EXTENDS CacheReplication, FiniteSetTheorems, WellFoundedInduction, TLAPS

-----------------------------------------------------------------------------
(* Clocks and conflicts.                                                   *)

\* Two clocks are never each before the other (happenedBefore).
LEMMA HappenedBeforeOneWay ==
  ASSUME NEW c \in Clocks, NEW d \in Clocks, HappenedBefore(c, d)
  PROVE  ~HappenedBefore(d, c)
BY DEF HappenedBefore, Clocks

LEMMA HappenedBeforeTransitive ==
  ASSUME NEW b \in Clocks, NEW c \in Clocks, NEW d \in Clocks,
         HappenedBefore(b, c), HappenedBefore(c, d)
  PROVE  HappenedBefore(b, d)
BY DEF HappenedBefore, Clocks

\* mergeVectorClocks gives the least clock that neither of the two exceeds.
THEOREM MergedClockIsLeast ==
  ASSUME NEW c \in Clocks, NEW d \in Clocks, NEW e \in Clocks
  PROVE  /\ MergeClocks(c, d) \in Clocks
         /\ MergeClocks(c, d) = MergeClocks(d, c)
         /\ (\A n \in Nodes : MergeClocks(c, d)[n] <= e[n])
              <=> (\A n \in Nodes : c[n] <= e[n]) /\ (\A n \in Nodes : d[n] <= e[n])
BY DEF MergeClocks, Clocks

LEMMA EntryTypes ==
  ASSUME NEW e \in Entries
  PROVE  e.key \in Keys /\ e.op \in {"set", "delete"} /\ e.value \in Values \cup {None}
         /\ e.at \in Nat /\ e.clock \in Clocks
BY DEF Entries

LEMMA TwoSides ==
  ASSUME NEW s \in Strategies \ {"merge"}, NEW e \in Entries, NEW f \in Entries, e.at # f.at
  PROVE  Resolve(s, e, f) = Resolve(s, f, e)
<1>t. e.at \in Nat /\ f.at \in Nat /\ e.clock \in Clocks /\ f.clock \in Clocks
  BY EntryTypes
<1>1. Later(e, f) = Later(f, e) /\ Earlier(e, f) = Earlier(f, e)
  BY <1>t DEF Later, Earlier
<1>2. ByClock(e, f) = ByClock(f, e)
  BY <1>t, <1>1, HappenedBeforeOneWay DEF ByClock
<1> QED BY <1>1, <1>2 DEF Resolve, Strategies

\* What settles a conflict is an entry of the key in conflict.
LEMMA ResolveType ==
  ASSUME NEW s \in Strategies, NEW e \in Entries, NEW f \in Entries, e.key = f.key
  PROVE  /\ Resolve(s, e, f).key = e.key
         /\ Resolve(s, e, f).op \in {"set", "delete"}
         /\ Resolve(s, e, f).value \in Values \cup {None}
<1>t. /\ e.key \in Keys /\ e.op \in {"set", "delete"} /\ e.value \in Values \cup {None}
      /\ f.op \in {"set", "delete"} /\ f.value \in Values \cup {None}
  BY EntryTypes
<1>1. Later(e, f) \in {e, f} /\ Earlier(e, f) \in {e, f} /\ ByClock(e, f) \in {e, f}
  BY DEF Later, Earlier, ByClock
<1>2. {e.value, f.value} \subseteq Objects => Spread(e.value, f.value) \in Objects
  BY DEF Spread, Objects
<1>3. (IF {e.value, f.value} \subseteq Objects
       THEN Spread(e.value, f.value) ELSE Later(e, f).value) \in Values \cup {None}
  BY <1>t, <1>1, <1>2 DEF Values
<1>4. /\ Merged(e, f).key = e.key
      /\ Merged(e, f).op = e.op
      /\ Merged(e, f).value = IF {e.value, f.value} \subseteq Objects
                              THEN Spread(e.value, f.value) ELSE Later(e, f).value
  <2> DEFINE V == IF {e.value, f.value} \subseteq Objects
                  THEN Spread(e.value, f.value) ELSE Later(e, f).value
             A == Later(e, f).at
             C == MergeClocks(e.clock, f.clock)
  <2>1. Merged(e, f) = [e EXCEPT !.value = V, !.at = A, !.clock = C]
    BY Zenon DEF Merged
  <2>2. e = [key |-> e.key, op |-> e.op, value |-> e.value, at |-> e.at, clock |-> e.clock]
    BY DEF Entries
  <2> HIDE DEF V, A, C
  <2>3. [e EXCEPT !.value = V, !.at = A, !.clock = C].key = e.key
        /\ [e EXCEPT !.value = V, !.at = A, !.clock = C].op = e.op
        /\ [e EXCEPT !.value = V, !.at = A, !.clock = C].value = V
    BY <2>2
  <2> QED BY <2>1, <2>3 DEF V
<1> QED BY <1>t, <1>1, <1>3, <1>4 DEF Resolve, Strategies

-----------------------------------------------------------------------------
(* Types.                                                                  *)

LEMMA WriteTypes ==
  ASSUME NEW w \in Writes
  PROVE  w.at \in Nat /\ w.key \in Keys /\ w.value \in Values \cup {None}
BY DEF Writes

LEMMA AfterType ==
  ASSUME cache \in Held, NEW writes \in SUBSET Writes
  PROVE  After(writes) \in Held
<1>1. ASSUME NEW k \in Keys, \E w \in Last(writes) : w.key = k
      PROVE  (CHOOSE w \in Last(writes) : w.key = k).value \in Values \cup {None}
  BY <1>1, WriteTypes DEF Last
<1> QED BY <1>1 DEF After, Held

\* How an entry that resolves a conflict is logged.
Write(entry) ==
  [at |-> current + 1, key |-> entry.key,
   value |-> IF entry.op = "set" THEN entry.value ELSE None]

LEMMA ResolveWrites ==
  ASSUME TypeOK, NEW local \in Incoming, NEW remote \in Incoming, ResolveConflict(local, remote)
  PROVE  \E w \in Writes :
           /\ w.at = current + 1
           /\ cache' = [cache EXCEPT ![w.key] = w.value]
           /\ log' = log \cup {w}
           /\ apart' = apart \ {w.key}
<1> DEFINE entry == Resolve(strategy, local, remote)
           w == Write(entry)
<1>1. strategy \in Strategies /\ local \in Entries /\ remote \in Entries
  BY ReplicationAssumption DEF TypeOK
<1>2. /\ entry.key = local.key /\ local.key \in Keys
      /\ entry.op \in {"set", "delete"} /\ entry.value \in Values \cup {None}
  BY <1>1, ResolveType, EntryTypes DEF ResolveConflict
<1>3. /\ cache' = [cache EXCEPT ![w.key] = w.value]
      /\ log' = log \cup {w}
      /\ apart' = apart \ {w.key}
  BY DEF ResolveConflict, Write
<1> HIDE DEF entry
<1>4. w \in Writes /\ w.at = current + 1
  BY <1>2 DEF Write, Writes, TypeOK
<1> HIDE DEF w
<1> QED BY <1>3, <1>4

LEMMA TypeInit == Init => TypeOK
BY ReplicationAssumption DEF Init, TypeOK, NoSync, Held

LEMMA SetsType ==
  ASSUME NEW writes \in SUBSET Writes
  PROVE  Sets(writes) \subseteq writes
BY DEF Sets

\* What a snapshot is made of.
LEMMA SnapshotFields ==
  ASSUME TypeOK, NEW s \in snapshots
  PROVE  /\ s.version \in Nat /\ s.sets \subseteq Writes
         /\ s.held \in Held
BY DEF TypeOK, Snapshots

\* What is logged and cached after a restore: everything or, up to where it stopped.
LEMMA RestoreWrites ==
  ASSUME TypeOK, NEW s \in snapshots, Restore(s)
  PROVE  /\ current' = s.version
         /\ \/ log' = s.sets /\ cache' = After(s.sets) /\ apart' = {}
            \/ \E stop \in s.sets :
                 /\ log' = {w \in s.sets : w.at <= stop.at}
                 /\ cache' = After({w \in s.sets : w.at < stop.at})
                 /\ apart' = {stop.key}
BY DEF Restore

LEMMA TypeStep == TypeOK /\ [Next]_vars => TypeOK'
<1> SUFFICES ASSUME TypeOK, [Next]_vars PROVE TypeOK'
  OBVIOUS
<1>1. ASSUME NEW m \in Modes, NEW s \in Offered, Configure(m, s) PROVE TypeOK'
  BY <1>1 DEF Configure, TypeOK, dataVars
<1>2. ASSUME NEW n \in Nodes, AddReplica(n) PROVE TypeOK'
  BY <1>2 DEF AddReplica, TypeOK, dataVars
<1>3. ASSUME NEW n \in Nodes, RemoveReplica(n) PROVE TypeOK'
  BY <1>3 DEF RemoveReplica, Replicas, TypeOK, dataVars
<1>4. ASSUME NEW n \in Nodes, PromoteReplica(n) PROVE TypeOK'
  BY <1>4 DEF PromoteReplica, Replicas, TypeOK, dataVars
<1>5. CASE SyncBegin
  BY <1>5 DEF SyncBegin, TypeOK, nodeVars, dataVars
<1>6. ASSUME NEW n \in Nodes, SyncNode(n) PROVE TypeOK'
  <2>1. syncing' \in [left : SUBSET Nodes, to : Nat]
    BY <1>6 DEF SyncNode, TypeOK, NoSync
  <2>2. version' \in [Nodes -> Nat]
    BY <1>6 DEF SyncNode, TypeOK
  <2> QED BY <1>6, <2>1, <2>2 DEF SyncNode, TypeOK, dataVars
<1>7. ASSUME NEW local \in Incoming, NEW remote \in Incoming, ResolveConflict(local, remote)
      PROVE  TypeOK'
  <2>1. PICK w \in Writes : /\ cache' = [cache EXCEPT ![w.key] = w.value]
                            /\ log' = log \cup {w}
                            /\ apart' = apart \ {w.key}
    BY <1>7, ResolveWrites
  <2>2. cache' \in Held
    BY <2>1, WriteTypes DEF TypeOK, Held
  <2>3. current' \in Nat /\ resolved' \in Nat
    BY <1>7 DEF ResolveConflict, TypeOK
  <2>4. UNCHANGED <<mode, strategy, nodeVars, snapshots, restored, foreign, syncing>>
    BY <1>7 DEF ResolveConflict
  <2> QED BY <2>1, <2>2, <2>3, <2>4 DEF TypeOK, nodeVars
<1>8. CASE CreateSnapshot
  <2> DEFINE s == [version |-> current, sets |-> Sets(log), held |-> Answered]
  <2>1. Sets(log) \subseteq Writes
    BY SetsType DEF TypeOK
  <2>2. Answered \in Held
    BY DEF Answered, Held, TypeOK
  <2>3. s \in Snapshots
    BY <2>1, <2>2 DEF Snapshots, TypeOK
  <2>4. snapshots' \subseteq snapshots \cup {s}
    BY <1>8 DEF CreateSnapshot
  <2> QED BY <1>8, <2>3, <2>4 DEF CreateSnapshot, TypeOK, nodeVars
<1>9. ASSUME NEW s \in snapshots, Restore(s) PROVE TypeOK'
  <2>1. s.version \in Nat /\ s.sets \subseteq Writes
    BY SnapshotFields
  <2>2. log' \subseteq Writes /\ apart' \subseteq Keys
    BY <1>9, <2>1, RestoreWrites, WriteTypes
  <2>3. cache' \in Held
    BY <1>9, <2>1, RestoreWrites, AfterType DEF TypeOK
  <2>4. current' \in Nat /\ restored' \in Nat
    BY <1>9, <2>1 DEF Restore, TypeOK
  <2> QED BY <1>9, <2>2, <2>3, <2>4 DEF Restore, TypeOK, nodeVars
<1>10. ASSUME NEW k \in Keys, OthersRemove(k) PROVE TypeOK'
  <2>1. cache' \in Held
    BY <1>10 DEF OthersRemove, TypeOK, Held
  <2> QED BY <1>10, <2>1 DEF OthersRemove, TypeOK, nodeVars
<1>11. ASSUME NEW k \in Keys, NEW v \in Foreign, OthersSet(k, v) PROVE TypeOK'
  <2>1. cache' \in Held
    BY <1>11, ReplicationAssumption DEF OthersSet, TypeOK, Held
  <2>2. apart' \subseteq Keys /\ foreign' \in Nat
    BY <1>11 DEF OthersSet, TypeOK
  <2> QED BY <1>11, <2>1, <2>2 DEF OthersSet, TypeOK, nodeVars
<1>12. CASE UNCHANGED vars
  BY <1>12 DEF vars, nodeVars, dataVars, TypeOK
<1> QED BY <1>1, <1>2, <1>3, <1>4, <1>5, <1>6, <1>7, <1>8, <1>9, <1>10, <1>11, <1>12 DEF Next

\* Types hold in every reachable state (CacheReplicationTool's fields).
THEOREM TypeCorrect == Spec => []TypeOK
BY TypeInit, TypeStep, PTL DEF Spec

\* Two sides that resolve the same conflict agree, whatever the entries and
\* clocks, unless their timestamps are equal (resolveConflicts).
THEOREM BothSidesAgree == Spec => []SidesAgree
<1>1. SidesAgree
  <2> SUFFICES ASSUME NEW s \in Strategies \ {"merge"}, NEW e \in Incoming, NEW f \in Incoming,
                      e.at # f.at
               PROVE  Resolve(s, e, f) = Resolve(s, f, e)
    BY DEF SidesAgree
  <2>1. e \in Entries /\ f \in Entries
    BY ReplicationAssumption
  <2> QED BY <2>1, TwoSides
<1> QED BY <1>1, PTL

-----------------------------------------------------------------------------
(* Primaries.                                                              *)

OneNode(S) == \E n \in Nodes : S = {n}

\* Inductive: a node is demoted only where another is promoted, and primary-replica
\* is the mode as long as no other was chosen.
PrimaryInv ==
  /\ primary # {}
  /\ plain => mode = "primary-replica" /\ OneNode(primary)

LEMMA PrimaryStep == TypeOK /\ PrimaryInv /\ [Next]_vars => PrimaryInv'
<1> SUFFICES ASSUME TypeOK, PrimaryInv, [Next]_vars PROVE PrimaryInv'
  OBVIOUS
<1>1. CASE \E n \in Nodes : PromoteReplica(n)
  <2>1. PICK n \in Nodes : PromoteReplica(n)
    BY <1>1
  <2>2. primary' # {} /\ UNCHANGED <<mode, plain>>
    BY <2>1 DEF PromoteReplica
  <2>3. plain => primary' = {n}
    BY <2>1 DEF PromoteReplica, PrimaryInv, OneNode
  <2> QED BY <2>2, <2>3 DEF PrimaryInv, OneNode
<1>2. CASE \E m \in Modes, s \in Offered : Configure(m, s)
  BY <1>2 DEF Configure, PrimaryInv, OneNode
<1>3. CASE UNCHANGED <<primary, mode, plain>>
  BY <1>3 DEF PrimaryInv, OneNode
<1>4. \/ \E n \in Nodes : PromoteReplica(n)
      \/ \E m \in Modes, s \in Offered : Configure(m, s)
      \/ UNCHANGED <<primary, mode, plain>>
  BY DEF Next, vars, nodeVars, AddReplica, RemoveReplica, SyncNode, SyncBegin, ResolveConflict,
         CreateSnapshot, Restore, OthersRemove, OthersSet
<1> QED BY <1>1, <1>2, <1>3, <1>4

\* There always is a primary, and one only in primary-replica mode (promoteReplica,
\* removeReplica).
THEOREM AlwaysAPrimary == Spec => []Primaries
<1>1. Init => PrimaryInv
  BY ReplicationAssumption DEF Init, PrimaryInv, OneNode
<1>2. PrimaryInv => Primaries
  BY FS_Singleton DEF PrimaryInv, OneNode, Primaries
<1> QED BY <1>1, <1>2, TypeInit, TypeStep, PrimaryStep, PTL DEF Spec

-----------------------------------------------------------------------------
(* The log.                                                                *)

\* Entries have places of their own, up to the version.
Ordered(writes, upto) ==
  /\ \A w \in writes : w.at <= upto
  /\ \A v, w \in writes : v.at = w.at => v = w

LEMMA OrderedSubset ==
  ASSUME NEW S, NEW T \in SUBSET S, NEW n, Ordered(S, n)
  PROVE  Ordered(T, n)
BY DEF Ordered

\* Applying the writes gives a key the value the last of them says.
LEMMA AfterLast ==
  ASSUME NEW writes \in SUBSET Writes, NEW n, Ordered(writes, n), NEW w \in Last(writes)
  PROVE  After(writes)[w.key] = w.value
<1>1. w \in Writes /\ w.key \in Keys
  BY WriteTypes DEF Last
<1>2. \A v \in Last(writes) : v.key = w.key => v = w
  <2> SUFFICES ASSUME NEW v \in Last(writes), v.key = w.key PROVE v = w
    OBVIOUS
  <2>1. v.at <= w.at /\ w.at <= v.at /\ v \in writes /\ w \in writes
    BY DEF Last
  <2>2. v.at \in Nat /\ w.at \in Nat
    BY <2>1, WriteTypes
  <2> QED BY <2>1, <2>2 DEF Ordered
<1>3. (CHOOSE v \in Last(writes) : v.key = w.key) = w
  BY <1>2
<1> QED BY <1>1, <1>3 DEF After

\* A key that is written has a last write.
LEMMA LastExists ==
  ASSUME NEW writes \in SUBSET Writes, NEW n \in Nat, Ordered(writes, n), NEW u \in writes
  PROVE  \E w \in Last(writes) : w.key = u.key
<1> DEFINE same == {w \in writes : w.key = u.key}
           T == {n - w.at : w \in same}
<1>1. \A w \in same : w.at \in Nat /\ w.at <= n
  BY WriteTypes DEF Ordered
<1>2. T \subseteq Nat /\ T # {}
  BY <1>1
<1>3. PICK x \in T : \A y \in T : ~ (<<y, x>> \in OpToRel(<, Nat))
  BY <1>2, NatLessThanWellFounded, WFMin
<1>4. \A y \in T : ~(y < x)
  BY <1>2, <1>3 DEF OpToRel
<1>5. PICK w \in same : x = n - w.at
  BY <1>3
<1>6. ASSUME NEW v \in same PROVE v.at <= w.at
  <2>1. n - v.at \in T
    OBVIOUS
  <2>2. ~(n - v.at < n - w.at)
    BY <1>4, <1>5, <2>1
  <2>3. v.at \in Nat /\ w.at \in Nat
    BY <1>1
  <2> HIDE DEF T, same
  <2> QED BY <2>2, <2>3
<1>7. w \in Last(writes) /\ w.key = u.key
  BY <1>5, <1>6 DEF Last
<1> QED BY <1>7

\* Inductive: the log and each snapshot are ordered, up to its version, and a
\* snapshot ends, for each key that had a value, with that value.
LogInv ==
  /\ Ordered(log, current)
  /\ \A s \in snapshots :
       /\ Ordered(s.sets, s.version)
       /\ \A k \in Keys : s.held[k] # None
            => \E w \in Last(s.sets) : w.key = k /\ w.value = s.held[k]
  /\ CacheFollowsLog

LEMMA LogResolve ==
  ASSUME TypeOK, LogInv, NEW local \in Incoming, NEW remote \in Incoming,
         ResolveConflict(local, remote)
  PROVE  LogInv'
<1>1. PICK w \in Writes : /\ w.at = current + 1
                          /\ cache' = [cache EXCEPT ![w.key] = w.value]
                          /\ log' = log \cup {w}
                          /\ apart' = apart \ {w.key}
  BY ResolveWrites
<1>2. current' = current + 1 /\ snapshots' = snapshots
  BY DEF ResolveConflict
<1>3. \A v \in log : v.at \in Nat /\ v.at <= current /\ v.key \in Keys
  BY WriteTypes DEF TypeOK, LogInv, Ordered
<1>4. current \in Nat /\ w.key \in Keys
  BY WriteTypes DEF TypeOK
<1>5. Ordered(log', current')
  BY <1>1, <1>2, <1>3, <1>4 DEF Ordered, LogInv
<1>6. CacheFollowsLog'
  <2> SUFFICES ASSUME NEW v \in Last(log'), v.key \notin apart'
               PROVE  cache'[v.key] \in {v.value, None}
    BY DEF CacheFollowsLog
  <2>1. CASE v = w
    BY <1>1, <1>4, <2>1 DEF TypeOK, Held
  <2>2. CASE v # w
    <3>1. v \in log /\ v \in Last(log)
      BY <1>1, <2>2 DEF Last
    <3>2. v.key # w.key
      BY <1>1, <1>3, <1>4, <3>1 DEF Last
    <3>3. cache[v.key] \in {v.value, None}
      BY <1>1, <3>1, <3>2 DEF LogInv, CacheFollowsLog
    <3> QED BY <1>1, <1>3, <3>1, <3>2, <3>3 DEF TypeOK, Held
  <2> QED BY <2>1, <2>2
<1> QED BY <1>2, <1>5, <1>6 DEF LogInv

LEMMA LogSnapshot ==
  ASSUME TypeOK, LogInv, CreateSnapshot
  PROVE  LogInv'
<1> DEFINE s == [version |-> current, sets |-> Sets(log), held |-> Answered]
<1>1. UNCHANGED <<log, current, cache, apart>> /\ snapshots' \subseteq snapshots \cup {s}
  BY DEF CreateSnapshot
<1>2. Ordered(Sets(log), current)
  BY SetsType, OrderedSubset DEF TypeOK, LogInv
<1>3. ASSUME NEW k \in Keys, Answered[k] # None
      PROVE  \E w \in Last(Sets(log)) : w.key = k /\ w.value = Answered[k]
  <2>0. k \in Logged(log) \ apart /\ Answered[k] = cache[k]
    BY <1>3 DEF Answered
  <2>1. PICK u \in log : u.key = k
    BY <2>0 DEF Logged
  <2>2. PICK w \in Last(log) : w.key = k
    BY <2>1, LastExists DEF TypeOK, LogInv
  <2>3. w.value = cache[k]
    BY <1>3, <2>0, <2>2 DEF LogInv, CacheFollowsLog
  <2>4. w \in Last(Sets(log))
    BY <1>3, <2>0, <2>2, <2>3 DEF Last, Sets
  <2> QED BY <2>0, <2>2, <2>3, <2>4
<1>4. /\ Ordered(s.sets, s.version)
      /\ \A k \in Keys : s.held[k] # None
           => \E w \in Last(s.sets) : w.key = k /\ w.value = s.held[k]
  BY <1>2, <1>3
<1>5. CacheFollowsLog'
  BY <1>1 DEF LogInv, CacheFollowsLog
<1> HIDE DEF s
<1> QED BY <1>1, <1>4, <1>5 DEF LogInv

LEMMA LogRestore ==
  ASSUME TypeOK, LogInv, NEW s \in snapshots, Restore(s)
  PROVE  LogInv'
<1>1. /\ s.version \in Nat /\ s.sets \in SUBSET Writes
      /\ current' = s.version /\ Ordered(s.sets, s.version)
  BY SnapshotFields, RestoreWrites DEF LogInv
<1>2. snapshots' = snapshots
  BY DEF Restore
<1>3. CASE log' = s.sets /\ cache' = After(s.sets) /\ apart' = {}
  <2>1. CacheFollowsLog'
    BY <1>1, <1>3, AfterLast DEF CacheFollowsLog
  <2> QED BY <1>1, <1>2, <1>3, <2>1 DEF LogInv
<1>4. CASE \E stop \in s.sets :
             /\ log' = {w \in s.sets : w.at <= stop.at}
             /\ cache' = After({w \in s.sets : w.at < stop.at})
             /\ apart' = {stop.key}
  <2>1. PICK stop \in s.sets :
               /\ log' = {w \in s.sets : w.at <= stop.at}
               /\ cache' = After({w \in s.sets : w.at < stop.at})
               /\ apart' = {stop.key}
    BY <1>4
  <2> DEFINE before == {w \in s.sets : w.at < stop.at}
  <2>2. \A w \in s.sets : w.at \in Nat
    BY <1>1, WriteTypes
  <2>3. before \in SUBSET Writes /\ Ordered(before, s.version) /\ Ordered(log', current')
    BY <1>1, <2>1, OrderedSubset
  <2>4. CacheFollowsLog'
    <3> SUFFICES ASSUME NEW w \in Last(log'), w.key # stop.key
                 PROVE  cache'[w.key] \in {w.value, None}
      BY <2>1 DEF CacheFollowsLog
    <3>1. w \in s.sets /\ w.at <= stop.at /\ w # stop
      BY <2>1 DEF Last
    <3>2. w.at < stop.at
      BY <1>1, <2>2, <3>1 DEF Ordered
    <3>3. w \in Last(before)
      BY <2>1, <2>2, <3>2 DEF Last
    <3> QED BY <2>1, <2>3, <3>3, AfterLast
  <2> QED BY <1>2, <2>3, <2>4 DEF LogInv
<1> QED BY <1>3, <1>4, RestoreWrites

LEMMA LogOthers ==
  ASSUME TypeOK, LogInv, NEW k \in Keys, OthersRemove(k) \/ \E v \in Foreign : OthersSet(k, v)
  PROVE  LogInv'
<1>1. UNCHANGED <<log, current, snapshots>> /\ apart \subseteq apart'
  BY DEF OthersRemove, OthersSet
<1>2. ASSUME NEW w \in Last(log), w.key \notin apart'
      PROVE  cache'[w.key] \in {w.value, None}
  <2>1. w \in log /\ w.key \in Keys /\ cache[w.key] \in {w.value, None}
    BY <1>1, <1>2, WriteTypes DEF TypeOK, LogInv, CacheFollowsLog, Last
  <2>2. CASE OthersRemove(k)
    BY <2>1, <2>2 DEF OthersRemove, TypeOK, Held
  <2>3. CASE \E v \in Foreign : OthersSet(k, v)
    <3>1. w.key # k
      BY <1>2, <2>1, <2>3 DEF OthersSet, Logged
    <3> QED BY <2>1, <2>3, <3>1 DEF OthersSet, TypeOK, Held
  <2> QED BY <2>2, <2>3
<1>3. CacheFollowsLog'
  BY <1>1, <1>2 DEF CacheFollowsLog
<1> QED BY <1>1, <1>3 DEF LogInv

LEMMA LogStep == TypeOK /\ LogInv /\ [Next]_vars => LogInv'
<1> SUFFICES ASSUME TypeOK, LogInv, [Next]_vars PROVE LogInv'
  OBVIOUS
<1>1. CASE UNCHANGED <<log, current, snapshots, cache, apart>>
  BY <1>1 DEF LogInv, CacheFollowsLog
<1>2. \/ \E local, remote \in Incoming : ResolveConflict(local, remote)
      \/ CreateSnapshot
      \/ \E s \in snapshots : Restore(s)
      \/ \E k \in Keys : OthersRemove(k) \/ \E v \in Foreign : OthersSet(k, v)
      \/ UNCHANGED <<log, current, snapshots, cache, apart>>
  BY DEF Next, vars, dataVars, Configure, AddReplica, RemoveReplica, PromoteReplica, SyncNode, SyncBegin
<1> QED BY <1>1, <1>2, LogResolve, LogSnapshot, LogRestore, LogOthers

LEMMA LogInit == Init => LogInv
BY DEF Init, LogInv, Ordered, CacheFollowsLog, Last

\* The cache answers what the log says last of a key, or nothing, whatever other
\* tools remove and wherever a restore stops, but for the key at which it stopped
\* and keys another tool has set since (applyReplicationEntry, restore).
THEOREM CacheAgreesWithLog == Spec => []CacheFollowsLog
<1>1. LogInv => CacheFollowsLog
  BY DEF LogInv
<1> QED BY <1>1, LogInit, LogStep, TypeInit, TypeStep, PTL DEF Spec

\* A restore that does not fail brings back every value that was there when the
\* snapshot was taken (createSnapshot, restore).
THEOREM RestoresBringBack == Spec => RestoreBringsBack
<1>1. ASSUME TypeOK, LogInv, NEW s \in snapshots, Restore(s), apart' = {},
             NEW k \in Keys, s.held[k] # None
      PROVE  cache'[k] = s.held[k]
  <2>1. s.sets \in SUBSET Writes /\ Ordered(s.sets, s.version)
    BY <1>1, SnapshotFields DEF LogInv
  <2>2. cache' = After(s.sets)
    BY <1>1, RestoreWrites
  <2>3. PICK w \in Last(s.sets) : w.key = k /\ w.value = s.held[k]
    BY <1>1 DEF LogInv
  <2> QED BY <2>1, <2>2, <2>3, AfterLast
<1>2. TypeOK /\ LogInv
        => [\A s \in snapshots :
              (Restore(s) /\ apart' = {})
                => \A k \in Keys : s.held[k] # None => cache'[k] = s.held[k]]_vars
  BY <1>1
<1> QED BY <1>2, LogInit, LogStep, TypeInit, TypeStep, PTL DEF Spec, RestoreBringsBack
=============================================================================
