-------------------------- MODULE CacheReplication --------------------------
(***************************************************************************)
(* The cache_replication tool (tools/advanced-caching/cache-replication.ts) *)
(* of one server process: its nodes, replication log and snapshots are in  *)
(* memory, the entries it applies are in the cache, which it shares with   *)
(* every other tool of the server and with other servers.  Nodes are       *)
(* simulated: a delta sent to a node changes the version recorded for it.  *)
(*                                                                         *)
(* An operation runs without interruption, except that sync gives way after *)
(* each node.  Left out: lag, health, heartbeats, weights, counters, and   *)
(* the tool's own vector clock, which no decision reads.                   *)
(***************************************************************************)
EXTENDS ConflictResolution, FiniteSets

CONSTANTS
  First,         \* the node the tool is constructed with
  Modes,         \* modes a caller may choose; all but primary-replica act alike
  Offered,       \* strategies a caller may choose
  Incoming,      \* entries a caller may name in a conflict
  Foreign,       \* values another tool may cache under the same keys
  Persistent,    \* whether the cache has its SQLite table, or the Map
  MaxResolved,   \* bound: conflicts resolved
  MaxRestored,   \* bound: snapshots restored
  MaxSnapshots,  \* bound: snapshots kept
  MaxForeign     \* bound: keys removed or set by others

ASSUME ReplicationAssumption ==
  /\ First \in Nodes
  /\ "primary-replica" \in Modes
  /\ Modes \subseteq {"primary-replica", "multi-primary", "master-slave", "peer-to-peer"}
  /\ "last-write-wins" \in Offered /\ Offered \subseteq Strategies
  /\ Incoming \subseteq Entries
  /\ Foreign \subseteq Values
  /\ Persistent \in BOOLEAN
  /\ \A e \in Incoming : (e.op = "delete") <=> (e.value = None)
  /\ MaxResolved \in Nat /\ MaxRestored \in Nat /\ MaxSnapshots \in Nat
  /\ MaxForeign \in Nat

\* An entry of the log: the version it brought the tool to, and the value it
\* gives its key, None where it deletes.
Writes == [at : Nat, key : Keys, value : Values \cup {None}]
NoSync == [left |-> {}, to |-> 0]

VARIABLES
  mode, strategy,  \* config.mode, config.conflictResolution
  nodes, primary,  \* nodes, and those with isPrimary
  version,         \* node.version of each node
  current,         \* currentVersion
  log,             \* replicationLog, ordered by `at`
  syncing,         \* a sync under way: nodes not yet reached, delta.toVersion
  snapshots,       \* each with what the cache had of the log by then (history)
  cache,           \* what the cache answers for each key
  plain,           \* history: the mode has always been primary-replica
  apart,           \* history: keys whose last log entry did not reach the cache or
                   \*   was overwritten there by another tool
  resolved, restored, \* count conflicts resolved and snapshots restored
  foreign          \* counts keys removed or set by others

nodeVars == <<nodes, primary, version, plain>>
dataVars == <<current, log, snapshots, cache, apart, resolved, restored, foreign>>
vars == <<mode, strategy, nodeVars, dataVars, syncing>>

Held == [Keys -> Values \cup {None}]
Snapshots == [version : Nat, sets : SUBSET Writes, held : Held]

TypeOK ==
  /\ mode \in Modes /\ strategy \in Offered
  /\ nodes \subseteq Nodes /\ primary \subseteq nodes
  /\ version \in [Nodes -> Nat]
  /\ current \in Nat
  /\ log \subseteq Writes
  /\ syncing \in [left : SUBSET Nodes, to : Nat]
  /\ snapshots \subseteq Snapshots
  /\ cache \in Held
  /\ plain \in BOOLEAN
  /\ apart \subseteq Keys
  /\ resolved \in Nat /\ restored \in Nat /\ foreign \in Nat

Init ==
  /\ mode = "primary-replica" /\ strategy = "last-write-wins"
  /\ nodes = {First} /\ primary = {First} /\ version = [n \in Nodes |-> 0]
  /\ current = 0 /\ log = {} /\ syncing = NoSync /\ snapshots = {}
  /\ cache = [k \in Keys |-> None]
  /\ plain = TRUE /\ apart = {} /\ resolved = 0 /\ restored = 0
  /\ foreign = 0

-----------------------------------------------------------------------------
Replicas == nodes \ primary

Logged(writes) == {w.key : w \in writes}

\* The last of the writes to each key.
Last(writes) == {w \in writes : \A v \in writes : v.key = w.key => v.at <= w.at}

\* The cache once the writes are applied.
After(writes) ==
  [k \in Keys |-> IF \E w \in Last(writes) : w.key = k
                  THEN (CHOOSE w \in Last(writes) : w.key = k).value ELSE cache[k]]

-----------------------------------------------------------------------------
(* Configuration and nodes.                                                *)

\* configure
Configure(m, s) ==
  /\ mode' = m /\ strategy' = s
  /\ plain' = (plain /\ m = "primary-replica")
  /\ UNCHANGED <<nodes, primary, version, dataVars, syncing>>

\* addReplica, with its first sync.
AddReplica(n) ==
  /\ n \notin nodes
  /\ nodes' = nodes \cup {n}
  /\ version' = [version EXCEPT ![n] = current]
  /\ UNCHANGED <<mode, strategy, primary, plain, dataVars, syncing>>

\* A slip in removeReplica: a primary is not refused.
RemoveAny(n) ==
  /\ n \in nodes
  /\ nodes' = nodes \ {n} /\ primary' = primary \ {n}
  /\ version' = [version EXCEPT ![n] = 0]
  /\ UNCHANGED <<mode, strategy, plain, dataVars, syncing>>

RemoveReplica(n) ==
  /\ n \in Replicas
  /\ nodes' = nodes \ {n}
  /\ version' = [version EXCEPT ![n] = 0]
  /\ UNCHANGED <<mode, strategy, primary, plain, dataVars, syncing>>

\* A slip in promoteReplica: a node that is not there is not refused.
PromoteUnknown(n) ==
  /\ n \in Nodes \ primary
  /\ \E p \in primary :
       primary' = (IF mode = "primary-replica" THEN primary \ {p} ELSE primary) \cup {n}
  /\ UNCHANGED <<mode, strategy, nodes, version, plain, dataVars, syncing>>

\* promoteReplica demotes the first primary it meets, in one of the modes.
PromoteReplica(n) ==
  /\ n \in Replicas
  /\ \E p \in primary :
       primary' = (IF mode = "primary-replica" THEN primary \ {p} ELSE primary) \cup {n}
  /\ UNCHANGED <<mode, strategy, nodes, version, plain, dataVars, syncing>>

-----------------------------------------------------------------------------
(* Sync.                                                                   *)

\* sync, or its timer: the delta is made and the nodes are listed.
SyncBegin ==
  /\ syncing = NoSync
  /\ syncing' = [left |-> nodes, to |-> current]
  /\ UNCHANGED <<mode, strategy, nodeVars, dataVars>>

\* A slip in sync: a node whose version is not older is left out.
SyncOlderOnly(n) ==
  /\ n \in syncing.left
  /\ version' = IF n \in Replicas /\ version[n] < syncing.to
                THEN [version EXCEPT ![n] = syncing.to] ELSE version
  /\ syncing' = IF syncing.left = {n} THEN NoSync ELSE [syncing EXCEPT !.left = @ \ {n}]
  /\ UNCHANGED <<mode, strategy, nodes, primary, plain, dataVars>>

\* The next node; primaries are left out, and one that was removed fails.
SyncNode(n) ==
  /\ n \in syncing.left
  /\ version' = IF n \in Replicas THEN [version EXCEPT ![n] = syncing.to] ELSE version
  /\ syncing' = IF syncing.left = {n} THEN NoSync ELSE [syncing EXCEPT !.left = @ \ {n}]
  /\ UNCHANGED <<mode, strategy, nodes, primary, plain, dataVars>>

-----------------------------------------------------------------------------
(* Entries.                                                                *)

\* A slip in applyReplicationEntry: a delete is not carried out.
ResolveWithoutDelete(local, remote) ==
  /\ resolved < MaxResolved /\ local.key = remote.key
  /\ LET entry == Resolve(strategy, local, remote)
         write == [at |-> current + 1, key |-> entry.key,
                   value |-> IF entry.op = "set" THEN entry.value ELSE None]
     IN  /\ entry.op = "set" => entry.value # None
         /\ cache' = IF entry.op = "set" THEN [cache EXCEPT ![write.key] = write.value] ELSE cache
         /\ log' = log \cup {write}
         /\ apart' = apart \ {write.key}
  /\ current' = current + 1 /\ resolved' = resolved + 1
  /\ UNCHANGED <<mode, strategy, nodeVars, snapshots, restored, foreign, syncing>>

\* resolveConflicts of one conflict and applyReplicationEntry.  To set no value,
\* which a merge with a delete can come to, throws before anything is changed, and
\* so does a cache that fails: the entry is not logged.
ResolveConflict(local, remote) ==
  /\ resolved < MaxResolved /\ local.key = remote.key
  /\ LET entry == Resolve(strategy, local, remote)
         write == [at |-> current + 1, key |-> entry.key,
                   value |-> IF entry.op = "set" THEN entry.value ELSE None]
     IN  /\ entry.op = "set" => entry.value # None
         /\ cache' = [cache EXCEPT ![write.key] = write.value]
         /\ log' = log \cup {write}
         /\ apart' = apart \ {write.key}
  /\ current' = current + 1 /\ resolved' = resolved + 1
  /\ UNCHANGED <<mode, strategy, nodeVars, snapshots, restored, foreign, syncing>>

Sets(writes) == {w \in writes : w.value # None}

\* What the cache has of the keys of the log, others' values left out.
Answered == [k \in Keys |-> IF k \in Logged(log) \ apart THEN cache[k] ELSE None]

\* A slip in createSnapshot: the log is read from its end.
SnapshotReversed ==
  /\ \E kept \in SUBSET snapshots :
       /\ Cardinality(kept) < MaxSnapshots
       /\ snapshots' = kept \cup {[version |-> current,
                                   sets |-> {[w EXCEPT !.at = current - @] : w \in Sets(log)},
                                   held |-> Answered]}
  /\ UNCHANGED <<mode, strategy, nodeVars, current, log, cache, apart, resolved, restored,
                 foreign, syncing>>

\* createSnapshot, or its timer: what the log sets, in its order; snapshots past
\* the retention period are removed.
CreateSnapshot ==
  /\ \E kept \in SUBSET snapshots :
       /\ Cardinality(kept) < MaxSnapshots
       /\ snapshots' = kept \cup {[version |-> current, sets |-> Sets(log), held |-> Answered]}
  /\ UNCHANGED <<mode, strategy, nodeVars, current, log, cache, apart, resolved, restored,
                 foreign, syncing>>

\* restore logs and caches the values in turn.  SQLite may fail at any of them, and
\* does at an object, which has no length to store: what has been done by then
\* stays, that value logged but not cached.  The Map takes them all.
Restore(s) ==
  /\ restored < MaxRestored
  /\ LET objects == {w \in s.sets : w.value \notin Texts}
     IN  \/ /\ Persistent => objects = {}
            /\ log' = s.sets /\ cache' = After(s.sets) /\ apart' = {}
         \/ /\ Persistent
            /\ \E stop \in s.sets :
                 /\ \A w \in objects : stop.at <= w.at
                 /\ log' = {w \in s.sets : w.at <= stop.at}
                 /\ cache' = After({w \in s.sets : w.at < stop.at})
                 /\ apart' = {stop.key}
  /\ current' = s.version /\ restored' = restored + 1
  /\ UNCHANGED <<mode, strategy, nodeVars, snapshots, resolved, foreign, syncing>>

-----------------------------------------------------------------------------
(* The others on the cache, as far as the keys of the log go.              *)

\* A key goes: invalidation, eviction, a clear, expiry, another server.
OthersRemove(k) ==
  /\ foreign < MaxForeign /\ k \in Logged(log) /\ cache[k] # None
  /\ cache' = [cache EXCEPT ![k] = None] /\ foreign' = foreign + 1
  /\ UNCHANGED <<mode, strategy, nodeVars, current, log, snapshots, apart, resolved, restored,
                 syncing>>

\* smart_cache, cache_warmup and others cache what they are given under any key.
OthersSet(k, v) ==
  /\ foreign < MaxForeign /\ k \in Logged(log)
  /\ cache' = [cache EXCEPT ![k] = v] /\ apart' = apart \cup {k} /\ foreign' = foreign + 1
  /\ UNCHANGED <<mode, strategy, nodeVars, current, log, snapshots, resolved, restored, syncing>>

-----------------------------------------------------------------------------
Next ==
  \/ \E m \in Modes, s \in Offered : Configure(m, s)
  \/ \E n \in Nodes : AddReplica(n) \/ RemoveReplica(n) \/ PromoteReplica(n) \/ SyncNode(n)
  \/ SyncBegin
  \/ \E local, remote \in Incoming : ResolveConflict(local, remote)
  \/ CreateSnapshot
  \/ \E s \in snapshots : Restore(s)
  \/ \E k \in Keys : OthersRemove(k) \/ \E v \in Foreign : OthersSet(k, v)

\* sync is on an interval timer; the promises it awaits are already resolved.
Fairness == WF_vars(SyncBegin) /\ \A n \in Nodes : WF_vars(SyncNode(n))

Spec == Init /\ [][Next]_vars /\ Fairness

-----------------------------------------------------------------------------
(* Properties.                                                             *)

\* However nodes are added, promoted and removed and modes changed there is a
\* primary, and as long as the mode has never been another than primary-replica
\* there is one only (promoteReplica, removeReplica).
Primaries == primary # {} /\ (plain => Cardinality(primary) = 1)

\* Under a key of the log the cache answers what the log says last of it, or nothing,
\* and nothing where that is a delete: never an older value, through deletes,
\* restores that stop half way, changes of strategy and whatever others remove.  But
\* for the key at which a restore stopped, and keys another tool has set since.
CacheFollowsLog ==
  \A w \in Last(log) : w.key \notin apart => cache[w.key] \in {w.value, None}

\* A restore that does not fail brings back the value that every key of the log
\* had in the cache when the snapshot was taken, if it had one of the log's;
\* deleted keys may come back, and so may what others had removed.
RestoreBringsBack ==
  [][\A s \in snapshots :
       (Restore(s) /\ apart' = {})
         => \A k \in Keys : s.held[k] # None => cache'[k] = s.held[k]]_vars

\* Two sides that resolve the same conflict, each calling the other's entry the
\* remote one, agree, unless the entries have the same timestamp.
SidesAgree ==
  \A s \in Strategies \ {"merge"} : \A e, f \in Incoming :
    (e.key = f.key /\ e.at # f.at) => Resolve(s, e, f) = Resolve(s, f, e)

\* A node that remains a replica ends at the version of the log once nothing more
\* is resolved or restored, whatever sync was cut through by other operations.
ReplicasCatchUp ==
  \A n \in Nodes : <>[](n \in Replicas) => <>[](version[n] = current)

-----------------------------------------------------------------------------
(* What the comments say and the code does not keep.                       *)

\* There is one primary where no other mode is chosen than primary-replica and the
\* one documented as its alias ("'master-slave' // Alias for primary-replica").
OnePrimary ==
  Modes \subseteq {"primary-replica", "master-slave"} => Cardinality(primary) = 1
=============================================================================
