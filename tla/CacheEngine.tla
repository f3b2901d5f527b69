----------------------------- MODULE CacheEngine ----------------------------
(***************************************************************************)
(* The two-tier cache behind every smart_* tool (optimizer/core/           *)
(* cache-engine.ts): engines, each with a memory tier of its own, over one *)
(* database.  The database is a SQLite file, or a Map of one process when  *)
(* better-sqlite3 cannot be loaded.  An instance of this module is one where *)
(* every process finds it the same: see Persistent.                        *)
(*                                                                         *)
(* An operation runs to its end before its process does anything else, but *)
(* the statements of other processes may come between its statements.  The *)
(* two of evictLRU are steps of their own.  get and touch, and a set with  *)
(* the time it read before it, are one step: exact with one engine, which  *)
(* is what the properties are claimed for.                                 *)
(*                                                                         *)
(* Values stand for stored texts; SizeOf is their compressed size.  The    *)
(* hit and miss counters and created_at are left out: nothing decides on   *)
(* them.  Keys are numbers because SQL breaks ties by the key's order.     *)
(* The semantic lookup is left out: no caller passes an embedding          *)
(* generator.                                                              *)
(***************************************************************************)
EXTENDS Naturals, FiniteSets

CONSTANTS
  Engines,      \* CacheEngine instances over the database
  Keys, Values, Missing,
  SizeOf,       \* compressed size of each value
  Limits,       \* the limits evictLRU is called with
  MaxClock,     \* bound: distinct milliseconds
  Persistent,   \* SQLite, as against the Map that dies with its process; a process
                \*   that falls back to the Map where others have SQLite is left out
  MayFail       \* SQLite may throw (locked by another process, disk full)

ASSUME CacheAssumption ==
  /\ Keys \subseteq Nat
  /\ Missing \notin Values
  /\ SizeOf \in [Values -> Nat]
  /\ Limits \subseteq Nat
  /\ MaxClock \in Nat
  /\ Persistent \in BOOLEAN
  /\ Persistent \/ \A d, e \in Engines : d = e   \* a Map has one engine
  /\ MayFail \in BOOLEAN

VARIABLES
  rows,    \* the table: value and last_accessed_at under each key
  mem,     \* the memory tier of each engine
  clock,   \* Date.now()
  answer,  \* what the latest operation returned
  evicting,\* per engine: the survivors its evictLRU has selected, in a set of
           \*   their own; {} when none is under way
  used     \* history: when each key was last set or answered

vars == <<rows, mem, clock, answer, evicting, used>>

NoRow == [value |-> Missing, at |-> 0]
Rows == [value : Values, at : 0..MaxClock] \cup {NoRow}
NoRows == [k \in Keys |-> NoRow]
NoMemory == [k \in Keys |-> Missing]

\* The abstract store this component implements when one engine uses the file.
Stored == [k \in Keys |-> rows[k].value]
Store == INSTANCE LossyStore WITH store <- Stored

TypeOK ==
  /\ rows \in [Keys -> Rows]
  /\ mem \in [Engines -> [Keys -> Values \cup {Missing}]]
  /\ clock \in 0..MaxClock
  /\ answer \in Store!Answers
  /\ evicting \in [Engines -> SUBSET SUBSET Keys]
  /\ used \in [Keys -> 0..MaxClock]

Init ==
  /\ rows = NoRows
  /\ mem = [e \in Engines |-> NoMemory]
  /\ clock = 0
  /\ answer = Store!Done
  /\ evicting = [e \in Engines |-> {}]
  /\ used = [k \in Keys |-> 0]

Present == {k \in Keys : rows[k].value # Missing}

-----------------------------------------------------------------------------
(* get, getWithMetadata: the memory tier, then the database.               *)

\* A slip in getExact: an answer from memory does not refresh last_accessed_at.
MemoryHitUntouched(e, k) ==
  /\ mem[e][k] # Missing
  /\ answer' = Store!Hit(k, mem[e][k])
  /\ used' = [used EXCEPT ![k] = clock]
  /\ UNCHANGED <<rows, mem, clock, evicting>>

\* touch: UPDATE ... WHERE key = ?, which changes nothing without a row.
Touched(k) == [rows EXCEPT ![k] = IF @.value = Missing THEN @ ELSE [@ EXCEPT !.at = clock]]

MemoryHit(e, k) ==
  /\ mem[e][k] # Missing
  /\ answer' = Store!Hit(k, mem[e][k])
  /\ rows' = Touched(k)
  /\ used' = [used EXCEPT ![k] = clock]
  /\ UNCHANGED <<mem, clock, evicting>>

\* A slip in getExact: the memory tier is given the row instead of its value.
BackendHitWholeRow(e, k) ==
  /\ mem[e][k] = Missing
  /\ rows[k].value # Missing
  /\ answer' = Store!Hit(k, rows[k].value)
  /\ rows' = Touched(k)
  /\ mem' = [mem EXCEPT ![e][k] = rows[k]]
  /\ used' = [used EXCEPT ![k] = clock]
  /\ UNCHANGED <<clock, evicting>>

BackendHit(e, k) ==
  /\ mem[e][k] = Missing
  /\ rows[k].value # Missing
  /\ answer' = Store!Hit(k, rows[k].value)
  /\ rows' = Touched(k)
  /\ mem' = [mem EXCEPT ![e][k] = rows[k].value]
  /\ used' = [used EXCEPT ![k] = clock]
  /\ UNCHANGED <<clock, evicting>>

GetMiss(e, k) ==
  /\ mem[e][k] = Missing
  /\ rows[k].value = Missing
  /\ answer' = Store!Miss(k)
  /\ UNCHANGED <<rows, mem, clock, used, evicting>>

Get(e, k) == MemoryHit(e, k) \/ BackendHit(e, k) \/ GetMiss(e, k)

-----------------------------------------------------------------------------
(* set, delete, clear, evictLRU, and what an exception leaves of them.     *)

\* The database first: an exception there leaves the memory tier alone.
Set(e, k, v) ==
  /\ rows' = [rows EXCEPT ![k] = [value |-> v, at |-> clock]]
  /\ mem' = [mem EXCEPT ![e][k] = v]
  /\ used' = [used EXCEPT ![k] = clock]
  /\ answer' = Store!Done
  /\ UNCHANGED <<clock, evicting>>

\* A slip in set: the memory tier first.
SetFailsLate(e, k, v) ==
  /\ MayFail
  /\ mem' = [mem EXCEPT ![e][k] = v]
  /\ answer' = Store!Failed
  /\ UNCHANGED <<rows, clock, used, evicting>>

SetFails(e, k, v) ==
  /\ MayFail
  /\ answer' = Store!Failed
  /\ UNCHANGED <<rows, mem, clock, used, evicting>>

\* A slip in delete: the memory tier keeps what the database loses.
DeleteRowOnly(e, k) ==
  /\ rows' = [rows EXCEPT ![k] = NoRow]
  /\ answer' = IF rows[k].value = Missing THEN Store!Absent ELSE Store!Deleted
  /\ UNCHANGED <<mem, clock, used, evicting>>

\* The memory tier first: an exception in the database loses only a copy.
Delete(e, k) ==
  /\ mem' = [mem EXCEPT ![e][k] = Missing]
  /\ rows' = [rows EXCEPT ![k] = NoRow]
  /\ answer' = IF rows[k].value = Missing THEN Store!Absent ELSE Store!Deleted
  /\ UNCHANGED <<clock, used, evicting>>

DeleteFails(e, k) ==
  /\ MayFail
  /\ mem' = [mem EXCEPT ![e][k] = Missing]
  /\ answer' = Store!Failed
  /\ UNCHANGED <<rows, clock, used, evicting>>

Clear(e) ==
  /\ mem' = [mem EXCEPT ![e] = NoMemory]
  /\ rows' = NoRows
  /\ answer' = Store!Done
  /\ UNCHANGED <<clock, used, evicting>>

ClearFails(e) ==
  /\ MayFail
  /\ mem' = [mem EXCEPT ![e] = NoMemory]
  /\ answer' = Store!Failed
  /\ UNCHANGED <<rows, clock, used, evicting>>

\* ORDER BY last_accessed_at DESC, key ASC.
RanksBefore(j, k) == rows[j].at > rows[k].at \/ (rows[j].at = rows[k].at /\ j <= k)
UpTo(k) == {j \in Present : RanksBefore(j, k)}
\* SUM(compressed_size) OVER that order, as the number of bytes in those rows.
Bytes(S) == UNION {{j} \X (1..SizeOf[rows[j].value]) : j \in S}
RunningTotal(k) == Cardinality(Bytes(UpTo(k)))
Survivors(limit) == {k \in Present : RunningTotal(k) <= limit}

\* evictLRU: the SELECT.
SelectSurvivors(e, limit) ==
  /\ evicting' = [evicting EXCEPT ![e] = {Survivors(limit)}]
  /\ UNCHANGED <<rows, mem, clock, answer, used>>

\* evictLRU: the DELETE of all but the selected, and of their copies in memory.
EvictLRU(e) ==
  \E keep \in evicting[e] :
    /\ rows' = [k \in Keys |-> IF k \in keep THEN rows[k] ELSE NoRow]
    /\ mem' = [mem EXCEPT ![e] = [k \in Keys |-> IF k \in keep THEN @[k] ELSE Missing]]
    /\ answer' = Store!Done
    /\ evicting' = [evicting EXCEPT ![e] = {}]
    /\ UNCHANGED <<clock, used>>

\* The DELETE throws: nothing has changed.
EvictFails(e) ==
  /\ MayFail /\ evicting[e] # {}
  /\ answer' = Store!Failed
  /\ evicting' = [evicting EXCEPT ![e] = {}]
  /\ UNCHANGED <<rows, mem, clock, used>>

\* get throws after getRow, evictLRU in its SELECT: nothing has changed.
Fails ==
  /\ MayFail
  /\ answer' = Store!Failed
  /\ UNCHANGED <<rows, mem, clock, used, evicting>>

-----------------------------------------------------------------------------
(* What happens without a call.                                            *)

\* The memory tier drops an entry: its TTL of an hour, or maxMemoryItems.
Expire(e, k) ==
  /\ mem[e][k] # Missing
  /\ mem' = [mem EXCEPT ![e][k] = Missing]
  /\ UNCHANGED <<rows, clock, answer, used, evicting>>

\* The process ends and another opens the cache.  A corrupt file is deleted
\* and created anew; with other engines on it they would keep the deleted one,
\* which the model leaves out.
Reopen(e) ==
  \E corrupt \in BOOLEAN :
    /\ corrupt => \A x \in Engines : x = e
    /\ mem' = [mem EXCEPT ![e] = NoMemory]
    /\ rows' = IF Persistent /\ ~corrupt THEN rows ELSE NoRows
    /\ answer' = Store!Done
    /\ evicting' = [evicting EXCEPT ![e] = {}]
    /\ UNCHANGED <<clock, used>>

Tick ==
  /\ clock < MaxClock
  /\ clock' = clock + 1
  /\ UNCHANGED <<rows, mem, answer, used, evicting>>

\* A call of engine e, while none of its calls is under way.
Call(e) ==
  /\ evicting[e] = {}
  /\ \/ Clear(e) \/ ClearFails(e)
     \/ \E limit \in Limits : SelectSurvivors(e, limit)
     \/ \E k \in Keys :
          \/ Get(e, k) \/ Delete(e, k) \/ DeleteFails(e, k) \/ Expire(e, k)
          \/ \E v \in Values : Set(e, k, v) \/ SetFails(e, k, v)
     \/ Fails

Next ==
  \/ \E e \in Engines : Call(e) \/ EvictLRU(e) \/ EvictFails(e) \/ Reopen(e)
  \/ Tick

Spec == Init /\ [][Next]_vars

-----------------------------------------------------------------------------
(* Properties.                                                             *)

\* set and delete order their two tiers so that, with one engine on the file,
\* the memory tier holds nothing the database does not hold: not even after an
\* exception half way through an operation.
MemoryMirrorsRows ==
  \A e \in Engines, k \in Keys : mem[e][k] # Missing => mem[e][k] = rows[k].value

\* With one engine the cache is the store tools may rely on: whatever tier
\* answers, the answer is the value set last and not deleted since.
ImplementsStore == Store!Spec

\* evictLRU keeps no key that was used longer ago than one it evicts, also when
\* the later use was answered from memory without reading the row.  With one engine
\* on the file: what another sets or uses after the SELECT is deleted all the same.
EvictsOldestUse ==
  \A e \in Engines : EvictLRU(e) =>
    \A k, j \in Present :
      rows'[k].value # Missing /\ rows'[j].value = Missing => used[k] >= used[j]
EvictionIsLRU == [][EvictsOldestUse]_vars
=============================================================================
