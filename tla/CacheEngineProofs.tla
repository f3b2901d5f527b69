-------------------------- MODULE CacheEngineProofs -------------------------
(***************************************************************************)
(* What the two-tier cache guarantees for every set of keys, values and    *)
(* engines, whatever fails, expires or restarts.                           *)
(***************************************************************************)
EXTENDS CacheEngine, FiniteSetTheorems, TLAPS

LEMMA FixedAnswers == {Store!Done, Store!Failed, Store!Deleted, Store!Absent} \subseteq Store!Answers
BY DEF Store!Answers

LEMMA TouchedRows ==
  ASSUME TypeOK, NEW k \in Keys
  PROVE  /\ Touched(k) \in [Keys -> Rows]
         /\ \A j \in Keys : Touched(k)[j].value = rows[j].value
BY CacheAssumption DEF TypeOK, Touched, Rows, NoRow

LEMMA TypeInit == Init => TypeOK
BY CacheAssumption, FixedAnswers DEF Init, TypeOK, NoRows, NoRow, Rows, NoMemory

LEMMA TypeStep ==
  ASSUME TypeOK, [Next]_vars
  PROVE  TypeOK'
<1>1. ASSUME NEW e \in Engines, NEW k \in Keys, Get(e, k) PROVE TypeOK'
  <2>1. CASE MemoryHit(e, k)
    <3>1. mem[e][k] \in Values
      BY <2>1 DEF MemoryHit, TypeOK
    <3>2. answer' \in Store!Answers
      BY <2>1, <3>1 DEF MemoryHit, Store!Answers
    <3> QED BY <2>1, <3>2, TouchedRows DEF MemoryHit, TypeOK
  <2>2. CASE BackendHit(e, k)
    <3>1. rows[k].value \in Values
      BY <2>2 DEF BackendHit, TypeOK, Rows, NoRow
    <3>2. answer' \in Store!Answers
      BY <2>2, <3>1 DEF BackendHit, Store!Answers
    <3> QED BY <2>2, <3>1, <3>2, TouchedRows DEF BackendHit, TypeOK
  <2>3. CASE GetMiss(e, k)
    BY <2>3 DEF GetMiss, TypeOK, Store!Answers
  <2> QED BY <1>1, <2>1, <2>2, <2>3 DEF Get
<1>2. ASSUME NEW e \in Engines, NEW k \in Keys, NEW v \in Values, Set(e, k, v) PROVE TypeOK'
  BY <1>2, FixedAnswers DEF Set, TypeOK, Rows
<1>3. ASSUME NEW e \in Engines, NEW k \in Keys, Delete(e, k) PROVE TypeOK'
  BY <1>3, FixedAnswers DEF Delete, TypeOK, Rows
<1>4. ASSUME NEW e \in Engines, NEW k \in Keys, DeleteFails(e, k) PROVE TypeOK'
  BY <1>4, FixedAnswers DEF DeleteFails, TypeOK
<1>5. ASSUME NEW e \in Engines, Clear(e) \/ ClearFails(e) PROVE TypeOK'
  BY <1>5, FixedAnswers DEF Clear, ClearFails, TypeOK, NoRows, NoMemory, Rows
<1>6. ASSUME NEW e \in Engines, EvictLRU(e) \/ EvictFails(e) PROVE TypeOK'
  <2>1. evicting' \in [Engines -> SUBSET SUBSET Keys]
    BY <1>6 DEF EvictLRU, EvictFails, TypeOK
  <2>2. CASE EvictFails(e)
    BY <2>1, <2>2, FixedAnswers DEF EvictFails, TypeOK
  <2>3. CASE EvictLRU(e)
    <3>1. PICK keep \in evicting[e] :
                 /\ rows' = [k \in Keys |-> IF k \in keep THEN rows[k] ELSE NoRow]
                 /\ mem' = [mem EXCEPT ![e] = [k \in Keys |-> IF k \in keep THEN @[k] ELSE Missing]]
                 /\ answer' = Store!Done
                 /\ UNCHANGED <<clock, used>>
      BY <2>3 DEF EvictLRU
    <3>2. rows' \in [Keys -> Rows] /\ mem' \in [Engines -> [Keys -> Values \cup {Missing}]]
      BY <3>1 DEF TypeOK, Rows
    <3> QED BY <2>1, <3>1, <3>2, FixedAnswers DEF TypeOK
  <2> QED BY <1>6, <2>2, <2>3
<1>7. ASSUME NEW e \in Engines, Reopen(e) PROVE TypeOK'
  BY <1>7, FixedAnswers DEF Reopen, TypeOK, NoRows, NoMemory, Rows
<1>8. ASSUME NEW e \in Engines, NEW k \in Keys, Expire(e, k) PROVE TypeOK'
  BY <1>8 DEF Expire, TypeOK
<1>9. ASSUME \/ Fails
             \/ \E e \in Engines, k \in Keys, v \in Values : SetFails(e, k, v)
             \/ \E e \in Engines, limit \in Limits : SelectSurvivors(e, limit)
      PROVE TypeOK'
  BY <1>9, FixedAnswers DEF Fails, SetFails, SelectSurvivors, Survivors, Present, TypeOK
<1>10. CASE Tick
  BY <1>10, CacheAssumption DEF Tick, TypeOK
<1>11. CASE UNCHANGED vars
  BY <1>11 DEF vars, TypeOK
<1> QED
  BY <1>1, <1>2, <1>3, <1>4, <1>5, <1>6, <1>7, <1>8, <1>9, <1>10, <1>11 DEF Next, Call

\* The state of the cache keeps its types under every operation, failure,
\* expiry and restart, for any number of engines.
THEOREM CacheTypeCorrect == Spec => []TypeOK
<1>1. TypeOK /\ [Next]_vars => TypeOK'
  BY TypeStep
<1> QED BY <1>1, TypeInit, PTL DEF Spec

-----------------------------------------------------------------------------
(* One engine on the file.                                                 *)

OneEngine == \A d, e \in Engines : d = e

CacheInv == TypeOK /\ MemoryMirrorsRows

LEMMA MirrorInit == Init => MemoryMirrorsRows
BY DEF Init, MemoryMirrorsRows, NoMemory

LEMMA MirrorStep ==
  ASSUME OneEngine, TypeOK, MemoryMirrorsRows, [Next]_vars
  PROVE  MemoryMirrorsRows'
<1>1. ASSUME NEW e \in Engines, NEW k \in Keys, Get(e, k) PROVE MemoryMirrorsRows'
  <2>1. CASE MemoryHit(e, k)
    BY <2>1, TouchedRows DEF MemoryHit, MemoryMirrorsRows
  <2>2. CASE BackendHit(e, k)
    BY <2>2, TouchedRows DEF BackendHit, MemoryMirrorsRows, TypeOK
  <2>3. CASE GetMiss(e, k)
    BY <2>3 DEF GetMiss, MemoryMirrorsRows
  <2> QED BY <1>1, <2>1, <2>2, <2>3 DEF Get
<1>2. ASSUME NEW e \in Engines, NEW k \in Keys, NEW v \in Values, Set(e, k, v)
      PROVE MemoryMirrorsRows'
  BY <1>2 DEF Set, MemoryMirrorsRows, TypeOK, OneEngine
<1>3. ASSUME NEW e \in Engines, NEW k \in Keys, Delete(e, k) PROVE MemoryMirrorsRows'
  BY <1>3 DEF Delete, MemoryMirrorsRows, TypeOK, OneEngine
<1>4. ASSUME NEW e \in Engines, NEW k \in Keys, DeleteFails(e, k) \/ Expire(e, k)
      PROVE MemoryMirrorsRows'
  <2>1. \A d \in Engines, j \in Keys : mem'[d][j] = IF j = k THEN Missing ELSE mem[d][j]
    <3>1. mem' = [mem EXCEPT ![e][k] = Missing]
      BY <1>4 DEF DeleteFails, Expire
    <3> QED BY <3>1 DEF TypeOK, OneEngine
  <2>2. rows' = rows
    BY <1>4 DEF DeleteFails, Expire
  <2> QED BY <2>1, <2>2 DEF MemoryMirrorsRows
<1>5. ASSUME NEW e \in Engines, Clear(e) \/ ClearFails(e) \/ Reopen(e)
      PROVE MemoryMirrorsRows'
  <2>1. mem' = [mem EXCEPT ![e] = NoMemory]
    BY <1>5 DEF Clear, ClearFails, Reopen
  <2>2. \A d \in Engines, k \in Keys : mem'[d][k] = Missing
    BY <2>1 DEF TypeOK, OneEngine, NoMemory
  <2> QED BY <2>2 DEF MemoryMirrorsRows
<1>6. ASSUME NEW e \in Engines, EvictLRU(e)
      PROVE MemoryMirrorsRows'
  BY <1>6 DEF EvictLRU, MemoryMirrorsRows, TypeOK, OneEngine
<1>7. ASSUME \/ Fails \/ Tick \/ UNCHANGED vars
             \/ \E e \in Engines : EvictFails(e)
             \/ \E e \in Engines, limit \in Limits : SelectSurvivors(e, limit)
             \/ \E e \in Engines, k \in Keys, v \in Values : SetFails(e, k, v)
      PROVE MemoryMirrorsRows'
  BY <1>7 DEF Fails, Tick, EvictFails, SelectSurvivors, SetFails, vars, MemoryMirrorsRows
<1> QED BY <1>1, <1>2, <1>3, <1>4, <1>5, <1>6, <1>7 DEF Next, Call

\* With one engine on the file the memory tier holds nothing the database does
\* not hold, after every operation and after every exception inside one.
THEOREM MemoryIsACopy == ASSUME OneEngine PROVE Spec => []MemoryMirrorsRows
<1>1. CacheInv /\ [Next]_vars => CacheInv'
  <2>1. TypeOK /\ [Next]_vars => TypeOK'
    BY TypeStep
  <2> QED BY <2>1, MirrorStep DEF CacheInv
<1>2. Init => CacheInv
  BY TypeInit, MirrorInit DEF CacheInv
<1>3. CacheInv => MemoryMirrorsRows
  BY DEF CacheInv
<1> QED BY <1>1, <1>2, <1>3, PTL DEF Spec

-----------------------------------------------------------------------------
(* The refinement: each step of the cache is a step of the abstract store. *)

LEMMA StoreInit == Init => Store!Init
BY DEF Init, Store!Init, Store!Empty, Stored, NoRows, NoRow

LEMMA LookupStep ==
  ASSUME TypeOK, MemoryMirrorsRows, NEW e \in Engines, NEW k \in Keys, Get(e, k)
  PROVE  Store!Lookup(k)
<1>1. CASE MemoryHit(e, k)
  BY <1>1, TouchedRows DEF MemoryHit, MemoryMirrorsRows, Store!Lookup, Stored
<1>2. CASE BackendHit(e, k)
  BY <1>2, TouchedRows DEF BackendHit, Store!Lookup, Stored
<1>3. CASE GetMiss(e, k)
  BY <1>3 DEF GetMiss, Store!Lookup, Stored
<1> QED BY <1>1, <1>2, <1>3 DEF Get

LEMMA StoreStep ==
  ASSUME TypeOK, MemoryMirrorsRows, [Next]_vars
  PROVE  [Store!Next]_(Store!vars)
<1>1. ASSUME NEW e \in Engines, NEW k \in Keys, Get(e, k) PROVE Store!Next
  BY <1>1, LookupStep DEF Store!Next
<1>2. ASSUME NEW e \in Engines, NEW k \in Keys, NEW v \in Values, Set(e, k, v)
      PROVE Store!Next
  <2>1. Store!Put(k, v)
    BY <1>2 DEF Set, Store!Put, Stored, TypeOK
  <2> QED BY <2>1 DEF Store!Next
<1>3. ASSUME NEW e \in Engines, NEW k \in Keys, Delete(e, k) PROVE Store!Next
  <2>1. Store!Remove(k)
    BY <1>3 DEF Delete, Store!Remove, Stored, TypeOK, NoRow
  <2> QED BY <2>1 DEF Store!Next
<1>4. ASSUME NEW e \in Engines, Clear(e) \/ Reopen(e) PROVE Store!Next
  <2>1. CASE rows' = NoRows
    <3>1. Store!Forget(Keys)
      BY <1>4, <2>1 DEF Clear, Reopen, Store!Forget, Stored, NoRows, NoRow
    <3> QED BY <3>1 DEF Store!Next
  <2>2. CASE rows' = rows
    <3>1. Store!Forget({})
      BY <1>4, <2>2 DEF Clear, Reopen, Store!Forget, Stored
    <3> QED BY <3>1 DEF Store!Next
  <2> QED BY <1>4, <2>1, <2>2 DEF Clear, Reopen
<1>5. ASSUME NEW e \in Engines, EvictLRU(e) PROVE Store!Next
  <2>1. PICK keep \in evicting[e] :
               /\ rows' = [k \in Keys |-> IF k \in keep THEN rows[k] ELSE NoRow]
               /\ answer' = Store!Done
    BY <1>5 DEF EvictLRU
  <2>2. Store!Forget(Keys \ keep)
    BY <2>1 DEF Store!Forget, Stored, NoRow
  <2> QED BY <2>2 DEF Store!Next
<1>6. ASSUME \/ Fails
             \/ \E e \in Engines : ClearFails(e) \/ EvictFails(e)
             \/ \E e \in Engines, k \in Keys : DeleteFails(e, k)
             \/ \E e \in Engines, k \in Keys, v \in Values : SetFails(e, k, v)
      PROVE Store!Next
  BY <1>6 DEF Fails, ClearFails, EvictFails, DeleteFails, SetFails, Store!Fail, Store!Next, Stored
<1>7. ASSUME \/ Tick \/ UNCHANGED vars
             \/ \E e \in Engines, k \in Keys : Expire(e, k)
             \/ \E e \in Engines, limit \in Limits : SelectSurvivors(e, limit)
      PROVE UNCHANGED Store!vars
  BY <1>7 DEF Tick, Expire, SelectSurvivors, vars, Store!vars, Stored
<1> QED BY <1>1, <1>2, <1>3, <1>4, <1>5, <1>6, <1>7 DEF Next, Call

\* With one engine on the file the two-tier cache implements the lossy store:
\* it may forget a key or refuse an operation, but no tier ever answers with
\* anything but the value set last.
THEOREM CacheImplementsStore == ASSUME OneEngine PROVE Spec => ImplementsStore
<1>1. CacheInv /\ [Next]_vars => CacheInv'
  BY TypeStep, MirrorStep DEF CacheInv
<1>2. Init => CacheInv
  BY TypeInit, MirrorInit DEF CacheInv
<1>3. CacheInv /\ [Next]_vars => [Store!Next]_(Store!vars)
  BY StoreStep DEF CacheInv
<1> QED BY <1>1, <1>2, <1>3, StoreInit, PTL DEF Spec, ImplementsStore, Store!Spec
-----------------------------------------------------------------------------
(* Eviction: the order of last_accessed_at is the order of use.            *)

\* Only finitely many rows exist, and each bears the time of its latest use.
UseInv ==
  /\ TypeOK
  /\ IsFiniteSet(Present)
  /\ \A k \in Present : rows[k].at = used[k]

LEMMA UseInit == Init => UseInv
<1> SUFFICES ASSUME Init PROVE UseInv
  OBVIOUS
<1>1. Present = {}
  BY DEF Init, Present, NoRows, NoRow
<1> QED BY <1>1, TypeInit, FS_EmptySet DEF UseInv

\* Rows disappear, or one is written or touched at the present moment.
LEMMA UseStep ==
  ASSUME UseInv, [Next]_vars
  PROVE  UseInv'
<1> DEFINE Less == /\ Present' \subseteq Present
                   /\ \A j \in Present' : rows'[j] = rows[j] /\ used'[j] = used[j]
           UsedNow(k) == /\ Present' \subseteq Present \cup {k}
                         /\ \A j \in Present' : rows'[j].at = used'[j]
<1>0. TypeOK /\ TypeOK'
  BY TypeStep DEF UseInv
<1>1. ASSUME Less PROVE UseInv'
  <2>1. IsFiniteSet(Present')
    BY <1>1, FS_Subset DEF UseInv
  <2> QED BY <1>0, <1>1, <2>1 DEF UseInv
<1>2. ASSUME NEW k \in Keys, UsedNow(k) PROVE UseInv'
  <2>1. IsFiniteSet(Present \cup {k})
    BY FS_AddElement DEF UseInv
  <2>2. IsFiniteSet(Present')
    BY <1>2, <2>1, FS_Subset
  <2> QED BY <1>0, <1>2, <2>2 DEF UseInv
<1>3. ASSUME NEW e \in Engines, NEW k \in Keys, MemoryHit(e, k) \/ BackendHit(e, k)
      PROVE UseInv'
  <2>1. rows' = Touched(k) /\ used' = [used EXCEPT ![k] = clock]
    BY <1>3 DEF MemoryHit, BackendHit
  <2>2. \A j \in Keys : rows'[j].value # Missing => rows[j].value # Missing /\ rows'[j].at = used'[j]
    BY <1>0, <2>1 DEF Touched, TypeOK, UseInv, Present, Rows, NoRow
  <2>3. UsedNow(k)
    BY <2>2 DEF Present
  <2> QED BY <1>2, <2>3
<1>4. ASSUME NEW e \in Engines, NEW k \in Keys, NEW v \in Values, Set(e, k, v) PROVE UseInv'
  <2>1. UsedNow(k)
    BY <1>0, <1>4 DEF Set, TypeOK, UseInv, Present
  <2> QED BY <1>2, <2>1
<1>5. ASSUME NEW e \in Engines, NEW k \in Keys, Delete(e, k) PROVE UseInv'
  <2>1. Less
    BY <1>0, <1>5 DEF Delete, TypeOK, Present, NoRow
  <2> QED BY <1>1, <2>1
<1>6. ASSUME NEW e \in Engines, EvictLRU(e) PROVE UseInv'
  <2>1. Less
    BY <1>6 DEF EvictLRU, Present, NoRow
  <2> QED BY <1>1, <2>1
<1>7. ASSUME NEW e \in Engines, Clear(e) \/ Reopen(e) PROVE UseInv'
  <2>1. rows' \in {rows, NoRows} /\ used' = used
    BY <1>7 DEF Clear, Reopen
  <2>2. Less
    BY <2>1 DEF Present, NoRows, NoRow
  <2> QED BY <1>1, <2>2
<1>8. ASSUME UNCHANGED <<rows, used>> PROVE UseInv'
  BY <1>1, <1>8 DEF Present
<1>9. ASSUME \/ Fails \/ Tick \/ UNCHANGED vars
             \/ \E e \in Engines : ClearFails(e) \/ EvictFails(e)
             \/ \E e \in Engines, limit \in Limits : SelectSurvivors(e, limit)
             \/ \E e \in Engines, k \in Keys : GetMiss(e, k) \/ DeleteFails(e, k) \/ Expire(e, k)
             \/ \E e \in Engines, k \in Keys, v \in Values : SetFails(e, k, v)
      PROVE UNCHANGED <<rows, used>>
  BY <1>9 DEF Fails, Tick, vars, ClearFails, EvictFails, SelectSurvivors, GetMiss, DeleteFails, Expire, SetFails
<1> QED BY <1>3, <1>4, <1>5, <1>6, <1>7, <1>8, <1>9 DEF Next, Call, Get

\* What an evictLRU under way has selected is still what would be selected: with
\* one engine nothing comes between the SELECT and the DELETE that changes a row.
SelectInv ==
  \A e \in Engines : \A keep \in evicting[e] : \E limit \in Limits : keep = Survivors(limit)

LEMMA SameRows ==
  ASSUME rows' = rows, NEW limit \in Limits
  PROVE  Survivors(limit)' = Survivors(limit)
<1>1. Present' = Present /\ \A j, k \in Keys : RanksBefore(j, k)' = RanksBefore(j, k)
  BY DEF Present, RanksBefore
<1>2. \A k \in Present : UpTo(k)' = UpTo(k)
  BY <1>1 DEF UpTo, Present
<1>3. \A k \in Present : Bytes(UpTo(k))' = Bytes(UpTo(k))
  BY <1>2 DEF Bytes
<1>4. \A k \in Present : RunningTotal(k)' = RunningTotal(k)
  BY <1>3 DEF RunningTotal
<1> QED BY <1>1, <1>4 DEF Survivors

LEMMA SelectStep ==
  ASSUME OneEngine, TypeOK, SelectInv, [Next]_vars
  PROVE  SelectInv'
<1>1. ASSUME rows' = rows, evicting' = evicting PROVE SelectInv'
  BY <1>1, SameRows DEF SelectInv
<1>2. ASSUME \A e \in Engines : evicting'[e] = {} PROVE SelectInv'
  BY <1>2 DEF SelectInv
<1>3. ASSUME NEW e \in Engines, Call(e) PROVE SelectInv'
  <2>1. \A d \in Engines : evicting[d] = {}
    BY <1>3 DEF Call, OneEngine
  <2>2. ASSUME NEW limit \in Limits, SelectSurvivors(e, limit) PROVE SelectInv'
    <3>1. \A d \in Engines : evicting'[d] = {Survivors(limit)}
      BY <2>2 DEF SelectSurvivors, TypeOK, OneEngine
    <3>2. Survivors(limit)' = Survivors(limit)
      BY <2>2, SameRows DEF SelectSurvivors
    <3> QED BY <3>1, <3>2 DEF SelectInv
  <2>3. ASSUME ~ \E limit \in Limits : SelectSurvivors(e, limit) PROVE evicting' = evicting
    BY <1>3, <2>3 DEF Call, Clear, ClearFails, Get, MemoryHit, BackendHit, GetMiss, Delete,
       DeleteFails, Expire, Set, SetFails, Fails
  <2> QED BY <1>2, <2>1, <2>2, <2>3
<1>4. ASSUME NEW e \in Engines, EvictLRU(e) \/ EvictFails(e) \/ Reopen(e) PROVE SelectInv'
  <2>1. evicting' = [evicting EXCEPT ![e] = {}]
    BY <1>4 DEF EvictLRU, EvictFails, Reopen
  <2> QED BY <1>2, <2>1 DEF TypeOK, OneEngine
<1>5. ASSUME Tick \/ UNCHANGED vars PROVE SelectInv'
  BY <1>1, <1>5 DEF Tick, vars
<1> QED BY <1>3, <1>4, <1>5 DEF Next

LEMMA BytesFinite ==
  ASSUME TypeOK, NEW S \in SUBSET Present, IsFiniteSet(S)
  PROVE  IsFiniteSet(Bytes(S))
<1> DEFINE Of(j) == {j} \X (1..SizeOf[rows[j].value])
<1>1. \A j \in S : IsFiniteSet(Of(j))
  <2> TAKE j \in S
  <2>1. SizeOf[rows[j].value] \in Nat
    BY CacheAssumption DEF TypeOK, Present, Rows, NoRow
  <2>2. IsFiniteSet(1..SizeOf[rows[j].value])
    BY <2>1, FS_Interval
  <2> QED BY <2>2, FS_Singleton, FS_Product
<1>2. IsFiniteSet({Of(j) : j \in S})
  <2> DEFINE f == [j \in S |-> Of(j)]
  <2>1. f \in Surjection(S, {Of(j) : j \in S})
    BY DEF Surjection
  <2> QED BY <2>1, FS_Surjection
<1>3. IsFiniteSet(UNION {Of(j) : j \in S})
  BY <1>1, <1>2, FS_UNION
<1> QED BY <1>3 DEF Bytes

\* A row further back in the order has at least the running total of one
\* further up.
LEMMA RunningTotalGrows ==
  ASSUME TypeOK, IsFiniteSet(Present),
         NEW j \in Present, NEW k \in Present, RanksBefore(j, k)
  PROVE  /\ RunningTotal(j) \in Nat
         /\ RunningTotal(k) \in Nat
         /\ RunningTotal(j) <= RunningTotal(k)
<1>1. \A i \in Present : i \in Nat /\ rows[i].at \in Nat
  BY CacheAssumption DEF TypeOK, Present, Rows, NoRow
<1>2. UpTo(j) \subseteq UpTo(k)
  BY <1>1 DEF UpTo, RanksBefore
<1>3. Bytes(UpTo(j)) \subseteq Bytes(UpTo(k))
  BY <1>2 DEF Bytes
<1>4. UpTo(k) \subseteq Present /\ IsFiniteSet(UpTo(k))
  BY FS_Subset DEF UpTo
<1>5. IsFiniteSet(Bytes(UpTo(k)))
  BY <1>4, BytesFinite
<1>6. /\ IsFiniteSet(Bytes(UpTo(j)))
      /\ Cardinality(Bytes(UpTo(j))) <= Cardinality(Bytes(UpTo(k)))
  BY <1>3, <1>5, FS_Subset
<1> QED BY <1>5, <1>6, FS_CardinalityType DEF RunningTotal

LEMMA EvictionStep == UseInv /\ SelectInv => EvictsOldestUse
<1> SUFFICES ASSUME UseInv, SelectInv,
                    NEW e \in Engines, EvictLRU(e),
                    NEW k \in Present, NEW j \in Present,
                    rows'[k].value # Missing, rows'[j].value = Missing,
                    ~(used[k] >= used[j])
             PROVE  FALSE
  BY DEF EvictsOldestUse
<1>0. PICK keep \in evicting[e] :
             rows' = [i \in Keys |-> IF i \in keep THEN rows[i] ELSE NoRow]
  BY DEF EvictLRU
<1>l. PICK limit \in Limits : keep = Survivors(limit)
  BY DEF SelectInv
<1>1. used[k] \in Nat /\ used[j] \in Nat /\ limit \in Nat
  BY CacheAssumption DEF UseInv, TypeOK, Present
<1>2. RanksBefore(j, k)
  BY <1>1 DEF UseInv, RanksBefore
<1>3. k \in Survivors(limit) /\ j \notin Survivors(limit)
  BY <1>0, <1>l DEF Present, NoRow
<1>4. RunningTotal(j) <= RunningTotal(k) /\ RunningTotal(j) \in Nat /\ RunningTotal(k) \in Nat
  BY <1>2, RunningTotalGrows DEF UseInv
<1> QED BY <1>1, <1>3, <1>4 DEF Survivors

\* With one engine on the file, whatever the limit and the sizes, eviction keeps no
\* key used longer ago than one it evicts: an answer from memory touches the row it
\* did not read (getExact, evictLRU).
THEOREM EvictsInOrderOfUse == ASSUME OneEngine PROVE Spec => EvictionIsLRU
<1>1. UseInv /\ [Next]_vars => UseInv'
  BY UseStep
<1>2. UseInv /\ SelectInv /\ [Next]_vars => SelectInv'
  BY SelectStep DEF UseInv
<1>3. UseInv /\ SelectInv /\ [Next]_vars => [EvictsOldestUse]_vars
  BY EvictionStep
<1>4. Init => SelectInv
  BY DEF Init, SelectInv
<1> QED BY <1>1, <1>2, <1>3, <1>4, UseInit, PTL DEF Spec, EvictionIsLRU
=============================================================================
