--------------------------- MODULE HomeFilesProofs --------------------------
(***************************************************************************)
(* What unlocked appends and rotations keep, for any number of runs, any   *)
(* threshold and any number of torn appends.                               *)
(***************************************************************************)
EXTENDS HomeFiles, FiniteSetTheorems, WellFoundedInduction, TLAPS

Lines == Records \cup {Garbled}

-----------------------------------------------------------------------------
(* Files.                                                                  *)

\* What an append makes of a file with a line of its own.
LEMMA AppendLine ==
  ASSUME NEW T, NEW s \in Seq(T), NEW x \in T
  PROVE  /\ Append(s, x) \in Seq(T)
         /\ Len(Append(s, x)) = Len(s) + 1
         /\ Append(s, x)[Len(s) + 1] = x
         /\ \A i \in 1..Len(s) : Append(s, x)[i] = s[i]
OBVIOUS

\* What it makes of a file whose last line is open.
LEMMA SpoilLine ==
  ASSUME NEW T, NEW s \in Seq(T), NEW x \in T, s # <<>>
  PROVE  LET t == [s EXCEPT ![Len(s)] = x]
         IN  /\ t \in Seq(T) /\ t # <<>>
             /\ Len(t) = Len(s)
             /\ t[Len(s)] = x
             /\ \A i \in 1..(Len(s) - 1) : t[i] = s[i]
OBVIOUS

LEMMA RangeType ==
  ASSUME NEW T, NEW s \in Seq(T)
  PROVE  RangeOf(s) \subseteq T /\ RangeOf(<<>>) = {}
BY DEF RangeOf

\* The newest record of a set is one of them and none is newer.
LEMMA MaxExists ==
  ASSUME NEW S \in SUBSET (0..MaxRecords), S # {}
  PROVE  Max(S) \in S /\ \A x \in S : Max(S) >= x
<1> DEFINE T == {MaxRecords - x : x \in S}
<1>1. T \in SUBSET Nat /\ T # {}
  <2>1. \A x \in S : MaxRecords - x \in Nat
    BY HomeAssumption
  <2> QED BY <2>1
<1>2. PICK m \in T : \A y \in T : ~ (<<y, m>> \in OpToRel(<, Nat))
  BY <1>1, NatLessThanWellFounded, WFMin
<1>3. \A y \in T : ~(y < m)
  BY <1>1, <1>2 DEF OpToRel
<1>4. PICK x \in S : m = MaxRecords - x
  BY <1>2
<1>5. ASSUME NEW y \in S PROVE x >= y
  <2>1. MaxRecords - y \in T
    OBVIOUS
  <2>2. ~(MaxRecords - y < MaxRecords - x)
    BY <1>3, <1>4, <2>1
  <2> HIDE DEF T
  <2> QED BY <2>2, HomeAssumption
<1> QED BY <1>5 DEF Max

-----------------------------------------------------------------------------
(* The invariant.                                                          *)

\* An open file has a last line.
OpenInv == (ledgerOpen => ledger # <<>>) /\ (ccrOpen => ccr # <<>>)

\* Who is about to store a text has its hash.
PutInv == \A p \in Runs : At(p, "put") => run[p].hash \in Hashes

Appending == {p \in Runs : At(p, "append")}

\* Whoever will append has seen the ledger below the threshold, emptied it, or
\* failed to.
BoundInv == Len(ledger) + Cardinality(Appending) < RotateAt + Cardinality(Runs) + blocked

\* What landed is on a line that no append can spoil any more.
CcrInv ==
  \A h \in landed : \E i \in 1..Len(ccr) : ccr[i] = h /\ (ccrOpen => i < Len(ccr))

\* What the next append may spoil.
AtStake ==
  IF ledgerOpen THEN IF ledger[Len(ledger)] = Garbled THEN 1 ELSE 2 ELSE 0

TearInv == Cardinality(spoilt) + AtStake <= 2 * tears

OrderInv ==
  /\ OnlyTheOldestGo
  /\ \A r \in RangeOf(archive) \cup RangeOf(ledger) : r <= count

\* A line is at least one record: each file has at most as many lines as records
\* have been appended since those before it.
FloorInv ==
  /\ dropped <= count
  /\ ~disturbed =>
       /\ dropped + Len(archive) + Len(ledger) <= count
       /\ \A r \in RangeOf(archive) : r + Len(ledger) <= count
       /\ dropped = 0 \/ Len(archive) >= RotateAt

IInv == TypeOK /\ OpenInv /\ PutInv /\ BoundInv /\ CcrInv /\ TearInv /\ OrderInv /\ FloorInv

LEMMA InvInit == Init => IInv
<1> SUFFICES ASSUME Init PROVE IInv
  OBVIOUS
<1>1. TypeOK
  <2>1. \A T : <<>> \in Seq(T)
    OBVIOUS
  <2>2. run \in [Runs -> [pc : Steps, hash : Hashes \cup {None}]]
    BY DEF Init, NoRun, Steps
  <2>3. count \in 0..MaxRecords /\ dropped \in 0..MaxRecords /\ tears \in 0..MaxTears
        /\ blocked \in 0..MaxBlocked
    BY HomeAssumption DEF Init
  <2> QED BY <2>1, <2>2, <2>3 DEF Init, TypeOK
<1>2. OpenInv /\ CcrInv /\ PutInv
  BY DEF Init, OpenInv, CcrInv, PutInv, At, NoRun
<1>3. Appending = {}
  BY DEF Init, Appending, At, NoRun
<1>4. Cardinality(Runs) \in Nat /\ Cardinality({}) = 0
  BY HomeAssumption, FS_CardinalityType, FS_EmptySet
<1>5. BoundInv
  BY <1>3, <1>4, HomeAssumption DEF BoundInv, Init
<1>6. TearInv
  BY <1>4 DEF TearInv, AtStake, Init
<1>7. OrderInv
  BY DEF OrderInv, OnlyTheOldestGo, Increasing, RangeOf, Init
<1>8. FloorInv
  BY DEF FloorInv, RangeOf, Init
<1> QED BY <1>1, <1>2, <1>5, <1>6, <1>7, <1>8 DEF IInv

-----------------------------------------------------------------------------
(* Processes.                                                              *)

LEMMA RunTypes ==
  ASSUME TypeOK, NEW p \in Runs
  PROVE  run[p].pc \in Steps /\ run[p].hash \in Hashes \cup {None}
BY DEF TypeOK

LEMMA GotoType ==
  ASSUME TypeOK, NEW p \in Runs, NEW step \in Steps, Goto(p, step)
  PROVE  /\ run' \in [Runs -> [pc : Steps, hash : Hashes \cup {None}]]
         /\ run'[p].pc = step
         /\ \A q \in Runs \ {p} : run'[q] = run[q]
BY DEF TypeOK, Goto

LEMMA ResetType ==
  ASSUME TypeOK, NEW p \in Runs, run' = [run EXCEPT ![p] = NoRun]
  PROVE  /\ run' \in [Runs -> [pc : Steps, hash : Hashes \cup {None}]]
         /\ run'[p].pc = "idle"
         /\ \A q \in Runs \ {p} : run'[q] = run[q]
BY DEF TypeOK, NoRun, Steps

LEMMA BlockedType ==
  ASSUME TypeOK
  PROVE  blocked \in Nat /\ MaxBlocked \in Nat
BY HomeAssumption DEF TypeOK

LEMMA FewAppend ==
  /\ IsFiniteSet(Runs) /\ IsFiniteSet(Appending)
  /\ Cardinality(Appending) \in Nat /\ Cardinality(Runs) \in Nat
  /\ Cardinality(Appending) <= Cardinality(Runs)
BY HomeAssumption, FS_Subset, FS_CardinalityType DEF Appending

\* Who stops appending makes room for one more record.
LEMMA OneFewer ==
  ASSUME NEW p \in Runs, At(p, "append"), run'[p].pc # "append",
         \A q \in Runs \ {p} : run'[q] = run[q]
  PROVE  Cardinality(Appending') = Cardinality(Appending) - 1
<1>1. Appending' = Appending \ {p} /\ p \in Appending
  BY DEF Appending, At
<1> QED BY <1>1, FewAppend, FS_RemoveElement

LEMMA NoneMore ==
  ASSUME NEW p \in Runs, run'[p].pc # "append", \A q \in Runs \ {p} : run'[q] = run[q]
  PROVE  /\ Cardinality(Appending') <= Cardinality(Appending)
         /\ Cardinality(Appending') \in Nat /\ Cardinality(Appending) \in Nat
<1>1. Appending' \subseteq Appending
  BY DEF Appending, At
<1> QED BY <1>1, FewAppend, FS_Subset, FS_CardinalityType

LEMMA CountedRecords ==
  ASSUME NEW S \in SUBSET Records
  PROVE  IsFiniteSet(S) /\ Cardinality(S) \in Nat
<1>1. IsFiniteSet(Records)
  BY FS_Interval, HomeAssumption DEF Records
<1> QED BY <1>1, FS_Subset, FS_CardinalityType

LEMMA PutStays ==
  ASSUME PutInv, NEW p \in Runs, run'[p].pc = "put" => run'[p].hash \in Hashes,
         \A q \in Runs \ {p} : run'[q] = run[q]
  PROVE  PutInv'
BY DEF PutInv, At

-----------------------------------------------------------------------------
(* Steps that leave both files alone.                                      *)

LEMMA FilesStay ==
  ASSUME IInv, UNCHANGED <<ledger, ledgerOpen, archive, count, spoilt, dropped, disturbed,
                           ccrVars, tears>>,
         blocked' \in 0..MaxBlocked,
         run' \in [Runs -> [pc : Steps, hash : Hashes \cup {None}]], BoundInv', PutInv'
  PROVE  IInv'
<1>1. TypeOK'
  BY DEF IInv, TypeOK, ccrVars
<1>2. OpenInv' /\ CcrInv' /\ TearInv'
  BY DEF IInv, OpenInv, CcrInv, TearInv, AtStake, ccrVars
<1>3. OrderInv' /\ FloorInv'
  BY DEF IInv, OrderInv, FloorInv, OnlyTheOldestGo, Increasing, RangeOf, Readable
<1> QED BY <1>1, <1>2, <1>3 DEF IInv

LEMMA FilesAlone ==
  ASSUME IInv, UNCHANGED <<ledgerVars, ccrVars, tears>>,
         run' \in [Runs -> [pc : Steps, hash : Hashes \cup {None}]], BoundInv', PutInv'
  PROVE  IInv'
<1>1. blocked' \in 0..MaxBlocked
  BY DEF IInv, TypeOK, ledgerVars
<1> QED BY <1>1, FilesStay DEF ledgerVars

LEMMA InvBegin ==
  ASSUME IInv, NEW p \in Runs, Begin(p)
  PROVE  IInv'
<1>1. PICK h \in Hashes \cup {None} :
        run' = [run EXCEPT ![p] = [pc |-> IF h = None THEN "stat" ELSE "put", hash |-> h]]
  BY DEF Begin
<1>2. /\ run' \in [Runs -> [pc : Steps, hash : Hashes \cup {None}]]
      /\ run'[p].pc # "append" /\ \A q \in Runs \ {p} : run'[q] = run[q]
      /\ run'[p].pc = "put" => run'[p].hash \in Hashes
  BY <1>1 DEF IInv, TypeOK, Steps
<1>3. BoundInv'
  <2>1. Len(ledger) \in Nat /\ ledger' = ledger
    BY DEF IInv, TypeOK, Begin, ledgerVars
  <2>2. blocked' = blocked /\ blocked \in Nat
    BY BlockedType DEF IInv, Begin, ledgerVars
  <2> QED BY <1>2, <2>1, <2>2, NoneMore, FewAppend, HomeAssumption DEF BoundInv, IInv
<1>4. PutInv'
  BY <1>2, PutStays DEF IInv
<1> QED BY <1>2, <1>3, <1>4, FilesAlone DEF Begin

LEMMA InvStop ==
  ASSUME IInv, NEW p \in Runs, Stop(p)
  PROVE  IInv'
<1>1. /\ run' \in [Runs -> [pc : Steps, hash : Hashes \cup {None}]]
      /\ run'[p].pc = "idle" /\ \A q \in Runs \ {p} : run'[q] = run[q]
  BY ResetType DEF IInv, Stop
<1>2. BoundInv'
  <2>1. Len(ledger) \in Nat /\ ledger' = ledger
    BY DEF IInv, TypeOK, Stop, ledgerVars
  <2>2. blocked' = blocked /\ blocked \in Nat
    BY BlockedType DEF IInv, Stop, ledgerVars
  <2> QED BY <1>1, <2>1, <2>2, NoneMore, FewAppend, HomeAssumption DEF BoundInv, IInv
<1>3. PutInv'
  BY <1>1, PutStays DEF IInv
<1> QED BY <1>1, <1>2, <1>3, FilesAlone DEF Stop

LEMMA InvStat ==
  ASSUME IInv, NEW p \in Runs, Stat(p)
  PROVE  IInv'
<1>0. /\ TypeOK /\ Len(ledger) \in Nat /\ ledger' = ledger
      /\ blocked' = blocked /\ blocked \in Nat
  BY BlockedType DEF IInv, TypeOK, Stat, ledgerVars
<1>1. CASE Len(ledger) >= RotateAt
  <2>1. Goto(p, "rename") /\ "rename" \in Steps
    BY <1>1 DEF Stat, Steps
  <2>2. /\ run' \in [Runs -> [pc : Steps, hash : Hashes \cup {None}]]
        /\ run'[p].pc = "rename" /\ \A q \in Runs \ {p} : run'[q] = run[q]
    BY <1>0, <2>1, GotoType
  <2>3. BoundInv'
    BY <1>0, <2>2, NoneMore, FewAppend, HomeAssumption DEF BoundInv, IInv
  <2>4. PutInv'
    BY <2>2, PutStays DEF IInv
  <2> QED BY <2>2, <2>3, <2>4, FilesAlone DEF Stat
<1>2. CASE ~(Len(ledger) >= RotateAt)
  <2>1. Goto(p, "append") /\ "append" \in Steps
    BY <1>2 DEF Stat, Steps
  <2>2. /\ run' \in [Runs -> [pc : Steps, hash : Hashes \cup {None}]]
        /\ run'[p].pc = "append" /\ \A q \in Runs \ {p} : run'[q] = run[q]
    BY <1>0, <2>1, GotoType
  <2>3. /\ Cardinality(Appending') <= Cardinality(Runs)
        /\ Cardinality(Appending') \in Nat /\ Cardinality(Runs) \in Nat
    BY HomeAssumption, FS_Subset, FS_CardinalityType DEF Appending
  <2>4. BoundInv'
    BY <1>0, <1>2, <2>3, HomeAssumption DEF BoundInv
  <2>5. PutInv'
    BY <2>2, PutStays DEF IInv
  <2> QED BY <2>2, <2>4, <2>5, FilesAlone DEF Stat
<1> QED BY <1>1, <1>2

\* The append that will follow a rotation that failed is one more than the bound
\* allowed for.
LEMMA InvRotationFails ==
  ASSUME IInv, NEW p \in Runs, RotationFails(p)
  PROVE  IInv'
<1>1. /\ TypeOK /\ Len(ledger) \in Nat /\ ledger' = ledger
      /\ blocked' = blocked + 1 /\ blocked' \in 0..MaxBlocked /\ blocked \in Nat
  BY BlockedType DEF IInv, TypeOK, RotationFails
<1>2. /\ run' \in [Runs -> [pc : Steps, hash : Hashes \cup {None}]]
      /\ run'[p].pc = "append" /\ \A q \in Runs \ {p} : run'[q] = run[q]
  BY <1>1, GotoType DEF RotationFails, Steps
<1>3. /\ Cardinality(Appending') = Cardinality(Appending) + 1
      /\ Cardinality(Appending) \in Nat /\ Cardinality(Runs) \in Nat
  <2>1. Appending' = Appending \cup {p} /\ p \notin Appending
    BY <1>2 DEF Appending, At, RotationFails
  <2> QED BY <2>1, FewAppend, FS_AddElement
<1>4. BoundInv'
  BY <1>1, <1>3, HomeAssumption DEF BoundInv, IInv
<1>5. PutInv'
  BY <1>2, PutStays DEF IInv
<1> QED BY <1>1, <1>2, <1>4, <1>5, FilesStay DEF RotationFails

-----------------------------------------------------------------------------
(* The CCR store.                                                          *)

LEMMA CcrStep ==
  ASSUME IInv, NEW x \in Hashes \cup {None}, ccr' = Appended(ccr, ccrOpen, x, None),
         ccrOpen' \in BOOLEAN,
         landed' \subseteq landed \cup (IF ccrOpen \/ ccrOpen' THEN {} ELSE {x} \ {None})
  PROVE  /\ ccr' \in Seq(Hashes \cup {None}) /\ landed' \subseteq Hashes /\ ccr' # <<>>
         /\ CcrInv'
<1> DEFINE T == Hashes \cup {None}
<1>1. ccr \in Seq(T) /\ landed \subseteq Hashes /\ ccrOpen \in BOOLEAN
  BY DEF IInv, TypeOK
<1>2. landed' \subseteq Hashes
  BY <1>1
<1>3. CASE ccrOpen
  <2>1. ccr # <<>> /\ ccr' = [ccr EXCEPT ![Len(ccr)] = None] /\ landed' \subseteq landed
    BY <1>3 DEF IInv, OpenInv, Appended
  <2>2. /\ ccr' \in Seq(T) /\ ccr' # <<>> /\ Len(ccr') = Len(ccr)
        /\ \A i \in 1..(Len(ccr) - 1) : ccr'[i] = ccr[i]
    BY <1>1, <2>1, SpoilLine
  <2>3. ASSUME NEW h \in landed'
        PROVE  \E i \in 1..Len(ccr') : ccr'[i] = h /\ (ccrOpen' => i < Len(ccr'))
    <3>1. PICK i \in 1..Len(ccr) : ccr[i] = h /\ i < Len(ccr)
      BY <1>3, <2>1, <2>3 DEF IInv, CcrInv
    <3>2. i \in 1..(Len(ccr) - 1) /\ Len(ccr) \in Nat
      BY <1>1, <3>1
    <3> QED BY <2>2, <3>1, <3>2
  <2> QED BY <1>2, <2>2, <2>3 DEF CcrInv
<1>4. CASE ~ccrOpen
  <2>1. ccr' = Append(ccr, x)
    BY <1>4 DEF Appended
  <2>2. /\ ccr' \in Seq(T) /\ Len(ccr') = Len(ccr) + 1
        /\ ccr'[Len(ccr) + 1] = x /\ \A i \in 1..Len(ccr) : ccr'[i] = ccr[i]
    BY <1>1, <2>1, AppendLine
  <2>3. Len(ccr) \in Nat /\ ccr' # <<>>
    BY <1>1, <2>2
  <2>4. ASSUME NEW h \in landed
        PROVE  \E i \in 1..Len(ccr') : ccr'[i] = h /\ i < Len(ccr')
    <3>1. PICK i \in 1..Len(ccr) : ccr[i] = h
      BY <2>4 DEF IInv, CcrInv
    <3> QED BY <2>2, <2>3, <3>1
  <2>5. ASSUME NEW h \in landed', h \notin landed
        PROVE  \E i \in 1..Len(ccr') : ccr'[i] = h /\ ~ccrOpen'
    <3>1. h = x /\ ~ccrOpen'
      BY <2>5
    <3> QED BY <2>2, <2>3, <3>1
  <2> QED BY <1>2, <2>2, <2>3, <2>4, <2>5 DEF CcrInv
<1> QED BY <1>1, <1>3, <1>4

\* A step on the store that does not touch the ledger.
LEMMA LedgerAlone ==
  ASSUME IInv, UNCHANGED ledgerVars, NEW p \in Runs,
         run' \in [Runs -> [pc : Steps, hash : Hashes \cup {None}]],
         run'[p].pc \notin {"append", "put"}, \A q \in Runs \ {p} : run'[q] = run[q],
         ccr' \in Seq(Hashes \cup {None}), landed' \subseteq Hashes, ccr' # <<>>, CcrInv',
         ccrOpen' \in BOOLEAN, tears' \in 0..MaxTears, tears' >= tears
  PROVE  IInv'
<1>1. TypeOK'
  BY DEF IInv, TypeOK, ledgerVars
<1>2. OpenInv'
  BY DEF IInv, OpenInv, ledgerVars
<1>3. BoundInv'
  <2>1. Len(ledger) \in Nat /\ ledger' = ledger
    BY DEF IInv, TypeOK, ledgerVars
  <2>2. blocked' = blocked /\ blocked \in Nat
    BY BlockedType DEF IInv, ledgerVars
  <2> QED BY <2>1, <2>2, NoneMore, FewAppend, HomeAssumption DEF BoundInv, IInv
<1>4. TearInv'
  <2>1. Cardinality(spoilt) \in Nat
    BY CountedRecords DEF IInv, TypeOK
  <2>2. tears \in Nat /\ tears' \in Nat /\ AtStake \in Nat
    <3>1. AtStake \in {0, 1, 2}
      BY DEF AtStake
    <3> QED BY <3>1, HomeAssumption DEF IInv, TypeOK
  <2>3. AtStake' = AtStake /\ spoilt' = spoilt
    BY DEF AtStake, ledgerVars
  <2> QED BY <2>1, <2>2, <2>3 DEF IInv, TearInv
<1>5. OrderInv' /\ FloorInv'
  BY DEF IInv, OrderInv, FloorInv, OnlyTheOldestGo, Increasing, RangeOf, Readable, ledgerVars
<1>6. PutInv'
  BY PutStays DEF IInv
<1> QED BY <1>1, <1>2, <1>3, <1>4, <1>5, <1>6 DEF IInv

LEMMA InvPut ==
  ASSUME IInv, NEW p \in Runs, Put(p)
  PROVE  IInv'
<1> DEFINE x == run[p].hash
<1>1. TypeOK /\ x \in Hashes
  BY DEF IInv, PutInv, Put
<1>2. /\ run' \in [Runs -> [pc : Steps, hash : Hashes \cup {None}]]
      /\ run'[p].pc = "stat" /\ \A q \in Runs \ {p} : run'[q] = run[q]
  BY <1>1, GotoType DEF Put, Steps
<1>3. /\ ccr' = Appended(ccr, ccrOpen, x, None) /\ ccrOpen' = FALSE
      /\ landed' = IF ccrOpen THEN landed ELSE landed \cup {x}
      /\ UNCHANGED <<ledgerVars, tears>>
  BY DEF Put
<1> HIDE DEF x
<1>4. landed' \subseteq landed \cup (IF ccrOpen \/ ccrOpen' THEN {} ELSE {x} \ {None})
  BY <1>1, <1>3, HomeAssumption
<1>5. /\ ccr' \in Seq(Hashes \cup {None}) /\ landed' \subseteq Hashes /\ ccr' # <<>>
      /\ CcrInv'
  BY <1>1, <1>3, <1>4, CcrStep
<1>6. tears' \in 0..MaxTears /\ tears' >= tears
  BY <1>1, <1>3, HomeAssumption DEF TypeOK
<1> QED BY <1>2, <1>3, <1>5, <1>6, LedgerAlone

LEMMA InvPutTorn ==
  ASSUME IInv, NEW p \in Runs, PutTorn(p)
  PROVE  IInv'
<1>1. TypeOK /\ run[p].hash \in Hashes \cup {None}
  BY RunTypes DEF IInv
<1>2. /\ run' \in [Runs -> [pc : Steps, hash : Hashes \cup {None}]]
      /\ run'[p].pc \in {"stat", "idle"} /\ \A q \in Runs \ {p} : run'[q] = run[q]
  BY <1>1, GotoType, ResetType DEF PutTorn, Steps, Goto
<1>3. PICK x \in Hashes \cup {None} : ccr' = Appended(ccr, ccrOpen, x, None)
  BY <1>1 DEF PutTorn
<1>4. ccrOpen' = TRUE /\ landed' = landed /\ UNCHANGED ledgerVars
  BY DEF PutTorn
<1>5. /\ ccr' \in Seq(Hashes \cup {None}) /\ landed' \subseteq Hashes /\ ccr' # <<>>
      /\ CcrInv'
  BY <1>3, <1>4, CcrStep
<1>6. tears' \in 0..MaxTears /\ tears' >= tears
  BY <1>1, HomeAssumption DEF PutTorn, TypeOK
<1> QED BY <1>2, <1>4, <1>5, <1>6, LedgerAlone

-----------------------------------------------------------------------------
(* The ledger.                                                             *)

\* The steps on the ledger leave the store alone.
LEMMA StoreAlone ==
  ASSUME IInv, UNCHANGED ccrVars
  PROVE  /\ ccr' \in Seq(Hashes \cup {None}) /\ ccrOpen' \in BOOLEAN /\ landed' \subseteq Hashes
         /\ (ccrOpen' => ccr' # <<>>) /\ CcrInv'
BY DEF IInv, TypeOK, OpenInv, CcrInv, ccrVars

LEMMA Types ==
  ASSUME IInv
  PROVE  /\ ledger \in Seq(Lines) /\ archive \in Seq(Lines)
         /\ RangeOf(ledger) \subseteq 0..MaxRecords /\ RangeOf(archive) \subseteq 0..MaxRecords
         /\ Len(ledger) \in Nat /\ Len(archive) \in Nat
         /\ count \in 0..MaxRecords /\ dropped \in 0..MaxRecords /\ MaxRecords \in Nat
         /\ tears \in 0..MaxTears /\ spoilt \subseteq Records
         /\ blocked \in 0..MaxBlocked /\ blocked \in Nat
<1>1. Lines \subseteq 0..MaxRecords
  BY HomeAssumption DEF Lines, Records, Garbled
<1>2. ledger \in Seq(Lines) /\ archive \in Seq(Lines)
  BY DEF IInv, TypeOK, Lines
<1>3. RangeOf(ledger) \subseteq 0..MaxRecords /\ RangeOf(archive) \subseteq 0..MaxRecords
  BY <1>1, <1>2, RangeType
<1> QED BY <1>2, <1>3, BlockedType, HomeAssumption DEF IInv, TypeOK

\* What a rotation drops is the newest of the archive, or older than it.
LEMMA DroppedNewest ==
  ASSUME IInv
  PROVE  LET m == Max({dropped} \cup RangeOf(archive))
         IN  /\ m \in {dropped} \cup RangeOf(archive)
             /\ m >= dropped /\ \A r \in RangeOf(archive) : m >= r
BY Types, MaxExists

LEMMA InvRename ==
  ASSUME IInv, NEW p \in Runs, Rename(p)
  PROVE  IInv'
<1>1. TypeOK /\ tears' = tears /\ UNCHANGED ccrVars
  BY DEF IInv, Rename
<1>2. /\ run' \in [Runs -> [pc : Steps, hash : Hashes \cup {None}]]
      /\ run'[p].pc = "append" /\ \A q \in Runs \ {p} : run'[q] = run[q]
  BY <1>1, GotoType DEF Rename, Steps
<1>3. /\ Cardinality(Appending') <= Cardinality(Runs)
      /\ Cardinality(Appending') \in Nat /\ Cardinality(Runs) \in Nat
  BY HomeAssumption, FS_Subset, FS_CardinalityType DEF Appending
<1>4. PutInv'
  BY <1>2, PutStays DEF IInv
<1>5. ledger' = <<>> /\ ledgerOpen' \in BOOLEAN /\ (ledgerOpen' => ledger' # <<>>)
  BY DEF Rename, ledgerVars, IInv, OpenInv, TypeOK
<1>6. BoundInv'
  <2>1. blocked' \in Nat
    BY BlockedType DEF IInv, Rename, Archived, ledgerVars
  <2> QED BY <1>3, <1>5, <2>1, HomeAssumption DEF BoundInv
<1>7. CASE ledger = <<>>
  <2>1. UNCHANGED ledgerVars
    BY <1>7 DEF Rename
  <2> QED BY <1>1, <1>2, <1>4, <1>6, <2>1, FilesAlone
<1>8. CASE ledger # <<>>
  <2>1. /\ archive' = ledger /\ ledger' = <<>> /\ ledgerOpen' = FALSE
        /\ dropped' = Max({dropped} \cup RangeOf(archive))
        /\ disturbed' = (disturbed \/ Len(ledger) < RotateAt) /\ blocked' = 0
        /\ UNCHANGED <<count, spoilt>>
    BY <1>8 DEF Rename, Archived
  <2>2. /\ dropped' \in {dropped} \cup RangeOf(archive)
        /\ dropped' >= dropped /\ \A r \in RangeOf(archive) : dropped' >= r
    BY <2>1, DroppedNewest
  <2>3. dropped' \in 0..MaxRecords
    BY <2>2, Types
  <2>4. TypeOK'
    <3>1. ledger' \in Seq(Lines) /\ archive' \in Seq(Lines)
      <4>1. <<>> \in Seq(Lines)
        OBVIOUS
      <4> QED BY <2>1, <4>1, Types
    <3>3. ledgerOpen' \in BOOLEAN /\ disturbed' \in BOOLEAN /\ blocked' \in 0..MaxBlocked
      <4>1. ledgerOpen' \in BOOLEAN /\ disturbed' \in BOOLEAN
        BY <1>1, <2>1 DEF TypeOK
      <4>2. blocked' \in 0..MaxBlocked
        BY <2>1, HomeAssumption
      <4> QED BY <4>1, <4>2
    <3>2. count' = count /\ spoilt' = spoilt
      BY <2>1
    <3> QED BY <1>1, <1>2, <2>3, <3>1, <3>2, <3>3, StoreAlone DEF TypeOK, Lines
  <2>5. OpenInv'
    BY <1>1, <2>1, StoreAlone DEF OpenInv
  <2>6. TearInv'
    <3>1. AtStake' = 0 /\ AtStake \in {0, 1, 2}
      BY <2>1 DEF AtStake
    <3>2. Cardinality(spoilt) \in Nat /\ tears \in Nat
      BY Types, CountedRecords, HomeAssumption
    <3> QED BY <1>1, <2>1, <3>1, <3>2 DEF IInv, TearInv
  <2>7. RangeOf(ledger') = {} /\ RangeOf(archive') = RangeOf(ledger)
    BY <2>1 DEF RangeOf
  <2>8. OnlyTheOldestGo'
    <3>1. Increasing(archive') /\ Increasing(ledger')
      BY <2>1 DEF IInv, OrderInv, OnlyTheOldestGo, Increasing
    <3>2. \A r \in 1..count : r > dropped' => r \in Readable' \cup spoilt
      <4> SUFFICES ASSUME NEW r \in 1..count, r > dropped' PROVE r \in Readable' \cup spoilt
        OBVIOUS
      <4>1. r > dropped /\ r \notin RangeOf(archive)
        BY <2>2, Types
      <4>2. r \in Readable \cup spoilt
        BY <4>1 DEF IInv, OrderInv, OnlyTheOldestGo
      <4> QED BY <2>7, <4>1, <4>2 DEF Readable
    <3> QED BY <2>1, <2>7, <3>1, <3>2 DEF OnlyTheOldestGo
  <2>9. OrderInv'
    BY <2>1, <2>7, <2>8 DEF IInv, OrderInv
  <2>10. FloorInv'
    <3>1. dropped' <= count
      BY <2>2 DEF IInv, FloorInv, OrderInv
    <3>2. ASSUME ~disturbed'
          PROVE  /\ dropped' + Len(archive') + Len(ledger') <= count
                 /\ \A r \in RangeOf(archive') : r + Len(ledger') <= count
                 /\ Len(archive') >= RotateAt
      <4>1. /\ dropped + Len(archive) + Len(ledger) <= count
            /\ \A r \in RangeOf(archive) : r + Len(ledger) <= count
        BY <2>1, <3>2 DEF IInv, FloorInv
      <4>2. Len(ledger') = 0 /\ Len(archive') = Len(ledger)
        BY <2>1
      <4>3. dropped' + Len(ledger) <= count
        BY <2>2, <4>1, Types
      <4>4. \A r \in RangeOf(archive') : r <= count /\ r \in Nat
        BY <2>7, Types DEF IInv, OrderInv
      <4>0. ~disturbed /\ ~(Len(ledger) < RotateAt)
        BY <2>1, <3>2, Zenon
      <4>5. Len(archive') >= RotateAt
        BY <4>0, <4>2, Types, HomeAssumption
      <4>6. count \in Nat /\ dropped' \in Nat
        BY <2>3, Types
      <4>7. \A r \in RangeOf(archive') : r + 0 <= count
        BY <4>4, <4>6
      <4>8. dropped' + Len(archive') + 0 <= count
        BY <4>2, <4>3, <4>6, Types
      <4> QED BY <4>2, <4>5, <4>7, <4>8
    <3> QED BY <2>1, <3>1, <3>2 DEF FloorInv
  <2> QED BY <1>1, <1>4, <1>6, <2>4, <2>5, <2>6, <2>9, <2>10, StoreAlone DEF IInv
<1> QED BY <1>7, <1>8

\* What an append, whole or torn, makes of the ledger's lines.
LEMMA LedgerLines ==
  ASSUME IInv, count < MaxRecords, NEW left \in {count + 1, Garbled},
         ledger' = Appended(ledger, ledgerOpen, left, Garbled)
  PROVE  /\ ledger' \in Seq(Lines) /\ ledger' # <<>>
         /\ Len(ledger') <= Len(ledger) + 1 /\ Len(ledger') \in Nat
         /\ RangeOf(ledger') \subseteq RangeOf(ledger) \cup {count + 1, Garbled}
         /\ RangeOf(ledger) \subseteq RangeOf(ledger') \cup OpenTail
         /\ ledgerOpen => ledger'[Len(ledger')] = Garbled
         /\ ~ledgerOpen => ledger'[Len(ledger')] = left /\ left \in RangeOf(ledger')
         /\ Increasing(ledger')
<1>1. /\ ledger \in Seq(Lines) /\ Len(ledger) \in Nat /\ count \in Nat
      /\ left \in Lines /\ Garbled \in Lines
  BY Types DEF Lines, Records
<1>2. /\ \A i \in 1..Len(ledger) : ledger[i] \in Nat /\ ledger[i] <= count
      /\ Increasing(ledger) /\ left \in Nat
  <2>1. \A i \in 1..Len(ledger) : ledger[i] \in RangeOf(ledger)
    BY <1>1 DEF RangeOf
  <2> QED BY <1>1, <2>1, Types DEF IInv, OrderInv, OnlyTheOldestGo, Garbled
<1>3. CASE ledgerOpen
  <2>1. ledger # <<>> /\ ledger' = [ledger EXCEPT ![Len(ledger)] = Garbled]
    BY <1>3 DEF IInv, OpenInv, Appended
  <2>2. /\ ledger' \in Seq(Lines) /\ ledger' # <<>> /\ Len(ledger') = Len(ledger)
        /\ ledger'[Len(ledger)] = Garbled
        /\ \A i \in 1..(Len(ledger) - 1) : ledger'[i] = ledger[i]
    BY <1>1, <2>1, SpoilLine
  <2>3. \A i \in 1..Len(ledger) : i = Len(ledger) \/ i \in 1..(Len(ledger) - 1)
    BY <1>1
  <2>4. RangeOf(ledger') \subseteq RangeOf(ledger) \cup {Garbled}
    BY <1>1, <2>2, <2>3 DEF RangeOf
  <2>5. RangeOf(ledger) \subseteq RangeOf(ledger') \cup {ledger[Len(ledger)]}
    BY <1>1, <2>2, <2>3 DEF RangeOf
  <2>6. Increasing(ledger')
    <3> SUFFICES ASSUME NEW i \in 1..Len(ledger), NEW j \in 1..Len(ledger), i < j,
                        Garbled \notin {ledger'[i], ledger'[j]}
                 PROVE  ledger'[i] < ledger'[j]
      BY <2>2 DEF Increasing
    <3>1. j # Len(ledger)
      BY <2>2
    <3>2. i \in 1..(Len(ledger) - 1) /\ j \in 1..(Len(ledger) - 1)
      BY <1>1, <2>3, <3>1
    <3>3. ledger'[i] = ledger[i] /\ ledger'[j] = ledger[j]
      BY <2>2, <3>2
    <3> QED BY <1>2, <3>3 DEF Increasing
  <2>7. OpenTail = {ledger[Len(ledger)]}
    BY <1>3 DEF OpenTail
  <2>8. Len(ledger') <= Len(ledger) + 1 /\ Len(ledger') \in Nat
    BY <1>1, <2>2
  <2>9. ledger'[Len(ledger')] = Garbled
    BY <2>2
  <2> HIDE <2>1
  <2> QED BY <1>3, <2>2, <2>4, <2>5, <2>6, <2>7, <2>8, <2>9
<1>4. CASE ~ledgerOpen
  <2>1. ledger' = Append(ledger, left)
    BY <1>4 DEF Appended
  <2>2. /\ ledger' \in Seq(Lines) /\ Len(ledger') = Len(ledger) + 1
        /\ ledger'[Len(ledger) + 1] = left
        /\ \A i \in 1..Len(ledger) : ledger'[i] = ledger[i]
    BY <1>1, <2>1, AppendLine
  <2>3. \A i \in 1..(Len(ledger) + 1) : i = Len(ledger) + 1 \/ i \in 1..Len(ledger)
    BY <1>1
  <2>4. RangeOf(ledger') \subseteq RangeOf(ledger) \cup {left}
    BY <1>1, <2>2, <2>3 DEF RangeOf
  <2>5. RangeOf(ledger) \subseteq RangeOf(ledger') /\ left \in RangeOf(ledger')
    BY <1>1, <2>2 DEF RangeOf
  <2>6. Increasing(ledger')
    <3> SUFFICES ASSUME NEW i \in 1..(Len(ledger) + 1), NEW j \in 1..(Len(ledger) + 1), i < j,
                        Garbled \notin {ledger'[i], ledger'[j]}
                 PROVE  ledger'[i] < ledger'[j]
      BY <2>2 DEF Increasing
    <3>1. i \in 1..Len(ledger) /\ ledger'[i] = ledger[i]
      BY <1>1, <2>2
    <3>2. CASE j \in 1..Len(ledger)
      BY <1>1, <1>2, <2>2, <3>1, <3>2 DEF Increasing
    <3>3. CASE j = Len(ledger) + 1
      BY <1>1, <1>2, <2>2, <3>1, <3>3
    <3> QED BY <2>3, <3>2, <3>3
  <2>7. ledger' # <<>> /\ Len(ledger') \in Nat
    BY <1>1, <2>2
  <2> QED BY <1>1, <1>4, <2>2, <2>4, <2>5, <2>6, <2>7
<1> QED BY <1>3, <1>4

\* What the append spoils.
Spoils(left) ==
  (IF left = Garbled \/ ledgerOpen THEN {count + 1} ELSE {}) \cup (OpenTail \ {Garbled})

LEMMA OpenTailType ==
  ASSUME IInv
  PROVE  /\ OpenTail \subseteq Lines /\ IsFiniteSet(OpenTail \ {Garbled})
         /\ ledgerOpen => OpenTail = {ledger[Len(ledger)]}
<1>1. CASE ledgerOpen
  <2>1. ledger # <<>> /\ ledger \in Seq(Lines)
    BY <1>1, Types DEF IInv, OpenInv
  <2>2. ledger[Len(ledger)] \in Lines
    BY <2>1
  <2> QED BY <1>1, <2>2, FS_Singleton, FS_RemoveElement DEF OpenTail
<1>2. CASE ~ledgerOpen
  BY <1>2, FS_EmptySet, FS_RemoveElement DEF OpenTail
<1> QED BY <1>1, <1>2

LEMMA TearStep ==
  ASSUME IInv, count < MaxRecords, NEW left \in {count + 1, Garbled},
         ledger' = Appended(ledger, ledgerOpen, left, Garbled),
         spoilt' = spoilt \cup Spoils(left), ledgerOpen' \in BOOLEAN, tears' \in Nat,
         tears' = IF ledgerOpen' THEN tears + 1 ELSE tears, left = Garbled => ledgerOpen'
  PROVE  spoilt' \subseteq Records /\ TearInv'
<1> DEFINE k == count + 1
           tail == OpenTail \ {Garbled}
<1>1. k \in Records /\ k # Garbled /\ spoilt \subseteq Records /\ tail \subseteq Records
  BY Types, OpenTailType DEF Records, Garbled, Lines
<1>2. spoilt' \subseteq Records
  BY <1>1 DEF Spoils
<1>3. /\ IsFiniteSet(spoilt) /\ Cardinality(spoilt) \in Nat
      /\ Cardinality(spoilt \cup {k}) \in Nat /\ IsFiniteSet(spoilt \cup {k})
      /\ Cardinality(spoilt \cup {k}) <= Cardinality(spoilt) + 1
  BY <1>1, CountedRecords, FS_AddElement
<1>4. Cardinality(spoilt) + AtStake <= 2 * tears /\ tears \in Nat
  BY Types DEF IInv, TearInv
<1>5. AtStake' \in {0, 1, 2} /\ (~ledgerOpen' => AtStake' = 0)
  BY DEF AtStake
<1>9. tears' \in Nat /\ tears' >= tears /\ (AtStake' = 0 \/ tears' = tears + 1)
  BY <1>4, <1>5
<1>6. ledger'[Len(ledger')] = IF ledgerOpen THEN Garbled ELSE left
  BY LedgerLines
<1>7. CASE ~ledgerOpen
  <2>1. tail = {} /\ AtStake = 0
    BY <1>7 DEF OpenTail, AtStake
  <2>2. CASE left = Garbled
    <3>1. spoilt' = spoilt \cup {k} /\ AtStake' = 1 /\ tears' = tears + 1
      BY <1>6, <1>7, <2>1, <2>2 DEF Spoils, AtStake
    <3> QED BY <1>2, <1>3, <1>4, <2>1, <3>1 DEF TearInv
  <2>3. CASE left # Garbled
    <3>1. spoilt' = spoilt
      BY <1>7, <2>1, <2>3 DEF Spoils
    <3>2. Cardinality(spoilt) + AtStake' <= 2 * tears'
      BY <1>3, <1>4, <1>5, <1>9, <2>1
    <3> QED BY <1>2, <3>1, <3>2 DEF TearInv
  <2> QED BY <2>2, <2>3
<1>8. CASE ledgerOpen
  <2>1. spoilt' = (spoilt \cup {k}) \cup tail
    BY <1>8 DEF Spoils
  <2>2. AtStake' <= 1 /\ AtStake' \in Nat /\ (AtStake' = 1 => tears' = tears + 1)
    BY <1>5, <1>6, <1>8 DEF AtStake
  <2>3. CASE ledger[Len(ledger)] = Garbled
    <3>1. tail = {} /\ AtStake = 1
      BY <1>8, <2>3, OpenTailType DEF AtStake
    <3>2. spoilt' = spoilt \cup {k}
      BY <2>1, <3>1
    <3>3. Cardinality(spoilt \cup {k}) + AtStake' <= 2 * tears'
      BY <1>3, <1>4, <1>5, <1>9, <2>2, <3>1
    <3> QED BY <1>2, <3>2, <3>3 DEF TearInv
  <2>4. CASE ledger[Len(ledger)] # Garbled
    <3>1. tail = {ledger[Len(ledger)]} /\ AtStake = 2
      BY <1>8, <2>4, OpenTailType DEF AtStake
    <3>2. Cardinality(spoilt') <= Cardinality(spoilt) + 2 /\ Cardinality(spoilt') \in Nat
      <4> DEFINE S == spoilt \cup {k}
                 x == ledger[Len(ledger)]
      <4>1. Cardinality(S \cup {x}) = IF x \in S THEN Cardinality(S) ELSE Cardinality(S) + 1
        BY <1>3, FS_AddElement
      <4>2. spoilt' = S \cup {x}
        BY <2>1, <3>1
      <4>3. Cardinality(S) \in Nat /\ Cardinality(S) <= Cardinality(spoilt) + 1
        BY <1>3
      <4> HIDE DEF S, x
      <4> QED BY <1>3, <4>1, <4>2, <4>3
    <3>3. Cardinality(spoilt') + AtStake' <= 2 * tears'
      BY <1>3, <1>4, <1>5, <1>9, <2>2, <3>1, <3>2
    <3> QED BY <1>2, <3>3 DEF TearInv
  <2> QED BY <2>3, <2>4
<1> QED BY <1>7, <1>8

LEMMA InvAppend ==
  ASSUME IInv, NEW p \in Runs, At(p, "append"), count < MaxRecords, count' = count + 1,
         NEW left \in {count + 1, Garbled},
         ledger' = Appended(ledger, ledgerOpen, left, Garbled),
         spoilt' = spoilt \cup Spoils(left), ledgerOpen' \in BOOLEAN, tears' \in 0..MaxTears,
         tears' = IF ledgerOpen' THEN tears + 1 ELSE tears, left = Garbled => ledgerOpen',
         run' = [run EXCEPT ![p] = NoRun],
         UNCHANGED <<archive, dropped, disturbed, blocked, ccrVars>>
  PROVE  IInv'
<1>1. /\ run' \in [Runs -> [pc : Steps, hash : Hashes \cup {None}]]
      /\ run'[p].pc = "idle" /\ \A q \in Runs \ {p} : run'[q] = run[q]
  BY ResetType DEF IInv
<1>2. spoilt' \subseteq Records /\ TearInv'
  <2>1. tears' \in Nat
    BY HomeAssumption
  <2> QED BY <2>1, TearStep
<1>3. /\ ledger' \in Seq(Lines) /\ ledger' # <<>>
      /\ Len(ledger') <= Len(ledger) + 1 /\ Len(ledger') \in Nat
      /\ RangeOf(ledger') \subseteq RangeOf(ledger) \cup {count + 1, Garbled}
      /\ RangeOf(ledger) \subseteq RangeOf(ledger') \cup OpenTail
      /\ Increasing(ledger')
      /\ ~ledgerOpen => left \in RangeOf(ledger')
  BY LedgerLines
<1>4. TypeOK'
  <2>1. count' \in 0..MaxRecords
    BY Types
  <2> QED BY <1>1, <1>2, <1>3, <2>1, StoreAlone DEF IInv, TypeOK, Lines
<1>5. OpenInv' /\ CcrInv'
  BY <1>3, StoreAlone DEF OpenInv
<1>6. PutInv'
  BY <1>1, PutStays DEF IInv
<1>7. BoundInv'
  <2>1. Cardinality(Appending') = Cardinality(Appending) - 1
    BY <1>1, OneFewer
  <2>2. /\ Len(ledger) + Cardinality(Appending) < RotateAt + Cardinality(Runs) + blocked
        /\ blocked' = blocked /\ blocked \in Nat
    BY Types DEF IInv, BoundInv
  <2>3. Len(ledger) \in Nat /\ Cardinality(Appending) \in Nat /\ Cardinality(Runs) \in Nat
        /\ RotateAt \in Nat
    BY FewAppend, Types, HomeAssumption
  <2>4. Len(ledger') + Cardinality(Appending') < RotateAt + Cardinality(Runs) + blocked'
    BY <1>3, <2>1, <2>2, <2>3
  <2> QED BY <2>4 DEF BoundInv
<1>8. /\ RangeOf(archive') = RangeOf(archive) /\ RangeOf(archive) \subseteq 0..MaxRecords
      /\ RangeOf(ledger) \subseteq 0..MaxRecords /\ count \in Nat /\ dropped \in Nat
  BY Types DEF RangeOf
<1>9. OrderInv'
  <2>1. \A r \in RangeOf(archive') \cup RangeOf(ledger') : r <= count'
    BY <1>3, <1>8 DEF IInv, OrderInv, Garbled
  <2>2. \A a \in RangeOf(archive') \ {Garbled}, r \in RangeOf(ledger') \ {Garbled} : a < r
    <3>1. \A a \in RangeOf(archive) : a < count + 1
      BY <1>8 DEF IInv, OrderInv
    <3>2. \A a \in RangeOf(archive) \ {Garbled}, r \in RangeOf(ledger) \ {Garbled} : a < r
      BY DEF IInv, OrderInv, OnlyTheOldestGo
    <3> QED BY <1>3, <1>8, <3>1, <3>2
  <2>3. Increasing(archive')
    BY DEF IInv, OrderInv, OnlyTheOldestGo, Increasing
  <2>4. ASSUME NEW r \in 1..count', r > dropped'
        PROVE  r \in Readable' \cup spoilt'
    <3>1. CASE r = count + 1
      BY <1>3, <1>8, <3>1 DEF Readable, Spoils, Garbled
    <3>2. CASE r # count + 1
      <4>1. r \in Readable \cup spoilt
        BY <1>8, <2>4, <3>2 DEF IInv, OrderInv, OnlyTheOldestGo
      <4>2. Readable \subseteq Readable' \cup (OpenTail \ {Garbled})
        BY <1>3, <1>8 DEF Readable
      <4> QED BY <4>1, <4>2 DEF Spoils
    <3> QED BY <3>1, <3>2
  <2> QED BY <1>3, <2>1, <2>2, <2>3, <2>4 DEF OrderInv, OnlyTheOldestGo
<1>10. FloorInv'
  <2>1. dropped' = dropped /\ Len(archive') = Len(archive) /\ (disturbed' <=> disturbed)
    OBVIOUS
  <2>2. dropped <= count
    BY DEF IInv, FloorInv
  <2>3. ASSUME ~disturbed
        PROVE  /\ dropped + Len(archive) + Len(ledger) <= count
               /\ \A r \in RangeOf(archive) : r + Len(ledger) <= count
               /\ dropped = 0 \/ Len(archive) >= RotateAt
    BY <2>3 DEF IInv, FloorInv
  <2>4. ASSUME ~disturbed
        PROVE  /\ dropped + Len(archive) + Len(ledger') <= count + 1
               /\ \A r \in RangeOf(archive) : r + Len(ledger') <= count + 1
    BY <1>3, <1>8, <2>3, <2>4, Types
  <2>5. dropped <= count + 1
    BY <1>8, <2>2
  <2> QED BY <1>8, <2>1, <2>3, <2>4, <2>5 DEF FloorInv
<1> QED BY <1>2, <1>4, <1>5, <1>6, <1>7, <1>9, <1>10 DEF IInv

LEMMA InvAppendLedger ==
  ASSUME IInv, NEW p \in Runs, AppendLedger(p)
  PROVE  IInv'
<1>1. count + 1 # Garbled /\ tears \in 0..MaxTears
  BY Types DEF Garbled
<1>2. spoilt' = spoilt \cup Spoils(count + 1)
  <2>1. spoilt' = spoilt \cup IF ledgerOpen THEN {count + 1} \cup (OpenTail \ {Garbled}) ELSE {}
    BY DEF AppendLedger
  <2>2. ~ledgerOpen => OpenTail = {}
    BY DEF OpenTail
  <2> QED BY <1>1, <2>1, <2>2 DEF Spoils
<1>3. /\ ledger' = Appended(ledger, ledgerOpen, count + 1, Garbled)
      /\ ledgerOpen' = FALSE /\ tears' = tears
  BY DEF AppendLedger
<1> QED BY <1>1, <1>2, <1>3, InvAppend DEF AppendLedger

LEMMA InvAppendTorn ==
  ASSUME IInv, NEW p \in Runs, AppendTorn(p)
  PROVE  IInv'
<1>1. PICK left \in {count + 1, Garbled} :
        /\ ledger' = Appended(ledger, ledgerOpen, left, Garbled)
        /\ spoilt' = spoilt \cup (IF left = Garbled \/ ledgerOpen THEN {count + 1} ELSE {})
                            \cup (OpenTail \ {Garbled})
  BY DEF AppendTorn
<1>2. spoilt' = spoilt \cup Spoils(left)
  BY <1>1 DEF Spoils
<1>3. ledgerOpen' = TRUE /\ tears' = tears + 1 /\ tears' \in 0..MaxTears
  BY Types, HomeAssumption DEF AppendTorn
<1> QED BY <1>1, <1>2, <1>3, InvAppend DEF AppendTorn

LEMMA InvPurge ==
  ASSUME IInv, Purge
  PROVE  IInv'
<1>1. /\ ledger' = <<>> /\ ledgerOpen' = FALSE /\ dropped' = count /\ disturbed' = TRUE
      /\ archive' = archive /\ run' = run /\ count' = count /\ spoilt' = spoilt /\ tears' = tears
      /\ blocked' = 0
      /\ UNCHANGED ccrVars
  BY DEF Purge
<1>2. ledger' \in Seq(Lines) /\ RangeOf(ledger') = {} /\ Len(ledger') = 0
  BY <1>1 DEF RangeOf
<1>3. TypeOK'
  <2>1. blocked' \in 0..MaxBlocked
    BY <1>1, HomeAssumption
  <2> QED BY <1>1, <1>2, <2>1, Types, StoreAlone DEF IInv, TypeOK, Lines
<1>4. OpenInv' /\ CcrInv' /\ PutInv'
  BY <1>1, StoreAlone DEF IInv, OpenInv, PutInv, At
<1>5. BoundInv'
  <2>1. Appending' = Appending
    BY <1>1 DEF Appending, At
  <2> QED BY <1>1, <1>2, <2>1, Types, FewAppend, HomeAssumption DEF IInv, BoundInv
<1>6. TearInv'
  <2>1. AtStake' = 0 /\ AtStake \in {0, 1, 2}
    BY <1>1 DEF AtStake
  <2>2. Cardinality(spoilt) \in Nat /\ tears \in Nat
    BY Types, CountedRecords, HomeAssumption
  <2> QED BY <1>1, <2>1, <2>2 DEF IInv, TearInv
<1>7. OrderInv'
  <2>1. RangeOf(archive') = RangeOf(archive)
    BY <1>1
  <2>2. Increasing(ledger') /\ Increasing(archive')
    BY <1>1 DEF IInv, OrderInv, OnlyTheOldestGo, Increasing
  <2>3. \A r \in 1..count' : ~(r > dropped')
    BY <1>1, Types
  <2> QED BY <1>1, <1>2, <2>1, <2>2, <2>3 DEF IInv, OrderInv, OnlyTheOldestGo
<1>8. FloorInv'
  BY <1>1, Types DEF FloorInv
<1> QED BY <1>3, <1>4, <1>5, <1>6, <1>7, <1>8 DEF IInv

LEMMA InvStep == IInv /\ [Next]_vars => IInv'
<1> SUFFICES ASSUME IInv, [Next]_vars PROVE IInv'
  OBVIOUS
<1>1. CASE UNCHANGED vars
  <2>1. UNCHANGED <<ledgerVars, ccrVars, tears>> /\ run' = run
    BY <1>1 DEF vars, ledgerVars, ccrVars
  <2>2. run' \in [Runs -> [pc : Steps, hash : Hashes \cup {None}]] /\ PutInv'
    BY <2>1 DEF IInv, TypeOK, PutInv, At
  <2>3. BoundInv'
    <3>1. Appending' = Appending /\ ledger' = ledger /\ blocked' = blocked
      BY <2>1 DEF Appending, At, ledgerVars
    <3> QED BY <3>1 DEF IInv, BoundInv
  <2> QED BY <2>1, <2>2, <2>3, FilesAlone
<1> QED BY <1>1, InvBegin, InvPut, InvPutTorn, InvStat, InvRename, InvRotationFails,
           InvAppendLedger, InvAppendTorn, InvStop, InvPurge DEF Next

LEMMA Invariant == Spec => []IInv
BY InvInit, InvStep, PTL DEF Spec

-----------------------------------------------------------------------------
(* Theorems.                                                               *)

\* Types hold in every reachable state (ledger.ts, ccr-store.ts).
THEOREM TypeCorrect == Spec => []TypeOK
<1>1. IInv => TypeOK
  BY DEF IInv
<1> QED BY <1>1, Invariant, PTL

\* The ledger stays within one record per run of the threshold and one per
\* rotation that failed since it last began anew (rotateIfOversized).
THEOREM LedgerStaysBounded == Spec => []LedgerBounded
<1>1. IInv => LedgerBounded
  BY Types, FewAppend, HomeAssumption DEF IInv, BoundInv, LedgerBounded
<1> QED BY <1>1, Invariant, PTL

\* Rotations, however they overlap, remove old records before new ones
\* (rotateIfOversized, appendLedger).
THEOREM NewRecordsStay == Spec => []OnlyTheOldestGo
<1>1. IInv => OnlyTheOldestGo
  BY DEF IInv, OrderInv
<1> QED BY <1>1, Invariant, PTL

\* A torn append costs two records at most (appendLedger, readLedger).
THEOREM TearsSpoilFew == Spec => []TearSpoilsTwo
<1>1. IInv => TearSpoilsTwo
  <2> SUFFICES ASSUME IInv PROVE TearSpoilsTwo
    OBVIOUS
  <2>1. Cardinality(spoilt) \in Nat /\ AtStake \in {0, 1, 2} /\ tears \in Nat
    BY Types, CountedRecords, HomeAssumption DEF AtStake
  <2> QED BY <2>1 DEF IInv, TearInv, TearSpoilsTwo
<1> QED BY <1>1, Invariant, PTL

\* Unless two runs rotated the same ledger, the newest RotateAt records are there
\* (rotateIfOversized).
THEOREM HistoryIsKept == Spec => []HistoryFloor
<1>1. IInv => HistoryFloor
  <2> SUFFICES ASSUME IInv, ~disturbed, NEW r \in 1..count, r + RotateAt > count
               PROVE  r \in Readable \cup spoilt
    BY DEF HistoryFloor
  <2>1. /\ dropped + Len(archive) + Len(ledger) <= count
        /\ dropped = 0 \/ Len(archive) >= RotateAt
    BY DEF IInv, FloorInv
  <2>2. r > dropped
    BY <2>1, Types, HomeAssumption
  <2> QED BY <2>2 DEF IInv, OrderInv, OnlyTheOldestGo
<1> QED BY <1>1, Invariant, PTL

\* What was once stored whole can always be retrieved (putCcr, getCcr).
THEOREM StoredTextsStay == Spec => []WholePutsStay
<1>1. IInv => WholePutsStay
  <2> SUFFICES ASSUME IInv, NEW h \in landed PROVE h \in RangeOf(ccr)
    BY DEF WholePutsStay, Found
  <2>1. PICK i \in 1..Len(ccr) : ccr[i] = h
    BY DEF IInv, CcrInv
  <2>2. ccr \in Seq(Hashes \cup {None})
    BY DEF IInv, TypeOK
  <2> QED BY <2>1, <2>2 DEF RangeOf
<1> QED BY <1>1, Invariant, PTL
=============================================================================
