------------------------------ MODULE HomeFiles -----------------------------
(***************************************************************************)
(* The two append-only JSONL files of ~/.optiflow that every hook and every *)
(* chop wrapper writes without a lock: the savings ledger (core/ledger.ts), *)
(* which rotates into one archive, and the CCR store (native/ccr-store.ts), *)
(* where the text behind a <<ccr:HASH>> marker is kept.                    *)
(*                                                                         *)
(* A run filters one output: it stores what the filter left out, appends a *)
(* row to the ledger, and only then prints the filtered text.  Records are *)
(* numbered in the order in which they reach their file.  An append may    *)
(* stop half way (a full disk, a killed process); what it leaves has no    *)
(* newline, so the next record continues the same line.                    *)
(***************************************************************************)
EXTENDS Naturals, Sequences, FiniteSetsExt

CONSTANTS
  Runs,        \* processes that filter an output
  Hashes,      \* hashes of marked texts
  None,        \* an output without a marker
  RotateAt,    \* ROTATE_AT_BYTES, in records
  MaxRecords,  \* bound: records appended to the ledger
  MaxStored,   \* bound: lines of the CCR store
  MaxTears,    \* bound: appends that stop half way
  MaxBlocked   \* bound: rotations that fail on the same ledger

ASSUME HomeAssumption ==
  /\ IsFiniteSet(Runs) /\ Runs # {}
  /\ None \notin Hashes
  /\ RotateAt \in Nat \ {0}
  /\ MaxRecords \in Nat
  /\ MaxStored \in Nat
  /\ MaxTears \in Nat
  /\ MaxBlocked \in Nat

Records == 1..MaxRecords
Garbled == 0    \* a line that does not parse

VARIABLES
  ledger, ledgerOpen,  \* ledger.jsonl, and whether its last line has no newline
  archive,             \* ledger.jsonl.1
  ccr, ccrOpen,        \* ccr-store.jsonl: the hash of each record, or None
  run,                 \* each process: what it is about to do, and its marker
  count,               \* history: records appended to the ledger
  spoilt,              \* history: records that a tear made unreadable
  dropped,             \* history: the newest record a rotation or purge removed
  landed,              \* history: hashes once stored whole
  tears,               \* history: appends that stopped half way
  disturbed,           \* history: a rename met a ledger that another run had just
                       \* rotated, or the ledger was purged
  blocked              \* history: rotations that failed since the ledger was empty

vars == <<ledger, ledgerOpen, archive, ccr, ccrOpen, run, count, spoilt, dropped,
          landed, tears, disturbed, blocked>>
ledgerVars == <<ledger, ledgerOpen, archive, count, spoilt, dropped, disturbed, blocked>>
ccrVars == <<ccr, ccrOpen, landed>>

Steps == {"idle", "put", "stat", "rename", "append"}
NoRun == [pc |-> "idle", hash |-> None]

TypeOK ==
  /\ ledger \in Seq(Records \cup {Garbled}) /\ ledgerOpen \in BOOLEAN
  /\ archive \in Seq(Records \cup {Garbled})
  /\ ccr \in Seq(Hashes \cup {None}) /\ ccrOpen \in BOOLEAN
  /\ run \in [Runs -> [pc : Steps, hash : Hashes \cup {None}]]
  /\ count \in 0..MaxRecords /\ dropped \in 0..MaxRecords
  /\ spoilt \subseteq Records
  /\ landed \subseteq Hashes
  /\ tears \in 0..MaxTears
  /\ disturbed \in BOOLEAN /\ blocked \in 0..MaxBlocked

Init ==
  /\ ledger = <<>> /\ ledgerOpen = FALSE /\ archive = <<>>
  /\ ccr = <<>> /\ ccrOpen = FALSE
  /\ run = [p \in Runs |-> NoRun]
  /\ count = 0 /\ spoilt = {} /\ dropped = 0 /\ landed = {} /\ tears = 0
  /\ disturbed = FALSE /\ blocked = 0

-----------------------------------------------------------------------------
(* JSONL.                                                                  *)

\* appendFileSync of one line: on an open tail both records share a line, which
\* no longer parses.
Appended(lines, open, record, unreadable) ==
  IF open THEN [lines EXCEPT ![Len(lines)] = unreadable] ELSE Append(lines, record)

\* What shares its line with the ledger's next record.
OpenTail == IF ledgerOpen THEN {ledger[Len(ledger)]} ELSE {}

RangeOf(s) == {s[i] : i \in DOMAIN s}
Readable == (RangeOf(archive) \cup RangeOf(ledger)) \ {Garbled}

\* getCcr: some line holds the hash.  The last one wins; all of them contain the
\* text the hash was computed from (storeCcrMarkers).
Found(hash) == hash \in RangeOf(ccr)

At(p, step) == run[p].pc = step
Goto(p, step) == run' = [run EXCEPT ![p].pc = step]

-----------------------------------------------------------------------------
(* One filtered output.                                                    *)

Begin(p) ==
  /\ At(p, "idle")
  /\ \E h \in Hashes \cup {None} :
       run' = [run EXCEPT ![p] = [pc |-> IF h = None THEN "stat" ELSE "put", hash |-> h]]
  /\ UNCHANGED <<ledgerVars, ccrVars, tears>>

\* A slip in putCcr: the newline is forgotten.
PutUnterminated(p) ==
  /\ At(p, "put") /\ Len(ccr) < MaxStored
  /\ ccr' = Appended(ccr, ccrOpen, run[p].hash, None)
  /\ ccrOpen' = TRUE
  /\ landed' = IF ccrOpen THEN landed ELSE landed \cup {run[p].hash}
  /\ Goto(p, "stat")
  /\ UNCHANGED <<ledgerVars, tears>>

\* A slip in storeCcrMarkers: the text is stored under another key.
PutMiskeyed(p) ==
  /\ At(p, "put") /\ Len(ccr) < MaxStored
  /\ ccr' = Appended(ccr, ccrOpen, count, None)
  /\ ccrOpen' = FALSE
  /\ landed' = IF ccrOpen THEN landed ELSE landed \cup {run[p].hash}
  /\ Goto(p, "stat")
  /\ UNCHANGED <<ledgerVars, tears>>

\* putCcr, whole.
Put(p) ==
  /\ At(p, "put") /\ Len(ccr) < MaxStored
  /\ ccr' = Appended(ccr, ccrOpen, run[p].hash, None)
  /\ ccrOpen' = FALSE
  /\ landed' = IF ccrOpen THEN landed ELSE landed \cup {run[p].hash}
  /\ Goto(p, "stat")
  /\ UNCHANGED <<ledgerVars, tears>>

\* putCcr that stops half way, or just before the newline; the error is
\* swallowed and the run goes on, unless it was killed.
PutTorn(p) ==
  /\ At(p, "put") /\ Len(ccr) < MaxStored
  /\ tears < MaxTears
  /\ \E left \in {run[p].hash, None} :
       ccr' = Appended(ccr, ccrOpen, left, None)
  /\ ccrOpen' = TRUE
  /\ tears' = tears + 1
  /\ run' = [run EXCEPT ![p].pc = "stat"] \/ run' = [run EXCEPT ![p] = NoRun]
  /\ UNCHANGED <<ledgerVars, landed>>

\* A slip in rotateIfOversized: a size equal to the threshold is not rotated.
StatAbove(p) ==
  /\ At(p, "stat")
  /\ Goto(p, IF Len(ledger) > RotateAt THEN "rename" ELSE "append")
  /\ UNCHANGED <<ledgerVars, ccrVars, tears>>

\* rotateIfOversized looks at the size; a missing file is not rotated.
Stat(p) ==
  /\ At(p, "stat")
  /\ Goto(p, IF Len(ledger) >= RotateAt THEN "rename" ELSE "append")
  /\ UNCHANGED <<ledgerVars, ccrVars, tears>>

\* renameSync over the archive.  Another run may have renamed the same file in
\* between: then there is nothing to rename, or the new file replaces the archive.
Archived ==
  /\ archive' = ledger
  /\ dropped' = Max({dropped} \cup RangeOf(archive))
  /\ disturbed' = (disturbed \/ Len(ledger) < RotateAt)
  /\ blocked' = 0

\* A slip in rotateIfOversized: the archive is a copy.
RenameCopies(p) ==
  /\ At(p, "rename")
  /\ IF ledger = <<>> THEN UNCHANGED ledgerVars
     ELSE Archived /\ UNCHANGED <<ledger, ledgerOpen, count, spoilt>>
  /\ Goto(p, "append")
  /\ UNCHANGED <<ccrVars, tears>>

\* A slip in rotateIfOversized: no archive is kept.
RenameRemoves(p) ==
  /\ At(p, "rename")
  /\ ledger' = <<>> /\ ledgerOpen' = FALSE
  /\ Goto(p, "append")
  /\ UNCHANGED <<archive, count, spoilt, dropped, disturbed, blocked, ccrVars, tears>>

Rename(p) ==
  /\ At(p, "rename")
  /\ IF ledger = <<>> THEN UNCHANGED ledgerVars
     ELSE /\ Archived
          /\ ledger' = <<>> /\ ledgerOpen' = FALSE
          /\ UNCHANGED <<count, spoilt>>
  /\ Goto(p, "append")
  /\ UNCHANGED <<ccrVars, tears>>

\* The catch of rotateIfOversized: the stat or the rename fails (no permission, a
\* file held open, a directory in the archive's place).  The append goes on against
\* the file as it is.
RotationFails(p) ==
  /\ At(p, "stat") \/ At(p, "rename")
  /\ blocked < MaxBlocked
  /\ blocked' = blocked + 1
  /\ Goto(p, "append")
  /\ UNCHANGED <<ledger, ledgerOpen, archive, count, spoilt, dropped, disturbed,
                 ccrVars, tears>>

\* A slip in appendLedger: the newline is forgotten.
AppendUnterminated(p) ==
  /\ At(p, "append")
  /\ count < MaxRecords
  /\ count' = count + 1
  /\ ledger' = Appended(ledger, ledgerOpen, count', Garbled)
  /\ spoilt' = spoilt \cup IF ledgerOpen THEN {count'} \cup (OpenTail \ {Garbled}) ELSE {}
  /\ ledgerOpen' = TRUE
  /\ run' = [run EXCEPT ![p] = NoRun]
  /\ UNCHANGED <<archive, dropped, disturbed, blocked, ccrVars, tears>>

\* appendLedger's append, whole; the output is printed next.
AppendLedger(p) ==
  /\ At(p, "append")
  /\ count < MaxRecords
  /\ count' = count + 1
  /\ ledger' = Appended(ledger, ledgerOpen, count', Garbled)
  /\ spoilt' = spoilt \cup IF ledgerOpen THEN {count'} \cup (OpenTail \ {Garbled}) ELSE {}
  /\ ledgerOpen' = FALSE
  /\ run' = [run EXCEPT ![p] = NoRun]
  /\ UNCHANGED <<archive, dropped, disturbed, blocked, ccrVars, tears>>

\* The same, stopping half way or just before the newline.
AppendTorn(p) ==
  /\ At(p, "append")
  /\ count < MaxRecords /\ tears < MaxTears
  /\ count' = count + 1
  /\ \E left \in {count', Garbled} :
       /\ ledger' = Appended(ledger, ledgerOpen, left, Garbled)
       /\ spoilt' = spoilt \cup (IF left = Garbled \/ ledgerOpen THEN {count'} ELSE {})
                           \cup (OpenTail \ {Garbled})
  /\ ledgerOpen' = TRUE
  /\ tears' = tears + 1
  /\ run' = [run EXCEPT ![p] = NoRun]
  /\ UNCHANGED <<archive, dropped, disturbed, blocked, ccrVars>>

\* A kill, or an error before the first byte, anywhere.
Stop(p) ==
  /\ ~At(p, "idle")
  /\ run' = [run EXCEPT ![p] = NoRun]
  /\ UNCHANGED <<ledgerVars, ccrVars, tears>>

\* uninstall --purge removes ledger.jsonl and leaves the archive.
Purge ==
  /\ ledger # <<>>
  /\ ledger' = <<>> /\ ledgerOpen' = FALSE
  /\ dropped' = count
  /\ disturbed' = TRUE /\ blocked' = 0
  /\ UNCHANGED <<archive, run, count, spoilt, ccrVars, tears>>

Next ==
  \/ \E p \in Runs : \/ Begin(p) \/ Put(p) \/ PutTorn(p) \/ Stat(p) \/ Rename(p)
                     \/ RotationFails(p) \/ AppendLedger(p) \/ AppendTorn(p) \/ Stop(p)
  \/ Purge

Spec == Init /\ [][Next]_vars

-----------------------------------------------------------------------------
(* Properties.                                                             *)

\* However many runs test the size at the same time, the ledger stays within one
\* record per run of the threshold, and one more for every rotation that failed
\* since the ledger last began anew: only failing rotations let it grow, and the
\* next that succeeds makes up for all of them (rotateIfOversized: "unbounded
\* growth").
LedgerBounded == Len(ledger) < RotateAt + Cardinality(Runs) + blocked

Increasing(s) ==
  \A i, j \in DOMAIN s : (i < j /\ Garbled \notin {s[i], s[j]}) => s[i] < s[j]

\* Archive and ledger together are in the order in which the records were
\* written, and every record is there that is newer than all a rotation or purge
\* removed, unless a torn append spoilt it: two runs that rotate at once can lose
\* more of the old records, never one of the new (rotateIfOversized).
OnlyTheOldestGo ==
  /\ Increasing(archive) /\ Increasing(ledger)
  /\ \A a \in RangeOf(archive) \ {Garbled}, r \in RangeOf(ledger) \ {Garbled} : a < r
  /\ \A r \in 1..count : r > dropped => r \in Readable \cup spoilt

\* Each torn append costs at most its own record and the next one ("one corrupt
\* line can't take down the whole ledger").
TearSpoilsTwo == Cardinality(spoilt) <= 2 * tears

\* As long as no two runs rotate the same ledger, the newest RotateAt records are
\* still in one of the two files ("keeps recent history cheap without silently
\* deleting everything").
HistoryFloor ==
  ~disturbed => \A r \in 1..count : r + RotateAt > count => r \in Readable \cup spoilt

\* A text once stored whole can be retrieved ever after, whatever other
\* processes append or fail to append (getCcr, runCcrRetrieveTool).
WholePutsStay == \A h \in landed : Found(h)
=============================================================================
