------------------------------- MODULE Handoff ------------------------------
(***************************************************************************)
(* The checkpoints of one project directory (handoff/checkpoint.ts,        *)
(* restore.ts).  Every session of the project takes one when it compacts   *)
(* (PreCompact), when it ends (SessionEnd) or when asked to (`optiflow     *)
(* checkpoint`): its process reads the clock, asks git, writes the file in *)
(* place, lists the directory and removes all but the newest `keep`.  A    *)
(* restore (SessionStart after a compaction, `optiflow checkpoint          *)
(* --restore`) lists the directory, picks the newest and reads it again.   *)
(*                                                                         *)
(* Nothing is locked and any process may be killed.  A file is named by    *)
(* its session and its timestamp; one that is being written, or was left   *)
(* half way, does not parse and is passed over by every listing.           *)
(***************************************************************************)
EXTENDS Naturals, FiniteSets

CONSTANTS
  Sessions,  \* sessions of the project; each runs one process at a time
  None,      \* no checkpoint
  Keep,      \* handoff.keep; 0 removes nothing
  MaxTime,   \* bound: milliseconds that pass
  MaxTaken,  \* bound: checkpoint files ever opened
  MaxPassed  \* bound: files that one process can neither read nor remove

Times == 1..MaxTime
Checkpoints == [by : Sessions, at : Times]

ASSUME HandoffAssumption ==
  /\ IsFiniteSet(Sessions) /\ Sessions # {}
  /\ Keep \in Nat
  /\ MaxTime \in Nat \ {0}
  /\ MaxTaken \in Nat
  /\ MaxPassed \in Nat
  /\ None \notin Checkpoints \cup Sessions

VARIABLES
  now,       \* the clock
  torn,      \* files that do not parse: being written, or left half way
  whole,     \* files that hold a checkpoint
  proc,      \* the process of each session
  finished,  \* history: checkpoints that were once whole
  last,      \* history: who finished a write last, None once it has pruned
  left       \* history: what it passed over while it did

vars == <<now, torn, whole, proc, finished, last, left>>

\* What the directory promises those who restore.
Promised == INSTANCE Archive

Steps == {"idle", "git", "write", "readdir", "list", "unlink", "load", "loaded"}

\* want: whose checkpoints a restore looks for, {} in a process that writes one;
\* todo: names readdir gave; seen: those read; doomed: those still to unlink;
\* best: what a restore must not fall behind (history); passed: the checkpoints it
\* could not read or remove though they were there (history).
Idle == [pc |-> "idle", id |-> None, want |-> {}, todo |-> {}, seen |-> {},
         doomed |-> {}, best |-> 0, passed |-> {}]
Processes == [pc : Steps, id : Checkpoints \cup {None}, want : SUBSET Sessions,
              todo : SUBSET Checkpoints, seen : SUBSET Checkpoints,
              doomed : SUBSET Checkpoints, best : 0..MaxTime, passed : SUBSET Checkpoints]

TypeOK ==
  /\ now \in Times
  /\ torn \subseteq Checkpoints
  /\ whole \subseteq Checkpoints
  /\ proc \in [Sessions -> Processes]
  /\ finished \subseteq Checkpoints
  /\ last \in Sessions \cup {None}
  /\ left \subseteq Checkpoints

Init ==
  /\ now = 1
  /\ torn = {} /\ whole = {}
  /\ proc = [p \in Sessions |-> Idle]
  /\ finished = {}
  /\ last = None /\ left = {}

-----------------------------------------------------------------------------
At(p, step) == proc[p].pc = step

\* p goes on without these files (no permission, too many open files): every
\* failing call is caught where it is made.
PassOver(p, files) ==
  /\ files \subseteq whole
  /\ Cardinality(proc[p].passed \cup files) <= MaxPassed

\* c is among the first in an order of S by in-file timestamp, newest first.
Newest(S) == {c \in S : \A d \in S : d.at <= c.at}

\* A slip in pruneCheckpoints: sorted the other way round.
PrunableOldestKept(S) ==
  IF Keep = 0 \/ Cardinality(S) <= Keep THEN {{}}
  ELSE {D \in SUBSET S : /\ Cardinality(S \ D) = Keep
                         /\ \A c \in S \ D, d \in D : d.at >= c.at}

\* What pruneCheckpoints may pick of a listing: all but the newest `keep`.  Of
\* equal timestamps readdir's order decides.
Prunable(S) ==
  IF Keep = 0 \/ Cardinality(S) <= Keep THEN {{}}
  ELSE {D \in SUBSET S : /\ Cardinality(S \ D) = Keep
                         /\ \A c \in S \ D, d \in D : d.at <= c.at}

-----------------------------------------------------------------------------
(* createCheckpoint.                                                       *)

\* buildCheckpoint takes the timestamp before it runs git; a session does not
\* take two checkpoints in the same millisecond.
Take(p) ==
  /\ At(p, "idle")
  /\ LET c == [by |-> p, at |-> now]
     IN  /\ c \notin torn \cup finished
         /\ proc' = [proc EXCEPT ![p] = [Idle EXCEPT !.pc = "git", !.id = c]]
  /\ UNCHANGED <<now, torn, whole, finished, last, left>>

\* writeCheckpoint opens the file.
Open(p) ==
  /\ At(p, "git") /\ Cardinality(torn \cup finished) < MaxTaken
  /\ torn' = torn \cup {proc[p].id}
  /\ proc' = [proc EXCEPT ![p].pc = "write"]
  /\ UNCHANGED <<now, whole, finished, last, left>>

\* A slip in createCheckpoint: the directory is listed before the write.
WriteAfterList(p) ==
  /\ At(p, "write")
  /\ torn' = torn \ {proc[p].id}
  /\ whole' = whole \cup {proc[p].id}
  /\ finished' = finished \cup {proc[p].id}
  /\ last' = p /\ left' = {}
  /\ proc' = [proc EXCEPT ![p] = [Idle EXCEPT !.pc = "list", !.todo = whole]]
  /\ UNCHANGED now

\* Its last byte is written.
Write(p) ==
  /\ At(p, "write")
  /\ torn' = torn \ {proc[p].id}
  /\ whole' = whole \cup {proc[p].id}
  /\ finished' = finished \cup {proc[p].id}
  /\ last' = p /\ left' = {}
  /\ proc' = [proc EXCEPT ![p] = [Idle EXCEPT !.pc = "readdir"]]
  /\ UNCHANGED now

\* listCheckpointFiles gets the names, and then reads the files one by one.
Readdir(p) ==
  /\ At(p, "readdir")
  /\ proc' = [proc EXCEPT ![p].pc = "list", ![p].todo = torn \cup whole]
  /\ UNCHANGED <<now, torn, whole, finished, last, left>>

\* The directory cannot be read: the listing is empty.
ReaddirFails(p) ==
  /\ At(p, "readdir") /\ PassOver(p, whole)
  /\ proc' = [proc EXCEPT ![p].pc = "list", ![p].passed = @ \cup whole]
  /\ UNCHANGED <<now, torn, whole, finished, last, left>>

\* A slip in listCheckpointFiles: what does not parse is listed all the same.
ReadNextUnparsed(p) ==
  /\ At(p, "list")
  /\ \E c \in proc[p].todo :
       proc' = [proc EXCEPT ![p].todo = @ \ {c},
                            ![p].seen = IF c \in whole \cup torn THEN @ \cup {c} ELSE @]
  /\ UNCHANGED <<now, torn, whole, finished, last, left>>

\* The next of the files; one that is gone or does not parse
\* is passed over.
ReadNext(p) ==
  /\ At(p, "list")
  /\ \E c \in proc[p].todo :
       proc' = [proc EXCEPT ![p].todo = @ \ {c},
                            ![p].seen = IF c \in whole THEN @ \cup {c} ELSE @]
  /\ UNCHANGED <<now, torn, whole, finished, last, left>>

\* A file that cannot be read is passed over as well.
ReadFails(p) ==
  /\ At(p, "list")
  /\ \E c \in proc[p].todo :
       /\ PassOver(p, {c})
       /\ proc' = [proc EXCEPT ![p].todo = @ \ {c}, ![p].passed = @ \cup {c}]
  /\ UNCHANGED <<now, torn, whole, finished, last, left>>

Prune(p) ==
  /\ At(p, "list") /\ proc[p].todo = {} /\ proc[p].want = {}
  /\ \E D \in Prunable(proc[p].seen) :
       proc' = [proc EXCEPT ![p] = [Idle EXCEPT !.pc = "unlink", !.doomed = D,
                                             !.passed = proc[p].passed]]
  /\ UNCHANGED <<now, torn, whole, finished, last, left>>

\* The doomed files go newest first; one that is gone already is passed over.
Unlink(p) ==
  /\ At(p, "unlink")
  /\ \E c \in Newest(proc[p].doomed) :
       /\ whole' = whole \ {c}
       /\ proc' = [proc EXCEPT ![p].doomed = @ \ {c}]
  /\ UNCHANGED <<now, torn, finished, last, left>>

\* One that cannot be removed stays, and the next one follows.
UnlinkFails(p) ==
  /\ At(p, "unlink")
  /\ \E c \in Newest(proc[p].doomed) :
       /\ PassOver(p, {c})
       /\ proc' = [proc EXCEPT ![p].doomed = @ \ {c}, ![p].passed = @ \cup {c}]
  /\ UNCHANGED <<now, torn, whole, finished, last, left>>

Pruned(p) ==
  /\ At(p, "unlink") /\ proc[p].doomed = {}
  /\ IF last = p THEN last' = None /\ left' = proc[p].passed
     ELSE UNCHANGED <<last, left>>
  /\ proc' = [proc EXCEPT ![p] = Idle]
  /\ UNCHANGED <<now, torn, whole, finished>>

-----------------------------------------------------------------------------
(* resolveCheckpoint, without an id or with the id of a session.           *)

Restore(p) ==
  /\ At(p, "idle")
  /\ \E want \in {Sessions} \cup {{s} : s \in Sessions} :
       LET known == {c \in finished : c.by \in want}
       IN  \E best \in IF known = {} THEN {0} ELSE {c.at : c \in Newest(known)} :
             proc' = [proc EXCEPT ![p] = [Idle EXCEPT !.pc = "readdir", !.want = want, !.best = best]]
  /\ UNCHANGED <<now, torn, whole, finished, last, left>>

Candidates(p) == {c \in proc[p].seen : c.by \in proc[p].want}

\* A slip in findLatestCheckpoint: the first entry of the directory.
PickAny(p) ==
  /\ At(p, "list") /\ proc[p].todo = {} /\ proc[p].want # {}
  /\ \/ /\ Candidates(p) = {}
        /\ proc' = [proc EXCEPT ![p].pc = "loaded", ![p].seen = {}]
     \/ \E c \in Candidates(p) :
          proc' = [proc EXCEPT ![p].pc = "load", ![p].id = c, ![p].seen = {}]
  /\ UNCHANGED <<now, torn, whole, finished, last, left>>

\* A slip in findCheckpointById: without a match the id itself is the path.
PickUnguarded(p) ==
  /\ At(p, "list") /\ proc[p].todo = {} /\ proc[p].want # {}
  /\ \/ /\ Candidates(p) = {}
        /\ proc' = [proc EXCEPT ![p].pc = "load", ![p].id = p, ![p].seen = {}]
     \/ \E c \in Newest(Candidates(p)) :
          proc' = [proc EXCEPT ![p].pc = "load", ![p].id = c, ![p].seen = {}]
  /\ UNCHANGED <<now, torn, whole, finished, last, left>>

\* findLatestCheckpoint, findCheckpointById; no candidate, no checkpoint.
Pick(p) ==
  /\ At(p, "list") /\ proc[p].todo = {} /\ proc[p].want # {}
  /\ \/ /\ Candidates(p) = {}
        /\ proc' = [proc EXCEPT ![p].pc = "loaded", ![p].seen = {}]
     \/ \E c \in Newest(Candidates(p)) :
          proc' = [proc EXCEPT ![p].pc = "load", ![p].id = c, ![p].seen = {}]
  /\ UNCHANGED <<now, torn, whole, finished, last, left>>

\* loadCheckpoint reads the file once more: it may be gone.
Load(p) ==
  /\ At(p, "load")
  /\ proc' = [proc EXCEPT ![p].pc = "loaded",
                          ![p].id = IF @ \in whole THEN @ ELSE None]
  /\ UNCHANGED <<now, torn, whole, finished, last, left>>

\* Or it cannot be read.
LoadFails(p) ==
  /\ At(p, "load") /\ PassOver(p, {proc[p].id})
  /\ proc' = [proc EXCEPT ![p].pc = "loaded", ![p].id = None,
                          ![p].passed = @ \cup {proc[p].id}]
  /\ UNCHANGED <<now, torn, whole, finished, last, left>>

\* The checkpoint, or that there is none, is rendered.
Render(p) ==
  /\ At(p, "loaded")
  /\ proc' = [proc EXCEPT ![p] = Idle]
  /\ UNCHANGED <<now, torn, whole, finished, last, left>>

-----------------------------------------------------------------------------
Tick ==
  /\ now < MaxTime
  /\ now' = now + 1
  /\ UNCHANGED <<torn, whole, proc, finished, last, left>>

\* A kill, or a write that fails.
Killed(p) ==
  /\ ~At(p, "idle")
  /\ proc' = [proc EXCEPT ![p] = Idle]
  /\ UNCHANGED <<now, torn, whole, finished, last, left>>

Next ==
  \/ Tick
  \/ \E p \in Sessions :
       \/ Take(p) \/ Open(p) \/ Write(p)
       \/ Readdir(p) \/ ReaddirFails(p) \/ ReadNext(p) \/ ReadFails(p)
       \/ Prune(p) \/ Unlink(p) \/ UnlinkFails(p) \/ Pruned(p)
       \/ Restore(p) \/ Pick(p) \/ Load(p) \/ LoadFails(p) \/ Render(p)
       \/ Killed(p)

Spec == Init /\ [][Next]_vars

-----------------------------------------------------------------------------
(* Properties.                                                             *)

\* The newest `keep` checkpoints ever finished are all in the directory, whatever
\* processes list, prune and are killed at the same time, and however late one
\* with an early timestamp is written (pruneCheckpoints, getGitInfo).
NewestKept ==
  \A c \in finished :
    Cardinality({d \in finished \ {c} : d.at >= c.at}) < Keep \/ Keep = 0 => c \in whole

\* Listing, reading file by file and unlinking, by any number of sessions at once and
\* killed at any point, comes to this: a checkpoint turns up once, whole, and goes
\* for good only when `keep` others that are no older are finished, even if the
\* listing it was doomed by is long out of date (pruneCheckpoints).
ImplementsArchive == Promised!Spec

\* Once the process that finished its write last has pruned, at most `keep`
\* checkpoints are left besides those that it could not read or remove itself,
\* whatever the others are doing: what one process fails to remove, the next
\* removes (createCheckpoint prunes after it writes; pruneCheckpoints skips a
\* failed unlink).
DirectoryBounded == last = None /\ Keep > 0 => Cardinality(whole \ left) <= Keep

\* A restore gives a checkpoint of the session asked for that is at least as new
\* as all those finished before it began.  It can fall behind, or find none, only
\* when more than `keep` so new have been finished by then: the names are read
\* before the files, and the file it picks is read again; or when it could not
\* read one of them (resolveCheckpoint).
RestoreNotBehind ==
  \A p \in Sessions :
    LET q == proc[p]
    IN  (q.pc = "loaded" /\ q.best > 0)
          => \/ q.id # None /\ q.id.by \in q.want /\ q.id.at >= q.best
             \/ Keep > 0 /\ Cardinality({d \in finished : d.at >= q.best}) > Keep
             \/ \E c \in q.passed : c.by \in q.want /\ c.at >= q.best

-----------------------------------------------------------------------------
(* What the docs say and the code does not keep.                           *)

\* A session that took a checkpoint and then restores the latest gets its own
\* (docs/modules.md: "the just-written checkpoint is now the latest").
OwnRestored ==
  \A p \in Sessions :
    LET q == proc[p]
    IN  (q.pc = "loaded" /\ q.want = Sessions /\ \E c \in finished : c.by = p)
          => q.id # None /\ q.id.by = p
=============================================================================
