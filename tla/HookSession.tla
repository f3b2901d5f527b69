----------------------------- MODULE HookSession ----------------------------
(***************************************************************************)
(* The optimizer's hooks as processes over one session-state file.         *)
(*                                                                         *)
(* The host starts one operating-system process per hook event: PreToolUse *)
(* (optimizer/hooks/pretooluse.ts) before a built-in tool call, PostToolUse *)
(* (chop/posttooluse-mcp.ts) after an MCP call, PreCompact                 *)
(* (optimizer/hooks/precompact.ts) before the context is compacted.  Calls *)
(* the agent makes in parallel run their hooks in parallel.  Every hook    *)
(* loads the file without the lock, works on its copy in memory and merges *)
(* that copy back under a lock file (lib/policy.ts).                       *)
(*                                                                         *)
(* One file serves one (session, agent) pair, so one file is all there is. *)
(***************************************************************************)
EXTENDS SessionState, FiniteSets

CONSTANTS
  Procs,         \* slots for hook processes that may run at the same time
  Reachable,     \* the replacement tools this client can really call
  ExtraSaves,    \* how many later saves the allowed path may make (3 in the code)
  Attempts,      \* takeLock's attempts (20 in the code)
  MaxVersion,    \* bound: contents a file goes through
  MaxParks,      \* bound: redirects issued
  MaxClock,      \* bound: distinct times of an observation
  TracksAgent,   \* whether `context` and `credits` are kept and denials counted up to
                 \*   two, for the properties on them
  LocksMayWait,  \* a lock may stay held for all attempts
  WritesMayFail, \* a write under the lock may fail
  ReadsMayFail,  \* the read under the lock may fail
  LocksGoStale,  \* a lock may outlive staleMs
  MayCrash,      \* the host may kill a hook
  CallsMayStop   \* the user or another hook may stop a call that was let through

ASSUME BoundsAssumption ==
  /\ ExtraSaves \in Nat
  /\ Attempts \in Nat \ {0}
  /\ MaxVersion \in Nat \ {0}
  /\ MaxParks \in Nat
  /\ MaxClock \in Nat \ {0}
  /\ TracksAgent \in BOOLEAN
  /\ LocksMayWait \in BOOLEAN
  /\ WritesMayFail \in BOOLEAN
  /\ ReadsMayFail \in BOOLEAN
  /\ LocksGoStale \in BOOLEAN
  /\ MayCrash \in BOOLEAN
  /\ CallsMayStop \in BOOLEAN
ASSUME ReachableAssumption == Reachable \subseteq HookTools

VARIABLES
  file,     \* the session-state file
  lock,     \* its lock file: "none", "held", or "stale" once older than staleMs
  pc,       \* where each hook process is
  hook,     \* what each hook process was started for
  mem,      \* the copy of the state each process works on
  disk,     \* the copy saveState and clearSeen read again under the lock
  tries,    \* failed attempts at the lock
  answer,   \* what a PreToolUse process answered
  context,  \* the version of each file the agent has in full, 0 for none
  version,  \* the version of each file on disk
  clock,    \* the time, as far as observations tell it apart
  parks,    \* redirects issued so far
  denials,  \* how often each key was refused, counted up to 2
  credits,  \* how often each redirect was credited, counted up to 2
  crowded,  \* history: whether, since no hook was last running, observations of two
            \* tools overlapped or an observation was given the time of an earlier one
  unsaved,  \* history: the refusals whose save was abandoned
  uncleared \* history: whether the latest compaction's clearSeen was abandoned

\* The machine without a lock that saveState and clearSeen implement.
Atomic == INSTANCE AtomicState WITH copy <- mem

vars == <<file, lock, pc, hook, mem, disk, tries, answer, context, version, clock,
          parks, denials, credits, crowded, unsaved, uncleared>>

agent == <<context, version, clock, parks, denials, credits, crowded>>
losses == <<unsaved, uncleared>>

NoHook == [event |-> "none"]
PreHooks == [event : {"pre"}, call : Calls, verdict : Verdicts, repeat : BOOLEAN,
             more : 0..ExtraSaves, known : SUBSET Calls]
PostHooks == [event : {"observe"}, tool : HookTools]
               \cup [event : {"resolve"}, tool : HookTools, redirect : Redirects]
CompactHook == [event |-> "compact"]
Hooks == PreHooks \cup PostHooks \cup {NoHook, CompactHook}

NoAnswer == [decision |-> "none", rows |-> {}]
Decisions == {"none", "allow", "context", "deny", "substitute"}
Answers == [decision : Decisions, rows : SUBSET {"code-substitute", "read-suppressed"}]

Steps == {"idle", "lock", "breaking", "locked", "merging", "unlock",
          "answer", "answered", "resolve", "credit", "compacted"}

TypeOK ==
  /\ file \in SessionStates
  /\ lock \in {"none", "held", "stale"}
  /\ pc \in [Procs -> Steps]
  /\ hook \in [Procs -> Hooks]
  /\ mem \in [Procs -> SessionStates]
  /\ disk \in [Procs -> SessionStates]
  /\ tries \in [Procs -> 0..Attempts]
  /\ answer \in [Procs -> Answers]
  /\ context \in [Files -> 0..MaxVersion]
  /\ version \in [Files -> 1..MaxVersion]
  /\ clock \in 1..MaxClock
  /\ parks \in 0..MaxParks
  /\ denials \in [Calls -> 0..2]
  /\ credits \in [1..MaxParks -> 0..2]
  /\ crowded \in BOOLEAN
  /\ unsaved \subseteq Calls
  /\ uncleared \in BOOLEAN

Init ==
  /\ file = EmptyState
  /\ lock = "none"
  /\ pc = [p \in Procs |-> "idle"]
  /\ hook = [p \in Procs |-> NoHook]
  /\ mem = [p \in Procs |-> EmptyState]
  /\ disk = [p \in Procs |-> EmptyState]
  /\ tries = [p \in Procs |-> 0]
  /\ answer = [p \in Procs |-> NoAnswer]
  /\ context = [f \in Files |-> 0]
  /\ version = [f \in Files |-> 1]
  /\ clock = 1
  /\ parks = 0
  /\ denials = [c \in Calls |-> 0]
  /\ credits = [i \in 1..MaxParks |-> 0]
  /\ crowded = FALSE
  /\ unsaved = {}
  /\ uncleared = FALSE

Capped(n) == IF TracksAgent /\ n > 0 THEN 2 ELSE 1
Refused == {c \in Calls : denials[c] > 0}
Blocks(p) == answer[p].decision \in {"deny", "substitute"}
Quiet == \A q \in Procs : pc[q] = "idle"
Compacting == \E p \in Procs : pc[p] # "idle" /\ hook[p] = CompactHook

GoTo(p, step) == pc' = [pc EXCEPT ![p] = step]
Save(p, st) == mem' = [mem EXCEPT ![p] = st]

\* The process ends; its memory goes with it.
Exit(p) ==
  /\ pc' = [pc EXCEPT ![p] = "idle"]
  /\ hook' = [hook EXCEPT ![p] = NoHook]
  /\ mem' = [mem EXCEPT ![p] = EmptyState]
  /\ disk' = [disk EXCEPT ![p] = EmptyState]
  /\ tries' = [tries EXCEPT ![p] = 0]
  /\ answer' = [answer EXCEPT ![p] = NoAnswer]

-----------------------------------------------------------------------------
(* PreToolUse: load, decide, remember, park, save, account, answer.        *)

HashOf(c) == IF c.kind \in {"read", "range"} THEN version[c.target] ELSE NoHash

\* decidePreToolUse up to its first saveState.
PreToolUse(p, c) ==
  /\ pc[p] = "idle"
  /\ ~Compacting
  /\ \E recent \in BOOLEAN, more \in 0..ExtraSaves :
       LET verdict == Decide(c, file, HashOf(c), recent)
           redirects == verdict.rule = "redirect"
       IN /\ verdict.rule # "allow" => more = 0
          /\ redirects => parks < MaxParks
          /\ parks' = IF redirects THEN parks + 1 ELSE parks
          /\ hook' = [hook EXCEPT ![p] =
               [event |-> "pre", call |-> c, verdict |-> verdict,
                repeat |-> Repeats(c, verdict, file), more |-> more, known |-> Refused]]
          /\ Save(p, Deliberated(c, verdict, parks + 1, HashOf(c), file))
  /\ GoTo(p, "lock")
  /\ crowded' = (crowded /\ ~Quiet)
  /\ UNCHANGED <<file, lock, disk, tries, answer, context, version, clock, denials, credits, losses>>

\* The substitution block, the ledger rows and enforceVerdict.  Compression
\* may always fail, which falls back to the plain verdict.
Answer(p) ==
  /\ pc[p] = "answer"
  /\ LET h == hook[p]
     IN \E substitute \in BOOLEAN :
          LET decision == Decision(h.verdict, h.repeat, Proven(mem[p]), substitute)
          IN /\ substitute => /\ h.verdict.rule # "allow"
                              /\ ~h.repeat
                              /\ h.call.kind \in {"read", "range"}
                              /\ h.call.target \in CodeFiles
                              /\ Mode = "enforce"
             /\ answer' = [answer EXCEPT ![p] =
                  [decision |-> decision,
                   rows |-> SavingsRows(h.verdict, h.repeat, substitute)]]
             /\ denials' = IF /\ decision \in {"deny", "substitute"}
                              /\ h.verdict.rule # "veto"
                           THEN [denials EXCEPT ![h.call] = Capped(@)]
                           ELSE denials
  /\ GoTo(p, "answered")
  /\ UNCHANGED <<file, lock, hook, mem, disk, tries, context, version, clock, parks, credits, crowded,
                 losses>>

\* The host runs the call that was let through; the agent then has the file.
RunTool(p) ==
  /\ pc[p] = "answered"
  /\ ~Blocks(p)
  /\ context' = IF TracksAgent /\ hook[p].call.kind \in {"read", "dump"}
                THEN [context EXCEPT ![hook[p].call.target] = version[hook[p].call.target]]
                ELSE context
  /\ Exit(p)
  /\ UNCHANGED <<file, lock, version, clock, parks, denials, credits, crowded, losses>>

\* The call was refused, or the user or another hook stops it after all.
SkipTool(p) ==
  /\ pc[p] = "answered"
  /\ Blocks(p) \/ CallsMayStop
  /\ Exit(p)
  /\ UNCHANGED <<file, lock, agent, losses>>

-----------------------------------------------------------------------------
(* PostToolUse: observe the tool, then close the redirect it answers.      *)

\* q has yet to save an observation.
Observing(q) ==
  hook[q].event = "observe" /\ pc[q] \in {"lock", "breaking", "locked", "merging"}

\* recordOptimizerToolObservation.  A name already known needs no save.
PostToolUse(p, t) ==
  /\ pc[p] = "idle"
  /\ ~Compacting
  /\ t \in Reachable
  /\ IF t \in file.tools
     THEN /\ GoTo(p, "resolve")
          /\ Save(p, file)
          /\ crowded' = (crowded /\ ~Quiet)
          /\ UNCHANGED clock
     ELSE /\ GoTo(p, "lock")
          /\ clock' \in {n \in 1..MaxClock : n = clock \/ n = clock + 1}
          /\ Save(p, Observed(file, t, clock'))
          /\ crowded' = \/ crowded /\ ~Quiet
                        \/ clock' = file.toolsAt
                        \/ \E q \in Procs : Observing(q) /\ hook[q].tool # t
  /\ hook' = [hook EXCEPT ![p] = [event |-> "observe", tool |-> t]]
  /\ UNCHANGED <<file, lock, disk, tries, answer, context, version, parks, denials, credits, losses>>

\* resolvePendingRedirect loads the file again, without the lock.
Resolve(p) ==
  /\ pc[p] = "resolve"
  /\ LET t == hook[p].tool
     IN /\ file.pending[t] # NoRedirect
        /\ hook' = [hook EXCEPT ![p] =
             [event |-> "resolve", tool |-> t, redirect |-> file.pending[t]]]
        /\ Save(p, Consumed(file, t))
  /\ GoTo(p, "lock")
  /\ UNCHANGED <<file, lock, disk, tries, answer, agent, losses>>

NothingToResolve(p) ==
  /\ pc[p] = "resolve"
  /\ file.pending[hook[p].tool] = NoRedirect
  /\ Exit(p)
  /\ UNCHANGED <<file, lock, agent, losses>>

\* The ledger row for the redirect, unless it is older than its TTL.
Credit(p) ==
  /\ pc[p] = "credit"
  /\ \E timely \in BOOLEAN :
       credits' = IF TracksAgent /\ timely THEN [credits EXCEPT ![hook[p].redirect.id] = Capped(@)]
                  ELSE credits
  /\ Exit(p)
  /\ UNCHANGED <<file, lock, context, version, clock, parks, denials, crowded, losses>>

-----------------------------------------------------------------------------
(* PreCompact: the host waits for the hooks of the turn, then runs this    *)
(* one, then empties the context.                                          *)

PreCompact(p) ==
  /\ Quiet
  /\ hook' = [hook EXCEPT ![p] = CompactHook]
  /\ IF \A f \in Files : ~file.seen[f].known
     THEN GoTo(p, "compacted")
     ELSE GoTo(p, "lock")
  /\ uncleared' = FALSE
  /\ crowded' = FALSE
  /\ UNCHANGED <<file, lock, mem, disk, tries, answer, context, version, clock, parks, denials,
                 credits, unsaved>>

Compact(p) ==
  /\ pc[p] = "compacted"
  /\ context' = [f \in Files |-> 0]
  /\ Exit(p)
  /\ UNCHANGED <<file, lock, version, clock, parks, denials, credits, crowded, losses>>

-----------------------------------------------------------------------------
(* saveState and clearSeen: takeLock, read again, write a temporary file   *)
(* and rename it, unlink the lock.                                         *)

\* Where a process goes after a save.  The result is ignored by every caller.
Resume(p) ==
  /\ tries' = [tries EXCEPT ![p] = 0]
  /\ disk' = [disk EXCEPT ![p] = EmptyState]
  /\ \/ /\ hook[p].event = "pre"
        /\ hook[p].more > 0
        /\ GoTo(p, "lock")
        /\ hook' = [hook EXCEPT ![p].more = @ - 1]
     \/ /\ ~(hook[p].event = "pre" /\ hook[p].more > 0)
        /\ GoTo(p, CASE hook[p].event = "pre" -> "answer"
                     [] hook[p].event = "observe" -> "resolve"
                     [] hook[p].event = "resolve" -> "credit"
                     [] OTHER -> "compacted")
        /\ UNCHANGED hook

\* A slip in takeLock: open(path, "w"), which succeeds on a lock that exists.
TakeLockShared(p) ==
  /\ pc[p] = "lock"
  /\ tries[p] < Attempts
  /\ lock \in {"none", "held"}
  /\ lock' = "held"
  /\ GoTo(p, "locked")
  /\ UNCHANGED <<file, hook, mem, disk, tries, answer, agent, losses>>

\* open(path, "wx") creates the lock file or fails.
TakeLock(p) ==
  /\ pc[p] = "lock"
  /\ tries[p] < Attempts
  /\ lock = "none"
  /\ lock' = "held"
  /\ GoTo(p, "locked")
  /\ UNCHANGED <<file, hook, mem, disk, tries, answer, agent, losses>>

\* A slip in takeLock: waiting does not use up an attempt.
AwaitLockUncounted(p) ==
  /\ pc[p] = "lock"
  /\ LocksMayWait
  /\ tries[p] < Attempts
  /\ lock = "held"
  /\ UNCHANGED vars

\* The lock is young: sleep and try again.
AwaitLock(p) ==
  /\ pc[p] = "lock"
  /\ LocksMayWait
  /\ tries[p] < Attempts
  /\ lock = "held"
  /\ tries' = [tries EXCEPT ![p] = @ + 1]
  /\ UNCHANGED <<file, lock, pc, hook, mem, disk, answer, agent, losses>>

\* The lock is older than staleMs: the process is about to unlink it.
FindStale(p) ==
  /\ pc[p] = "lock"
  /\ tries[p] < Attempts
  /\ lock = "stale"
  /\ tries' = [tries EXCEPT ![p] = @ + 1]
  /\ GoTo(p, "breaking")
  /\ UNCHANGED <<file, lock, hook, mem, disk, answer, agent, losses>>

\* It unlinks whatever lock file is there by now, its owner's or another's.
BreakLock(p) ==
  /\ pc[p] = "breaking"
  /\ lock' = "none"
  /\ GoTo(p, "lock")
  /\ UNCHANGED <<file, hook, mem, disk, tries, answer, agent, losses>>

\* What an abandoned save or clearSeen leaves undone.  No caller looks at the
\* result, so only these two variables ever know.
Abandon(p) ==
  /\ unsaved' = IF hook[p].event = "pre" /\ hook[p].verdict.rule \notin {"allow", "veto"}
                THEN unsaved \cup {hook[p].call} ELSE unsaved
  /\ uncleared' = (uncleared \/ hook[p] = CompactHook)

\* takeLock returns null and the save is abandoned.
GiveUp(p) ==
  /\ pc[p] = "lock"
  /\ tries[p] = Attempts
  /\ Resume(p)
  /\ Abandon(p)
  /\ UNCHANGED <<file, lock, mem, answer, agent>>

\* loadState, which returns an empty state for a file it cannot read.
ReadBack(p) ==
  /\ pc[p] = "locked"
  /\ \/ disk' = [disk EXCEPT ![p] = file]
     \/ /\ ReadsMayFail
        /\ disk' = [disk EXCEPT ![p] = EmptyState]
  /\ GoTo(p, "merging")
  /\ UNCHANGED <<file, lock, hook, mem, tries, answer, agent, losses>>

\* A slip in saveState: the copy in memory is written as it is.
WriteBackUnmerged(p) ==
  /\ pc[p] = "merging"
  /\ file' = IF hook[p] = CompactHook THEN Cleared(disk[p]) ELSE mem[p]
  /\ GoTo(p, "unlock")
  /\ UNCHANGED <<lock, hook, mem, disk, tries, answer, agent, losses>>

WriteBack(p) ==
  /\ pc[p] = "merging"
  /\ file' = IF hook[p] = CompactHook THEN Cleared(disk[p]) ELSE Merged(mem[p], disk[p])
  /\ GoTo(p, "unlock")
  /\ UNCHANGED <<lock, hook, mem, disk, tries, answer, agent, losses>>

WriteFails(p) ==
  /\ pc[p] = "merging"
  /\ WritesMayFail
  /\ Abandon(p)
  /\ GoTo(p, "unlock")
  /\ UNCHANGED <<file, lock, hook, mem, disk, tries, answer, agent>>

\* The finally clause unlinks the path, whoever created the file there now.
Unlock(p) ==
  /\ pc[p] = "unlock"
  /\ lock' = "none"
  /\ Resume(p)
  /\ UNCHANGED <<file, mem, answer, agent, losses>>

-----------------------------------------------------------------------------
(* The environment: time, the host, the user.                              *)

LockAges ==
  /\ LocksGoStale
  /\ lock = "held"
  /\ lock' = "stale"
  /\ UNCHANGED <<file, pc, hook, mem, disk, tries, answer, agent, losses>>

\* The host kills the hook.  A hook that says nothing has no opinion: the call
\* goes ahead, and so does the compaction.  Its lock file stays behind.
Crash(p) ==
  /\ MayCrash
  /\ pc[p] \notin {"idle", "answered", "compacted"}
  /\ \/ /\ hook[p].event = "pre"
        /\ GoTo(p, "answered")
        /\ answer' = [answer EXCEPT ![p].decision = "allow"]
        /\ UNCHANGED <<hook, mem, disk, tries, uncleared>>
     \/ /\ hook[p] = CompactHook
        /\ GoTo(p, "compacted")
        /\ uncleared' = (uncleared \/ pc[p] # "unlock")
        /\ UNCHANGED <<answer, hook, mem, disk, tries>>
     \/ /\ hook[p].event \in {"observe", "resolve"}
        /\ Exit(p)
        /\ UNCHANGED uncleared
  /\ UNCHANGED <<file, lock, agent, unsaved>>

EditFile(f) ==
  /\ version[f] < MaxVersion
  /\ version' = [version EXCEPT ![f] = @ + 1]
  /\ UNCHANGED <<file, lock, pc, hook, mem, disk, tries, answer, context, clock, parks,
                 denials, credits, crowded, losses>>

-----------------------------------------------------------------------------
Saving(p) ==
  \/ TakeLock(p) \/ AwaitLock(p) \/ FindStale(p) \/ BreakLock(p) \/ GiveUp(p)
  \/ ReadBack(p) \/ WriteBack(p) \/ WriteFails(p) \/ Unlock(p)

\* What a started process does by itself.
Proceed(p) ==
  \/ Saving(p)
  \/ Answer(p) \/ Resolve(p) \/ NothingToResolve(p) \/ Credit(p)
  \/ RunTool(p) \/ SkipTool(p) \/ Compact(p)

Next ==
  \/ \E p \in Procs : Proceed(p) \/ PreCompact(p) \/ Crash(p)
  \/ \E p \in Procs, c \in Calls : PreToolUse(p, c)
  \/ \E p \in Procs, t \in HookTools : PostToolUse(p, t)
  \/ \E f \in Files : EditFile(f)
  \/ LockAges

Spec == Init /\ [][Next]_vars

\* The operating system schedules every process it started.  Nothing makes the
\* agent call a tool, the user edit a file or the host kill a hook.
FairSpec == Spec /\ \A p \in Procs : WF_vars(Proceed(p))

-----------------------------------------------------------------------------
(* Properties.                                                             *)

\* takeLock admits one writer at a time, as long as no lock goes stale.
InCritical(p) == pc[p] \in {"locked", "merging", "unlock"}
LockExclusive == \A p, q \in Procs : InCritical(p) /\ InCritical(q) => p = q

\* No save of one hook, however old the copy it started from, loses a denial, takes
\* the observed tools back to an earlier time or leaves a proven session unproven;
\* and none loses the proof that a tool works, unless two observations overlapped
\* or were made in the same millisecond: the tools are not merged, the list with
\* the later time replaces the other (saveState).
KeepsEvidence ==
  /\ file.denied \subseteq file'.denied
  /\ file.toolsAt <= file'.toolsAt
  /\ Proven(file) => Proven(file')
  /\ ~crowded => file.tools \subseteq file'.tools
EvidenceNeverLost == [][KeepsEvidence]_vars

\* Loading without the lock, reading again under it, merging, renaming and
\* unlinking, in whatever order the hooks' steps come, amounts to merging each
\* copy into the state in one step: saveState's read is never out of date when
\* it writes, and nothing but a save or clearSeen changes the file.
SavesAreAtomic == Atomic!Spec

\* A target is refused again only by a hook that overlaps the one that refused
\* it, or if a save that was to record a refusal of it was abandoned: otherwise no
\* hook that starts after a refusal was delivered refuses that key again
\* (alreadyDenied).
LoopBreaking ==
  \A p \in Procs :
    Blocks(p) /\ hook[p].verdict.rule # "veto" /\ hook[p].call \in hook[p].known
      => hook[p].call \in unsaved

\* A refusal without a substitute never points at a tool this client cannot
\* call, however the state file was merged (capabilities.ts, effectiveMode).
PointsAt(verdict) ==
  CASE verdict.rule = "redirect" -> {verdict.tool}
    [] verdict.rule = "refuse" -> {SearchTool}
    [] OTHER -> {}
DeniedTowardReachable ==
  \A p \in Procs : answer[p].decision = "deny" => PointsAt(hook[p].verdict) \subseteq Reachable

\* When the context is emptied the file no longer licenses the claim that the
\* agent still holds what it read, unless this very compaction's clearSeen found no
\* lock, failed or was killed.  No hook of an earlier call brings a claim back.
ForgetsSeen ==
  (\E p \in Procs : Compact(p)) /\ ~uncleared => \A f \in Files : ~file'.seen[f].known
CompactionForgets == [][ForgetsSeen]_vars

\* What a hook still has to do, in steps: what is left of the save it is in, and
\* what comes after that save.  The attempts at the lock that remain count twice,
\* because one may find the lock stale and break it.
SaveSteps == 2 * Attempts + 4
InThisSave(p) ==
  CASE pc[p] = "lock"     -> 2 * (Attempts - tries[p]) + 4
    [] pc[p] = "breaking" -> 2 * (Attempts - tries[p]) + 5
    [] pc[p] = "locked"   -> 3
    [] pc[p] = "merging"  -> 2
    [] OTHER              -> 1
AfterThisSave(p) ==
  CASE hook[p].event = "pre"     -> hook[p].more * SaveSteps + 2
    [] hook[p].event = "observe" -> SaveSteps + 2
    [] OTHER                     -> 1
StepsLeft(p) ==
  CASE pc[p] = "idle"                                -> 0
    [] pc[p] \in {"answered", "credit", "compacted"} -> 1
    [] pc[p] = "answer"                              -> 2
    [] pc[p] = "resolve"                             -> SaveSteps + 2
    [] OTHER                                         -> InThisSave(p) + AfterThisSave(p)

\* No hook can go on for ever: each of its own steps uses up one of those left to
\* it, whatever the others do to the lock and the file, and nothing gives any
\* back.  With fair scheduling this is why HooksAnswer holds.
SpendsSteps ==
  \A p \in Procs : pc[p] # "idle" =>
    /\ StepsLeft(p)' <= StepsLeft(p)
    /\ Proceed(p) => StepsLeft(p)' < StepsLeft(p)
HooksRunOut == [][SpendsSteps]_vars

\* Every hook comes to an answer: waiting for the lock is bounded even if its
\* holder died or other hooks keep taking it.
HooksAnswer == \A p \in Procs : pc[p] # "idle" ~> pc[p] = "idle"

-----------------------------------------------------------------------------
(* What the comments of the code say and the code does not keep.           *)

\* policy.ts: "a denial is only ever issued once per target".
DeniedOnce == \A c \in Calls : denials[c] < 2

\* policy.ts: a resolved redirect is consumed, "so one redirect can never be
\* credited twice".
CreditedOnce == \A i \in 1..MaxParks : credits[i] < 2

\* policy.ts: saveState persists the session state, "merging (never overwriting)".
KeepsTools == file.tools \subseteq file'.tools
ToolsMerged == [][KeepsTools]_vars

\* decide.ts refuses an unchanged re-read because "its contents are already in
\* your context above".
SuppressedIsInContext ==
  \A p \in Procs : answer[p].decision = "deny" /\ hook[p].verdict.rule = "suppress"
                     => context[hook[p].call.target] # 0

\* pretooluse.ts records an avoided read "only ... when the refusal actually
\* stands".
RowsStand == \A p \in Procs : "read-suppressed" \in answer[p].rows => Blocks(p)

\* ucr-guard.ts: a guard is "a hard veto" for a corrected action.
VetoStands ==
  \A p \in Procs : pc[p] = "answered" /\ hook[p].verdict.rule = "veto" /\ Mode = "enforce"
                     => Blocks(p)
=============================================================================
