-------------------------- MODULE HookSessionProofs -------------------------
(***************************************************************************)
(* Safety of HookSession for every number of processes, calls and files:   *)
(*  - no refusal points at a tool the client cannot call, unconditionally; *)
(*  - every hook runs out of steps, unconditionally;                       *)
(*  - as long as no lock goes stale the lock admits one writer, and a      *)
(*    compaction leaves no claim about the context behind unless its save  *)
(*    was abandoned;                                                       *)
(*  - if besides no read under the lock fails, no save loses a denial nor, *)
(*    unless observations collide, the proof that a tool works, saves take *)
(*    effect as if in one step, and a target is refused again only by an   *)
(*    overlapping hook or after an abandoned save.                         *)
(***************************************************************************)
EXTENDS HookSession, TLAPS

-----------------------------------------------------------------------------
(* Types.  SessionStates and Hooks stay folded in the steps: the lemmas    *)
(* say what the operators of SessionState return and what a process record *)
(* holds.                                                                  *)

LEMMA EmptyIsState == EmptyState \in SessionStates
  BY DEF EmptyState, SessionStates, Unseen, SeenEntries, NoRedirect, Redirects, NoHash

LEMMA MergedIsState ==
  ASSUME NEW mine \in SessionStates, NEW theirs \in SessionStates
  PROVE  Merged(mine, theirs) \in SessionStates
  BY DEF Merged, SessionStates

LEMMA ClearedIsState ==
  ASSUME NEW theirs \in SessionStates
  PROVE  Cleared(theirs) \in SessionStates
  BY DEF Cleared, SessionStates, Unseen, SeenEntries, NoHash

LEMMA ObservedIsState ==
  ASSUME NEW st \in SessionStates, NEW t \in HookTools, NEW now \in Nat
  PROVE  Observed(st, t, now) \in SessionStates
  BY DEF Observed, SessionStates

LEMMA ConsumedIsState ==
  ASSUME NEW st \in SessionStates, NEW t \in HookTools
  PROVE  /\ Consumed(st, t) \in SessionStates
         /\ st.pending[t] \in Redirects
  BY DEF Consumed, SessionStates, NoRedirect, Redirects

\* Remember and Deliberated change fields of a state and keep its shape.
LEMMA RememberIsState ==
  ASSUME NEW st \in SessionStates, NEW c \in Calls, NEW hash \in Nat
  PROVE  Remember(c, hash, st) \in SessionStates
  BY CallsAssumption DEF Remember, SessionStates, SeenEntries, NoHash

LEMMA VerdictIsTyped ==
  ASSUME NEW c, NEW st, NEW hash, NEW recent
  PROVE  Decide(c, st, hash, recent) \in Verdicts
  BY DEF Decide, Verdicts, Rules, Plain, Redirect, HookTools

LEMMA DeliberatedIsState ==
  ASSUME NEW st \in SessionStates, NEW c \in Calls, NEW v \in Verdicts,
         NEW id \in Nat, NEW hash \in Nat
  PROVE  Deliberated(c, v, id, hash, st) \in SessionStates
<1> DEFINE read == Remember(c, hash, st)
<1>1. read \in SessionStates
  BY RememberIsState
<1> HIDE DEF read
<1>2. [read EXCEPT
        !.denied = IF v.rule \in {"allow", "veto"} THEN @ ELSE @ \cup {c},
        !.pending = IF v.rule = "redirect"
                    THEN [@ EXCEPT ![v.tool] = [id |-> id, measured |-> v.measured]]
                    ELSE @] \in SessionStates
  BY <1>1 DEF SessionStates, Verdicts, Redirects
<1> QED
  BY <1>2 DEF Deliberated, read

-----------------------------------------------------------------------------
\* What a PreToolUse process may count down, and what a resolving one holds.
LEMMA HookFields ==
  ASSUME NEW h \in Hooks
  PROVE  /\ h.event = "pre" => h \in PreHooks
         /\ h.event = "observe" => h.tool \in HookTools
         /\ h \in PreHooks /\ h.more > 0 => [h EXCEPT !.more = @ - 1] \in PreHooks
  BY BoundsAssumption DEF Hooks, PreHooks, PostHooks, NoHook, CompactHook

\* The tool of a process about to resolve a redirect is one of the two.
PhaseOK == \A p \in Procs : pc[p] = "resolve" => hook[p].event = "observe"

TypeInv == TypeOK /\ PhaseOK

LEMMA ExitTyped ==
  ASSUME TypeInv, NEW p \in Procs, Exit(p)
  PROVE  /\ pc' \in [Procs -> Steps]
         /\ hook' \in [Procs -> Hooks]
         /\ mem' \in [Procs -> SessionStates]
         /\ disk' \in [Procs -> SessionStates]
         /\ tries' \in [Procs -> 0..Attempts]
         /\ answer' \in [Procs -> Answers]
         /\ PhaseOK'
  BY EmptyIsState, BoundsAssumption
  DEF TypeInv, TypeOK, PhaseOK, Exit, Steps, Hooks, Answers, NoAnswer, Decisions

LEMMA ResumeTyped ==
  ASSUME TypeInv, NEW p \in Procs, Resume(p)
  PROVE  /\ pc' \in [Procs -> Steps]
         /\ hook' \in [Procs -> Hooks]
         /\ disk' \in [Procs -> SessionStates]
         /\ tries' \in [Procs -> 0..Attempts]
         /\ PhaseOK'
<1>1. disk' \in [Procs -> SessionStates] /\ tries' \in [Procs -> 0..Attempts]
  BY EmptyIsState, BoundsAssumption DEF TypeInv, TypeOK, Resume
<1>2. CASE hook[p].event = "pre" /\ hook[p].more > 0
  <2>1. hook[p] \in PreHooks /\ [hook[p] EXCEPT !.more = @ - 1] \in PreHooks
    BY <1>2, HookFields DEF TypeInv, TypeOK
  <2>2. /\ hook' = [hook EXCEPT ![p] = [hook[p] EXCEPT !.more = @ - 1]]
        /\ pc' = [pc EXCEPT ![p] = "lock"]
    BY <1>2 DEF Resume, GoTo, TypeInv, TypeOK
  <2> QED
    BY <1>1, <2>1, <2>2 DEF TypeInv, TypeOK, PhaseOK, Steps, Hooks
<1>3. CASE ~(hook[p].event = "pre" /\ hook[p].more > 0)
  BY <1>1, <1>3 DEF Resume, GoTo, TypeInv, TypeOK, PhaseOK, Steps
<1> QED
  BY <1>2, <1>3

\* The counters stay within their cap wherever they are bumped.
LEMMA CountersTyped ==
  ASSUME NEW S, NEW counts \in [S -> 0..2], NEW x
  PROVE  [counts EXCEPT ![x] = Capped(@)] \in [S -> 0..2]
<1>1. ASSUME NEW y \in S PROVE [counts EXCEPT ![x] = Capped(@)][y] \in 0..2
  <2>1. CASE y = x
    BY <2>1 DEF Capped
  <2>2. CASE y # x
    BY <2>2
  <2> QED
    BY <2>1, <2>2
<1> QED
  BY <1>1

\* An agent holds some version of the files it has read.
LEMMA ContextTyped ==
  ASSUME TypeOK, NEW x
  PROVE  [context EXCEPT ![x] = version[x]] \in [Files -> 0..MaxVersion]
<1>1. ASSUME NEW y \in Files
      PROVE  [context EXCEPT ![x] = version[x]][y] \in 0..MaxVersion
  <2>1. CASE y = x
    BY <2>1, BoundsAssumption DEF TypeOK
  <2>2. CASE y # x
    BY <2>2 DEF TypeOK
  <2> QED
    BY <2>1, <2>2
<1> QED
  BY <1>1 DEF TypeOK

-----------------------------------------------------------------------------
(* The steps.                                                              *)

LEMMA PreToolUseTyped ==
  ASSUME TypeInv, NEW p \in Procs, NEW c \in Calls, PreToolUse(p, c)
  PROVE  TypeInv'
<1>1. PICK recent \in BOOLEAN, more \in 0..ExtraSaves :
        LET verdict == Decide(c, file, HashOf(c), recent)
            redirects == verdict.rule = "redirect"
        IN /\ redirects => parks < MaxParks
           /\ parks' = IF redirects THEN parks + 1 ELSE parks
           /\ hook' = [hook EXCEPT ![p] =
                [event |-> "pre", call |-> c, verdict |-> verdict,
                 repeat |-> Repeats(c, verdict, file), more |-> more, known |-> Refused]]
           /\ Save(p, Deliberated(c, verdict, parks + 1, HashOf(c), file))
  BY DEF PreToolUse
<1> DEFINE verdict == Decide(c, file, HashOf(c), recent)
<1>2. verdict \in Verdicts
  BY VerdictIsTyped
<1>3. HashOf(c) \in Nat
  BY CallsAssumption, BoundsAssumption DEF HashOf, NoHash, TypeInv, TypeOK
<1>4. parks' \in 0..MaxParks /\ parks + 1 \in Nat
  BY <1>1, BoundsAssumption DEF TypeInv, TypeOK
<1> HIDE DEF verdict
<1>5. Deliberated(c, verdict, parks + 1, HashOf(c), file) \in SessionStates
  BY <1>2, <1>3, <1>4, DeliberatedIsState DEF TypeInv, TypeOK
<1>6. mem' \in [Procs -> SessionStates]
  BY <1>1, <1>5 DEF TypeInv, TypeOK, Save, verdict
<1>7. [event |-> "pre", call |-> c, verdict |-> verdict,
       repeat |-> Repeats(c, verdict, file), more |-> more, known |-> Refused] \in PreHooks
  BY <1>2 DEF PreHooks, Repeats, Refused
<1>8. hook' \in [Procs -> Hooks]
  BY <1>1, <1>7 DEF TypeInv, TypeOK, Hooks, verdict
<1>9. pc' \in [Procs -> Steps] /\ PhaseOK'
  BY <1>1 DEF PreToolUse, TypeInv, TypeOK, PhaseOK, GoTo, Steps
<1> QED
  BY <1>4, <1>6, <1>8, <1>9 DEF PreToolUse, losses, TypeInv, TypeOK

LEMMA PostToolUseTyped ==
  ASSUME TypeInv, NEW p \in Procs, NEW t \in HookTools, PostToolUse(p, t)
  PROVE  TypeInv'
<1>1. clock' \in 1..MaxClock
  BY DEF PostToolUse, TypeInv, TypeOK
<1>2. Observed(file, t, clock') \in SessionStates
  BY <1>1, ObservedIsState, BoundsAssumption DEF TypeInv, TypeOK
<1>3. mem' \in [Procs -> SessionStates]
  BY <1>2 DEF PostToolUse, TypeInv, TypeOK, Save
<1>4. hook' \in [Procs -> Hooks]
  BY DEF PostToolUse, TypeInv, TypeOK, Hooks, PostHooks
<1>5. pc' \in [Procs -> Steps] /\ PhaseOK'
  BY DEF PostToolUse, TypeInv, TypeOK, PhaseOK, GoTo, Steps
<1> QED
  BY <1>1, <1>3, <1>4, <1>5 DEF PostToolUse, losses, TypeInv, TypeOK

LEMMA ResolveTyped ==
  ASSUME TypeInv, NEW p \in Procs, Resolve(p)
  PROVE  TypeInv'
<1>1. hook[p].tool \in HookTools
  BY HookFields DEF Resolve, TypeInv, TypeOK, PhaseOK
<1>2. /\ Consumed(file, hook[p].tool) \in SessionStates
      /\ file.pending[hook[p].tool] \in Redirects
  BY <1>1, ConsumedIsState DEF TypeInv, TypeOK
<1>3. mem' \in [Procs -> SessionStates]
  BY <1>2 DEF Resolve, TypeInv, TypeOK, Save
<1>4. hook' \in [Procs -> Hooks]
  BY <1>1, <1>2 DEF Resolve, TypeInv, TypeOK, Hooks, PostHooks
<1>5. pc' \in [Procs -> Steps] /\ PhaseOK'
  BY DEF Resolve, TypeInv, TypeOK, PhaseOK, GoTo, Steps
<1> QED
  BY <1>3, <1>4, <1>5 DEF Resolve, agent, losses, TypeInv, TypeOK

LEMMA AbandonTyped ==
  ASSUME TypeInv, NEW p \in Procs, Abandon(p)
  PROVE  unsaved' \subseteq Calls /\ uncleared' \in BOOLEAN
<1>1. hook[p].event = "pre" => hook[p].call \in Calls
  BY HookFields DEF TypeInv, TypeOK, PreHooks
<1>2. uncleared' \in BOOLEAN
  BY DEF Abandon
<1> QED
  BY <1>1, <1>2 DEF Abandon, TypeInv, TypeOK

LEMMA SavingTyped ==
  ASSUME TypeInv, NEW p \in Procs, Saving(p)
  PROVE  TypeInv'
<1>1. CASE TakeLock(p)
  BY <1>1 DEF TakeLock, GoTo, agent, losses, TypeInv, TypeOK, PhaseOK, Steps
<1>2. CASE AwaitLock(p)
  BY <1>2, BoundsAssumption DEF AwaitLock, agent, losses, TypeInv, TypeOK, PhaseOK
<1>3. CASE FindStale(p)
  BY <1>3, BoundsAssumption DEF FindStale, GoTo, agent, losses, TypeInv, TypeOK, PhaseOK, Steps
<1>4. CASE BreakLock(p)
  BY <1>4 DEF BreakLock, GoTo, agent, losses, TypeInv, TypeOK, PhaseOK, Steps
<1>5. CASE GiveUp(p)
  BY <1>5, ResumeTyped, AbandonTyped DEF GiveUp, agent, TypeInv, TypeOK
<1>6. CASE ReadBack(p)
  BY <1>6, EmptyIsState DEF ReadBack, GoTo, agent, losses, TypeInv, TypeOK, PhaseOK, Steps
<1>7. CASE WriteBack(p)
  <2>1. file' \in SessionStates
    BY <1>7, MergedIsState, ClearedIsState DEF WriteBack, TypeInv, TypeOK
  <2> QED
    BY <1>7, <2>1 DEF WriteBack, GoTo, agent, losses, TypeInv, TypeOK, PhaseOK, Steps
<1>8. CASE WriteFails(p)
  BY <1>8, AbandonTyped DEF WriteFails, GoTo, agent, TypeInv, TypeOK, PhaseOK, Steps
<1>9. CASE Unlock(p)
  BY <1>9, ResumeTyped DEF Unlock, agent, losses, TypeInv, TypeOK
<1> QED
  BY <1>1, <1>2, <1>3, <1>4, <1>5, <1>6, <1>7, <1>8, <1>9 DEF Saving

LEMMA AnswerTyped ==
  ASSUME TypeInv, NEW p \in Procs, Answer(p)
  PROVE  TypeInv'
<1>1. PICK substitute \in BOOLEAN :
        LET h == hook[p]
            decision == Decision(h.verdict, h.repeat, Proven(mem[p]), substitute)
        IN /\ answer' = [answer EXCEPT ![p] =
                [decision |-> decision,
                 rows |-> SavingsRows(h.verdict, h.repeat, substitute)]]
           /\ denials' = IF /\ decision \in {"deny", "substitute"}
                            /\ h.verdict.rule # "veto"
                         THEN [denials EXCEPT ![h.call] = Capped(@)]
                         ELSE denials
  BY DEF Answer
<1>2. \A v, r, k : Decision(v, r, k, substitute) \in Decisions
  BY DEF Decision, EnforceVerdict, Decisions
<1>3. \A v, r : SavingsRows(v, r, substitute) \subseteq {"code-substitute", "read-suppressed"}
  BY DEF SavingsRows
<1>4. answer' \in [Procs -> Answers]
  BY <1>1, <1>2, <1>3 DEF TypeInv, TypeOK, Answers
<1>5. denials' \in [Calls -> 0..2]
  BY <1>1, CountersTyped DEF TypeInv, TypeOK
<1> QED
  BY <1>4, <1>5 DEF Answer, GoTo, losses, TypeInv, TypeOK, PhaseOK, Steps

LEMMA EndTyped ==
  ASSUME TypeInv, NEW p \in Procs,
         RunTool(p) \/ SkipTool(p) \/ NothingToResolve(p) \/ Credit(p) \/ Compact(p)
  PROVE  TypeInv'
<1>1. Exit(p)
  BY DEF RunTool, SkipTool, NothingToResolve, Credit, Compact
<1>2. CASE RunTool(p)
  <2>1. context' \in [Files -> 0..MaxVersion]
    BY <1>2, ContextTyped DEF RunTool, TypeInv, TypeOK
  <2> QED
    BY <1>1, <1>2, <2>1, ExitTyped DEF RunTool, losses, TypeInv, TypeOK
<1>3. CASE SkipTool(p) \/ NothingToResolve(p)
  BY <1>1, <1>3, ExitTyped DEF SkipTool, NothingToResolve, agent, losses, TypeInv, TypeOK
<1>4. CASE Credit(p)
  <2>1. credits' \in [1..MaxParks -> 0..2]
    <3> DEFINE bumped == [credits EXCEPT ![hook[p].redirect.id] = Capped(@)]
    <3>1. credits' = bumped \/ credits' = credits
      BY <1>4 DEF Credit
    <3>2. bumped \in [1..MaxParks -> 0..2]
      BY CountersTyped DEF TypeInv, TypeOK
    <3> HIDE DEF bumped
    <3> QED
      BY <3>1, <3>2 DEF TypeInv, TypeOK
  <2> QED
    BY <1>1, <1>4, <2>1, ExitTyped DEF Credit, losses, TypeInv, TypeOK
<1>5. CASE Compact(p)
  BY <1>1, <1>5, ExitTyped, BoundsAssumption DEF Compact, losses, TypeInv, TypeOK
<1> QED
  BY <1>2, <1>3, <1>4, <1>5

LEMMA PreCompactTyped ==
  ASSUME TypeInv, NEW p \in Procs, PreCompact(p)
  PROVE  TypeInv'
  BY DEF PreCompact, GoTo, agent, TypeInv, TypeOK, PhaseOK, Steps, Hooks

LEMMA CrashTyped ==
  ASSUME TypeInv, NEW p \in Procs, Crash(p)
  PROVE  TypeInv'
<1>1. unsaved' = unsaved /\ uncleared' \in BOOLEAN
  BY DEF Crash, TypeInv, TypeOK
<1>2. CASE /\ GoTo(p, "answered")
           /\ answer' = [answer EXCEPT ![p].decision = "allow"]
           /\ UNCHANGED <<hook, mem, disk, tries>>
  BY <1>1, <1>2 DEF Crash, GoTo, agent, TypeInv, TypeOK, PhaseOK, Steps, Answers, Decisions
<1>3. CASE GoTo(p, "compacted") /\ UNCHANGED <<answer, hook, mem, disk, tries>>
  BY <1>1, <1>3 DEF Crash, GoTo, agent, TypeInv, TypeOK, PhaseOK, Steps
<1>4. CASE Exit(p)
  BY <1>1, <1>4, ExitTyped DEF Crash, agent, TypeInv, TypeOK
<1> QED
  BY <1>2, <1>3, <1>4 DEF Crash

LEMMA EnvironmentTyped ==
  ASSUME TypeInv,
         LockAges \/ (\E f \in Files : EditFile(f)) \/ UNCHANGED vars
  PROVE  TypeInv'
<1>1. CASE LockAges
  BY <1>1 DEF LockAges, agent, losses, TypeInv, TypeOK, PhaseOK
<1>2. ASSUME NEW f \in Files, EditFile(f) PROVE TypeInv'
  BY <1>2, BoundsAssumption DEF EditFile, losses, TypeInv, TypeOK, PhaseOK
<1>3. CASE UNCHANGED vars
  BY <1>3 DEF vars, TypeInv, TypeOK, PhaseOK
<1> QED
  BY <1>1, <1>2, <1>3

LEMMA StepTyped == TypeInv /\ [Next]_vars => TypeInv'
<1> SUFFICES ASSUME TypeInv, [Next]_vars PROVE TypeInv'
  OBVIOUS
<1>1. ASSUME NEW p \in Procs, Proceed(p) PROVE TypeInv'
  BY <1>1, SavingTyped, AnswerTyped, ResolveTyped, EndTyped DEF Proceed
<1>2. ASSUME NEW p \in Procs, PreCompact(p) \/ Crash(p) PROVE TypeInv'
  BY <1>2, PreCompactTyped, CrashTyped
<1>3. ASSUME NEW p \in Procs, NEW c \in Calls, PreToolUse(p, c) PROVE TypeInv'
  BY <1>3, PreToolUseTyped
<1>4. ASSUME NEW p \in Procs, NEW t \in HookTools, PostToolUse(p, t) PROVE TypeInv'
  BY <1>4, PostToolUseTyped
<1> QED
  BY <1>1, <1>2, <1>3, <1>4, EnvironmentTyped DEF Next

LEMMA InitTyped == Init => TypeInv
<1> SUFFICES ASSUME Init PROVE TypeInv
  OBVIOUS
<1>1. PhaseOK /\ unsaved \subseteq Calls /\ uncleared \in BOOLEAN /\ crowded \in BOOLEAN
  BY DEF Init, PhaseOK
<1> QED
  BY <1>1, EmptyIsState, BoundsAssumption
  DEF Init, TypeInv, TypeOK, Steps, Hooks, Answers, NoAnswer, Decisions

\* Every state of the hooks is well typed, however many processes, files, tools
\* and crashes there are.
THEOREM TypeCorrect == Spec => []TypeOK
<1>1. TypeInv => TypeOK
  BY DEF TypeInv
<1> QED
  BY InitTyped, StepTyped, <1>1, PTL DEF Spec

-----------------------------------------------------------------------------
(* Refusals and saves.                                                     *)

\* What the steps that end a process do to it.
Ends(p) == RunTool(p) \/ SkipTool(p) \/ NothingToResolve(p) \/ Credit(p) \/ Compact(p)

LEMMA EndsExit ==
  ASSUME NEW p, Ends(p)
  PROVE  Exit(p) /\ UNCHANGED <<file, lock, denials>>
  BY DEF Ends, RunTool, SkipTool, NothingToResolve, Credit, Compact, agent

-----------------------------------------------------------------------------
(* Refusals point at tools that work.                                      *)

Callable(st) == st.tools \subseteq Reachable

\* A process knows only tools the client called; what its verdict points at is
\* among them once one is proven; it answers at the end of a PreToolUse only.
ToolsInv ==
  /\ Callable(file)
  /\ \A p \in Procs :
       /\ Callable(mem[p])
       /\ Callable(disk[p])
       /\ pc[p] = "answer" => hook[p].event = "pre"
       /\ hook[p].event = "pre" /\ Proven(mem[p]) => PointsAt(hook[p].verdict) \subseteq Reachable
       /\ pc[p] # "answered" => answer[p] = NoAnswer
       /\ answer[p].decision = "deny" => PointsAt(hook[p].verdict) \subseteq Reachable

\* The rules name no tool that Names does not offer.
LEMMA VerdictPointsAtNames ==
  ASSUME NEW c, NEW st, NEW hash, NEW recent
  PROVE  PointsAt(Decide(c, st, hash, recent)) \subseteq Names(st)
  BY DEF Decide, PointsAt, Plain, Redirect, RedirectsRead, RedirectsSearch, Refuses

LEMMA DeliberatedKeepsTools ==
  ASSUME NEW st \in SessionStates, NEW c, NEW v, NEW id, NEW hash
  PROVE  Deliberated(c, v, id, hash, st).tools = st.tools
<1> DEFINE read == Remember(c, hash, st)
<1>1. read.tools = st.tools /\ \E g : read = [st EXCEPT !.seen = g]
  <2>1. CASE c.kind \in {"read", "range"}
    BY <2>1 DEF Remember, SessionStates
  <2>2. CASE c.kind \notin {"read", "range"}
    <3>1. st = [st EXCEPT !.seen = st.seen]
      BY DEF SessionStates
    <3> QED
      BY <2>2, <3>1 DEF Remember
  <2> QED
    BY <2>1, <2>2
<1> QED
  BY <1>1 DEF Deliberated, SessionStates

\* A refusal without a substitute needs a proven tool.
LEMMA DenyNeedsProof ==
  ASSUME NEW v, NEW r, NEW proven \in BOOLEAN, NEW substitute \in BOOLEAN,
         Decision(v, r, proven, substitute) = "deny"
  PROVE  proven
  BY DEF Decision, EnforceVerdict, EffectiveMode

LEMMA MergedTools ==
  ASSUME NEW mine, NEW theirs, Callable(mine), Callable(theirs)
  PROVE  Callable(Merged(mine, theirs))
  BY DEF Merged, Callable

LEMMA ToolsInit == Init => ToolsInv
  BY DEF Init, ToolsInv, Callable, EmptyState, NoHook, NoAnswer, Proven

LEMMA ToolsExit ==
  ASSUME TypeInv, ToolsInv, NEW p \in Procs, Exit(p), UNCHANGED file
  PROVE  ToolsInv'
  BY DEF TypeInv, TypeOK, ToolsInv, Exit, Callable, Proven, EmptyState, NoHook, NoAnswer

LEMMA ToolsResume ==
  ASSUME TypeInv, ToolsInv, NEW p \in Procs, pc[p] \in {"lock", "unlock"}, Resume(p),
         UNCHANGED <<file, mem, answer>>
  PROVE  ToolsInv'
<1>1. \A q \in Procs : /\ hook'[q].event = hook[q].event
                       /\ hook[q].event = "pre" => hook'[q].verdict = hook[q].verdict
  <2>1. CASE hook[p].event = "pre" /\ hook[p].more > 0
    <3>1. hook' = [hook EXCEPT ![p] = [hook[p] EXCEPT !.more = @ - 1]] /\ hook[p] \in PreHooks
      BY <2>1, HookFields DEF Resume, TypeInv, TypeOK
    <3> QED
      BY <3>1 DEF TypeInv, TypeOK, PreHooks
  <2>2. CASE ~(hook[p].event = "pre" /\ hook[p].more > 0)
    BY <2>2 DEF Resume
  <2> QED
    BY <2>1, <2>2
<1>2. \A q \in Procs : pc'[q] = "answer" => hook'[q].event = "pre"
  BY <1>1 DEF Resume, GoTo, TypeInv, TypeOK, ToolsInv
<1>3. \A q \in Procs : q # p => /\ pc'[q] = pc[q]
                                /\ hook'[q] = hook[q]
                                /\ disk'[q] = disk[q]
  BY DEF Resume, GoTo, TypeInv, TypeOK
<1>4. Callable(disk'[p]) /\ answer[p] = NoAnswer
  BY DEF Resume, TypeInv, TypeOK, ToolsInv, Callable, EmptyState
<1>5. answer[p].decision # "deny"
  BY <1>4 DEF NoAnswer
<1>6. ASSUME NEW q \in Procs
      PROVE  /\ Callable(mem'[q])
             /\ Callable(disk'[q])
             /\ pc'[q] = "answer" => hook'[q].event = "pre"
             /\ hook'[q].event = "pre" /\ Proven(mem'[q]) =>
                  PointsAt(hook'[q].verdict) \subseteq Reachable
             /\ pc'[q] # "answered" => answer'[q] = NoAnswer
             /\ answer'[q].decision = "deny" => PointsAt(hook'[q].verdict) \subseteq Reachable
  <2>1. CASE q = p
    BY <1>1, <1>2, <1>4, <1>5, <2>1 DEF ToolsInv, TypeInv, TypeOK
  <2>2. CASE q # p
    BY <1>3, <1>2, <2>2 DEF ToolsInv, TypeInv, TypeOK
  <2> QED
    BY <2>1, <2>2
<1> QED
  BY <1>6 DEF ToolsInv, Callable, Proven

LEMMA ToolsSaving ==
  ASSUME TypeInv, ToolsInv, NEW p \in Procs, Saving(p)
  PROVE  ToolsInv'
<1>1. CASE TakeLock(p)
  BY <1>1 DEF TakeLock, GoTo, agent, TypeInv, TypeOK, ToolsInv, Callable, Proven
<1>2. CASE AwaitLock(p)
  BY <1>2 DEF AwaitLock, agent, TypeInv, TypeOK, ToolsInv, Callable, Proven
<1>3. CASE FindStale(p) \/ BreakLock(p)
  BY <1>3 DEF FindStale, BreakLock, GoTo, agent, TypeInv, TypeOK, ToolsInv, Callable, Proven
<1>4. CASE GiveUp(p)
  BY <1>4, ToolsResume DEF GiveUp
<1>5. CASE ReadBack(p)
  <2>1. Callable(EmptyState)
    BY DEF Callable, EmptyState
  <2>2. \A q \in Procs : Callable(disk'[q])
    BY <1>5, <2>1 DEF ReadBack, ToolsInv, TypeInv, TypeOK
  <2> QED
    BY <1>5, <2>2 DEF ReadBack, GoTo, agent, TypeInv, TypeOK, ToolsInv, Callable, Proven
<1>6. CASE WriteBack(p)
  <2>1. Callable(Cleared(disk[p])) /\ Callable(Merged(mem[p], disk[p]))
    BY MergedTools DEF ToolsInv, TypeInv, TypeOK, Cleared, Callable, SessionStates
  <2>2. Callable(file')
    BY <1>6, <2>1 DEF WriteBack
  <2> QED
    BY <1>6, <2>2 DEF WriteBack, GoTo, agent, TypeInv, TypeOK, ToolsInv, Callable, Proven
<1>7. CASE WriteFails(p)
  BY <1>7 DEF WriteFails, GoTo, agent, TypeInv, TypeOK, ToolsInv, Callable, Proven
<1>8. CASE Unlock(p)
  BY <1>8, ToolsResume DEF Unlock
<1> QED
  BY <1>1, <1>2, <1>3, <1>4, <1>5, <1>6, <1>7, <1>8 DEF Saving

LEMMA ToolsPreToolUse ==
  ASSUME TypeInv, ToolsInv, NEW p \in Procs, NEW c \in Calls, PreToolUse(p, c)
  PROVE  ToolsInv'
<1>1. PICK recent \in BOOLEAN, more \in 0..ExtraSaves :
        LET verdict == Decide(c, file, HashOf(c), recent)
        IN /\ hook' = [hook EXCEPT ![p] =
                [event |-> "pre", call |-> c, verdict |-> verdict,
                 repeat |-> Repeats(c, verdict, file), more |-> more, known |-> Refused]]
           /\ Save(p, Deliberated(c, verdict, parks + 1, HashOf(c), file))
  BY DEF PreToolUse
<1> DEFINE verdict == Decide(c, file, HashOf(c), recent)
<1>2. hook'[p].event = "pre" /\ hook'[p].verdict = verdict
  BY <1>1 DEF TypeInv, TypeOK
<1>3. mem'[p].tools = file.tools
  BY <1>1, DeliberatedKeepsTools DEF Save, TypeInv, TypeOK
<1>4. Proven(file) => PointsAt(verdict) \subseteq Reachable
  BY VerdictPointsAtNames DEF Names, ToolsInv, Callable
<1> HIDE DEF verdict
<1>5. \A q \in Procs : q # p => hook'[q] = hook[q] /\ mem'[q] = mem[q]
  BY <1>1 DEF Save, TypeInv, TypeOK
<1>6. /\ \A q \in Procs : pc'[q] = IF q = p THEN "lock" ELSE pc[q]
      /\ pc[p] = "idle"
      /\ UNCHANGED <<file, disk, answer>>
  BY DEF PreToolUse, GoTo, TypeInv, TypeOK
<1>7. answer[p] = NoAnswer /\ answer[p].decision # "deny"
  BY <1>6 DEF ToolsInv, NoAnswer
<1>8. /\ Callable(mem'[p])
      /\ hook'[p].event = "pre" /\ Proven(mem'[p]) => PointsAt(hook'[p].verdict) \subseteq Reachable
  BY <1>2, <1>3, <1>4 DEF Callable, Proven, ToolsInv
<1>9. ASSUME NEW q \in Procs
      PROVE  /\ Callable(mem'[q])
             /\ Callable(disk'[q])
             /\ pc'[q] = "answer" => hook'[q].event = "pre"
             /\ hook'[q].event = "pre" /\ Proven(mem'[q]) =>
                  PointsAt(hook'[q].verdict) \subseteq Reachable
             /\ pc'[q] # "answered" => answer'[q] = NoAnswer
             /\ answer'[q].decision = "deny" => PointsAt(hook'[q].verdict) \subseteq Reachable
  <2>1. CASE q = p
    BY <1>6, <1>7, <1>8, <2>1 DEF ToolsInv
  <2>2. CASE q # p
    BY <1>5, <1>6, <2>2 DEF ToolsInv
  <2> QED
    BY <2>1, <2>2
<1> QED
  BY <1>6, <1>9 DEF ToolsInv, Callable, Proven

\* A process that starts, or goes on, as anything but a PreToolUse hook answers nothing.
LEMMA ToolsOther ==
  ASSUME TypeInv, ToolsInv, NEW p \in Procs, pc[p] # "answered", Callable(mem'[p]),
         hook'[p].event # "pre", pc'[p] # "answer",
         \A q \in Procs : q # p => /\ hook'[q] = hook[q]
                                   /\ mem'[q] = mem[q]
                                   /\ pc'[q] = pc[q],
         UNCHANGED <<file, disk, answer>>
  PROVE  ToolsInv'
<1>1. answer[p] = NoAnswer /\ answer[p].decision # "deny"
  BY DEF ToolsInv, NoAnswer
<1>2. ASSUME NEW q \in Procs
      PROVE  /\ Callable(mem'[q])
             /\ Callable(disk'[q])
             /\ pc'[q] = "answer" => hook'[q].event = "pre"
             /\ hook'[q].event = "pre" /\ Proven(mem'[q]) =>
                  PointsAt(hook'[q].verdict) \subseteq Reachable
             /\ pc'[q] # "answered" => answer'[q] = NoAnswer
             /\ answer'[q].decision = "deny" => PointsAt(hook'[q].verdict) \subseteq Reachable
  <2>1. CASE q = p
    BY <1>1, <2>1 DEF ToolsInv
  <2>2. CASE q # p
    BY <2>2 DEF ToolsInv
  <2> QED
    BY <2>1, <2>2
<1> QED
  BY <1>2 DEF ToolsInv, Callable, Proven

LEMMA ToolsPostToolUse ==
  ASSUME TypeInv, ToolsInv, NEW p \in Procs, NEW t \in HookTools, PostToolUse(p, t)
  PROVE  ToolsInv'
<1>1. Callable(Observed(file, t, clock'))
  BY DEF PostToolUse, Observed, Callable, ToolsInv, TypeInv, TypeOK, SessionStates
<1>2. Callable(mem'[p])
  BY <1>1 DEF PostToolUse, Save, TypeInv, TypeOK, ToolsInv
<1>3. hook'[p].event # "pre" /\ \A q \in Procs : q # p => hook'[q] = hook[q]
  BY DEF PostToolUse, TypeInv, TypeOK
<1>4. \A q \in Procs : q # p => mem'[q] = mem[q] /\ pc'[q] = pc[q]
  BY DEF PostToolUse, Save, GoTo, TypeInv, TypeOK
<1>5. pc[p] # "answered" /\ pc'[p] # "answer" /\ UNCHANGED <<file, disk, answer>>
  BY DEF PostToolUse, GoTo, TypeInv, TypeOK
<1> QED
  BY <1>2, <1>3, <1>4, <1>5, ToolsOther

LEMMA ToolsResolve ==
  ASSUME TypeInv, ToolsInv, NEW p \in Procs, Resolve(p)
  PROVE  ToolsInv'
<1>1. Callable(Consumed(file, hook[p].tool))
  BY DEF Consumed, Callable, ToolsInv, TypeInv, TypeOK, SessionStates
<1>2. Callable(mem'[p])
  BY <1>1 DEF Resolve, Save, TypeInv, TypeOK
<1>3. hook'[p].event # "pre" /\ \A q \in Procs : q # p => hook'[q] = hook[q]
  BY DEF Resolve, TypeInv, TypeOK
<1>4. \A q \in Procs : q # p => mem'[q] = mem[q] /\ pc'[q] = pc[q]
  BY DEF Resolve, Save, GoTo, TypeInv, TypeOK
<1>5. pc[p] # "answered" /\ pc'[p] # "answer" /\ UNCHANGED <<file, disk, answer>>
  BY DEF Resolve, GoTo, TypeInv, TypeOK
<1> QED
  BY <1>2, <1>3, <1>4, <1>5, ToolsOther

LEMMA ToolsAnswer ==
  ASSUME TypeInv, ToolsInv, NEW p \in Procs, Answer(p)
  PROVE  ToolsInv'
<1>1. PICK substitute \in BOOLEAN :
        answer' = [answer EXCEPT ![p] =
          [decision |-> Decision(hook[p].verdict, hook[p].repeat, Proven(mem[p]), substitute),
           rows |-> SavingsRows(hook[p].verdict, hook[p].repeat, substitute)]]
  BY DEF Answer
<1>2. answer'[p].decision = "deny" => Proven(mem[p])
  BY <1>1, DenyNeedsProof DEF Proven, TypeInv, TypeOK
<1>3. answer'[p].decision = "deny" => PointsAt(hook[p].verdict) \subseteq Reachable
  BY <1>2 DEF Answer, ToolsInv
<1>4. \A q \in Procs : q # p => answer'[q] = answer[q]
  BY <1>1 DEF TypeInv, TypeOK
<1> QED
  BY <1>3, <1>4 DEF Answer, GoTo, TypeInv, TypeOK, ToolsInv, Callable, Proven

LEMMA ToolsCrash ==
  ASSUME TypeInv, ToolsInv, NEW p \in Procs, Crash(p)
  PROVE  ToolsInv'
<1>1. CASE /\ GoTo(p, "answered")
           /\ answer' = [answer EXCEPT ![p].decision = "allow"]
           /\ UNCHANGED <<hook, mem, disk, tries>>
  <2>1. answer'[p].decision = "allow" /\ \A q \in Procs : q # p => answer'[q] = answer[q]
    BY <1>1 DEF TypeInv, TypeOK, Answers
  <2> QED
    BY <1>1, <2>1 DEF Crash, GoTo, agent, TypeInv, TypeOK, ToolsInv, Callable, Proven
<1>2. CASE GoTo(p, "compacted") /\ UNCHANGED <<answer, hook, mem, disk, tries>>
  BY <1>2 DEF Crash, GoTo, agent, TypeInv, TypeOK, ToolsInv, Callable, Proven
<1>3. CASE Exit(p)
  BY <1>3, ToolsExit DEF Crash
<1> QED
  BY <1>1, <1>2, <1>3 DEF Crash

LEMMA ToolsStep == TypeInv /\ ToolsInv /\ [Next]_vars => ToolsInv'
<1> SUFFICES ASSUME TypeInv, ToolsInv, [Next]_vars PROVE ToolsInv'
  OBVIOUS
<1>1. ASSUME NEW p \in Procs, Proceed(p) PROVE ToolsInv'
  BY <1>1, ToolsSaving, ToolsAnswer, ToolsResolve, EndsExit, ToolsExit DEF Proceed, Ends
<1>2. ASSUME NEW p \in Procs, PreCompact(p) PROVE ToolsInv'
  <2>1. hook'[p].event # "pre" /\ \A q \in Procs : q # p => hook'[q] = hook[q]
    BY <1>2 DEF PreCompact, CompactHook, TypeInv, TypeOK
  <2>2. /\ pc[p] # "answered" /\ pc'[p] # "answer"
        /\ \A q \in Procs : q # p => pc'[q] = pc[q]
        /\ UNCHANGED <<file, mem, disk, answer>>
    BY <1>2 DEF PreCompact, Quiet, GoTo, TypeInv, TypeOK
  <2> QED
    BY <2>1, <2>2, ToolsOther DEF ToolsInv, Callable
<1>3. ASSUME NEW f \in Files, EditFile(f) PROVE ToolsInv'
  BY <1>3 DEF EditFile, ToolsInv, Callable, Proven
<1>4. CASE LockAges \/ UNCHANGED vars
  BY <1>4 DEF LockAges, vars, agent, ToolsInv, Callable, Proven
<1> QED
  BY <1>1, <1>2, <1>3, <1>4, ToolsCrash, ToolsPreToolUse, ToolsPostToolUse DEF Next

\* A refusal without a substitute never points at a tool the client cannot call,
\* whatever the hooks, crashes and lost locks did to the state file.
THEOREM NeverDeniedTowardUnreachable == Spec => []DeniedTowardReachable
<1>1. ToolsInv => DeniedTowardReachable
  BY DEF ToolsInv, DeniedTowardReachable
<1> QED
  BY InitTyped, StepTyped, ToolsInit, ToolsStep, <1>1, PTL DEF Spec


-----------------------------------------------------------------------------
(* One writer at a time.                                                   *)

Outside == Steps \ {"breaking", "locked", "merging", "unlock"}

\* Whoever is in the critical section holds the lock file, alone, and nothing
\* has been written since it read the state again, if it could.
LockInv ==
  /\ lock # "stale"
  /\ \A p \in Procs : pc[p] # "breaking"
  /\ \A p \in Procs : InCritical(p) => lock = "held"
  /\ LockExclusive
  /\ ~ReadsMayFail => \A p \in Procs : pc[p] = "merging" => disk[p] = file

LEMMA LockInit == Init => LockInv
  BY DEF Init, LockInv, LockExclusive, InCritical

\* A process that is not in the critical section after a step disturbs no one.
LEMMA LockLeave ==
  ASSUME TypeInv, LockInv, NEW p \in Procs, pc'[p] \in Outside,
         \A q \in Procs : q # p => pc'[q] = pc[q] /\ disk'[q] = disk[q],
         file' = file,
         lock' = lock \/ (lock' = "none" /\ InCritical(p))
  PROVE  LockInv'
<1>1. ASSUME NEW q \in Procs, InCritical(q)' PROVE q # p /\ InCritical(q) /\ lock' = lock
  BY <1>1 DEF Outside, InCritical, LockInv, LockExclusive
<1>2. \A q \in Procs : pc'[q] # "breaking"
  BY DEF Outside, LockInv
<1>3. ~ReadsMayFail => \A q \in Procs : pc'[q] = "merging" => disk'[q] = file'
  BY DEF Outside, LockInv
<1> QED
  BY <1>1, <1>2, <1>3 DEF LockInv, LockExclusive

LEMMA ExitLeaves ==
  ASSUME TypeInv, NEW p \in Procs, Exit(p)
  PROVE  /\ pc'[p] \in Outside
         /\ \A q \in Procs : q # p => pc'[q] = pc[q] /\ disk'[q] = disk[q]
  BY DEF Exit, Outside, Steps, TypeInv, TypeOK

LEMMA ResumeLeaves ==
  ASSUME TypeInv, NEW p \in Procs, Resume(p)
  PROVE  /\ pc'[p] \in Outside
         /\ \A q \in Procs : q # p => pc'[q] = pc[q] /\ disk'[q] = disk[q]
  BY DEF Resume, GoTo, Outside, Steps, TypeInv, TypeOK

LEMMA LockSaving ==
  ASSUME TypeInv, LockInv, NEW p \in Procs, Saving(p)
  PROVE  LockInv'
<1>1. CASE TakeLock(p)
  BY <1>1 DEF TakeLock, GoTo, LockInv, LockExclusive, InCritical, TypeInv, TypeOK
<1>2. CASE AwaitLock(p)
  BY <1>2 DEF AwaitLock, LockInv, LockExclusive, InCritical
<1>3. CASE FindStale(p) \/ BreakLock(p)
  BY <1>3 DEF FindStale, BreakLock, LockInv
<1>4. CASE GiveUp(p)
  BY <1>4, ResumeLeaves, LockLeave DEF GiveUp
<1>5. CASE ReadBack(p)
  BY <1>5 DEF ReadBack, GoTo, LockInv, LockExclusive, InCritical, TypeInv, TypeOK
<1>6. CASE WriteBack(p)
  BY <1>6 DEF WriteBack, GoTo, LockInv, LockExclusive, InCritical, TypeInv, TypeOK
<1>7. CASE WriteFails(p)
  BY <1>7 DEF WriteFails, GoTo, LockInv, LockExclusive, InCritical, TypeInv, TypeOK
<1>8. CASE Unlock(p)
  <2>1. InCritical(p) /\ lock' = "none" /\ file' = file
    BY <1>8 DEF Unlock, InCritical
  <2> QED
    BY <1>8, <2>1, ResumeLeaves, LockLeave DEF Unlock
<1> QED
  BY <1>1, <1>2, <1>3, <1>4, <1>5, <1>6, <1>7, <1>8 DEF Saving

LEMMA LockStep ==
  ASSUME ~LocksGoStale
  PROVE  TypeInv /\ LockInv /\ [Next]_vars => LockInv'
<1> SUFFICES ASSUME TypeInv, LockInv, [Next]_vars PROVE LockInv'
  OBVIOUS
<1>1. ASSUME NEW p \in Procs, Saving(p) PROVE LockInv'
  BY <1>1, LockSaving
<1>2. ASSUME NEW p \in Procs, Ends(p) PROVE LockInv'
  BY <1>2, EndsExit, ExitLeaves, LockLeave
<1>3. ASSUME NEW p \in Procs, Answer(p) PROVE LockInv'
  BY <1>3, LockLeave DEF Answer, GoTo, Outside, Steps, TypeInv, TypeOK
<1>4. ASSUME NEW p \in Procs, Resolve(p) PROVE LockInv'
  BY <1>4, LockLeave DEF Resolve, GoTo, Outside, Steps, TypeInv, TypeOK
<1>5. ASSUME NEW p \in Procs, PreCompact(p) PROVE LockInv'
  BY <1>5, LockLeave DEF PreCompact, GoTo, Outside, Steps, TypeInv, TypeOK
<1>6. ASSUME NEW p \in Procs, Crash(p) PROVE LockInv'
  <2>1. CASE Exit(p)
    BY <1>6, <2>1, ExitLeaves, LockLeave DEF Crash
  <2>2. CASE /\ GoTo(p, "answered") \/ GoTo(p, "compacted")
             /\ UNCHANGED disk
    BY <1>6, <2>2, LockLeave DEF Crash, GoTo, Outside, Steps, TypeInv, TypeOK
  <2> QED
    BY <1>6, <2>1, <2>2 DEF Crash
<1>7. ASSUME NEW p \in Procs, NEW c \in Calls, PreToolUse(p, c) PROVE LockInv'
  BY <1>7, LockLeave DEF PreToolUse, GoTo, Outside, Steps, TypeInv, TypeOK
<1>8. ASSUME NEW p \in Procs, NEW t \in HookTools, PostToolUse(p, t) PROVE LockInv'
  BY <1>8, LockLeave DEF PostToolUse, GoTo, Outside, Steps, TypeInv, TypeOK
<1>9. CASE (\E f \in Files : EditFile(f)) \/ LockAges \/ UNCHANGED vars
  BY <1>9 DEF EditFile, LockAges, vars, LockInv, LockExclusive, InCritical
<1> QED
  BY <1>1, <1>2, <1>3, <1>4, <1>5, <1>6, <1>7, <1>8, <1>9 DEF Next, Proceed, Ends

\* takeLock admits one writer at a time, whatever dies while it holds the lock.
THEOREM OneWriter ==
  ASSUME ~LocksGoStale
  PROVE  Spec => []LockExclusive
<1>1. LockInv => LockExclusive
  BY DEF LockInv
<1>2. TypeInv /\ LockInv /\ [Next]_vars => LockInv'
  BY LockStep
<1> QED
  BY InitTyped, StepTyped, LockInit, <1>1, <1>2, PTL DEF Spec

-----------------------------------------------------------------------------
(* No evidence is lost.                                                    *)

\* What a save keeps however the observations of tools collide.
KeepsRest ==
  /\ file.denied \subseteq file'.denied
  /\ file.toolsAt <= file'.toolsAt
  /\ Proven(file) => Proven(file')

\* Observations carry a time, so newer ones win a merge with the tools they saw.
Timed(st) == st.toolsAt > 0 => Proven(st)
TimedInv == Timed(file) /\ \A p \in Procs : Timed(mem[p])

LEMMA MergedKeeps ==
  ASSUME NEW mine \in SessionStates, NEW theirs \in SessionStates, Timed(mine)
  PROVE  /\ theirs.denied \subseteq Merged(mine, theirs).denied
         /\ mine.denied \subseteq Merged(mine, theirs).denied
         /\ Proven(theirs) => Proven(Merged(mine, theirs))
         /\ theirs.toolsAt <= Merged(mine, theirs).toolsAt
         /\ Timed(theirs) => Timed(Merged(mine, theirs))
  BY DEF Merged, MineWins, Proven, Timed, SessionStates

LEMMA ClearedKeeps ==
  ASSUME NEW theirs \in SessionStates
  PROVE  /\ Cleared(theirs).denied = theirs.denied
         /\ Cleared(theirs).tools = theirs.tools
         /\ Cleared(theirs).toolsAt = theirs.toolsAt
  BY DEF Cleared, SessionStates

LEMMA DeliberatedKeepsTime ==
  ASSUME NEW st \in SessionStates, NEW c \in Calls, NEW v, NEW id, NEW hash \in Nat
  PROVE  /\ Deliberated(c, v, id, hash, st).toolsAt = st.toolsAt
         /\ st.denied \subseteq Deliberated(c, v, id, hash, st).denied
         /\ v.rule \notin {"allow", "veto"} => c \in Deliberated(c, v, id, hash, st).denied
<1> DEFINE read == Remember(c, hash, st)
<1>1. read \in SessionStates
  BY RememberIsState
<1>2. read.toolsAt = st.toolsAt /\ read.denied = st.denied
  BY DEF Remember, SessionStates
<1> HIDE DEF read
<1> DEFINE after == [read EXCEPT
        !.denied = IF v.rule \in {"allow", "veto"} THEN @ ELSE @ \cup {c},
        !.pending = IF v.rule = "redirect"
                    THEN [@ EXCEPT ![v.tool] = [id |-> id, measured |-> v.measured]]
                    ELSE @]
<1>3. /\ after.toolsAt = read.toolsAt
      /\ after.denied = IF v.rule \in {"allow", "veto"} THEN read.denied
                        ELSE read.denied \cup {c}
  BY <1>1 DEF SessionStates
<1>4. Deliberated(c, v, id, hash, st) = after
  BY DEF Deliberated, read
<1> HIDE DEF after
<1> QED
  BY <1>2, <1>3, <1>4

LEMMA TimedInit == Init => TimedInv
  BY DEF Init, TimedInv, Timed, EmptyState

\* WriteBack is the only writer, and it writes over what it has just read.
LEMMA WriteBackKeeps ==
  ASSUME ~ReadsMayFail, TypeInv, LockInv, TimedInv, NEW p \in Procs, WriteBack(p)
  PROVE  /\ KeepsRest
         /\ Timed(file')
         /\ hook[p] # CompactHook => mem[p].denied \subseteq file'.denied
<1>1. disk[p] = file /\ mem[p] \in SessionStates /\ file \in SessionStates /\ Timed(mem[p])
  BY DEF WriteBack, LockInv, TimedInv, TypeInv, TypeOK
<1>2. CASE hook[p] = CompactHook
  BY <1>1, <1>2, ClearedKeeps DEF WriteBack, KeepsRest, Timed, TimedInv, Proven,
     SessionStates
<1>3. CASE hook[p] # CompactHook
  <2>1. file' = Merged(mem[p], file)
    BY <1>1, <1>3 DEF WriteBack
  <2> QED
    BY <1>1, <1>3, <2>1, MergedKeeps DEF KeepsRest, TimedInv
<1> QED
  BY <1>2, <1>3

LEMMA OnlyWriteBackWrites ==
  ASSUME TypeInv, [Next]_vars
  PROVE  file' = file \/ \E p \in Procs : WriteBack(p)
<1>1. ASSUME NEW p \in Procs, Saving(p), ~WriteBack(p) PROVE file' = file
  BY <1>1 DEF Saving, TakeLock, AwaitLock, FindStale, BreakLock, GiveUp, ReadBack,
     WriteFails, Unlock
<1>2. ASSUME NEW p \in Procs, Ends(p) PROVE file' = file
  BY <1>2, EndsExit
<1>3. ASSUME NEW p \in Procs, Answer(p) \/ Resolve(p) \/ PreCompact(p) \/ Crash(p)
      PROVE  file' = file
  BY <1>3 DEF Answer, Resolve, PreCompact, Crash
<1>4. ASSUME NEW p \in Procs, NEW c \in Calls, PreToolUse(p, c) PROVE file' = file
  BY <1>4 DEF PreToolUse
<1>5. ASSUME NEW p \in Procs, NEW t \in HookTools, PostToolUse(p, t) PROVE file' = file
  BY <1>5 DEF PostToolUse
<1>6. CASE (\E f \in Files : EditFile(f)) \/ LockAges \/ UNCHANGED vars
  BY <1>6 DEF EditFile, LockAges, vars
<1> QED
  BY <1>1, <1>2, <1>3, <1>4, <1>5, <1>6 DEF Next, Proceed, Ends

LEMMA EvidenceStep ==
  ASSUME ~ReadsMayFail, TypeInv, LockInv, TimedInv, [Next]_vars
  PROVE  KeepsRest /\ Timed(file')
  BY OnlyWriteBackWrites, WriteBackKeeps DEF KeepsRest, TimedInv, TypeInv, TypeOK,
     SessionStates

\* What a process works on: its copy only ever comes from the file, or ends empty.
LEMMA MemoryStep ==
  ASSUME TypeInv, [Next]_vars, NEW q \in Procs, mem'[q] # mem[q]
  PROVE  \/ mem'[q] = EmptyState
         \/ \E c \in Calls : PreToolUse(q, c)
         \/ \E t \in HookTools : PostToolUse(q, t)
         \/ Resolve(q)
<1>1. ASSUME NEW p \in Procs, Saving(p) \/ Answer(p) \/ PreCompact(p) PROVE FALSE
  BY <1>1 DEF Saving, TakeLock, AwaitLock, FindStale, BreakLock, GiveUp, ReadBack,
     WriteBack, WriteFails, Unlock, Answer, PreCompact
<1>2. ASSUME NEW p \in Procs, Exit(p) PROVE mem'[q] = EmptyState
  BY <1>2 DEF Exit, TypeInv, TypeOK
<1>3. ASSUME NEW p \in Procs, Crash(p) PROVE mem'[q] = EmptyState
  BY <1>2, <1>3 DEF Crash
<1>4. ASSUME NEW p \in Procs, Resolve(p) PROVE Resolve(q)
  BY <1>4 DEF Resolve, Save, TypeInv, TypeOK
<1>5. ASSUME NEW p \in Procs, NEW c \in Calls, PreToolUse(p, c) PROVE PreToolUse(q, c)
  BY <1>5 DEF PreToolUse, Save, TypeInv, TypeOK
<1>6. ASSUME NEW p \in Procs, NEW t \in HookTools, PostToolUse(p, t) PROVE PostToolUse(q, t)
  BY <1>6 DEF PostToolUse, Save, TypeInv, TypeOK
<1>7. CASE (\E f \in Files : EditFile(f)) \/ LockAges \/ UNCHANGED vars
  BY <1>7 DEF EditFile, LockAges, vars
<1> QED
  BY <1>1, <1>2, <1>3, <1>4, <1>5, <1>6, <1>7, EndsExit DEF Next, Proceed, Ends

LEMMA TimedStep ==
  ASSUME ~ReadsMayFail, TypeInv, LockInv, TimedInv, [Next]_vars
  PROVE  TimedInv'
<1>1. ASSUME NEW q \in Procs PROVE Timed(mem'[q])
  <2>1. CASE mem'[q] = mem[q]
    BY <2>1 DEF TimedInv
  <2>2. CASE mem'[q] = EmptyState
    BY <2>2 DEF EmptyState, Timed
  <2>3. ASSUME NEW c \in Calls, PreToolUse(q, c) PROVE Timed(mem'[q])
    <3>1. PICK recent \in BOOLEAN :
            mem'[q] = Deliberated(c, Decide(c, file, HashOf(c), recent), parks + 1,
                                  HashOf(c), file)
      BY <2>3 DEF PreToolUse, Save, TypeInv, TypeOK
    <3>2. HashOf(c) \in Nat
      BY CallsAssumption, BoundsAssumption DEF HashOf, NoHash, TypeInv, TypeOK
    <3>3. mem'[q].tools = file.tools /\ mem'[q].toolsAt = file.toolsAt
      BY <3>1, <3>2, DeliberatedKeepsTools, DeliberatedKeepsTime DEF TypeInv, TypeOK
    <3> QED
      BY <3>3 DEF TimedInv, Timed, Proven
  <2>4. ASSUME NEW t \in HookTools, PostToolUse(q, t) PROVE Timed(mem'[q])
    <3>1. mem'[q] = file \/ mem'[q] = Observed(file, t, clock')
      BY <2>4 DEF PostToolUse, Save, TypeInv, TypeOK
    <3>2. t \in Observed(file, t, clock').tools
      BY DEF Observed, TypeInv, TypeOK, SessionStates
    <3> QED
      BY <3>1, <3>2 DEF Timed, TimedInv, Proven
  <2>5. CASE Resolve(q)
    <3>1. mem'[q] = Consumed(file, hook[q].tool)
      BY <2>5 DEF Resolve, Save, TypeInv, TypeOK
    <3> QED
      BY <3>1 DEF Consumed, Timed, TimedInv, Proven, TypeInv, TypeOK, SessionStates
  <2> QED
    BY <2>1, <2>2, <2>3, <2>4, <2>5, MemoryStep
<1> QED
  BY <1>1, EvidenceStep DEF TimedInv, Timed, Proven

-----------------------------------------------------------------------------
(* Nor is the proof of a single tool, unless observations collide.         *)

\* The copy of a hook that observes nothing is no newer than the file, and only
\* with the file's own list as new as it.
Behind(q) ==
  /\ mem[q].toolsAt <= file.toolsAt
  /\ mem[q].toolsAt = file.toolsAt => mem[q].tools = file.tools

\* An observation that is still to be saved adds its tool to all the file has.
Ahead(q) ==
  /\ mem[q].tools = file.tools \cup {hook[q].tool}
  /\ mem[q].toolsAt = file.toolsAt => mem[q].tools = file.tools

Settled(q) ==
  /\ pc[q] = "idle" => mem[q] = EmptyState /\ hook[q] = NoHook
  /\ mem[q].toolsAt <= clock
  /\ ~crowded => /\ hook[q].event # "observe" => Behind(q)
                 /\ Observing(q) => Ahead(q)

SpreadInv ==
  /\ file.toolsAt <= clock
  /\ file.toolsAt = 0 => file.tools = {}
  /\ \A q \in Procs : Settled(q)
  /\ ~crowded => \A q, r \in Procs : Observing(q) /\ Observing(r) => hook[q].tool = hook[r].tool

LEMMA SpreadInit == Init => SpreadInv
  BY DEF Init, SpreadInv, Settled, Behind, Observing, EmptyState, NoHook

LEMMA Numbers ==
  ASSUME TypeInv
  PROVE  /\ clock \in Nat /\ clock > 0 /\ crowded \in BOOLEAN
         /\ file.toolsAt \in Nat
         /\ \A q \in Procs : mem[q].toolsAt \in Nat
  BY BoundsAssumption DEF TypeInv, TypeOK, SessionStates

\* While no hook runs nothing is crowded.
LEMMA QuietSettles ==
  ASSUME TypeInv, SpreadInv, Quiet, NEW q \in Procs
  PROVE  Behind(q) /\ ~Observing(q)
<1>1. mem[q] = EmptyState /\ pc[q] = "idle"
  BY DEF Quiet, SpreadInv, Settled
<1>2. mem[q].toolsAt = 0 /\ mem[q].tools = {}
  BY <1>1 DEF EmptyState
<1> QED
  BY <1>1, <1>2, Numbers DEF Behind, Observing, SpreadInv

\* A hook that takes no step stays settled while the observed tools stay.
LEMMA OthersSettled ==
  ASSUME TypeInv, TypeInv', SpreadInv, NEW q \in Procs,
         file'.tools = file.tools, file'.toolsAt = file.toolsAt, clock <= clock',
         crowded' \/ ~crowded \/ Quiet,
         mem'[q] = mem[q], hook'[q] = hook[q], pc'[q] = pc[q]
  PROVE  Settled(q)'
<1>1. Settled(q)
  BY DEF SpreadInv
<1>2. mem'[q].toolsAt <= clock'
  <2>1. mem[q].toolsAt <= clock /\ mem[q].toolsAt \in Nat /\ clock \in Nat /\ clock' \in Nat
    BY <1>1, Numbers, BoundsAssumption DEF Settled, TypeInv, TypeOK
  <2> QED
    BY <2>1
<1>3. Observing(q)' = Observing(q)
  BY DEF Observing
<1>4. Behind(q) => Behind(q)'
  BY DEF Behind
<1>5. Ahead(q) => Ahead(q)'
  BY DEF Ahead
<1>6. ~crowded' => /\ hook[q].event # "observe" => Behind(q)
                   /\ Observing(q) => Ahead(q)
  BY <1>1, QuietSettles DEF Settled
<1> QED
  BY <1>1, <1>2, <1>3, <1>4, <1>5, <1>6 DEF Settled

\* A step of one process that neither saves nor starts an observation.
LEMMA OneSettles ==
  ASSUME TypeInv, TypeInv', SpreadInv, NEW p \in Procs,
         file'.tools = file.tools, file'.toolsAt = file.toolsAt, clock' = clock,
         crowded' \/ ~crowded \/ Quiet,
         \A q \in Procs : q # p => mem'[q] = mem[q] /\ hook'[q] = hook[q] /\ pc'[q] = pc[q],
         Observing(p)' => Observing(p) /\ hook'[p] = hook[p],
         Settled(p)'
  PROVE  SpreadInv'
<1>1. \A q \in Procs : Settled(q)'
  BY OthersSettled, Numbers
<1>2. \A q \in Procs : Observing(q)' => Observing(q) /\ hook'[q] = hook[q]
  BY DEF Observing
<1>3. ~crowded' => \A q, r \in Procs : Observing(q)' /\ Observing(r)'
                                         => hook'[q].tool = hook'[r].tool
  BY <1>2, QuietSettles DEF SpreadInv
<1> QED
  BY <1>1, <1>3 DEF SpreadInv

\* A process goes on with the copy it has, or ends.
LEMMA MovesSettle ==
  ASSUME TypeInv, TypeInv', SpreadInv, NEW p \in Procs,
         file' = file, clock' = clock, crowded' = crowded,
         \A q \in Procs : q # p => mem'[q] = mem[q] /\ hook'[q] = hook[q] /\ pc'[q] = pc[q],
         mem'[p] = mem[p], hook'[p].event = hook[p].event, pc'[p] # "idle",
         Observing(p)' => Observing(p) /\ hook'[p] = hook[p]
  PROVE  SpreadInv'
<1>1. Settled(p)
  BY DEF SpreadInv
<1>2. Behind(p) => Behind(p)'
  BY DEF Behind
<1>3. Observing(p)' /\ Ahead(p) => Ahead(p)'
  BY DEF Ahead
<1>4. Settled(p)'
  BY <1>1, <1>2, <1>3 DEF Settled
<1> QED
  BY <1>4, OneSettles, Numbers

LEMMA ExitSettles ==
  ASSUME TypeInv, TypeInv', SpreadInv, NEW p \in Procs, Exit(p),
         file' = file, clock' = clock, crowded' = crowded
  PROVE  SpreadInv'
<1>1. /\ mem'[p] = EmptyState /\ hook'[p] = NoHook /\ pc'[p] = "idle"
      /\ \A q \in Procs : q # p => mem'[q] = mem[q] /\ hook'[q] = hook[q] /\ pc'[q] = pc[q]
  BY DEF Exit, TypeInv, TypeOK
<1>2. mem'[p].toolsAt = 0 /\ mem'[p].tools = {} /\ ~Observing(p)'
  BY <1>1 DEF EmptyState, Observing
<1>3. Behind(p)'
  BY <1>2, Numbers DEF Behind, SpreadInv
<1>4. Settled(p)'
  BY <1>1, <1>2, <1>3, Numbers DEF Settled
<1> QED
  BY <1>1, <1>2, <1>4, OneSettles, Numbers

LEMMA ResumeSettles ==
  ASSUME TypeInv, TypeInv', SpreadInv, NEW p \in Procs, Resume(p), pc[p] \in {"lock", "unlock"},
         file' = file, mem' = mem, clock' = clock, crowded' = crowded
  PROVE  SpreadInv'
<1>1. /\ \A q \in Procs : q # p => hook'[q] = hook[q] /\ pc'[q] = pc[q]
      /\ pc'[p] # "idle"
  BY DEF Resume, GoTo, TypeInv, TypeOK
<1>2. hook'[p].event = hook[p].event /\ ~Observing(p)'
  <2>1. CASE hook[p].event = "pre" /\ hook[p].more > 0
    <3>1. hook[p] \in PreHooks /\ [hook[p] EXCEPT !.more = @ - 1] \in PreHooks
      BY <2>1, HookFields DEF TypeInv, TypeOK
    <3>2. hook'[p] = [hook[p] EXCEPT !.more = @ - 1]
      BY <2>1 DEF Resume, TypeInv, TypeOK
    <3> QED
      BY <2>1, <3>1, <3>2 DEF PreHooks, Observing
  <2>2. CASE ~(hook[p].event = "pre" /\ hook[p].more > 0)
    BY <2>2 DEF Resume, GoTo, Observing, TypeInv, TypeOK
  <2> QED
    BY <2>1, <2>2
<1> QED
  BY <1>1, <1>2, MovesSettle

\* The one step that changes the observed tools.
LEMMA WriteBackSettles ==
  ASSUME ~ReadsMayFail, TypeInv, TypeInv', LockInv, SpreadInv, NEW p \in Procs, WriteBack(p)
  PROVE  /\ SpreadInv'
         /\ ~crowded => file.tools \subseteq file'.tools
<1>1. /\ disk[p] = file /\ mem[p] \in SessionStates /\ file \in SessionStates
      /\ clock' = clock /\ crowded' = crowded /\ hook' = hook /\ mem' = mem
      /\ pc[p] = "merging" /\ pc'[p] = "unlock"
      /\ \A q \in Procs : q # p => pc'[q] = pc[q]
  BY DEF WriteBack, GoTo, LockInv, TypeInv, TypeOK, agent
<1>2. Settled(p) /\ ~Observing(p)'
  BY <1>1 DEF SpreadInv, Observing
<1>3. ASSUME file'.tools = file.tools, file'.toolsAt = file.toolsAt
      PROVE  SpreadInv'
  <2>1. Behind(p) => Behind(p)'
    BY <1>1, <1>3 DEF Behind
  <2>2. Settled(p)'
    BY <1>1, <1>2, <2>1 DEF Settled
  <2> QED
    BY <1>1, <1>2, <1>3, <2>2, OneSettles, Numbers
<1>4. CASE hook[p] = CompactHook
  <2>1. file'.tools = file.tools /\ file'.toolsAt = file.toolsAt
    BY <1>1, <1>4, ClearedKeeps DEF WriteBack
  <2> QED
    BY <1>3, <2>1
<1>5. CASE hook[p] # CompactHook /\ ~MineWins(mem[p], file)
  <2>1. file'.tools = file.tools /\ file'.toolsAt = file.toolsAt
    BY <1>1, <1>5 DEF WriteBack, Merged
  <2> QED
    BY <1>3, <2>1
<1>6. CASE hook[p] # CompactHook /\ MineWins(mem[p], file)
  <2>1. /\ file'.tools = mem[p].tools /\ file'.toolsAt = mem[p].toolsAt
        /\ mem[p].toolsAt >= file.toolsAt /\ mem[p].toolsAt > 0
    BY <1>1, <1>6 DEF WriteBack, Merged, MineWins
  <2>2. CASE ~crowded /\ hook[p].event # "observe"
    <3>1. file'.tools = file.tools /\ file'.toolsAt = file.toolsAt
      BY <1>2, <2>1, <2>2, Numbers DEF Settled, Behind
    <3> QED
      BY <1>3, <3>1
  <2>3. CASE crowded \/ hook[p].event = "observe"
    <3>1. mem[p].toolsAt <= clock
      BY <1>2 DEF Settled
    <3>2. Observing(p) \/ crowded
      BY <1>1, <2>3 DEF Observing
    <3>3. ~crowded => /\ mem[p].tools = file.tools \cup {hook[p].tool}
                      /\ mem[p].toolsAt = file.toolsAt => mem[p].tools = file.tools
      BY <1>2, <3>2 DEF Settled, Ahead
    <3>4. ASSUME NEW q \in Procs, ~crowded, hook[q].event # "observe" PROVE Behind(q)'
      <4>1. Behind(q)
        BY <3>4 DEF SpreadInv, Settled
      <4> QED
        BY <1>1, <2>1, <3>3, <3>4, <4>1, Numbers DEF Behind
    <3>5. ASSUME NEW q \in Procs, ~crowded, Observing(q)' PROVE Ahead(q)'
      <4>1. q # p /\ Observing(q)
        BY <1>1, <1>2, <3>5 DEF Observing
      <4>2. Ahead(q) /\ hook[q].tool = hook[p].tool
        BY <3>2, <3>5, <4>1 DEF SpreadInv, Settled
      <4> QED
        BY <1>1, <2>1, <3>3, <3>5, <4>2 DEF Ahead
    <3>6. \A q \in Procs : Settled(q)'
      BY <1>1, <3>4, <3>5 DEF SpreadInv, Settled
    <3>7. \A q \in Procs : Observing(q)' => Observing(q)
      BY <1>1, <1>2 DEF Observing
    <3> QED
      BY <1>1, <2>1, <3>1, <3>3, <3>6, <3>7, Numbers DEF SpreadInv
  <2> QED
    BY <2>2, <2>3
<1> QED
  BY <1>4, <1>5, <1>6

LEMMA PreToolUseSettles ==
  ASSUME TypeInv, TypeInv', SpreadInv, NEW p \in Procs, NEW c \in Calls, PreToolUse(p, c)
  PROVE  SpreadInv'
<1>1. PICK recent \in BOOLEAN :
        mem'[p] = Deliberated(c, Decide(c, file, HashOf(c), recent), parks + 1, HashOf(c), file)
  BY DEF PreToolUse, Save, TypeInv, TypeOK
<1>2. HashOf(c) \in Nat
  BY CallsAssumption, BoundsAssumption DEF HashOf, NoHash, TypeInv, TypeOK
<1>3. mem'[p].tools = file.tools /\ mem'[p].toolsAt = file.toolsAt
  BY <1>1, <1>2, DeliberatedKeepsTools, DeliberatedKeepsTime DEF TypeInv, TypeOK
<1>4. /\ hook'[p].event = "pre" /\ pc'[p] = "lock"
      /\ \A q \in Procs : q # p => mem'[q] = mem[q] /\ hook'[q] = hook[q] /\ pc'[q] = pc[q]
      /\ file' = file /\ clock' = clock /\ crowded' = (crowded /\ ~Quiet)
  BY DEF PreToolUse, Save, GoTo, TypeInv, TypeOK
<1>5. Behind(p)' /\ ~Observing(p)'
  BY <1>3, <1>4, Numbers DEF Behind, Observing
<1>6. Settled(p)'
  BY <1>3, <1>4, <1>5 DEF Settled, SpreadInv
<1> QED
  BY <1>4, <1>5, <1>6, OneSettles, Numbers

LEMMA PostToolUseSettles ==
  ASSUME TypeInv, TypeInv', SpreadInv, NEW p \in Procs, NEW t \in HookTools, PostToolUse(p, t)
  PROVE  SpreadInv'
<1>1. /\ hook'[p] = [event |-> "observe", tool |-> t]
      /\ \A q \in Procs : q # p => mem'[q] = mem[q] /\ hook'[q] = hook[q] /\ pc'[q] = pc[q]
      /\ file' = file
  BY DEF PostToolUse, Save, GoTo, TypeInv, TypeOK
<1>2. CASE t \in file.tools
  <2>1. /\ mem'[p] = file /\ pc'[p] = "resolve"
        /\ clock' = clock /\ crowded' = (crowded /\ ~Quiet)
    BY <1>2 DEF PostToolUse, Save, GoTo, TypeInv, TypeOK
  <2>2. Settled(p)' /\ ~Observing(p)'
    BY <1>1, <2>1 DEF Settled, Observing, SpreadInv
  <2> QED
    BY <1>1, <2>1, <2>2, OneSettles, Numbers
<1>3. CASE t \notin file.tools
  <2>1. /\ mem'[p] = Observed(file, t, clock') /\ pc'[p] = "lock"
        /\ clock' = clock \/ clock' = clock + 1
    BY <1>3 DEF PostToolUse, Save, GoTo, TypeInv, TypeOK
  <2>2. ~crowded' => /\ ~crowded \/ Quiet
                     /\ clock' # file.toolsAt
                     /\ \A q \in Procs : Observing(q) => hook[q].tool = t
    BY <1>3, Numbers DEF PostToolUse
  <2>3. mem'[p].tools = file.tools \cup {t} /\ mem'[p].toolsAt = clock'
    BY <2>1 DEF Observed, TypeInv, TypeOK, SessionStates
  <2>4. clock' \in Nat /\ clock <= clock'
    BY <2>1, Numbers
  <2>5. ~crowded' => Ahead(p)'
    BY <1>1, <2>2, <2>3 DEF Ahead
  <2>6. Settled(p)'
    BY <1>1, <2>1, <2>3, <2>4, <2>5 DEF Settled
  <2>7. \A q \in Procs : Settled(q)'
    BY <1>1, <2>2, <2>4, <2>6, OthersSettled, Numbers
  <2>8. ~crowded' => \A q \in Procs : Observing(q)' => hook'[q].tool = t
    BY <1>1, <2>2 DEF Observing
  <2>9. file'.toolsAt <= clock'
    BY <1>1, <2>4, Numbers DEF SpreadInv
  <2> QED
    BY <1>1, <2>7, <2>8, <2>9 DEF SpreadInv
<1> QED
  BY <1>2, <1>3

LEMMA ResolveSettles ==
  ASSUME TypeInv, TypeInv', SpreadInv, NEW p \in Procs, Resolve(p)
  PROVE  SpreadInv'
<1>1. /\ mem'[p] = Consumed(file, hook[p].tool) /\ pc'[p] = "lock"
      /\ hook'[p].event = "resolve"
      /\ \A q \in Procs : q # p => mem'[q] = mem[q] /\ hook'[q] = hook[q] /\ pc'[q] = pc[q]
      /\ file' = file /\ clock' = clock /\ crowded' = crowded
  BY DEF Resolve, Save, GoTo, agent, TypeInv, TypeOK
<1>2. mem'[p].tools = file.tools /\ mem'[p].toolsAt = file.toolsAt
  BY <1>1 DEF Consumed, TypeInv, TypeOK, SessionStates
<1>3. Behind(p)' /\ ~Observing(p)'
  BY <1>1, <1>2, Numbers DEF Behind, Observing
<1>4. Settled(p)'
  BY <1>1, <1>2, <1>3 DEF Settled, SpreadInv
<1> QED
  BY <1>1, <1>3, <1>4, OneSettles, Numbers

LEMMA PreCompactSettles ==
  ASSUME TypeInv, TypeInv', SpreadInv, NEW p \in Procs, PreCompact(p)
  PROVE  SpreadInv'
<1>1. /\ hook'[p] = CompactHook /\ mem' = mem /\ pc'[p] # "idle" /\ Quiet
      /\ \A q \in Procs : q # p => hook'[q] = hook[q] /\ pc'[q] = pc[q]
      /\ file' = file /\ clock' = clock
  BY DEF PreCompact, GoTo, TypeInv, TypeOK
<1>2. Behind(p)' /\ ~Observing(p)'
  BY <1>1, QuietSettles DEF Behind, Observing, CompactHook
<1>3. Settled(p)'
  BY <1>1, <1>2 DEF Settled, SpreadInv, CompactHook
<1> QED
  BY <1>1, <1>2, <1>3, OneSettles, Numbers

LEMMA SpreadSaving ==
  ASSUME ~ReadsMayFail, TypeInv, TypeInv', LockInv, SpreadInv, NEW p \in Procs, Saving(p)
  PROVE  SpreadInv'
<1>1. CASE \/ TakeLock(p) \/ AwaitLock(p) \/ FindStale(p) \/ BreakLock(p)
           \/ ReadBack(p) \/ WriteFails(p)
  <2>1. /\ file' = file /\ mem' = mem /\ hook' = hook /\ clock' = clock /\ crowded' = crowded
        /\ \A q \in Procs : q # p => pc'[q] = pc[q]
        /\ pc'[p] # "idle"
        /\ pc[p] \in {"lock", "breaking", "locked", "merging"}
    BY <1>1 DEF TakeLock, AwaitLock, FindStale, BreakLock, ReadBack, WriteFails, GoTo, agent,
       TypeInv, TypeOK
  <2>2. Observing(p)' => Observing(p)
    BY <2>1 DEF Observing
  <2> QED
    BY <2>1, <2>2, MovesSettle
<1>2. CASE GiveUp(p)
  BY <1>2, ResumeSettles DEF GiveUp, agent
<1>3. CASE WriteBack(p)
  BY <1>3, WriteBackSettles
<1>4. CASE Unlock(p)
  BY <1>4, ResumeSettles DEF Unlock, agent
<1> QED
  BY <1>1, <1>2, <1>3, <1>4 DEF Saving

LEMMA SpreadCrash ==
  ASSUME TypeInv, TypeInv', SpreadInv, NEW p \in Procs, Crash(p)
  PROVE  SpreadInv'
<1>1. file' = file /\ clock' = clock /\ crowded' = crowded
  BY DEF Crash, agent
<1>2. CASE Exit(p)
  BY <1>1, <1>2, ExitSettles
<1>3. CASE /\ GoTo(p, "answered") \/ GoTo(p, "compacted")
           /\ UNCHANGED <<hook, mem>>
  <2>1. pc'[p] \in {"answered", "compacted"} /\ \A q \in Procs : q # p => pc'[q] = pc[q]
    BY <1>3 DEF GoTo, TypeInv, TypeOK
  <2>2. ~Observing(p)'
    BY <2>1 DEF Observing
  <2> QED
    BY <1>1, <1>3, <2>1, <2>2, MovesSettle
<1> QED
  BY <1>2, <1>3 DEF Crash

LEMMA SpreadStep ==
  ASSUME ~ReadsMayFail, TypeInv, TypeInv', LockInv, SpreadInv, [Next]_vars
  PROVE  SpreadInv'
<1>1. ASSUME NEW p \in Procs, Ends(p) PROVE SpreadInv'
  <2>1. /\ Exit(p)
        /\ file' = file /\ clock' = clock /\ crowded' = crowded
    BY <1>1 DEF Ends, RunTool, SkipTool, NothingToResolve, Credit, Compact, agent
  <2> QED
    BY <2>1, ExitSettles
<1>2. ASSUME NEW p \in Procs, Answer(p) PROVE SpreadInv'
  <2>1. /\ file' = file /\ mem' = mem /\ hook' = hook /\ clock' = clock /\ crowded' = crowded
        /\ pc'[p] = "answered" /\ \A q \in Procs : q # p => pc'[q] = pc[q]
    BY <1>2 DEF Answer, GoTo, TypeInv, TypeOK
  <2>2. ~Observing(p)'
    BY <2>1 DEF Observing
  <2> QED
    BY <2>1, <2>2, MovesSettle
<1>3. CASE (\E f \in Files : EditFile(f)) \/ LockAges \/ UNCHANGED vars
  <2>1. UNCHANGED <<file, mem, hook, pc, clock, crowded>>
    BY <1>3 DEF EditFile, LockAges, vars, agent
  <2> QED
    BY <2>1 DEF SpreadInv, Settled, Behind, Ahead, Observing
<1> QED
  BY <1>1, <1>2, <1>3, SpreadSaving, SpreadCrash, PreToolUseSettles, PostToolUseSettles,
     ResolveSettles, PreCompactSettles
  DEF Next, Proceed, Ends

LEMMA KeepsTheTools ==
  ASSUME ~ReadsMayFail, TypeInv, TypeInv', LockInv, TimedInv, SpreadInv, [Next]_vars
  PROVE  KeepsEvidence
<1>1. ~crowded => file.tools \subseteq file'.tools
  BY OnlyWriteBackWrites, WriteBackSettles
<1> QED
  BY <1>1, EvidenceStep DEF KeepsEvidence, KeepsRest

\* No save loses a denial, takes the observed tools back to an earlier time or
\* leaves a proven session unproven, however stale the copy it started from; and
\* none loses the proof that a single tool works, unless since the session was
\* last quiet observations of two tools overlapped or one was given the time of an
\* earlier one.
THEOREM EvidenceKept ==
  ASSUME ~LocksGoStale, ~ReadsMayFail
  PROVE  Spec => EvidenceNeverLost
<1>1. TypeInv /\ LockInv /\ [Next]_vars => LockInv'
  BY LockStep
<1>2. TypeInv /\ LockInv /\ TimedInv /\ [Next]_vars => TimedInv'
  BY TimedStep
<1>3. TypeInv /\ TypeInv' /\ LockInv /\ SpreadInv /\ [Next]_vars => SpreadInv'
  BY SpreadStep
<1>4. TypeInv /\ TypeInv' /\ LockInv /\ TimedInv /\ SpreadInv /\ [Next]_vars
        => [KeepsEvidence]_vars
  BY KeepsTheTools
<1> QED
  BY InitTyped, StepTyped, LockInit, TimedInit, SpreadInit, <1>1, <1>2, <1>3, <1>4, PTL
  DEF Spec, EvidenceNeverLost

-----------------------------------------------------------------------------
(* The refinement: the machine without a lock.                             *)

\* The operators of the state mean the same in both machines.
LEMMA SameOperators ==
  /\ EmptyState = Atomic!EmptyState
  /\ HookTools = Atomic!HookTools
  /\ \A st : Cleared(st) = Atomic!Cleared(st)
  /\ \A mine, theirs : Merged(mine, theirs) = Atomic!Merged(mine, theirs)
  /\ \A st, t, now : Observed(st, t, now) = Atomic!Observed(st, t, now)
  /\ \A st, t : Consumed(st, t) = Atomic!Consumed(st, t)
  /\ \A c, st, hash, recent : Decide(c, st, hash, recent) = Atomic!Decide(c, st, hash, recent)
  /\ \A c, v, id, hash, st :
       Deliberated(c, v, id, hash, st) = Atomic!Deliberated(c, v, id, hash, st)
<1>1. EmptyState = Atomic!EmptyState /\ HookTools = Atomic!HookTools
  BY DEF EmptyState, Atomic!EmptyState, Unseen, Atomic!Unseen, NoHash,
     Atomic!NoHash, NoRedirect, Atomic!NoRedirect, HookTools,
     Atomic!HookTools, ReadTool, Atomic!ReadTool, SearchTool,
     Atomic!SearchTool
<1>2. \A st : Cleared(st) = Atomic!Cleared(st)
  BY DEF Cleared, Atomic!Cleared, Unseen, Atomic!Unseen, NoHash, Atomic!NoHash
<1>3. \A mine, theirs : Merged(mine, theirs) = Atomic!Merged(mine, theirs)
  BY DEF Merged, Atomic!Merged, MineWins, Atomic!MineWins
<1>4. \A st, t, now : Observed(st, t, now) = Atomic!Observed(st, t, now)
  BY DEF Observed, Atomic!Observed
<1>5. \A st, t : Consumed(st, t) = Atomic!Consumed(st, t)
  BY DEF Consumed, Atomic!Consumed, NoRedirect, Atomic!NoRedirect
<1>6. \A c, st, hash, recent : Decide(c, st, hash, recent) = Atomic!Decide(c, st, hash, recent)
  BY DEF Decide, Atomic!Decide, Suppresses, Atomic!Suppresses,
     UnchangedSinceSeen, Atomic!UnchangedSinceSeen, RedirectsRead,
     Atomic!RedirectsRead, RedirectsSearch, Atomic!RedirectsSearch, Refuses,
     Atomic!Refuses, Names, Atomic!Names, Proven, Atomic!Proven, Plain,
     Atomic!Plain, Redirect, Atomic!Redirect, NoTool, Atomic!NoTool, NoHash,
     Atomic!NoHash, HookTools, Atomic!HookTools, ReadTool, Atomic!ReadTool,
     SearchTool, Atomic!SearchTool
<1>7. \A c, v, id, hash, st :
        Deliberated(c, v, id, hash, st) = Atomic!Deliberated(c, v, id, hash, st)
  BY DEF Deliberated, Atomic!Deliberated, Remember, Atomic!Remember, NoHash,
     Atomic!NoHash
<1> QED BY <1>1, <1>2, <1>3, <1>4, <1>5, <1>6, <1>7

LEMMA AtomicInit == Init => Atomic!Init
  BY SameOperators DEF Init, Atomic!Init

\* One step works on one copy.
LEMMA OneCopyChanges ==
  ASSUME TypeInv, [Next]_vars, mem' # mem
  PROVE  \E p \in Procs : mem'[p] # mem[p] /\ mem' = [mem EXCEPT ![p] = mem'[p]]
<1>1. ASSUME NEW p \in Procs, NEW st, mem' = [mem EXCEPT ![p] = st]
      PROVE  \E q \in Procs : mem'[q] # mem[q] /\ mem' = [mem EXCEPT ![q] = mem'[q]]
  BY <1>1 DEF TypeInv, TypeOK
<1>2. ASSUME NEW p \in Procs, Saving(p) \/ Answer(p) \/ PreCompact(p) PROVE FALSE
  BY <1>2 DEF Saving, TakeLock, AwaitLock, FindStale, BreakLock, GiveUp, ReadBack,
     WriteBack, WriteFails, Unlock, Answer, PreCompact
<1>3. ASSUME NEW p \in Procs, Ends(p) \/ Crash(p)
      PROVE  mem' = [mem EXCEPT ![p] = EmptyState]
  BY <1>3, EndsExit DEF Crash, Exit
<1>4. ASSUME NEW p \in Procs, Resolve(p)
      PROVE  mem' = [mem EXCEPT ![p] = Consumed(file, hook[p].tool)]
  BY <1>4 DEF Resolve, Save
<1>5. ASSUME NEW p \in Procs, NEW c \in Calls, PreToolUse(p, c)
      PROVE  \E st : mem' = [mem EXCEPT ![p] = st]
  BY <1>5 DEF PreToolUse, Save
<1>6. ASSUME NEW p \in Procs, NEW t \in HookTools, PostToolUse(p, t)
      PROVE  \E st : mem' = [mem EXCEPT ![p] = st]
  BY <1>6 DEF PostToolUse, Save
<1>7. CASE (\E f \in Files : EditFile(f)) \/ LockAges \/ UNCHANGED vars
  BY <1>7 DEF EditFile, LockAges, vars
<1> QED
  BY <1>1, <1>2, <1>3, <1>4, <1>5, <1>6, <1>7 DEF Next, Proceed, Ends

\* A copy that changes is dropped, or is made of the file as it is now.
LEMMA LoadStep ==
  ASSUME TypeInv, [Next]_vars, NEW q \in Procs, Atomic!Changes(q)
  PROVE  Atomic!Next
<1>1. mem'[q] # mem[q]
  BY DEF Atomic!Changes
<1>2. CASE mem'[q] = EmptyState
  BY <1>2, SameOperators DEF Atomic!Drops, Atomic!Next
<1>3. ASSUME NEW c \in Calls, PreToolUse(q, c) PROVE Atomic!Deliberates(q)
  <2>1. PICK recent \in BOOLEAN :
          /\ mem'[q] = Deliberated(c, Decide(c, file, HashOf(c), recent), parks + 1,
                                   HashOf(c), file)
    BY <1>3 DEF PreToolUse, Save, TypeInv, TypeOK
  <2>2. HashOf(c) \in 0..MaxVersion
    BY CallsAssumption, BoundsAssumption DEF HashOf, NoHash, TypeInv, TypeOK
  <2>3. parks + 1 \in 1..MaxParks + 1
    BY BoundsAssumption DEF TypeInv, TypeOK
  <2> QED BY <2>1, <2>2, <2>3, SameOperators DEF Atomic!Deliberates
<1>4. ASSUME NEW t \in HookTools, PostToolUse(q, t) PROVE Atomic!Reports(q)
  <2>1. mem'[q] = file \/ (mem'[q] = Observed(file, t, clock') /\ clock' \in 1..MaxClock)
    BY <1>4 DEF PostToolUse, Save, TypeInv, TypeOK
  <2> QED BY <2>1, SameOperators DEF Atomic!Reports
<1>5. CASE Resolve(q)
  <2>1. mem'[q] = Consumed(file, hook[q].tool)
    BY <1>5 DEF Resolve, Save, TypeInv, TypeOK
  <2>2. hook[q].tool \in HookTools
    BY <1>5, HookFields DEF Resolve, TypeInv, TypeOK, PhaseOK
  <2> QED BY <2>1, <2>2, SameOperators DEF Atomic!Reports, Atomic!Next
<1> QED BY <1>1, <1>2, <1>3, <1>4, <1>5, MemoryStep DEF Atomic!Next

\* saveState and clearSeen take effect when they write: what they read under
\* the lock is still the file.
LEMMA WriteStep ==
  ASSUME ~ReadsMayFail, TypeInv, LockInv, NEW p \in Procs, WriteBack(p), file' # file
  PROVE  Atomic!Next
<1>1. disk[p] = file /\ mem' = mem
  BY DEF WriteBack, LockInv
<1>2. CASE hook[p] = CompactHook
  <2>1. file' = Cleared(file)
    BY <1>1, <1>2 DEF WriteBack
  <2> QED BY <1>1, <2>1, SameOperators DEF Atomic!Clears, Atomic!Writes, Atomic!Next
<1>3. CASE hook[p] # CompactHook
  <2>1. file' = Merged(mem[p], file)
    BY <1>1, <1>3 DEF WriteBack
  <2> QED BY <1>1, <2>1, SameOperators DEF Atomic!Saves, Atomic!Writes, Atomic!Next
<1> QED BY <1>2, <1>3

LEMMA AtomicStep ==
  ASSUME ~ReadsMayFail, TypeInv, LockInv, [Next]_vars
  PROVE  [Atomic!Next]_(Atomic!vars)
<1>1. CASE file' # file
  BY <1>1, OnlyWriteBackWrites, WriteStep
<1>2. CASE file' = file /\ mem' # mem
  <2>1. PICK p \in Procs : mem'[p] # mem[p] /\ mem' = [mem EXCEPT ![p] = mem'[p]]
    BY <1>2, OneCopyChanges
  <2>2. Atomic!Changes(p)
    BY <1>2, <2>1 DEF Atomic!Changes
  <2> QED BY <2>2, LoadStep
<1> QED BY <1>1, <1>2 DEF Atomic!vars

\* As long as no lock goes stale and the file can be read under the lock, whatever
\* is killed and whatever save fails, every behaviour of saveState and clearSeen is
\* one of a machine that merges into the state, or clears it, in one step.  The
\* lock buys just this: a step of WriteBack is the whole save.
THEOREM SavesTakeEffectAtOnce ==
  ASSUME ~LocksGoStale, ~ReadsMayFail
  PROVE  Spec => SavesAreAtomic
<1>1. TypeInv /\ LockInv /\ [Next]_vars => LockInv'
  BY LockStep
<1>2. TypeInv /\ LockInv /\ [Next]_vars => [Atomic!Next]_(Atomic!vars)
  BY AtomicStep
<1> QED
  BY InitTyped, StepTyped, LockInit, AtomicInit, <1>1, <1>2, PTL
  DEF Spec, SavesAreAtomic, Atomic!Spec

-----------------------------------------------------------------------------
(* The order of two saves.                                                 *)

\* The two copies tell the same of a file both have seen, and of the tools if both
\* were observed in the same millisecond.
Agree(a, b) ==
  /\ \A f \in Files : (a.seen[f].known /\ b.seen[f].known) => a.seen[f] = b.seen[f]
  /\ (a.toolsAt = b.toolsAt /\ a.toolsAt > 0) => a.tools = b.tools

\* Which of two overlapping hooks gets the lock first decides nothing but whose parked
\* redirects stay, unless the file under both has changed or their observations have
\* the same time: everything else in the state is the same either way, and neither
\* save undoes the other (saveState).
THEOREM MergesCommute ==
  ASSUME NEW a \in SessionStates, NEW b \in SessionStates, NEW st \in SessionStates,
         Agree(a, b)
  PROVE  LET x == Merged(a, Merged(b, st))
             y == Merged(b, Merged(a, st))
         IN  /\ x.seen = y.seen
             /\ x.denied = y.denied
             /\ x.tools = y.tools /\ x.toolsAt = y.toolsAt
<1> DEFINE x == Merged(a, Merged(b, st))
           y == Merged(b, Merged(a, st))
<1>1. x.denied = y.denied
  BY DEF Merged
<1>2. x.seen = y.seen
  <2>1. \A f \in Files : x.seen[f] = y.seen[f]
    BY DEF Merged, Agree
  <2> QED BY <2>1 DEF Merged
<1>3. x.tools = y.tools /\ x.toolsAt = y.toolsAt
  BY DEF Merged, MineWins, Agree, SessionStates
<1> QED BY <1>1, <1>2, <1>3

\* A hook that saves the same copy again, because one event has several reasons to
\* save, leaves the state of its first save as it is (saveState).
THEOREM SavingTwiceIsOnce ==
  ASSUME NEW a \in SessionStates, NEW st \in SessionStates
  PROVE  Merged(a, Merged(a, st)) = Merged(a, st)
<1> DEFINE x == Merged(a, Merged(a, st))
           y == Merged(a, st)
<1>1. x.seen = y.seen /\ x.pending = y.pending /\ x.denied = y.denied
  BY DEF Merged
<1>2. x.tools = y.tools /\ x.toolsAt = y.toolsAt
  BY DEF Merged, MineWins, SessionStates
<1> QED BY <1>1, <1>2 DEF Merged

-----------------------------------------------------------------------------
(* Loop breaking.                                                          *)

\* Where a refusal is noted: in the file, or among those that were given up.
Notes == file.denied \cup unsaved

\* A PreToolUse process has its refusal in memory before it saves and noted before
\* it answers, and repeats every refusal it knew of unless that one was given up.
Noted(p) ==
  hook[p].verdict.rule \notin {"allow", "veto"} =>
    /\ hook[p].call \in mem[p].denied
    /\ hook[p].call \in hook[p].known => hook[p].repeat \/ hook[p].call \in unsaved
    /\ pc[p] \in {"unlock", "answer"} => hook[p].call \in Notes

LoopProc(p) ==
  /\ hook[p].event = "pre" => Noted(p)
  /\ Blocks(p) => hook[p].event = "pre" /\ hook[p].verdict.rule # "allow" /\ ~hook[p].repeat

LoopInv ==
  /\ Refused \subseteq Notes
  /\ \A p \in Procs : LoopProc(p)

LEMMA LoopInit == Init => LoopInv
  BY DEF Init, LoopInv, LoopProc, Noted, Refused, Blocks, NoHook, NoAnswer

\* No step takes a note away.
KeepsNotes == file.denied \subseteq file'.denied /\ unsaved \subseteq unsaved'

LEMMA NotesKept ==
  ASSUME ~LocksGoStale, ~ReadsMayFail, TypeInv, LockInv, TimedInv, [Next]_vars
  PROVE  KeepsNotes
<1>1. file.denied \subseteq file'.denied
  BY EvidenceStep DEF KeepsRest
<1>2. ASSUME NEW p \in Procs, Proceed(p) PROVE KeepsNotes
  BY <1>1, <1>2 DEF KeepsNotes, Proceed, Saving, TakeLock, AwaitLock, FindStale, BreakLock,
                    GiveUp, ReadBack, WriteBack, WriteFails, Unlock, Abandon, Answer, Resolve,
                    NothingToResolve, Credit, RunTool, SkipTool, Compact, losses
<1>3. ASSUME NEW p \in Procs, PreCompact(p) \/ Crash(p) PROVE KeepsNotes
  BY <1>1, <1>3 DEF KeepsNotes, PreCompact, Crash
<1>4. ASSUME NEW p \in Procs, NEW c \in Calls, PreToolUse(p, c) PROVE KeepsNotes
  BY <1>1, <1>4 DEF KeepsNotes, PreToolUse, losses
<1>5. ASSUME NEW p \in Procs, NEW t \in HookTools, PostToolUse(p, t)
      PROVE  KeepsNotes
  BY <1>1, <1>5 DEF KeepsNotes, PostToolUse, losses
<1>6. CASE (\E f \in Files : EditFile(f)) \/ LockAges \/ UNCHANGED vars
  BY <1>1, <1>6 DEF KeepsNotes, EditFile, LockAges, losses, vars
<1> QED
  BY <1>2, <1>3, <1>4, <1>5, <1>6 DEF Next

\* What a step of p has to show: the rest follows from the notes being kept.
LEMMA LoopLocal ==
  ASSUME LoopInv, NEW p \in Procs, KeepsNotes, LoopProc(p)', UNCHANGED denials,
         \A q \in Procs : q # p => /\ hook'[q] = hook[q]
                                   /\ answer'[q] = answer[q]
                                   /\ mem'[q] = mem[q]
                                   /\ pc'[q] = pc[q]
  PROVE  LoopInv'
<1>1. \A q \in Procs : q # p => LoopProc(q)'
  BY DEF LoopInv, LoopProc, Noted, Notes, Blocks, KeepsNotes
<1> QED
  BY <1>1 DEF LoopInv, Refused, Notes, KeepsNotes

\* A process that ends takes its verdict and its answer with it.
LEMMA LoopExit ==
  ASSUME TypeInv, LoopInv, NEW p \in Procs, KeepsNotes, Exit(p), UNCHANGED denials
  PROVE  LoopInv'
<1>1. LoopProc(p)'
  BY DEF Exit, LoopProc, Blocks, NoHook, NoAnswer, TypeInv, TypeOK
<1> QED
  BY <1>1, LoopLocal DEF Exit, TypeInv, TypeOK

LEMMA LoopPreToolUse ==
  ASSUME TypeInv, ToolsInv, LoopInv, KeepsNotes,
         NEW p \in Procs, NEW c \in Calls, PreToolUse(p, c)
  PROVE  LoopInv'
<1>1. PICK recent \in BOOLEAN, more \in 0..ExtraSaves :
        LET verdict == Decide(c, file, HashOf(c), recent)
        IN /\ hook' = [hook EXCEPT ![p] =
                [event |-> "pre", call |-> c, verdict |-> verdict,
                 repeat |-> Repeats(c, verdict, file), more |-> more, known |-> Refused]]
           /\ Save(p, Deliberated(c, verdict, parks + 1, HashOf(c), file))
  BY DEF PreToolUse
<1> DEFINE verdict == Decide(c, file, HashOf(c), recent)
<1>2. HashOf(c) \in Nat
  BY CallsAssumption, BoundsAssumption DEF HashOf, NoHash, TypeInv, TypeOK
<1> HIDE DEF verdict
<1>3. verdict.rule \notin {"allow", "veto"} => c \in mem'[p].denied
  BY <1>1, <1>2, DeliberatedKeepsTime DEF Save, TypeInv, TypeOK, verdict
<1>4. /\ hook'[p].event = "pre" /\ hook'[p].verdict = verdict /\ hook'[p].call = c
      /\ hook'[p].known = Refused /\ hook'[p].repeat = Repeats(c, verdict, file)
  BY <1>1 DEF TypeInv, TypeOK, verdict
<1>5. verdict.rule \notin {"allow", "veto"} /\ c \in Refused
        => Repeats(c, verdict, file) \/ c \in unsaved
  BY DEF Repeats, LoopInv, Notes
<1>6. pc'[p] = "lock" /\ pc[p] = "idle" /\ answer' = answer /\ unsaved' = unsaved
  BY DEF PreToolUse, GoTo, losses, TypeInv, TypeOK
<1>7. ~Blocks(p)'
  BY <1>6 DEF Blocks, ToolsInv, NoAnswer
<1>8. LoopProc(p)'
  BY <1>3, <1>4, <1>5, <1>6, <1>7 DEF LoopProc, Noted, LoopInv
<1>9. \A q \in Procs : q # p => hook'[q] = hook[q] /\ mem'[q] = mem[q] /\ pc'[q] = pc[q]
  BY <1>1 DEF PreToolUse, Save, GoTo, TypeInv, TypeOK
<1> QED
  BY <1>6, <1>8, <1>9, LoopLocal DEF PreToolUse

\* A process started for anything else has neither a verdict nor an answer.
LEMMA LoopOther ==
  ASSUME TypeInv, ToolsInv, LoopInv, KeepsNotes, NEW p \in Procs,
         hook'[p].event # "pre", pc[p] # "answered",
         \A q \in Procs : q # p => /\ hook'[q] = hook[q]
                                   /\ mem'[q] = mem[q]
                                   /\ pc'[q] = pc[q],
         UNCHANGED <<answer, denials>>
  PROVE  LoopInv'
<1>1. LoopProc(p)'
  BY DEF LoopProc, LoopInv, Blocks, ToolsInv, NoAnswer
<1> QED
  BY <1>1, LoopLocal

LEMMA LoopAnswer ==
  ASSUME TypeInv, ToolsInv, LoopInv, KeepsNotes, NEW p \in Procs, Answer(p)
  PROVE  LoopInv'
<1>1. PICK substitute \in BOOLEAN :
        LET h == hook[p]
            decision == Decision(h.verdict, h.repeat, Proven(mem[p]), substitute)
        IN /\ substitute => ~h.repeat
           /\ answer' = [answer EXCEPT ![p] =
                [decision |-> decision,
                 rows |-> SavingsRows(h.verdict, h.repeat, substitute)]]
           /\ denials' = IF /\ decision \in {"deny", "substitute"}
                            /\ h.verdict.rule # "veto"
                         THEN [denials EXCEPT ![h.call] = Capped(@)]
                         ELSE denials
  BY DEF Answer
<1> DEFINE decision == Decision(hook[p].verdict, hook[p].repeat, Proven(mem[p]), substitute)
<1>2. decision \in {"deny", "substitute"} => hook[p].verdict.rule # "allow" /\ ~hook[p].repeat
  BY DEF Decision, EnforceVerdict
<1> HIDE DEF decision
<1>3. /\ pc[p] = "answer" /\ hook[p].event = "pre" /\ UNCHANGED <<file, hook, mem, unsaved>>
      /\ \A q \in Procs : pc'[q] = IF q = p THEN "answered" ELSE pc[q]
  BY DEF Answer, GoTo, losses, ToolsInv, TypeInv, TypeOK
<1>4. answer'[p].decision = decision /\ \A q \in Procs : q # p => answer'[q] = answer[q]
  BY <1>1 DEF TypeInv, TypeOK, decision
<1>5. Refused' \subseteq Notes'
  <2> Notes' = Notes
    BY <1>3 DEF Notes
  <2>1. CASE decision \in {"deny", "substitute"} /\ hook[p].verdict.rule # "veto"
    <3>1. hook[p].call \in Notes
      BY <1>2, <1>3, <2>1 DEF LoopInv, LoopProc, Noted
    <3>2. denials' = [denials EXCEPT ![hook[p].call] = Capped(@)]
      BY <1>1, <2>1 DEF decision
    <3>3. Refused' \subseteq Refused \cup {hook[p].call}
      BY <3>2 DEF Refused, TypeInv, TypeOK
    <3> QED
      BY <3>1, <3>3 DEF LoopInv
  <2>2. CASE ~(decision \in {"deny", "substitute"} /\ hook[p].verdict.rule # "veto")
    BY <1>1, <2>2 DEF decision, Refused, LoopInv
  <2> QED
    BY <2>1, <2>2
<1>6. LoopProc(p)'
  BY <1>2, <1>3, <1>4 DEF LoopInv, LoopProc, Noted, Blocks
<1>7. \A q \in Procs : q # p => LoopProc(q)'
  BY <1>3, <1>4 DEF LoopInv, LoopProc, Noted, Notes, Blocks
<1> QED
  BY <1>3, <1>5, <1>6, <1>7 DEF LoopInv

\* Resume leaves a PreToolUse process its verdict, its call and what it knew.
LEMMA LoopResume ==
  ASSUME TypeInv, ToolsInv, LoopInv, KeepsNotes, NEW p \in Procs,
         pc[p] \in {"lock", "unlock"}, Resume(p), UNCHANGED <<file, mem, answer, denials>>,
         hook[p].event = "pre" /\ hook[p].verdict.rule \notin {"allow", "veto"}
           => hook[p].call \in Notes'
  PROVE  LoopInv'
<1>1. /\ hook'[p].event = hook[p].event
      /\ hook[p].event = "pre" => /\ hook'[p].verdict = hook[p].verdict
                                  /\ hook'[p].call = hook[p].call
                                  /\ hook'[p].known = hook[p].known
                                  /\ hook'[p].repeat = hook[p].repeat
  <2>1. CASE hook[p].event = "pre" /\ hook[p].more > 0
    <3>1. hook' = [hook EXCEPT ![p] = [hook[p] EXCEPT !.more = @ - 1]] /\ hook[p] \in PreHooks
      BY <2>1, HookFields DEF Resume, TypeInv, TypeOK
    <3> QED
      BY <3>1 DEF TypeInv, TypeOK, PreHooks
  <2>2. CASE ~(hook[p].event = "pre" /\ hook[p].more > 0)
    BY <2>2 DEF Resume
  <2> QED
    BY <2>1, <2>2
<1>2. ~Blocks(p) /\ ~Blocks(p)'
  BY DEF Blocks, ToolsInv, NoAnswer
<1>3. LoopProc(p)'
  BY <1>1, <1>2 DEF LoopInv, LoopProc, Noted, KeepsNotes
<1>4. \A q \in Procs : q # p => hook'[q] = hook[q] /\ pc'[q] = pc[q]
  BY DEF Resume, GoTo, TypeInv, TypeOK
<1> QED
  BY <1>3, <1>4, LoopLocal

LEMMA LoopSaving ==
  ASSUME ~LocksGoStale, ~ReadsMayFail, TypeInv, ToolsInv, LockInv, TimedInv, LoopInv, KeepsNotes,
         NEW p \in Procs, Saving(p)
  PROVE  LoopInv'
<1>1. ~FindStale(p) /\ ~BreakLock(p)
  BY DEF FindStale, BreakLock, LockInv
<1>2. CASE TakeLock(p) \/ ReadBack(p) \/ AwaitLock(p)
  <2>1. /\ UNCHANGED <<file, hook, mem, answer, denials, unsaved>>
        /\ pc'[p] \in {"lock", "locked", "merging"}
        /\ \A q \in Procs : q # p => pc'[q] = pc[q]
    BY <1>2 DEF TakeLock, ReadBack, AwaitLock, GoTo, agent, losses, TypeInv, TypeOK
  <2>2. LoopProc(p)'
    BY <2>1 DEF LoopInv, LoopProc, Noted, Notes, Blocks
  <2> QED
    BY <2>1, <2>2, LoopLocal
<1>3. CASE WriteBack(p)
  <2>1. /\ UNCHANGED <<hook, mem, answer, denials, unsaved>>
        /\ \A q \in Procs : q # p => pc'[q] = pc[q]
    BY <1>3 DEF WriteBack, GoTo, agent, losses, TypeInv, TypeOK
  <2>2. hook[p].event = "pre" => mem[p].denied \subseteq file'.denied
    BY <1>3, WriteBackKeeps DEF CompactHook
  <2>3. LoopProc(p)'
    BY <2>1, <2>2 DEF LoopInv, LoopProc, Noted, Notes, Blocks
  <2> QED
    BY <2>1, <2>3, LoopLocal
<1>4. CASE WriteFails(p)
  <2>1. /\ UNCHANGED <<file, hook, mem, answer, denials>>
        /\ \A q \in Procs : q # p => pc'[q] = pc[q]
    BY <1>4 DEF WriteFails, GoTo, agent, TypeInv, TypeOK
  <2>2. hook[p].event = "pre" /\ hook[p].verdict.rule \notin {"allow", "veto"}
          => hook[p].call \in Notes'
    BY <1>4 DEF WriteFails, Abandon, Notes
  <2>3. LoopProc(p)'
    BY <2>1, <2>2 DEF LoopInv, LoopProc, Noted, Blocks, KeepsNotes
  <2> QED
    BY <2>1, <2>3, LoopLocal
<1>5. CASE GiveUp(p)
  <2>1. hook[p].event = "pre" /\ hook[p].verdict.rule \notin {"allow", "veto"}
          => hook[p].call \in Notes'
    BY <1>5 DEF GiveUp, Abandon, Notes
  <2> QED
    BY <1>5, <2>1, LoopResume DEF GiveUp, agent
<1>6. CASE Unlock(p)
  <2>1. hook[p].event = "pre" /\ hook[p].verdict.rule \notin {"allow", "veto"}
          => hook[p].call \in Notes'
    BY <1>6 DEF Unlock, LoopInv, LoopProc, Noted, Notes, KeepsNotes
  <2> QED
    BY <1>6, <2>1, LoopResume DEF Unlock, agent
<1> QED
  BY <1>1, <1>2, <1>3, <1>4, <1>5, <1>6 DEF Saving

LEMMA LoopCrash ==
  ASSUME TypeInv, ToolsInv, LoopInv, KeepsNotes, NEW p \in Procs, Crash(p)
  PROVE  LoopInv'
<1>1. UNCHANGED <<file, denials, unsaved>> /\ pc[p] # "answered"
  BY DEF Crash, agent
<1>2. CASE Exit(p)
  BY <1>1, <1>2, LoopExit
<1>3. CASE /\ GoTo(p, "answered")
           /\ answer' = [answer EXCEPT ![p].decision = "allow"]
           /\ UNCHANGED <<hook, mem, disk, tries>>
  <2>1. answer'[p].decision = "allow" /\ \A q \in Procs : q # p => answer'[q] = answer[q]
    BY <1>3 DEF TypeInv, TypeOK, Answers
  <2>2. \A q \in Procs : pc'[q] = IF q = p THEN "answered" ELSE pc[q]
    BY <1>3 DEF GoTo, TypeInv, TypeOK
  <2>3. LoopProc(p)'
    BY <1>1, <1>3, <2>1, <2>2 DEF LoopInv, LoopProc, Noted, Blocks
  <2> QED
    BY <1>1, <1>3, <2>1, <2>2, <2>3, LoopLocal
<1>4. CASE /\ hook[p] = CompactHook
           /\ GoTo(p, "compacted")
           /\ UNCHANGED <<answer, hook, mem, disk, tries>>
  <2>1. hook'[p].event # "pre" /\ \A q \in Procs : q # p => pc'[q] = pc[q]
    BY <1>4 DEF CompactHook, GoTo, TypeInv, TypeOK
  <2> QED
    BY <1>1, <1>4, <2>1, LoopOther
<1> QED
  BY <1>2, <1>3, <1>4 DEF Crash

LEMMA LoopStep ==
  ASSUME ~LocksGoStale, ~ReadsMayFail
  PROVE  TypeInv /\ ToolsInv /\ LockInv /\ TimedInv /\ LoopInv /\ [Next]_vars => LoopInv'
<1> SUFFICES ASSUME TypeInv, ToolsInv, LockInv, TimedInv, LoopInv, [Next]_vars
             PROVE  LoopInv'
  OBVIOUS
<1>1. KeepsNotes
  BY NotesKept
<1>2. ASSUME NEW p \in Procs, Ends(p) PROVE LoopInv'
  BY <1>1, <1>2, EndsExit, LoopExit
<1>3. ASSUME NEW p \in Procs, Resolve(p) PROVE LoopInv'
  <2>1. hook'[p].event # "pre" /\ \A q \in Procs : q # p => hook'[q] = hook[q]
    BY <1>3 DEF Resolve, TypeInv, TypeOK
  <2>2. \A q \in Procs : q # p => mem'[q] = mem[q] /\ pc'[q] = pc[q]
    BY <1>3 DEF Resolve, Save, GoTo, TypeInv, TypeOK
  <2>3. pc[p] # "answered" /\ UNCHANGED <<answer, denials>>
    BY <1>3 DEF Resolve, agent
  <2> QED
    BY <1>1, <2>1, <2>2, <2>3, LoopOther
<1>4. ASSUME NEW p \in Procs, NEW t \in HookTools, PostToolUse(p, t) PROVE LoopInv'
  <2>1. hook'[p].event # "pre" /\ \A q \in Procs : q # p => hook'[q] = hook[q]
    BY <1>4 DEF PostToolUse, TypeInv, TypeOK
  <2>2. \A q \in Procs : q # p => mem'[q] = mem[q] /\ pc'[q] = pc[q]
    BY <1>4 DEF PostToolUse, Save, GoTo, TypeInv, TypeOK
  <2>3. pc[p] # "answered" /\ UNCHANGED <<answer, denials>>
    BY <1>4 DEF PostToolUse
  <2> QED
    BY <1>1, <2>1, <2>2, <2>3, LoopOther
<1>5. ASSUME NEW p \in Procs, PreCompact(p) PROVE LoopInv'
  <2>1. hook'[p].event # "pre" /\ \A q \in Procs : q # p => hook'[q] = hook[q]
    BY <1>5 DEF PreCompact, CompactHook, TypeInv, TypeOK
  <2>2. \A q \in Procs : q # p => mem'[q] = mem[q] /\ pc'[q] = pc[q]
    BY <1>5 DEF PreCompact, GoTo, TypeInv, TypeOK
  <2>3. pc[p] # "answered" /\ UNCHANGED <<answer, denials>>
    BY <1>5 DEF PreCompact, Quiet
  <2> QED
    BY <1>1, <2>1, <2>2, <2>3, LoopOther
<1>6. CASE (\E f \in Files : EditFile(f)) \/ LockAges \/ UNCHANGED vars
  BY <1>6 DEF EditFile, LockAges, vars, agent, losses, LoopInv, LoopProc, Noted, Notes, Blocks,
              Refused
<1> QED
  BY <1>1, <1>2, <1>3, <1>4, <1>5, <1>6, LoopSaving, LoopAnswer, LoopCrash, LoopPreToolUse
  DEF Next, Proceed, Ends

\* No hook that starts after a refusal was delivered refuses that key again, unless
\* a save that was to record a refusal of it was abandoned: for want of the lock,
\* behind a holder that died, or because the write failed.
THEOREM DenialsBreakLoops ==
  ASSUME ~LocksGoStale, ~ReadsMayFail
  PROVE  Spec => []LoopBreaking
<1>1. TypeInv /\ LockInv /\ [Next]_vars => LockInv'
  BY LockStep
<1>2. TypeInv /\ LockInv /\ TimedInv /\ [Next]_vars => TimedInv'
  BY TimedStep
<1>3. TypeInv /\ ToolsInv /\ LockInv /\ TimedInv /\ LoopInv /\ [Next]_vars => LoopInv'
  BY LoopStep
<1>4. LoopInv => LoopBreaking
  BY DEF LoopInv, LoopProc, Noted, LoopBreaking
<1> QED
  BY InitTyped, StepTyped, ToolsInit, ToolsStep, LockInit, TimedInit, LoopInit,
     <1>1, <1>2, <1>3, <1>4, PTL DEF Spec
-----------------------------------------------------------------------------
(* A compaction leaves no claim behind.                                    *)

Forgotten == \A f \in Files : ~file.seen[f].known

\* A compacting process is alone from its start to its end, and by the time it
\* unlocks or the host goes on without it has cleared `seen` or given that up.
CompactInv ==
  \A p \in Procs :
    /\ pc[p] = "idle" <=> hook[p] = NoHook
    /\ pc[p] = "compacted" => hook[p] = CompactHook
    /\ hook[p] = CompactHook =>
         /\ \A q \in Procs : q # p => pc[q] = "idle"
         /\ pc[p] \in {"lock", "locked", "merging", "unlock", "compacted"}
         /\ pc[p] \in {"unlock", "compacted"} => uncleared \/ Forgotten

LEMMA CompactInit == Init => CompactInv
  BY DEF Init, CompactInv, NoHook, CompactHook

LEMMA FourKinds ==
  ASSUME NEW h \in Hooks
  PROVE  /\ h.event \notin {"pre", "observe", "resolve"} => h \in {NoHook, CompactHook}
         /\ h.event \in {"pre", "observe", "resolve"} => h \notin {NoHook, CompactHook}
  BY DEF Hooks, PreHooks, PostHooks, NoHook, CompactHook

\* A step of a process while nobody compacts, that starts no compaction.
LEMMA NobodyCompacts ==
  ASSUME CompactInv, NEW p \in Procs,
         \A q \in Procs : hook[q] # CompactHook,
         hook'[p] # CompactHook, pc'[p] # "compacted",
         pc'[p] = "idle" <=> hook'[p] = NoHook,
         \A q \in Procs : q # p => pc'[q] = pc[q] /\ hook'[q] = hook[q]
  PROVE  CompactInv'
  BY DEF CompactInv

\* While another process runs nobody compacts.
LEMMA RunsAlone ==
  ASSUME CompactInv, NEW p \in Procs, pc[p] # "idle", hook[p] # CompactHook
  PROVE  \A q \in Procs : hook[q] # CompactHook
  BY DEF CompactInv

\* The end of a process, of a compacting one too, leaves nobody compacting.
LEMMA CompactExit ==
  ASSUME TypeInv, CompactInv, NEW p \in Procs, pc[p] # "idle", Exit(p)
  PROVE  CompactInv'
<1>1. pc'[p] = "idle" /\ hook'[p] = NoHook
  BY DEF Exit, TypeInv, TypeOK
<1>2. \A q \in Procs : q # p => pc'[q] = pc[q] /\ hook'[q] = hook[q]
  BY DEF Exit, TypeInv, TypeOK
<1>3. \A q \in Procs : q # p => hook[q] # CompactHook
  BY DEF CompactInv
<1> QED
  BY <1>1, <1>2, <1>3 DEF CompactInv, NoHook, CompactHook

\* A step of a compacting process between its start and its end.
LEMMA CompactMoves ==
  ASSUME TypeInv, CompactInv, NEW p \in Procs, hook[p] = CompactHook,
         hook' = hook, pc'[p] \in {"lock", "locked", "merging", "unlock", "compacted"},
         pc'[p] \in {"unlock", "compacted"} => uncleared' \/ Forgotten',
         \A q \in Procs : q # p => pc'[q] = pc[q]
  PROVE  CompactInv'
<1>1. \A q \in Procs : q # p => pc[q] = "idle" /\ hook[q] = NoHook
  BY DEF CompactInv
<1> QED
  BY <1>1 DEF CompactInv, NoHook, CompactHook

\* A step of another process between its start and its end.
LEMMA OtherMoves ==
  ASSUME TypeInv, CompactInv, NEW p \in Procs, pc[p] # "idle", hook[p] # CompactHook,
         hook'[p] \notin {NoHook, CompactHook}, pc'[p] \notin {"idle", "compacted"},
         \A q \in Procs : q # p => pc'[q] = pc[q] /\ hook'[q] = hook[q]
  PROVE  CompactInv'
  BY RunsAlone, NobodyCompacts

LEMMA CompactResume ==
  ASSUME TypeInv, CompactInv, NEW p \in Procs, pc[p] # "idle", Resume(p),
         hook[p] = CompactHook => uncleared' \/ Forgotten'
  PROVE  CompactInv'
<1>1. hook[p] # NoHook
  BY DEF CompactInv
<1>2. CASE hook[p].event = "pre" /\ hook[p].more > 0
  <2>1. hook[p] \in PreHooks /\ [hook[p] EXCEPT !.more = @ - 1] \in PreHooks
    BY <1>2, HookFields DEF TypeInv, TypeOK
  <2>2. /\ hook' = [hook EXCEPT ![p] = [hook[p] EXCEPT !.more = @ - 1]]
        /\ pc' = [pc EXCEPT ![p] = "lock"]
    BY <1>2 DEF Resume, GoTo, TypeInv, TypeOK
  <2>3. hook[p] # CompactHook /\ hook'[p] \notin {NoHook, CompactHook}
    BY <2>1, <2>2 DEF PreHooks, NoHook, CompactHook, TypeInv, TypeOK
  <2> QED
    BY <2>2, <2>3, OtherMoves DEF TypeInv, TypeOK
<1>3. CASE ~(hook[p].event = "pre" /\ hook[p].more > 0)
  <2>1. /\ hook' = hook
        /\ pc' = [pc EXCEPT ![p] = CASE hook[p].event = "pre" -> "answer"
                                     [] hook[p].event = "observe" -> "resolve"
                                     [] hook[p].event = "resolve" -> "credit"
                                     [] OTHER -> "compacted"]
    BY <1>3 DEF Resume, GoTo
  <2>2. CASE hook[p] = CompactHook
    <3>1. pc'[p] = "compacted"
      BY <2>1, <2>2 DEF CompactHook, TypeInv, TypeOK
    <3> QED
      BY <2>1, <2>2, <3>1, CompactMoves DEF TypeInv, TypeOK
  <2>3. CASE hook[p] # CompactHook
    <3>1. hook[p].event \in {"pre", "observe", "resolve"}
      BY <1>1, <2>3, FourKinds DEF TypeInv, TypeOK
    <3>2. pc'[p] \in {"answer", "resolve", "credit"}
      BY <2>1, <3>1 DEF TypeInv, TypeOK
    <3> QED
      BY <1>1, <2>1, <2>3, <3>2, OtherMoves DEF TypeInv, TypeOK
  <2> QED
    BY <2>2, <2>3
<1> QED
  BY <1>2, <1>3

LEMMA CompactSaving ==
  ASSUME ~LocksGoStale, TypeInv, LockInv, CompactInv, NEW p \in Procs, Saving(p)
  PROVE  CompactInv'
<1>1. hook[p] # NoHook
  BY DEF Saving, TakeLock, AwaitLock, FindStale, BreakLock, GiveUp, ReadBack, WriteBack,
         WriteFails, Unlock, CompactInv
<1>2. CASE TakeLock(p) \/ ReadBack(p) \/ AwaitLock(p)
  <2>1. /\ pc[p] # "idle" /\ pc'[p] \in {"lock", "locked", "merging"}
        /\ hook' = hook
        /\ \A q \in Procs : q # p => pc'[q] = pc[q]
    BY <1>2 DEF TakeLock, ReadBack, AwaitLock, GoTo, TypeInv, TypeOK
  <2>2. CASE hook[p] = CompactHook
    BY <2>1, <2>2, CompactMoves DEF CompactInv
  <2>3. CASE hook[p] # CompactHook
    BY <1>1, <2>1, <2>3, OtherMoves
  <2> QED
    BY <2>2, <2>3
<1>3. CASE WriteBack(p) \/ WriteFails(p)
  <2>1. /\ pc[p] # "idle" /\ pc'[p] = "unlock"
        /\ hook' = hook
        /\ \A q \in Procs : q # p => pc'[q] = pc[q]
    BY <1>3 DEF WriteBack, WriteFails, GoTo, TypeInv, TypeOK
  <2>2. CASE hook[p] = CompactHook
    <3>1. CASE WriteBack(p)
      <4>1. file' = Cleared(disk[p])
        BY <2>2, <3>1 DEF WriteBack
      <4>2. Forgotten'
        BY <4>1 DEF Forgotten, Cleared, Unseen, SessionStates, TypeInv, TypeOK
      <4> QED
        BY <2>1, <2>2, <4>2, CompactMoves DEF CompactInv
    <3>2. CASE WriteFails(p)
      <4>1. uncleared'
        BY <2>2, <3>2 DEF WriteFails, Abandon
      <4> QED
        BY <2>1, <2>2, <4>1, CompactMoves DEF CompactInv
    <3> QED
      BY <1>3, <3>1, <3>2
  <2>3. CASE hook[p] # CompactHook
    BY <1>1, <2>1, <2>3, OtherMoves
  <2> QED
    BY <2>2, <2>3
<1>4. CASE GiveUp(p)
  <2>1. hook[p] = CompactHook => uncleared'
    BY <1>4 DEF GiveUp, Abandon
  <2> QED
    BY <1>4, <2>1, CompactResume DEF GiveUp
<1>5. CASE Unlock(p)
  <2>1. hook[p] = CompactHook => uncleared' \/ Forgotten'
    BY <1>5 DEF Unlock, losses, CompactInv, Forgotten
  <2> QED
    BY <1>5, <2>1, CompactResume DEF Unlock
<1>6. CASE FindStale(p) \/ BreakLock(p)
  BY <1>6 DEF FindStale, BreakLock, LockInv
<1> QED
  BY <1>2, <1>3, <1>4, <1>5, <1>6 DEF Saving

\* The host goes on without a hook it killed.
LEMMA CompactCrash ==
  ASSUME TypeInv, CompactInv, NEW p \in Procs, Crash(p)
  PROVE  CompactInv'
<1>1. pc[p] # "idle" /\ file' = file /\ hook[p] # NoHook
  BY DEF Crash, CompactInv
<1>2. CASE hook[p].event = "pre" /\ GoTo(p, "answered") /\ UNCHANGED hook
  <2>1. pc'[p] = "answered" /\ \A q \in Procs : q # p => pc'[q] = pc[q]
    BY <1>2 DEF GoTo, TypeInv, TypeOK
  <2>2. hook[p] # CompactHook
    BY <1>2 DEF CompactHook
  <2> QED
    BY <1>1, <1>2, <2>1, <2>2, OtherMoves
<1>3. CASE /\ hook[p] = CompactHook /\ GoTo(p, "compacted") /\ UNCHANGED hook
           /\ uncleared' = (uncleared \/ pc[p] # "unlock")
  <2>1. pc'[p] = "compacted" /\ \A q \in Procs : q # p => pc'[q] = pc[q]
    BY <1>3 DEF GoTo, TypeInv, TypeOK
  <2>2. uncleared' \/ Forgotten'
    BY <1>1, <1>3 DEF CompactInv, Forgotten
  <2> QED
    BY <1>3, <2>1, <2>2, CompactMoves
<1>4. CASE Exit(p)
  BY <1>1, <1>4, CompactExit
<1> QED
  BY <1>2, <1>3, <1>4 DEF Crash

LEMMA CompactStarts ==
  ASSUME TypeInv, CompactInv, NEW p \in Procs, PreCompact(p)
  PROVE  CompactInv'
<1>1. /\ hook'[p] = CompactHook /\ pc'[p] \in {"lock", "compacted"}
      /\ pc'[p] = "compacted" => Forgotten'
      /\ \A q \in Procs : q # p => pc'[q] = pc[q] /\ hook'[q] = hook[q]
  BY DEF PreCompact, GoTo, Forgotten, TypeInv, TypeOK
<1>2. \A q \in Procs : pc[q] = "idle" /\ hook[q] = NoHook
  BY DEF PreCompact, Quiet, CompactInv
<1> QED
  BY <1>1, <1>2 DEF CompactInv, NoHook, CompactHook

\* A hook of a tool call starts only while nobody compacts.
LEMMA CallStarts ==
  ASSUME TypeInv, CompactInv, NEW p \in Procs, ~Compacting,
         hook'[p].event \in {"pre", "observe"}, hook' \in [Procs -> Hooks],
         pc'[p] \in {"lock", "resolve"},
         \A q \in Procs : q # p => pc'[q] = pc[q] /\ hook'[q] = hook[q]
  PROVE  CompactInv'
<1>1. \A q \in Procs : hook[q] # CompactHook
  BY DEF Compacting, CompactInv, NoHook, CompactHook
<1>2. hook'[p] \notin {NoHook, CompactHook}
  BY DEF NoHook, CompactHook
<1> QED
  BY <1>1, <1>2, NobodyCompacts

LEMMA CompactStep ==
  ASSUME ~LocksGoStale
  PROVE  TypeInv /\ LockInv /\ CompactInv /\ [Next]_vars => CompactInv'
<1> SUFFICES ASSUME TypeInv, LockInv, CompactInv, [Next]_vars PROVE CompactInv'
  OBVIOUS
<1>1. TypeInv'
  BY StepTyped
<1>2. ASSUME NEW p \in Procs, Ends(p) PROVE CompactInv'
  <2>1. pc[p] # "idle"
    BY <1>2 DEF Ends, RunTool, SkipTool, NothingToResolve, Credit, Compact
  <2> QED
    BY <1>2, <2>1, EndsExit, CompactExit
<1>3. ASSUME NEW p \in Procs, Answer(p) PROVE CompactInv'
  <2>1. /\ pc[p] = "answer" /\ pc'[p] = "answered" /\ hook' = hook
        /\ \A q \in Procs : q # p => pc'[q] = pc[q]
    BY <1>3 DEF Answer, GoTo, TypeInv, TypeOK
  <2>2. hook[p] \notin {NoHook, CompactHook}
    BY <2>1 DEF CompactInv
  <2> QED
    BY <2>1, <2>2, OtherMoves
<1>4. ASSUME NEW p \in Procs, Resolve(p) PROVE CompactInv'
  <2>1. /\ pc[p] = "resolve" /\ pc'[p] = "lock"
        /\ \A q \in Procs : q # p => pc'[q] = pc[q] /\ hook'[q] = hook[q]
        /\ hook'[p].event = "resolve"
    BY <1>4 DEF Resolve, GoTo, TypeInv, TypeOK
  <2>2. hook[p] # CompactHook /\ hook'[p] \notin {NoHook, CompactHook}
    BY <2>1 DEF CompactInv, NoHook, CompactHook
  <2> QED
    BY <2>1, <2>2, OtherMoves
<1>5. ASSUME NEW p \in Procs, NEW c \in Calls, PreToolUse(p, c) PROVE CompactInv'
  <2>1. /\ ~Compacting /\ pc'[p] = "lock"
        /\ \A q \in Procs : q # p => pc'[q] = pc[q] /\ hook'[q] = hook[q]
        /\ hook'[p].event = "pre"
    BY <1>5 DEF PreToolUse, GoTo, TypeInv, TypeOK
  <2> QED
    BY <1>1, <2>1, CallStarts DEF TypeInv, TypeOK
<1>6. ASSUME NEW p \in Procs, NEW t \in HookTools, PostToolUse(p, t) PROVE CompactInv'
  <2>1. /\ ~Compacting /\ pc'[p] \in {"lock", "resolve"}
        /\ \A q \in Procs : q # p => pc'[q] = pc[q] /\ hook'[q] = hook[q]
        /\ hook'[p].event = "observe"
    BY <1>6 DEF PostToolUse, GoTo, TypeInv, TypeOK
  <2> QED
    BY <1>1, <2>1, CallStarts DEF TypeInv, TypeOK
<1>7. CASE (\E f \in Files : EditFile(f)) \/ LockAges \/ UNCHANGED vars
  BY <1>7 DEF EditFile, LockAges, vars, agent, losses, CompactInv, Forgotten
<1> QED
  BY <1>2, <1>3, <1>4, <1>5, <1>6, <1>7, CompactSaving, CompactStarts, CompactCrash
  DEF Next, Proceed, Ends

\* When the host empties the context, the file says of no file that the agent
\* still holds it, unless this compaction's clearSeen was abandoned or killed: no
\* hook that ran before can write its copy back in between.
THEOREM CompactionsForget ==
  ASSUME ~LocksGoStale
  PROVE  Spec => CompactionForgets
<1>1. TypeInv /\ LockInv /\ [Next]_vars => LockInv'
  BY LockStep
<1>2. TypeInv /\ LockInv /\ CompactInv /\ [Next]_vars => CompactInv'
  BY CompactStep
<1>3. CompactInv => ForgetsSeen
  <2> SUFFICES ASSUME CompactInv, NEW p \in Procs, Compact(p), ~uncleared
               PROVE  \A f \in Files : ~file'.seen[f].known
    BY DEF ForgetsSeen
  <2>1. hook[p] = CompactHook /\ pc[p] = "compacted" /\ file' = file
    BY DEF Compact, CompactInv
  <2> QED
    BY <2>1 DEF CompactInv, Forgotten
<1> QED
  BY InitTyped, StepTyped, LockInit, CompactInit, <1>1, <1>2, <1>3, PTL
  DEF Spec, CompactionForgets

-----------------------------------------------------------------------------
(* When nothing is abandoned.                                              *)

\* Without failing saves and stale locks nobody waits in vain for the lock.
NoLoss ==
  /\ unsaved = {}
  /\ uncleared => MayCrash
  /\ \A p \in Procs : tries[p] = 0

LEMMA NoLossInit == Init => NoLoss
  BY DEF Init, NoLoss

LEMMA NoLossStep ==
  ASSUME ~LocksGoStale, ~LocksMayWait, ~WritesMayFail
  PROVE  TypeInv /\ LockInv /\ NoLoss /\ [Next]_vars => NoLoss'
<1> SUFFICES ASSUME TypeInv, LockInv, NoLoss, [Next]_vars PROVE NoLoss'
  OBVIOUS
<1>1. ASSUME NEW p \in Procs, Ends(p) PROVE NoLoss'
  <2>1. \A q \in Procs : tries'[q] = 0
    BY <1>1, EndsExit DEF Exit, NoLoss, TypeInv, TypeOK
  <2> QED
    BY <1>1, <2>1 DEF NoLoss, Ends, RunTool, SkipTool, NothingToResolve, Credit, Compact, losses
<1>2. ASSUME NEW p \in Procs, Saving(p) PROVE NoLoss'
  <2>1. ~AwaitLock(p) /\ ~WriteFails(p) /\ ~FindStale(p) /\ ~BreakLock(p)
    BY DEF AwaitLock, WriteFails, FindStale, BreakLock, LockInv
  <2>2. ~GiveUp(p)
    BY BoundsAssumption DEF GiveUp, NoLoss
  <2>3. CASE TakeLock(p) \/ ReadBack(p) \/ WriteBack(p)
    BY <2>3 DEF TakeLock, ReadBack, WriteBack, NoLoss, losses
  <2>4. CASE Unlock(p)
    <3>1. \A q \in Procs : tries'[q] = 0
      BY <2>4 DEF Unlock, Resume, NoLoss, TypeInv, TypeOK
    <3> QED
      BY <2>4, <3>1 DEF Unlock, NoLoss, losses
  <2> QED
    BY <1>2, <2>1, <2>2, <2>3, <2>4 DEF Saving
<1>3. ASSUME NEW p \in Procs, Answer(p) \/ Resolve(p) PROVE NoLoss'
  BY <1>3 DEF Answer, Resolve, NoLoss, losses
<1>4. ASSUME NEW p \in Procs, NEW c \in Calls, PreToolUse(p, c) PROVE NoLoss'
  BY <1>4 DEF PreToolUse, NoLoss, losses
<1>5. ASSUME NEW p \in Procs, NEW t \in HookTools, PostToolUse(p, t) PROVE NoLoss'
  BY <1>5 DEF PostToolUse, NoLoss, losses
<1>6. ASSUME NEW p \in Procs, PreCompact(p) PROVE NoLoss'
  BY <1>6 DEF PreCompact, NoLoss
<1>7. ASSUME NEW p \in Procs, Crash(p) PROVE NoLoss'
  <2>1. \A q \in Procs : tries'[q] = 0
    BY <1>7 DEF Crash, Exit, NoLoss, TypeInv, TypeOK
  <2> QED
    BY <1>7, <2>1 DEF Crash, NoLoss
<1>8. CASE (\E f \in Files : EditFile(f)) \/ LockAges \/ UNCHANGED vars
  BY <1>8 DEF EditFile, LockAges, vars, losses, NoLoss
<1> QED
  BY <1>1, <1>2, <1>3, <1>4, <1>5, <1>6, <1>7, <1>8 DEF Next, Proceed, Ends

\* The exceptions of LoopBreaking and CompactionForgets are what they are called:
\* while saves succeed no refusal goes unrecorded, and if no hook is killed either
\* every compaction clears what the file says the agent has seen.
THEOREM NothingAbandoned ==
  ASSUME ~LocksGoStale, ~LocksMayWait, ~WritesMayFail
  PROVE  Spec => [](unsaved = {} /\ (uncleared => MayCrash))
<1>1. TypeInv /\ LockInv /\ [Next]_vars => LockInv'
  BY LockStep
<1>2. TypeInv /\ LockInv /\ NoLoss /\ [Next]_vars => NoLoss'
  BY NoLossStep
<1>3. NoLoss => unsaved = {} /\ (uncleared => MayCrash)
  BY DEF NoLoss
<1> QED
  BY InitTyped, StepTyped, LockInit, NoLossInit, <1>1, <1>2, <1>3, PTL DEF Spec

-----------------------------------------------------------------------------
(* Every hook runs out of steps.                                           *)

LEMMA MoreSteps ==
  ASSUME TypeInv, NEW p \in Procs
  PROVE  /\ SaveSteps \in Nat
         /\ hook[p].event = "pre" => hook[p].more \in Nat /\ hook[p].more * SaveSteps \in Nat
         /\ AfterThisSave(p) \in Nat
         /\ AfterThisSave(p) >= 1
         /\ hook[p].event = "pre" => AfterThisSave(p) >= 2
<1>1. SaveSteps \in Nat
  BY BoundsAssumption DEF SaveSteps
<1>2. ASSUME hook[p].event = "pre" PROVE hook[p].more \in Nat
  <2>1. hook[p] \in PreHooks
    BY <1>2, HookFields DEF TypeInv, TypeOK
  <2>2. hook[p].more \in 0..ExtraSaves
    BY <2>1 DEF PreHooks
  <2> QED BY <2>2, BoundsAssumption
<1>3. \A n \in Nat : n * SaveSteps \in Nat
  BY <1>1
<1> QED BY <1>1, <1>2, <1>3 DEF AfterThisSave

LEMMA SaveStepsLeft ==
  ASSUME TypeInv, NEW p \in Procs
  PROVE  /\ pc[p] = "lock" => InThisSave(p) \in Nat /\ InThisSave(p) >= 4
         /\ pc[p] = "breaking" => InThisSave(p) \in Nat /\ InThisSave(p) >= 5
         /\ InThisSave(p) \in Nat /\ InThisSave(p) >= 1
         /\ StepsLeft(p) \in Nat
<1>1. tries[p] \in 0..Attempts
  BY DEF TypeInv, TypeOK
<1>2. /\ pc[p] = "lock" => InThisSave(p) \in Nat /\ InThisSave(p) >= 4
      /\ pc[p] = "breaking" => InThisSave(p) \in Nat /\ InThisSave(p) >= 5
      /\ InThisSave(p) \in Nat /\ InThisSave(p) >= 1
  BY <1>1, BoundsAssumption DEF InThisSave
<1> QED BY <1>2, MoreSteps DEF StepsLeft

StepsNatural == \A p \in Procs : StepsLeft(p) \in Nat

LEMMA StepsAreNatural == TypeInv => StepsNatural
BY SaveStepsLeft DEF StepsNatural

LEMMA StepsStayNatural == TypeInv' => StepsNatural'
BY StepsAreNatural, PTL

\* A save that comes to its end leaves less to do than there was.
LEMMA ResumeSpends ==
  ASSUME TypeInv, NEW p \in Procs, pc[p] \in {"lock", "unlock"}, Resume(p)
  PROVE  StepsLeft(p)' < StepsLeft(p)
<1>1. /\ StepsLeft(p) = InThisSave(p) + AfterThisSave(p)
      /\ InThisSave(p) \in Nat /\ InThisSave(p) >= 1
      /\ AfterThisSave(p) \in Nat /\ AfterThisSave(p) >= 1
      /\ hook[p].event = "pre" => AfterThisSave(p) >= 2
  BY SaveStepsLeft, MoreSteps DEF StepsLeft
<1>2. tries'[p] = 0
  BY DEF Resume, TypeInv, TypeOK
<1>3. CASE hook[p].event = "pre" /\ hook[p].more > 0
  <2> DEFINE n == hook[p].more
  <2>1. n \in Nat /\ SaveSteps \in Nat /\ hook[p] \in PreHooks
    BY <1>3, MoreSteps, HookFields DEF TypeInv, TypeOK
  <2>2. pc'[p] = "lock" /\ hook'[p].event = "pre" /\ hook'[p].more = n - 1
    BY <1>3, <2>1 DEF Resume, GoTo, TypeInv, TypeOK, PreHooks
  <2>3. StepsLeft(p)' = SaveSteps + ((n - 1) * SaveSteps + 2)
    BY <1>2, <2>2, BoundsAssumption DEF StepsLeft, InThisSave, AfterThisSave, SaveSteps
  <2>4. AfterThisSave(p) = n * SaveSteps + 2
    BY <1>3 DEF AfterThisSave
  <2>5. \A s \in Nat : s + ((n - 1) * s + 2) = n * s + 2
    BY <2>1
  <2>6. n * SaveSteps \in Nat
    BY <2>1
  <2> HIDE DEF n
  <2>7. StepsLeft(p)' = n * SaveSteps + 2
    BY <2>1, <2>3, <2>5
  <2> QED BY <1>1, <2>4, <2>6, <2>7
<1>4. CASE ~(hook[p].event = "pre" /\ hook[p].more > 0)
  <2>1. pc'[p] = CASE hook[p].event = "pre" -> "answer"
                   [] hook[p].event = "observe" -> "resolve"
                   [] hook[p].event = "resolve" -> "credit"
                   [] OTHER -> "compacted"
    BY <1>4 DEF Resume, GoTo, TypeInv, TypeOK
  <2>2. CASE hook[p].event = "pre"
    <3>1. StepsLeft(p)' = 2
      BY <2>1, <2>2 DEF StepsLeft
    <3> QED BY <1>1, <2>2, <3>1
  <2>3. CASE hook[p].event = "observe"
    <3>1. StepsLeft(p)' = SaveSteps + 2
      BY <2>1, <2>3 DEF StepsLeft, SaveSteps
    <3>2. AfterThisSave(p) = SaveSteps + 2
      BY <2>3 DEF AfterThisSave
    <3> QED BY <1>1, <3>1, <3>2
  <2>4. CASE hook[p].event \notin {"pre", "observe"}
    <3>1. StepsLeft(p)' = 1
      BY <2>1, <2>4 DEF StepsLeft
    <3> QED BY <1>1, <3>1
  <2> QED BY <2>2, <2>3, <2>4
<1> QED BY <1>3, <1>4

LEMMA SavingSpends ==
  ASSUME TypeInv, NEW p \in Procs, Saving(p)
  PROVE  StepsLeft(p)' < StepsLeft(p)
<1>0. tries[p] \in 0..Attempts /\ AfterThisSave(p) \in Nat
  BY MoreSteps DEF TypeInv, TypeOK
<1>1. ASSUME GiveUp(p) \/ Unlock(p) PROVE StepsLeft(p)' < StepsLeft(p)
  BY <1>1, ResumeSpends DEF GiveUp, Unlock
<1>2. ASSUME hook' = hook PROVE AfterThisSave(p)' = AfterThisSave(p)
  BY <1>2 DEF AfterThisSave
<1>3. CASE TakeLock(p)
  BY <1>0, <1>2, <1>3, BoundsAssumption
  DEF TakeLock, GoTo, StepsLeft, InThisSave, TypeInv, TypeOK
<1>4. CASE AwaitLock(p) \/ FindStale(p)
  <2>1. /\ pc[p] = "lock" /\ tries'[p] = tries[p] + 1 /\ tries[p] < Attempts
        /\ hook' = hook /\ pc'[p] \in {"lock", "breaking"}
    BY <1>4 DEF AwaitLock, FindStale, GoTo, TypeInv, TypeOK
  <2>2. StepsLeft(p) = 2 * (Attempts - tries[p]) + 4 + AfterThisSave(p)
    BY <2>1 DEF StepsLeft, InThisSave
  <2>3. \/ StepsLeft(p)' = 2 * (Attempts - (tries[p] + 1)) + 4 + AfterThisSave(p)
        \/ StepsLeft(p)' = 2 * (Attempts - (tries[p] + 1)) + 5 + AfterThisSave(p)
    BY <1>2, <2>1 DEF StepsLeft, InThisSave
  <2> QED BY <1>0, <2>2, <2>3, BoundsAssumption
<1>6. CASE BreakLock(p)
  BY <1>0, <1>2, <1>6, BoundsAssumption
  DEF BreakLock, GoTo, StepsLeft, InThisSave, TypeInv, TypeOK
<1>7. CASE ReadBack(p)
  BY <1>0, <1>2, <1>7 DEF ReadBack, GoTo, StepsLeft, InThisSave, TypeInv, TypeOK
<1>8. CASE WriteBack(p) \/ WriteFails(p)
  BY <1>0, <1>2, <1>8 DEF WriteBack, WriteFails, GoTo, StepsLeft, InThisSave, TypeInv, TypeOK
<1> QED BY <1>1, <1>3, <1>4, <1>6, <1>7, <1>8 DEF Saving

LEMMA ProceedSpends ==
  ASSUME TypeInv, NEW p \in Procs, Proceed(p)
  PROVE  StepsLeft(p)' < StepsLeft(p)
<1>1. CASE Saving(p)
  BY <1>1, SavingSpends
<1>2. CASE Answer(p)
  BY <1>2 DEF Answer, GoTo, StepsLeft, TypeInv, TypeOK
<1>3. CASE Resolve(p)
  <2>1. pc[p] = "resolve" /\ pc'[p] = "lock" /\ hook'[p].event = "resolve" /\ tries' = tries
    BY <1>3 DEF Resolve, GoTo, TypeInv, TypeOK
  <2>2. StepsLeft(p) = SaveSteps + 2
    BY <2>1 DEF StepsLeft, SaveSteps
  <2>3. StepsLeft(p)' = 2 * (Attempts - tries[p]) + 4 + 1
    BY <2>1 DEF StepsLeft, InThisSave, AfterThisSave
  <2> QED BY <2>2, <2>3, BoundsAssumption DEF SaveSteps, TypeInv, TypeOK
<1>4. CASE Ends(p)
  <2>1. pc'[p] = "idle"
    BY <1>4, EndsExit DEF Exit, TypeInv, TypeOK
  <2>2. pc[p] \in {"answered", "resolve", "credit", "compacted"}
    BY <1>4 DEF Ends, RunTool, SkipTool, NothingToResolve, Credit, Compact
  <2>3. StepsLeft(p)' = 0
    BY <2>1 DEF StepsLeft
  <2>4. StepsLeft(p) >= 1
    BY <2>2, MoreSteps DEF StepsLeft
  <2> QED BY <2>3, <2>4, SaveStepsLeft
<1> QED BY <1>1, <1>2, <1>3, <1>4 DEF Proceed, Ends

LEMMA CrashSpends ==
  ASSUME TypeInv, NEW p \in Procs, Crash(p)
  PROVE  StepsLeft(p)' <= StepsLeft(p)
<1>1. pc[p] # "idle" /\ pc[p] \in Steps
  BY DEF Crash, TypeInv, TypeOK
<1>2. StepsLeft(p) >= 1
  BY <1>1, SaveStepsLeft, MoreSteps DEF StepsLeft
<1>3. pc'[p] \in {"idle", "answered", "compacted"}
  BY DEF Crash, Exit, GoTo, TypeInv, TypeOK
<1>4. StepsLeft(p)' \in {0, 1}
  BY <1>3 DEF StepsLeft
<1> QED BY <1>2, <1>4, SaveStepsLeft

LEMMA SpendsStep == TypeInv /\ [Next]_vars => SpendsSteps
<1> SUFFICES ASSUME TypeInv, [Next]_vars, NEW p \in Procs, pc[p] # "idle"
             PROVE  StepsLeft(p)' <= StepsLeft(p)
  BY ProceedSpends DEF SpendsSteps
<1>1. StepsLeft(p) \in Nat
  BY SaveStepsLeft
<1>2. ASSUME pc'[p] = pc[p], hook'[p] = hook[p], tries'[p] = tries[p]
      PROVE  StepsLeft(p)' <= StepsLeft(p)
  <2>1. StepsLeft(p)' = StepsLeft(p)
    BY <1>2 DEF StepsLeft, InThisSave, AfterThisSave
  <2> QED BY <1>1, <2>1
<1>3. ASSUME NEW q \in Procs, Proceed(q) PROVE StepsLeft(p)' <= StepsLeft(p)
  <2>1. CASE q = p
    <3>1. StepsLeft(p)' < StepsLeft(p)
      BY <1>3, <2>1, ProceedSpends
    <3>2. TypeInv'
      BY StepTyped
    <3>3. StepsLeft(p)' \in Nat
      BY <3>2, StepsStayNatural DEF StepsNatural
    <3> QED BY <1>1, <3>1, <3>3
  <2>2. CASE q # p
    <3>1. pc'[p] = pc[p] /\ hook'[p] = hook[p] /\ tries'[p] = tries[p]
      BY <1>3, <2>2, EndsExit
      DEF Proceed, Ends, Exit, Saving, TakeLock, AwaitLock, FindStale, BreakLock, GiveUp,
          ReadBack, WriteBack, WriteFails, Unlock, Resume, Answer, Resolve, GoTo,
          TypeInv, TypeOK
    <3> QED BY <1>2, <3>1
  <2> QED BY <2>1, <2>2
<1>4. ASSUME NEW q \in Procs, Crash(q) PROVE StepsLeft(p)' <= StepsLeft(p)
  <2>1. CASE q = p
    BY <1>4, <2>1, CrashSpends
  <2>2. CASE q # p
    <3>1. pc'[p] = pc[p] /\ hook'[p] = hook[p] /\ tries'[p] = tries[p]
      BY <1>4, <2>2 DEF Crash, Exit, GoTo, TypeInv, TypeOK
    <3> QED BY <1>2, <3>1
  <2> QED BY <2>1, <2>2
<1>5. ASSUME NEW q \in Procs, PreCompact(q) PROVE StepsLeft(p)' <= StepsLeft(p)
  BY <1>5 DEF PreCompact, Quiet
<1>6. ASSUME NEW q \in Procs, NEW c \in Calls, PreToolUse(q, c)
      PROVE  StepsLeft(p)' <= StepsLeft(p)
  <2>1. pc'[p] = pc[p] /\ hook'[p] = hook[p] /\ tries'[p] = tries[p]
    BY <1>6 DEF PreToolUse, GoTo, TypeInv, TypeOK
  <2> QED BY <1>2, <2>1
<1>7. ASSUME NEW q \in Procs, NEW t \in HookTools, PostToolUse(q, t)
      PROVE  StepsLeft(p)' <= StepsLeft(p)
  <2>1. pc'[p] = pc[p] /\ hook'[p] = hook[p] /\ tries'[p] = tries[p]
    BY <1>7 DEF PostToolUse, GoTo, TypeInv, TypeOK
  <2> QED BY <1>2, <2>1
<1>8. CASE (\E f \in Files : EditFile(f)) \/ LockAges \/ UNCHANGED vars
  BY <1>2, <1>8 DEF EditFile, LockAges, vars
<1> QED BY <1>3, <1>4, <1>5, <1>6, <1>7, <1>8 DEF Next

\* With any number of hooks, attempts and extra saves, with kills, stale locks and
\* failing saves: no hook takes more steps of its own than it had left when it
\* started.  This is the part of HooksAnswer that owes nothing to scheduling.
THEOREM HooksTakeBoundedSteps == Spec => HooksRunOut
<1>1. TypeInv /\ [Next]_vars => [SpendsSteps]_vars
  BY SpendsStep
<1> QED BY InitTyped, StepTyped, <1>1, PTL DEF Spec, HooksRunOut
=============================================================================
