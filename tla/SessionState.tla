---------------------------- MODULE SessionState ----------------------------
(***************************************************************************)
(* The value the optimizer's hooks keep per (session, agent) and the pure  *)
(* functions over it: the shape of the state file and how two copies of it *)
(* merge (optimizer/hooks/lib/policy.ts), the evidence that a replacement  *)
(* tool works (lib/capabilities.ts), the routing rules (lib/decide.ts) and *)
(* the enforcement of a verdict (policy.ts, optimizer/hooks/pretooluse.ts).*)
(* HookSession runs them as processes over one shared file.                *)
(*                                                                         *)
(* A built-in tool call is also its own loop-breaking key: every rule of   *)
(* decide.ts builds its key from the rule's kind and its target, so two    *)
(* calls share a key exactly when they are the same member of Calls.       *)
(***************************************************************************)
EXTENDS Naturals

CONSTANTS
  Files,        \* regular, non-binary, user-owned files above the refusal floor
  LargeFiles,   \* those of at least largeFileBytes()
  RuledFiles,   \* those a skip rule of rules.json covers
  Unhashable,   \* those remember() records without a hash (too big, unreadable)
  CodeFiles,    \* those the code compressor can shrink into a substitute
  Calls,        \* built-in tool calls the agent makes
  Guarded,      \* the calls an active user-corrected-repeat guard matches
  Mode          \* TOKEN_OPTIMIZER_MODE; "off" ends a hook before it reads state

ReadTool == "smart_read"
SearchTool == "smart_grep"
HookTools == {ReadTool, SearchTool}
NoTool == "no tool"

CallKinds == {"read", "range", "dump", "search", "shellsearch", "other"}

ASSUME CallsAssumption ==
  /\ \A c \in Calls : /\ c.kind \in CallKinds
                      /\ c.kind \in {"read", "range", "dump"} => c.target \in Files
  /\ Guarded \subseteq Calls
ASSUME ModeAssumption == Mode \in {"enforce", "advise"}

-----------------------------------------------------------------------------
(* The state file.  Of its twelve fields four decide what a hook answers;  *)
(* injected, actCounts, edits, editedFiles, harvestedEdits, forecast and   *)
(* recordingNudged only pace notes and are left out.                       *)

NoHash == 0
Unseen == [known |-> FALSE, hash |-> NoHash]
SeenEntries == [known : BOOLEAN, hash : Nat]

\* A parked redirect.  `id` stands for its timestamp, which tells redirects apart.
NoRedirect == [id |-> 0, measured |-> FALSE]
Redirects == [id : Nat, measured : BOOLEAN]

SessionStates == [seen : [Files -> SeenEntries],
                  pending : [HookTools -> Redirects],
                  denied : SUBSET Calls,
                  tools : SUBSET HookTools,
                  toolsAt : Nat]

EmptyState == [seen |-> [f \in Files |-> Unseen],
               pending |-> [t \in HookTools |-> NoRedirect],
               denied |-> {},
               tools |-> {},
               toolsAt |-> 0]

\* A slip in saveState: the newer observation is not looked for.
MineAlwaysWins(mine, theirs) == mine.toolsAt > 0

\* saveState: the copy in memory over the copy on disk, field by field.
MineWins(mine, theirs) == mine.toolsAt >= theirs.toolsAt /\ mine.toolsAt > 0

Merged(mine, theirs) ==
  [seen |-> [f \in Files |-> IF mine.seen[f].known THEN mine.seen[f] ELSE theirs.seen[f]],
   pending |-> mine.pending,
   denied |-> theirs.denied \cup mine.denied,
   tools |-> IF MineWins(mine, theirs) THEN mine.tools ELSE theirs.tools,
   toolsAt |-> IF MineWins(mine, theirs) THEN mine.toolsAt ELSE theirs.toolsAt]

\* A slip in clearSeen: going through the merge, which never shrinks `seen`.
ClearedByMerging(theirs) == Merged([theirs EXCEPT !.seen = [f \in Files |-> Unseen]], theirs)

\* clearSeen: the copy on disk without its `seen`.
Cleared(theirs) == [theirs EXCEPT !.seen = [f \in Files |-> Unseen]]

\* recordOptimizerToolObservation: one more tool is known to work.
Observed(st, t, now) == [st EXCEPT !.tools = @ \cup {t}, !.toolsAt = now]

\* resolvePendingRedirect: the parked redirect is consumed.
Consumed(st, t) == [st EXCEPT !.pending = [@ EXCEPT ![t] = NoRedirect]]

-----------------------------------------------------------------------------
(* The routing decision.                                                   *)

Proven(st) == st.tools # {}

\* A slip in optimizerToolsForHook: every registered tool counts as callable.
NamesAllRegistered(st) == HookTools

\* optimizerToolsForHook with TOKEN_OPTIMIZER_MCP_CAPABILITIES unset: an
\* unproven session may name every tool, a proven one those it has observed.
Names(st) == IF Proven(st) THEN st.tools ELSE HookTools

Rules == {"allow", "redirect", "suppress", "refuse", "veto"}
Verdicts == [rule : Rules, tool : HookTools \cup {NoTool}, measured : BOOLEAN]

Plain(r) == [rule |-> r, tool |-> NoTool, measured |-> FALSE]
Redirect(t, m) == [rule |-> "redirect", tool |-> t, measured |-> m]

\* `recent` says that the repeat window has not elapsed.
UnchangedSinceSeen(entry, hash, recent) ==
  /\ entry.hash # NoHash
  /\ recent
  /\ hash = entry.hash

Suppresses(c, st, hash, recent) ==
  /\ c.kind = "read"
  /\ c.target \notin RuledFiles
  /\ st.seen[c.target].known
  /\ ReadTool \in Names(st)
  /\ UnchangedSinceSeen(st.seen[c.target], hash, recent)

RedirectsRead(c, st) ==
  /\ ReadTool \in Names(st)
  /\ \/ c.kind = "read" /\ (c.target \in RuledFiles \cup LargeFiles \/ st.seen[c.target].known)
     \/ c.kind = "dump" /\ c.target \in LargeFiles

RedirectsSearch(c, st) == c.kind = "search" /\ SearchTool \in Names(st)

Refuses(c, st) == c.kind = "shellsearch" /\ SearchTool \in Names(st)

\* evaluateUcrGuards first, then decide().
Decide(c, st, hash, recent) ==
  CASE c \in Guarded -> Plain("veto")
    [] c \notin Guarded /\ Suppresses(c, st, hash, recent) -> Plain("suppress")
    [] c \notin Guarded /\ ~Suppresses(c, st, hash, recent) /\ RedirectsRead(c, st) ->
         Redirect(ReadTool, TRUE)
    [] c \notin Guarded /\ RedirectsSearch(c, st) -> Redirect(SearchTool, FALSE)
    [] c \notin Guarded /\ Refuses(c, st) -> Plain("refuse")
    [] OTHER -> Plain("allow")

\* alreadyDenied: a guard's veto is persistent and never counts as a repeat.
Repeats(c, verdict, st) == verdict.rule \notin {"allow", "veto"} /\ c \in st.denied

\* A slip in remember: the entry shape of the version before hashes.
RememberBareTrue(c, hash, st) ==
  IF c.kind \in {"read", "range"}
  THEN [st EXCEPT !.seen = [@ EXCEPT ![c.target] = [known |-> TRUE]]]
  ELSE st

\* remember: every Read, a ranged one too, records the hash of the whole file.
Remember(c, hash, st) ==
  IF c.kind \in {"read", "range"}
  THEN [st EXCEPT !.seen = [@ EXCEPT ![c.target] =
          [known |-> TRUE, hash |-> IF c.target \in Unhashable THEN NoHash ELSE hash]]]
  ELSE st

\* A slip in decidePreToolUse: the denial is noted after the save, so never saved.
DeliberatedUnrecorded(c, verdict, id, hash, st) ==
  [Remember(c, hash, st) EXCEPT
     !.pending = IF verdict.rule = "redirect"
                 THEN [@ EXCEPT ![verdict.tool] = [id |-> id, measured |-> verdict.measured]]
                 ELSE @]

\* What decidePreToolUse leaves in memory before it saves.
Deliberated(c, verdict, id, hash, st) ==
  LET read == Remember(c, hash, st)
  IN [read EXCEPT
        !.denied = IF verdict.rule \in {"allow", "veto"} THEN @ ELSE @ \cup {c},
        !.pending = IF verdict.rule = "redirect"
                    THEN [@ EXCEPT ![verdict.tool] = [id |-> id, measured |-> verdict.measured]]
                    ELSE @]

\* enforceVerdict: off is excluded, advise and a repeat never block.
EnforceVerdict(mode, repeat, substitute) ==
  IF mode = "advise" \/ repeat THEN "context"
  ELSE IF substitute THEN "substitute" ELSE "deny"

\* Nothing is denied toward a tool nothing has seen work, unless the denial
\* carries the compressed file itself.
EffectiveMode(proven, substitute) == IF proven \/ substitute THEN Mode ELSE "advise"

Decision(verdict, repeat, proven, substitute) ==
  IF verdict.rule = "allow" THEN "allow"
  ELSE EnforceVerdict(EffectiveMode(proven, substitute), repeat, substitute)

\* The ledger rows the deny path appends before it answers.
SavingsRows(verdict, repeat, substitute) ==
  {r \in {"code-substitute", "read-suppressed"} :
     \/ r = "code-substitute" /\ substitute
     \/ r = "read-suppressed" /\ verdict.rule = "suppress" /\ ~repeat /\ Mode = "enforce"}
=============================================================================
