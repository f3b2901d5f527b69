----------------------------- MODULE AtomicState ----------------------------
(***************************************************************************)
(* What the lock, the second read and the rename in saveState and          *)
(* clearSeen (optimizer/hooks/lib/policy.ts) are for: a session state that *)
(* any number of hooks change one at a time.  A hook takes a copy of the   *)
(* state as it is, altered by what the hook is about, and at some later    *)
(* moment merges that copy, in one step, into the state as it is then.     *)
(* There is no lock here, and nothing between reading and writing.         *)
(***************************************************************************)
EXTENDS SessionState

CONSTANTS
  Procs,        \* hook processes
  MaxVersion, MaxParks, MaxClock   \* bounds of HookSession

VARIABLES
  file,    \* the session state
  copy     \* what each hook will merge into it

vars == <<file, copy>>

Init ==
  /\ file = EmptyState
  /\ copy = [p \in Procs |-> EmptyState]

\* Steps that change nothing are stutters and need no action: each step below
\* changes one copy, or the state.
Changes(p) ==
  /\ copy'[p] # copy[p]
  /\ copy' = [copy EXCEPT ![p] = copy'[p]]
  /\ UNCHANGED file

\* The copy is what decidePreToolUse makes of the state before it saves.
Deliberates(p) ==
  /\ Changes(p)
  /\ \E c \in Calls, hash \in 0..MaxVersion, recent \in BOOLEAN, id \in 1..MaxParks + 1 :
       copy'[p] = Deliberated(c, Decide(c, file, hash, recent), id, hash, file)

\* The copy is what the PostToolUse hook makes of it, in one of its two turns.
Reports(p) ==
  /\ Changes(p)
  /\ \/ copy'[p] = file
     \/ \E t \in HookTools, now \in 1..MaxClock : copy'[p] = Observed(file, t, now)
     \/ \E t \in HookTools : copy'[p] = Consumed(file, t)

\* A hook ends, whether it has saved or not.
Drops(p) ==
  /\ Changes(p)
  /\ copy'[p] = EmptyState

Writes ==
  /\ file' # file
  /\ UNCHANGED copy

\* saveState.
Saves(p) ==
  /\ Writes
  /\ file' = Merged(copy[p], file)

\* clearSeen.
Clears ==
  /\ Writes
  /\ file' = Cleared(file)

Next ==
  \/ \E p \in Procs : Drops(p) \/ Reports(p) \/ Deliberates(p) \/ Saves(p)
  \/ Clears

Spec == Init /\ [][Next]_vars
=============================================================================
