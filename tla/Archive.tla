------------------------------- MODULE Archive ------------------------------
(***************************************************************************)
(* What a project's checkpoint directory promises those who restore from   *)
(* it (handoff/checkpoint.ts): an archive in which every checkpoint turns  *)
(* up whole, once, and which it leaves for good only when `keep` others    *)
(* that are no older have been finished.  There are no listings here, no   *)
(* half-written files and nobody who is killed.                            *)
(***************************************************************************)
EXTENDS Naturals, FiniteSets

CONSTANTS
  Checkpoints,  \* records with the time `at` which they were taken
  Keep          \* handoff.keep; 0 removes nothing

VARIABLES
  whole,     \* the checkpoints that can be restored
  finished   \* those that ever could

vars == <<whole, finished>>

Init == whole = {} /\ finished = {}

\* createCheckpoint.
Finish(c) ==
  /\ c \notin finished
  /\ finished' = finished \cup {c}
  /\ whole' = whole \cup {c}

NotOlder(c) == {d \in finished \ {c} : d.at >= c.at}

\* pruneCheckpoints.
Retire(c) ==
  /\ c \in whole
  /\ Keep > 0
  /\ Cardinality(NotOlder(c)) >= Keep
  /\ whole' = whole \ {c}
  /\ UNCHANGED finished

Next == \E c \in Checkpoints : Finish(c) \/ Retire(c)

Spec == Init /\ [][Next]_vars
=============================================================================
