----------------------------- MODULE LossyStore -----------------------------
(***************************************************************************)
(* What a tool may rely on when it uses the cache (optimizer/core/         *)
(* cache-engine.ts): a key-value store that may forget keys and may refuse *)
(* an operation, but never answers with anything but the value stored last *)
(* under the key.                                                          *)
(***************************************************************************)
CONSTANTS Keys, Values, Missing

VARIABLES
  store,   \* the value under each key
  answer   \* what the latest operation returned

vars == <<store, answer>>

Hit(k, v) == [op |-> "hit", key |-> k, value |-> v]
Miss(k) == [op |-> "miss", key |-> k]
Deleted == [op |-> "deleted"]
Absent == [op |-> "absent"]
Done == [op |-> "done"]
Failed == [op |-> "failed"]

Answers == {Hit(k, v) : k \in Keys, v \in Values} \cup {Miss(k) : k \in Keys}
             \cup {Deleted, Absent, Done, Failed}

Empty == [k \in Keys |-> Missing]

TypeOK == store \in [Keys -> Values \cup {Missing}] /\ answer \in Answers

Init == store = Empty /\ answer = Done

Lookup(k) ==
  /\ answer' = IF store[k] = Missing THEN Miss(k) ELSE Hit(k, store[k])
  /\ UNCHANGED store

Put(k, v) ==
  /\ store' = [store EXCEPT ![k] = v]
  /\ answer' = Done

Remove(k) ==
  /\ store' = [store EXCEPT ![k] = Missing]
  /\ answer' = IF store[k] = Missing THEN Absent ELSE Deleted

\* An eviction, a clear, or a process that had nowhere to persist and ended.
Forget(S) ==
  /\ store' = [k \in Keys |-> IF k \in S THEN Missing ELSE store[k]]
  /\ answer' = Done

Fail == answer' = Failed /\ UNCHANGED store

Next ==
  \/ \E k \in Keys : Lookup(k) \/ Remove(k) \/ \E v \in Values : Put(k, v)
  \/ \E S \in SUBSET Keys : Forget(S)
  \/ Fail

Spec == Init /\ [][Next]_vars
=============================================================================
