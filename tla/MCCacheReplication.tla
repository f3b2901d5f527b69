------------------------- MODULE MCCacheReplication -------------------------
(* Values of CacheReplication's constants for TLC. *)
EXTENDS CacheReplication

CONSTANTS p, r, k1, k2, text, other

MCFields == {"f"}
Clock(a, b) == [n \in Nodes |-> IF n = p THEN a ELSE b]

\* Two texts and a delete of one key, concurrent or with clocks against their
\* timestamps, and an object of another.
MCIncoming ==
  {[key |-> k1, op |-> "set", value |-> text, at |-> 3, clock |-> Clock(0, 1)],
   [key |-> k1, op |-> "set", value |-> other, at |-> 1, clock |-> Clock(1, 0)],
   [key |-> k1, op |-> "delete", value |-> None, at |-> 2, clock |-> Clock(0, 2)],
   [key |-> k2, op |-> "set", value |-> [f \in MCFields |-> 1], at |-> 2, clock |-> Clock(1, 0)]}
=============================================================================
