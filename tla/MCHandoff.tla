----------------------------- MODULE MCHandoff ------------------------------
(* Sessions can be exchanged for one another.                              *)
EXTENDS Handoff, TLC

SessionSymmetry == Permutations(Sessions)
=============================================================================
