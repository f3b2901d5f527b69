---------------------------- MODULE MCHomeFiles -----------------------------
(* Values of HomeFiles' constants for TLC. *)
EXTENDS HomeFiles, TLC
CONSTANTS r1, r2, h1, h2
RunSymmetry == Permutations(Runs)
=============================================================================
