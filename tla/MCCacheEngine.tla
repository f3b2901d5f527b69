--------------------------- MODULE MCCacheEngine ----------------------------
(* Values of CacheEngine's constants for TLC. *)
EXTENDS CacheEngine, TLC
CONSTANTS small, big, e1
TwoSizes == (small :> 1) @@ (big :> 2)
=============================================================================
