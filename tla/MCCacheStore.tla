---------------------------- MODULE MCCacheStore ----------------------------
(***************************************************************************)
(* Instances of CacheStore for TLC.                                        *)
(***************************************************************************)
EXTENDS CacheStore, TLC

CONSTANTS v1, v2, r1, e1, e2

Symmetry == Permutations(Videos) \cup Permutations(Enforcers)
=============================================================================
