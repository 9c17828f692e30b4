---------------------------- MODULE MCDailyLimit ----------------------------
(***************************************************************************)
(* Instances of DailyLimit for TLC.                                        *)
(***************************************************************************)
EXTENDS DailyLimit, TLC

CONSTANTS s1, s2, s3

OnePerDay == [p \in Players |-> 1]
TwoPerDay == [p \in Players |-> 2]
Symmetry == Permutations(Slots)
=============================================================================
