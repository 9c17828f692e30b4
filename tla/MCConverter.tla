---------------------------- MODULE MCConverter ----------------------------
(***************************************************************************)
(* Instances of Converter for TLC.                                         *)
(***************************************************************************)
EXTENDS Converter

CONSTANTS v1, v2, v3, r1, r2, r3

Ask(v, m) == [video |-> v, maxDur |-> m]

\* v1 is within the limits 3 and 0 and over the limit 1; v2 may be of unknown length,
\* v3 a live stream.
Lengths == [v \in Videos |-> 3]
ThreeVideos == {Ask(v1, 0), Ask(v1, 1), Ask(v1, 3), Ask(v2, 1), Ask(v3, 0)}
OneVideo == {Ask(v1, 0), Ask(v1, 1), Ask(v1, 3)}
=============================================================================
