---------------------------- MODULE MCWorkerPool ----------------------------
(***************************************************************************)
(* Instances of WorkerPool for TLC.                                        *)
(***************************************************************************)
EXTENDS WorkerPool

CONSTANTS v1, v2, v3

\* A short track, a long one, and a live stream without a duration.
Durations == [v \in Videos |-> IF v = v1 THEN 1 ELSE IF v = v2 THEN 2 ELSE 0]
=============================================================================
