--------------------------- MODULE MCRateLimiter ---------------------------
(***************************************************************************)
(* Instance of RateLimiter for TLC.                                        *)
(***************************************************************************)
EXTENDS RateLimiter

CONSTANTS r1, r2, k1

\* Two requests in three ticks: a call that is late by one tick matters.
Maxima == [k \in Keys |-> 2]
=============================================================================
