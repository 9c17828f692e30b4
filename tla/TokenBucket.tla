---------------------------- MODULE TokenBucket ----------------------------
(***************************************************************************)
(* What a limiterSet promises: one bucket per key that is always there,    *)
(* holds Max[k] requests when full and refills Max[k] requests per window. *)
(* Levels are counted in shares: a request costs Window of them, a tick    *)
(* brings Max[k].  A request decided on a clock reading of up to Late      *)
(* ticks ago may cost that much refill less.  RateLimiter.tla is shown to  *)
(* implement it.                                                           *)
(***************************************************************************)
EXTENDS Naturals

CONSTANTS Keys,   \* the keys requests are counted under
          Max,    \* [Keys -> Nat], requests per window, which is also the burst
          Window, \* ticks in a window
          Late    \* the most ticks from reading the clock to using the reading

VARIABLES level, \* [Keys -> Nat], shares left
          boot   \* another one with each start of the process

vars == <<level, boot>>

Cap(k) == Max[k] * Window

Capped(k, n) == IF n > Cap(k) THEN Cap(k) ELSE n

Init == level = [k \in Keys |-> Cap(k)] /\ boot = FALSE

Refill ==
  /\ level' = [k \in Keys |-> Capped(k, level[k] + Max[k])]
  /\ UNCHANGED boot

Take(k) ==
  /\ level[k] >= Window
  /\ \E l \in level[k] - Window .. Capped(k, level[k] - Window + Max[k] * Late) :
       level' = [level EXCEPT ![k] = l]
  /\ UNCHANGED boot

Restart ==
  /\ level' = [k \in Keys |-> Cap(k)]
  /\ boot' = ~boot

Next == Refill \/ Restart \/ \E k \in Keys : Take(k)

Spec == Init /\ [][Next]_vars
=============================================================================
