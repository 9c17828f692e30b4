---------------------------- MODULE BoundedPool ----------------------------
(***************************************************************************)
(* What the conversion worker pool promises its callers: at most           *)
(* MaxConcurrent jobs run, at most MaxWaiting jobs wait (0: no bound), a   *)
(* job waits before it runs, and a job that waits or runs may be dropped   *)
(* only by leaving or by a restart of the process.  WorkerPool.tla is      *)
(* shown to implement it.                                                  *)
(***************************************************************************)
EXTENDS Naturals, FiniteSets

CONSTANTS Jobs,          \* the jobs that may be submitted
          MaxConcurrent, \* slots of the pool
          MaxWaiting     \* bound on the waiting jobs, 0 for none

VARIABLES waiting, \* jobs admitted and waiting for a slot
          running  \* jobs holding a slot

vars == <<waiting, running>>

Init == waiting = {} /\ running = {}

Admit(j) ==
  /\ j \notin waiting \cup running
  /\ MaxWaiting = 0 \/ Cardinality(waiting) < MaxWaiting
  /\ waiting' = waiting \cup {j}
  /\ UNCHANGED running

Start(j) ==
  /\ j \in waiting
  /\ Cardinality(running) < MaxConcurrent
  /\ waiting' = waiting \ {j}
  /\ running' = running \cup {j}

Withdraw(j) ==
  /\ j \in waiting
  /\ waiting' = waiting \ {j}
  /\ UNCHANGED running

Finish(j) ==
  /\ j \in running
  /\ running' = running \ {j}
  /\ UNCHANGED waiting

Restart == waiting' = {} /\ running' = {}

Next == Restart \/ \E j \in Jobs : Admit(j) \/ Start(j) \/ Withdraw(j) \/ Finish(j)

Spec == Init /\ [][Next]_vars
=============================================================================
