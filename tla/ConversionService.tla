-------------------------- MODULE ConversionService --------------------------
(***************************************************************************)
(* What the callers of the converter may rely on, without flights, locks   *)
(* or a cache: a video is converted by one run at a time, every request is *)
(* answered once, a track is delivered only after a run produced it and    *)
(* only to a request whose limit it keeps or as a shared copy without a    *)
(* duration, and every successful run is charged, as "fresh", to one       *)
(* request for its video.                                                  *)
(* Converter.tla is shown to implement it.                                 *)
(***************************************************************************)
EXTENDS Naturals

CONSTANTS Requests, Videos,
          Length  \* [Videos -> Nat \ {0}]

VARIABLES req,      \* [Requests -> [video, maxDur]]
          running,  \* videos being converted
          produced, \* videos some run has converted
          unpaid,   \* [Videos -> Nat], successful runs not charged yet
          answer    \* [Requests -> [code, dur, fresh]]

vars == <<req, running, produced, unpaid, answer>>

Init ==
  /\ running = {} /\ produced = {}
  /\ unpaid = [v \in Videos |-> 0]
  /\ \A r \in Requests : answer[r].code = "none"

Begin(v) ==
  /\ v \notin running
  /\ running' = running \cup {v}
  /\ UNCHANGED <<req, produced, unpaid, answer>>

Produce(v) ==
  /\ v \in running
  /\ produced' = produced \cup {v}
  /\ unpaid' = [unpaid EXCEPT ![v] = @ + 1]
  /\ UNCHANGED <<req, running, answer>>

End(v) ==
  /\ v \in running
  /\ running' = running \ {v}
  /\ UNCHANGED <<req, produced, unpaid, answer>>

Fits(v, m) == m > 0 => Length[v] <= m

Answer(r) ==
  LET v == req[r].video
      a == answer'[r]
  IN
  /\ answer[r].code = "none"
  /\ a.code # "none"
  /\ a.code = "ok" =>
       /\ v \in produced
       /\ a.dur \in {0, Length[v]}
       /\ Fits(v, req[r].maxDur) \/ (a.dur = 0 /\ ~a.fresh)
  /\ a.fresh => a.code = "ok" /\ unpaid[v] > 0
  /\ unpaid' = IF a.fresh THEN [unpaid EXCEPT ![v] = @ - 1] ELSE unpaid
  /\ answer' = [answer EXCEPT ![r] = a]
  /\ UNCHANGED <<req, running, produced>>

Next ==
  \/ \E v \in Videos : Begin(v) \/ Produce(v) \/ End(v)
  \/ \E r \in Requests : Answer(r)

Spec == Init /\ [][Next]_vars
=============================================================================
