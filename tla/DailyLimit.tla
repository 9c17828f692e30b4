------------------------------ MODULE DailyLimit ------------------------------
(***************************************************************************)
(* The daily conversion limit: doConvert and finish of                     *)
(* internal/server/convert.go around ensure, with the per-player counter   *)
(* of conversions in flight (reserve, release) and the history rows of     *)
(* internal/store that conversions are counted by.                         *)
(*                                                                         *)
(* What ensure does is Converter.tla's matter; here it comes back with a   *)
(* fresh conversion, with one somebody else paid for, or with an error.    *)
(***************************************************************************)
EXTENDS Integers, Sequences, FiniteSets

CONSTANTS Slots,   \* requests that may be open at the same time
          Players, \* steam ids
          NoID,    \* the steam id of a request without one
          Videos,
          Limit,   \* [Players -> Nat], dailyConversions of the player's rank, 0 for none
          Faulty,  \* the database may fail
          MaxRows  \* bound of the model on the rows of the history

ASSUME LimitAssumption ==
  /\ IsFiniteSet(Slots)
  /\ Limit \in [Players -> Nat]
  /\ Faulty \in BOOLEAN
  /\ MaxRows \in Nat

VARIABLES pc,       \* where each request is in doConvert
          player,   \* its steam id
          video,    \* its video
          gone,     \* its client has disconnected: the request context is cancelled
          n,        \* the rows it counted
          fresh,    \* what ensure returned as fresh
          inflight, \* converter.inflight
          history,  \* the rows of table history, in the order of created_at
          day,      \* rows up to this one are older than a day
          minute    \* rows up to this one are older than 60 seconds

vars == <<pc, player, video, gone, n, fresh, inflight, history, day, minute>>
request == <<player, video, gone>>
table == <<history, day, minute>>

Steps == {"idle", "lookup", "count", "check", "reserve", "ensure", "release", "fail", "finish"}
Rows == [steamid : Players, video : Videos, cached : BOOLEAN]

TypeOK ==
  /\ pc \in [Slots -> Steps]
  /\ player \in [Slots -> Players] /\ video \in [Slots -> Videos]
  /\ gone \in [Slots -> BOOLEAN]
  /\ n \in [Slots -> Nat]
  /\ fresh \in [Slots -> BOOLEAN]
  /\ inflight \in [Players -> Nat]
  /\ history \in Seq(Rows)
  /\ day \in Nat /\ minute \in Nat /\ day <= minute /\ minute <= Len(history)

Init ==
  /\ pc = [r \in Slots |-> "idle"]
  /\ player \in [Slots -> Players] /\ video \in [Slots -> Videos]
  /\ gone = [r \in Slots |-> FALSE]
  /\ n = [r \in Slots |-> 0]
  /\ fresh = [r \in Slots |-> FALSE]
  /\ inflight = [p \in Players |-> 0]
  /\ history = <<>> /\ day = 0 /\ minute = 0

Goto(r, step) == pc' = [pc EXCEPT ![r] = step]

\* DailyConversions: the player's rows of the last day that are not cached.
Charged(p) == {i \in day + 1 .. Len(history) : history[i].steamid = p /\ ~history[i].cached}
DailyConversions(p) == Cardinality(Charged(p))

\* A row of the same player and video that is younger than 60 seconds.
PlayedJustNow(p, v) ==
  \E i \in minute + 1 .. Len(history) : history[i].steamid = p /\ history[i].video = v

Limited(p) == p # NoID /\ Limit[p] > 0

\* The request is answered and its handler returns.
Return(r) ==
  /\ Goto(r, "idle")
  /\ n' = [n EXCEPT ![r] = 0]
  /\ fresh' = [fresh EXCEPT ![r] = FALSE]
  /\ gone' = [gone EXCEPT ![r] = FALSE]
  /\ UNCHANGED <<player, video>>

(***************************************************************************)
(* doConvert                                                               *)
(***************************************************************************)

\* A request that is well-formed, not blocked and resolved to a video.
Arrive(r, p, v) ==
  /\ pc[r] = "idle"
  /\ Len(history) < MaxRows
  /\ Goto(r, "lookup")
  /\ player' = [player EXCEPT ![r] = p]
  /\ video' = [video EXCEPT ![r] = v]
  /\ UNCHANGED <<gone, n, fresh, inflight, table>>

Disconnect(r) ==
  /\ pc[r] # "idle"
  /\ ~gone[r]
  /\ gone' = [gone EXCEPT ![r] = TRUE]
  /\ UNCHANGED <<pc, player, video, n, fresh, inflight, table>>

\* The fast path: a cached track within the length limit costs nothing.
LookupHit(r) ==
  /\ pc[r] = "lookup"
  /\ Goto(r, "finish")
  /\ UNCHANGED <<request, n, fresh, inflight, table>>

LookupMiss(r) ==
  /\ pc[r] = "lookup"
  /\ Goto(r, IF Limited(player[r]) THEN "count" ELSE "reserve")
  /\ UNCHANGED <<request, n, fresh, inflight, table>>

\* The cached track is too long, or the rate limit is reached.
Refuse(r) ==
  /\ pc[r] = "lookup"
  /\ Return(r)
  /\ UNCHANGED <<inflight, table>>

Count(r) ==
  /\ pc[r] = "count"
  /\ ~gone[r]
  /\ n' = [n EXCEPT ![r] = DailyConversions(player[r])]
  /\ Goto(r, "check")
  /\ UNCHANGED <<request, fresh, inflight, table>>

\* A query under a cancelled context is an error, too.
CountFails(r) ==
  /\ pc[r] = "count"
  /\ Faulty \/ gone[r]
  /\ Return(r)
  /\ UNCHANGED <<inflight, table>>

\* Mutant: > for >=.
ReachedOffByOne(r) == n[r] + inflight[player[r]] > Limit[player[r]]

Reached(r) == n[r] + inflight[player[r]] >= Limit[player[r]]

\* inflightFor, some time after the rows were counted.
Check(r) ==
  /\ pc[r] = "check"
  /\ ~Reached(r)
  /\ Goto(r, "reserve")
  /\ UNCHANGED <<request, n, fresh, inflight, table>>

DailyLimitReached(r) ==
  /\ pc[r] = "check"
  /\ Reached(r)
  /\ Return(r)
  /\ UNCHANGED <<inflight, table>>

Reserve(r) ==
  /\ pc[r] = "reserve"
  /\ inflight' = IF player[r] = NoID THEN inflight ELSE [inflight EXCEPT ![player[r]] = @ + 1]
  /\ Goto(r, "ensure")
  /\ UNCHANGED <<request, n, fresh, table>>

(***************************************************************************)
(* ensure, release and finish                                              *)
(***************************************************************************)

EnsureReturns(r, own) ==
  /\ pc[r] = "ensure"
  /\ fresh' = [fresh EXCEPT ![r] = own]
  /\ Goto(r, "release")
  /\ UNCHANGED <<request, n, inflight, table>>

EnsureFails(r) ==
  /\ pc[r] = "ensure"
  /\ Goto(r, "fail")
  /\ UNCHANGED <<request, n, fresh, inflight, table>>

\* Mutant: neither the early return for an empty steam id nor the floor.
ReleasedPlain(p) == [inflight EXCEPT ![p] = @ - 1]

\* The map forgets a player with nothing in flight.
Released(p) ==
  IF p = NoID THEN inflight
  ELSE [inflight EXCEPT ![p] = IF @ <= 1 THEN 0 ELSE @ - 1]

Release(r) ==
  /\ pc[r] = "release"
  /\ inflight' = Released(player[r])
  /\ Goto(r, "finish")
  /\ UNCHANGED <<request, n, fresh, table>>

\* Mutant: release is reached on success only.
ReleaseFailedSkipped(r) ==
  /\ pc[r] = "fail"
  /\ Return(r)
  /\ UNCHANGED <<inflight, table>>

\* release, then the error of ensure.
ReleaseFailed(r) ==
  /\ pc[r] = "fail"
  /\ inflight' = Released(player[r])
  /\ Return(r)
  /\ UNCHANGED table

\* AddHistory: one row, unless the player has played the video just now.
Record(r) ==
  /\ pc[r] = "finish"
  /\ ~gone[r]
  /\ history' = IF PlayedJustNow(player[r], video[r]) THEN history
                ELSE Append(history, [steamid |-> player[r], video |-> video[r], cached |-> ~fresh[r]])
  /\ Return(r)
  /\ UNCHANGED <<inflight, day, minute>>

\* An error is logged and the answer sent all the same.
RecordFails(r) ==
  /\ pc[r] = "finish"
  /\ Faulty \/ gone[r]
  /\ Return(r)
  /\ UNCHANGED <<inflight, table>>

(***************************************************************************)
(* Time, and a crash                                                       *)
(***************************************************************************)

MinutePasses ==
  /\ minute < Len(history)
  /\ minute' = minute + 1
  /\ UNCHANGED <<pc, request, n, fresh, inflight, history, day>>

DayPasses ==
  /\ day < minute
  /\ day' = day + 1
  /\ UNCHANGED <<pc, request, n, fresh, inflight, history, minute>>

Crash ==
  /\ pc' = [r \in Slots |-> "idle"]
  /\ n' = [r \in Slots |-> 0]
  /\ fresh' = [r \in Slots |-> FALSE]
  /\ gone' = [r \in Slots |-> FALSE]
  /\ inflight' = [p \in Players |-> 0]
  /\ UNCHANGED <<player, video, table>>

Handle(r) ==
  \/ LookupHit(r) \/ LookupMiss(r) \/ Refuse(r)
  \/ Count(r) \/ CountFails(r) \/ Check(r) \/ DailyLimitReached(r) \/ Reserve(r)
  \/ EnsureFails(r) \/ \E own \in BOOLEAN : EnsureReturns(r, own)
  \/ Release(r) \/ ReleaseFailed(r) \/ Record(r) \/ RecordFails(r)

Next ==
  \/ \E r \in Slots :
       \/ \E p \in Players, v \in Videos : Arrive(r, p, v)
       \/ Disconnect(r)
       \/ Handle(r)
  \/ MinutePasses \/ DayPasses \/ Crash

Spec == Init /\ [][Next]_vars

(***************************************************************************)
(* Properties                                                              *)
(***************************************************************************)

InFlight(p) == {r \in Slots : player[r] = p /\ pc[r] \in {"ensure", "release", "fail"}}

\* converter.inflight counts exactly the player's requests between reserve and
\* release: a leaked count would use up the player's day until a restart, and
\* release's "<= 1" would hide one too many.
InflightExact == \A p \in Players \ {NoID} : inflight[p] = Cardinality(InFlight(p))

\* Requests that passed the check, or will, and may still add a row of their own.
Pending(p) ==
  {r \in Slots : /\ player[r] = p
                 /\ \/ pc[r] = "check" /\ n[r] < Limit[p]
                    \/ pc[r] \in {"reserve", "ensure"}
                    \/ pc[r] \in {"release", "finish"} /\ fresh[r]}

\* However the count, the check, the reservation and the insert of a player's
\* requests interleave, the rows he is charged for exceed his limit by no more
\* than the requests that were open together, less one: requests one after the
\* other never exceed it.
OvershootBounded ==
  \A p \in Players : Limited(p) =>
    DailyConversions(p) + Cardinality(Pending(p)) <= Limit[p] - 1 + Cardinality(Slots)

\* convert.go:259-260: concurrent requests cannot slip past the daily limit.
DailyLimitKept == \A p \in Players : Limited(p) => DailyConversions(p) <= Limit[p]
=============================================================================
