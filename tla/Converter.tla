------------------------------ MODULE Converter ------------------------------
(***************************************************************************)
(* converter.ensure and converter.run of internal/server/convert.go: many  *)
(* requests for the same videos, one flight per video that the first one   *)
(* leads and the others wait for, the cache index they look into first,    *)
(* and a duration limit of each request's own.                             *)
(*                                                                         *)
(* A row of the cache index and its file come and go together here;        *)
(* CacheStore.tla takes them apart.  A flight is named by the request that *)
(* leads it.                                                               *)
(***************************************************************************)
EXTENDS Integers, FiniteSets

CONSTANTS Requests, \* calls of ensure, each made once
          Videos,
          Asks,     \* what callers ask for: a video, and their limit, 0 for none
          Length,   \* [Videos -> Nat \ {0}], how long a video really is
          Known,    \* the videos whose duration yt-dlp knows
          Live,     \* the videos that are live streams
          NoFlight  \* stands for a missing entry of the flights map

ASSUME ConverterAssumption ==
  /\ Asks \subseteq [video : Videos, maxDur : Nat]
  /\ Length \in [Videos -> Nat \ {0}]
  /\ Known \subseteq Videos
  /\ Live \subseteq Videos
  /\ NoFlight \notin Requests

Miss == -1

VARIABLES req,     \* what each request asks for: constant during a behaviour
          pc,      \* where each request is in ensure
          attempt, \* its loop counter
          follows, \* the flight it waits for
          flights, \* converter.flights
          closed,  \* the flights whose done channel is closed
          flight,  \* f.res and f.err of the flight a request leads
          cached,  \* duration in the cache index, or Miss
          answer   \* what ensure returned

vars == <<req, pc, attempt, follows, flights, closed, flight, cached, answer>>

Steps == {"new", "lookup", "join", "wait", "run", "put", "unlist", "close", "done"}
Codes == {"none", "ok", "toolong", "failed"}
Results == [code : Codes, dur : Nat]
Answers == [code : Codes, dur : Nat, fresh : BOOLEAN]
Reported(v) == IF v \in Known THEN Length[v] ELSE 0
NoResult == [code |-> "none", dur |-> 0]
NoAnswer == [code |-> "none", dur |-> 0, fresh |-> FALSE]

TypeOK ==
  /\ req \in [Requests -> Asks]
  /\ pc \in [Requests -> Steps]
  /\ attempt \in [Requests -> 0..2]
  /\ follows \in [Requests -> Requests \cup {NoFlight}]
  /\ flights \in [Videos -> Requests \cup {NoFlight}]
  /\ closed \subseteq Requests
  /\ flight \in [Requests -> Results]
  /\ cached \in [Videos -> Nat \cup {Miss}]
  /\ answer \in [Requests -> Answers]

Init ==
  /\ req \in [Requests -> Asks]
  /\ pc = [r \in Requests |-> "new"]
  /\ attempt = [r \in Requests |-> 0]
  /\ follows = [r \in Requests |-> NoFlight]
  /\ flights = [v \in Videos |-> NoFlight]
  /\ closed = {}
  /\ flight = [r \in Requests |-> NoResult]
  /\ cached = [v \in Videos |-> Miss]
  /\ answer = [r \in Requests |-> NoAnswer]

Video(r) == req[r].video
Max(r) == req[r].maxDur

\* maxDur > 0 && duration > maxDur
Exceeds(dur, m) == m > 0 /\ dur > m

Goto(r, step) == pc' = [pc EXCEPT ![r] = step]

Return(r, code, dur, fresh) ==
  /\ Goto(r, "done")
  /\ follows' = [follows EXCEPT ![r] = NoFlight]
  /\ answer' = [answer EXCEPT ![r] = [code |-> code, dur |-> dur, fresh |-> fresh]]

\* Mutant: the limit holds for the own run only.
ReturnSharedUnchecked(r, dur) == Return(r, "ok", dur, FALSE)

\* A duration somebody else's conversion found, held against the own limit.
ReturnShared(r, dur) == Return(r, IF Exceeds(dur, Max(r)) THEN "toolong" ELSE "ok", dur, FALSE)

Arrive(r) ==
  /\ pc[r] = "new"
  /\ Goto(r, "lookup")
  /\ UNCHANGED <<req, attempt, follows, flights, closed, flight, cached, answer>>

(***************************************************************************)
(* The lookup before the lock                                              *)
(***************************************************************************)

\* Mutant: sql.ErrNoRows taken for a row.
LookupHitAnyRow(r) ==
  /\ pc[r] = "lookup"
  /\ ReturnShared(r, cached[Video(r)])
  /\ UNCHANGED <<req, attempt, flights, closed, flight, cached>>

LookupHit(r) ==
  /\ pc[r] = "lookup"
  /\ cached[Video(r)] # Miss
  /\ ReturnShared(r, cached[Video(r)])
  /\ UNCHANGED <<req, attempt, flights, closed, flight, cached>>

LookupMiss(r) ==
  /\ pc[r] = "lookup"
  /\ cached[Video(r)] = Miss
  /\ Goto(r, "join")
  /\ UNCHANGED <<req, attempt, follows, flights, closed, flight, cached, answer>>

\* The query fails: the database, or a client that is gone.
LookupFails(r) ==
  /\ pc[r] = "lookup"
  /\ Return(r, "failed", 0, FALSE)
  /\ UNCHANGED <<req, attempt, flights, closed, flight, cached>>

(***************************************************************************)
(* The flights map, under cv.mu                                            *)
(***************************************************************************)

Follow(r) ==
  /\ pc[r] = "join"
  /\ flights[Video(r)] # NoFlight
  /\ follows' = [follows EXCEPT ![r] = flights[Video(r)]]
  /\ Goto(r, "wait")
  /\ UNCHANGED <<req, attempt, flights, closed, flight, cached, answer>>

\* Mutant: the flight is looked up and entered in two critical sections.
LeadUnlocked(r) ==
  /\ pc[r] = "join"
  /\ flights' = [flights EXCEPT ![Video(r)] = r]
  /\ Goto(r, "run")
  /\ UNCHANGED <<req, attempt, follows, closed, flight, cached, answer>>

Lead(r) ==
  /\ pc[r] = "join"
  /\ flights[Video(r)] = NoFlight
  /\ flights' = [flights EXCEPT ![Video(r)] = r]
  /\ Goto(r, "run")
  /\ UNCHANGED <<req, attempt, follows, closed, flight, cached, answer>>

(***************************************************************************)
(* The leader: run, then delete the flight, then close its channel         *)
(***************************************************************************)

RunEnds(r, code, dur, step) ==
  /\ pc[r] = "run"
  /\ flight' = [flight EXCEPT ![r] = [code |-> code, dur |-> dur]]
  /\ Goto(r, step)
  /\ UNCHANGED <<req, attempt, follows, flights, closed, cached, answer>>

\* yt-dlp's filter rejects live streams, a duration over the limit and, under a
\* limit, one it does not know.
FilterRejects(v, m) == v \in Live \/ (m > 0 /\ (v \notin Known \/ Length[v] > m))

\* The result carries the duration of the metadata line, 0 if it is unreadable.
RunOk(r) ==
  /\ ~FilterRejects(Video(r), Max(r))
  /\ \E dur \in {0, Reported(Video(r))} : RunEnds(r, "ok", dur, "put")

\* Whatever the limit: a live stream whose metadata line is unreadable, too.  The
\* duration only goes into the message.
RunTooLong(r) == FilterRejects(Video(r), Max(r)) /\ RunEnds(r, "toolong", 0, "unlist")

\* Known to be live, busy, canceled by a shutdown, timed out, or anything else.
RunFails(r) == RunEnds(r, "failed", 0, "unlist")

\* PutCache may fail, which is only logged.
Put(r) ==
  /\ pc[r] = "put"
  /\ \/ cached' = [cached EXCEPT ![Video(r)] = flight[r].dur]
     \/ UNCHANGED cached
  /\ Goto(r, "unlist")
  /\ UNCHANGED <<req, attempt, follows, flights, closed, flight, answer>>

Unlist(r) ==
  /\ pc[r] = "unlist"
  /\ flights' = [flights EXCEPT ![Video(r)] = NoFlight]
  /\ Goto(r, "close")
  /\ UNCHANGED <<req, attempt, follows, closed, flight, cached, answer>>

\* Mutant: a failed run returns without closing the channel.
CloseOnSuccess(r) ==
  /\ pc[r] = "close"
  /\ closed' = IF flight[r].code = "failed" THEN closed ELSE closed \cup {r}
  /\ Return(r, flight[r].code, flight[r].dur, flight[r].code = "ok")
  /\ UNCHANGED <<req, attempt, flights, flight, cached>>

Close(r) ==
  /\ pc[r] = "close"
  /\ closed' = closed \cup {r}
  /\ Return(r, flight[r].code, flight[r].dur, flight[r].code = "ok")
  /\ UNCHANGED <<req, attempt, flights, flight, cached>>

(***************************************************************************)
(* The follower                                                            *)
(***************************************************************************)

\* Mutant: 0 taken for the smallest limit instead of for none.
StricterZeroIsLow(l, r) ==
  /\ flight[l].code = "toolong"
  /\ Max(l) > 0
  /\ Max(r) > Max(l)

\* The leader gave up on a limit stricter than the follower's.
Stricter(l, r) ==
  /\ flight[l].code = "toolong"
  /\ Max(l) > 0
  /\ Max(r) = 0 \/ Max(r) > Max(l)

Woken(r) == pc[r] = "wait" /\ follows[r] \in closed

\* Mutant: the follower reports a conversion of its own.
WakeOkFresh(r) ==
  /\ Woken(r)
  /\ flight[follows[r]].code = "ok"
  /\ Return(r, IF Exceeds(flight[follows[r]].dur, Max(r)) THEN "toolong" ELSE "ok",
            flight[follows[r]].dur, TRUE)
  /\ UNCHANGED <<req, attempt, flights, closed, flight, cached>>

WakeOk(r) ==
  /\ Woken(r)
  /\ flight[follows[r]].code = "ok"
  /\ ReturnShared(r, flight[follows[r]].dur)
  /\ UNCHANGED <<req, attempt, flights, closed, flight, cached>>

WakeError(r) ==
  /\ Woken(r)
  /\ flight[follows[r]].code # "ok"
  /\ ~Stricter(follows[r], r)
  /\ Return(r, flight[follows[r]].code, flight[follows[r]].dur, FALSE)
  /\ UNCHANGED <<req, attempt, flights, closed, flight, cached>>

\* continue: the loop runs once more, or is over.
WakeRetry(r) ==
  /\ Woken(r)
  /\ Stricter(follows[r], r)
  /\ attempt' = [attempt EXCEPT ![r] = @ + 1]
  /\ IF attempt[r] = 0
     THEN Goto(r, "lookup") /\ follows' = [follows EXCEPT ![r] = NoFlight] /\ UNCHANGED answer
     ELSE Return(r, "toolong", 0, FALSE)
  /\ UNCHANGED <<req, flights, closed, flight, cached>>

\* <-ctx.Done(): the client of a waiting request is gone.
Abandon(r) ==
  /\ pc[r] = "wait"
  /\ Return(r, "failed", 0, FALSE)
  /\ UNCHANGED <<req, attempt, flights, closed, flight, cached>>

\* A row expires, or the janitor, the size limit or an admin removes it.
Lose(v) ==
  /\ cached[v] # Miss
  /\ cached' = [cached EXCEPT ![v] = Miss]
  /\ UNCHANGED <<req, pc, attempt, follows, flights, closed, flight, answer>>

Lookup(r) == LookupHit(r) \/ LookupMiss(r)
RunStops(r) == RunOk(r) \/ RunTooLong(r) \/ RunFails(r)
Wake(r) == WakeOk(r) \/ WakeError(r) \/ WakeRetry(r)
Advance(r) == Lookup(r) \/ Follow(r) \/ Lead(r) \/ RunStops(r) \/ Put(r) \/ Unlist(r) \/ Close(r) \/ Wake(r)

Next ==
  \/ \E r \in Requests : Arrive(r) \/ Advance(r) \/ LookupFails(r) \/ Abandon(r)
  \/ \E v \in Videos : Lose(v)

Spec == Init /\ [][Next]_vars

\* Goroutines are scheduled, a query returns, and Runner.Convert ends because of
\* ConversionTimeout.  No client has to arrive or to go away.
Fairness == \A r \in Requests : WF_vars(Advance(r))
FairSpec == Spec /\ Fairness

(***************************************************************************)
(* Properties                                                              *)
(***************************************************************************)

Leading(r) == pc[r] \in {"run", "put", "unlist"}

\* At no time are two yt-dlp runs of one video in progress (they would write the
\* same temporary files and rename to the same file).
OneRunPerVideo == \A r, s \in Requests : Leading(r) /\ Leading(s) /\ Video(r) = Video(s) => r = s

\* The flights map holds exactly the runs in progress, and a waiting follower is
\* on a flight of its own video that its leader has closed or is still going to:
\* nobody waits for a channel nobody will close.
FlightsConsistent ==
  /\ \A v \in Videos, r \in Requests : flights[v] = r <=> Leading(r) /\ Video(r) = v
  /\ \A r \in Requests : pc[r] = "wait" =>
       /\ follows[r] \in Requests
       /\ Video(follows[r]) = Video(r)
       /\ follows[r] \in closed \/ Leading(follows[r]) \/ pc[follows[r]] = "close"

\* Whoever led the conversion and whatever the own limit of a request, it gets no
\* live stream and no track longer than its limit, from the cache, from a flight or
\* from its own run: except a copy of somebody else's, when the run that made it
\* found no duration, which is shared as one of 0 seconds.
LimitRespected ==
  \A r \in Requests : answer[r].code = "ok" =>
    /\ Video(r) \notin Live
    /\ Exceeds(Length[Video(r)], Max(r)) => answer[r].dur = 0 /\ ~answer[r].fresh

\* A request that is told TOO_LONG before its second retry asked for a video that
\* yt-dlp's filter rejects under its own limit, whoever ran into it: one that is
\* longer, or of a length nobody knows, or a live stream.
TooLongHonest ==
  \A r \in Requests : answer[r].code = "toolong" /\ attempt[r] < 2 => FilterRejects(Video(r), Max(r))

\* What the service of ConversionService sees: the videos being converted, those
\* some run has converted, and the runs of a video whose leader has not returned.
Converting == {v \in Videos : \E r \in Requests : Leading(r) /\ Video(r) = v}
Produced == {v \in Videos : \E r \in Requests : flight[r].code = "ok" /\ Video(r) = v}
Unpaid(v) == {r \in Requests : flight[r].code = "ok" /\ pc[r] # "done" /\ Video(r) = v}

Service == INSTANCE ConversionService WITH
  running <- Converting, produced <- Produced, unpaid <- [v \in Videos |-> Cardinality(Unpaid(v))]

\* Flights, lookups and retries implement a service that answers every request
\* once, delivers only what a run produced and the limit allows, and charges
\* each successful run to one request.
ImplementsService == Service!Spec

\* Every call of ensure returns.
EnsureReturns == \A r \in Requests : pc[r] = "lookup" ~> pc[r] = "done"

\* README.md:25 and convert.go:183: callers for the same video share one run; none
\* is to run while the result of another is in the cache.
NoRunOfCached == \A r \in Requests : pc[r] = "run" => cached[Video(r)] = Miss
=============================================================================
