-------------------------- MODULE ConverterProofs --------------------------
(***************************************************************************)
(* Proofs about Converter, for any set of requests, videos and limits.     *)
(***************************************************************************)
EXTENDS Converter, FiniteSetTheorems, TLAPS

(***************************************************************************)
(* The inductive invariant: besides the properties themselves, the loop    *)
(* counter of a request still in the loop, and what the cache and the      *)
(* flights say about the videos they are about.                            *)
(***************************************************************************)

LoopBounded == \A r \in Requests : pc[r] # "done" => attempt[r] <= 1

Found(v) == {0, Reported(v)}

CacheReports == \A v \in Videos : cached[v] # Miss => v \notin Live /\ cached[v] \in Found(v)

FlightReports ==
  \A r \in Requests :
    /\ flight[r].code = "ok" => /\ flight[r].dur \in Found(Video(r))
                                /\ ~FilterRejects(Video(r), Max(r))
    /\ flight[r].code = "toolong" => FilterRejects(Video(r), Max(r))
    /\ pc[r] = "put" => flight[r].code = "ok"
    /\ pc[r] \in {"unlist", "close"} => flight[r].code # "none"
    /\ r \in closed => flight[r].code # "none" /\ pc[r] = "done"

IInv == TypeOK /\ LoopBounded /\ CacheReports /\ FlightReports /\ FlightsConsistent

\* Whoever asks, asks for a video and has a limit.
LEMMA AsksTyped == TypeOK => \A r \in Requests : Video(r) \in Videos /\ Max(r) \in Nat
  BY ConverterAssumption DEF TypeOK, Video, Max

\* At the start nobody waits, leads or has an answer, and the cache is empty.
LEMMA InitIInv == Init => IInv
<1> SUFFICES ASSUME Init PROVE IInv OBVIOUS
<1> USE ConverterAssumption
<1>1. TypeOK
  BY DEF Init, TypeOK, Steps, Results, Answers, Codes, NoResult, NoAnswer, Miss
<1>2. LoopBounded
  BY DEF Init, LoopBounded
<1>3. CacheReports
  BY DEF Init, CacheReports
<1>4. FlightReports
  BY DEF Init, FlightReports, NoResult
<1>5. FlightsConsistent
  BY DEF Init, FlightsConsistent, Leading
<1>6. QED
  BY <1>1, <1>2, <1>3, <1>4, <1>5 DEF IInv

\* A follower that wakes to try again has tried once at most before.
LEMMA RetriesOnce == IInv => \A r \in Requests : WakeRetry(r) => attempt[r] \in 0..1
<1> SUFFICES ASSUME IInv, NEW r \in Requests, WakeRetry(r) PROVE attempt[r] \in 0..1
  OBVIOUS
<1>1. pc[r] = "wait"
  BY DEF WakeRetry, Woken
<1>2. attempt[r] <= 1
  BY <1>1 DEF IInv, LoopBounded
<1>3. attempt[r] \in 0..2
  BY DEF IInv, TypeOK
<1>4. QED
  BY <1>2, <1>3

\* Every step keeps the types.
LEMMA NextTypeOK == IInv /\ [Next]_vars => TypeOK'
<1> SUFFICES ASSUME IInv, [Next]_vars PROVE TypeOK' OBVIOUS
<1> USE ConverterAssumption DEF IInv, TypeOK, LoopBounded, Steps, Results, Answers, Codes, Goto, Return, Video, Max, Miss
<1>1. ASSUME NEW r \in Requests, Arrive(r) PROVE TypeOK'
  BY <1>1 DEF Arrive
<1>2. ASSUME NEW r \in Requests, Lookup(r) PROVE TypeOK'
  <2>1. CASE LookupHit(r)
    <3>1. cached[Video(r)] \in Nat
      BY <2>1 DEF LookupHit
    <3>2. QED
      BY <2>1, <3>1 DEF LookupHit, ReturnShared
  <2>2. CASE LookupMiss(r)
    BY <2>2 DEF LookupMiss
  <2>3. QED
    BY <1>2, <2>1, <2>2 DEF Lookup
<1>3. ASSUME NEW r \in Requests, LookupFails(r) PROVE TypeOK'
  BY <1>3 DEF LookupFails
<1>4. ASSUME NEW r \in Requests, Follow(r) PROVE TypeOK'
  BY <1>4 DEF Follow
<1>5. ASSUME NEW r \in Requests, Lead(r) PROVE TypeOK'
  BY <1>5 DEF Lead
<1>6. ASSUME NEW r \in Requests, RunStops(r) PROVE TypeOK'
  <2>1. Reported(Video(r)) \in Nat
    BY DEF Reported
  <2>2. PICK code \in Codes, dur \in Nat, step \in {"put", "unlist"} : RunEnds(r, code, dur, step)
    BY <1>6, <2>1 DEF RunStops, RunOk, RunTooLong, RunFails
  <2>3. QED
    BY <2>2 DEF RunEnds
<1>7. ASSUME NEW r \in Requests, Put(r) PROVE TypeOK'
  BY <1>7 DEF Put
<1>8. ASSUME NEW r \in Requests, Unlist(r) PROVE TypeOK'
  BY <1>8 DEF Unlist
<1>9. ASSUME NEW r \in Requests, Close(r) PROVE TypeOK'
  BY <1>9 DEF Close
<1>10. ASSUME NEW r \in Requests, WakeOk(r) PROVE TypeOK'
  BY <1>10 DEF WakeOk, Woken, ReturnShared
<1>11. ASSUME NEW r \in Requests, WakeError(r) PROVE TypeOK'
  BY <1>11 DEF WakeError, Woken
<1>12. ASSUME NEW r \in Requests, WakeRetry(r) PROVE TypeOK'
  <2>1. attempt[r] \in 0..1
    BY <1>12, RetriesOnce, Zenon
  <2>2. attempt' \in [Requests -> 0..2] /\ follows' \in [Requests -> Requests \cup {NoFlight}]
    BY <1>12, <2>1 DEF WakeRetry
  <2>3. pc' \in [Requests -> Steps] /\ answer' \in [Requests -> Answers]
    <3>1. CASE attempt[r] = 0
      BY <1>12, <3>1 DEF WakeRetry
    <3>2. CASE attempt[r] # 0
      <4>1. Return(r, "toolong", 0, FALSE)
        BY <1>12, <3>2 DEF WakeRetry
      <4>2. QED
        BY <4>1
    <3>3. QED
      BY <3>1, <3>2
  <2>4. QED
    BY <1>12, <2>2, <2>3 DEF WakeRetry
<1>13. ASSUME NEW r \in Requests, Abandon(r) PROVE TypeOK'
  BY <1>13 DEF Abandon
<1>14. ASSUME NEW v \in Videos, Lose(v) PROVE TypeOK'
  BY <1>14 DEF Lose
<1>15. CASE UNCHANGED vars
  BY <1>15 DEF vars
<1>16. QED
  BY <1>1, <1>2, <1>3, <1>4, <1>5, <1>6, <1>7, <1>8, <1>9, <1>10, <1>11, <1>12, <1>13, <1>14, <1>15
  DEF Next, Advance, Wake

(***************************************************************************)
(* The rest of the invariant.  Only the leader of a flight changes it, and *)
(* only from "run" on; a request changes nobody else's program counter.    *)
(***************************************************************************)

\* A request that is still in ensure has retried once at most: the loop ends there.
LEMMA NextLoopBounded == IInv /\ [Next]_vars => LoopBounded'
<1> SUFFICES ASSUME IInv, [Next]_vars, NEW s \in Requests, pc'[s] # "done" PROVE attempt'[s] <= 1
  BY DEF LoopBounded
<1> USE DEF IInv, TypeOK, LoopBounded, Goto, Return
<1>1. ASSUME NEW r \in Requests, WakeRetry(r) PROVE attempt'[s] <= 1
  <2>1. CASE r = s
    BY <1>1, <2>1 DEF WakeRetry
  <2>2. CASE r # s
    BY <1>1, <2>2 DEF WakeRetry
  <2>3. QED
    BY <2>1, <2>2
<1>2. CASE /\ UNCHANGED attempt
           /\ \E r \in Requests, step \in Steps : pc[r] # "done" /\ Goto(r, step)
  BY <1>2
<1>3. CASE UNCHANGED <<attempt, pc>>
  BY <1>3
<1>4. ASSUME NEW r \in Requests, Arrive(r) \/ Lookup(r) \/ LookupFails(r) \/ Follow(r) \/ Lead(r)
      PROVE attempt'[s] <= 1
  BY <1>4, <1>2 DEF Arrive, Lookup, LookupHit, LookupMiss, LookupFails, Follow, Lead, ReturnShared, Steps
<1>5. ASSUME NEW r \in Requests, RunStops(r) \/ Put(r) \/ Unlist(r) \/ Close(r)
      PROVE attempt'[s] <= 1
  BY <1>5, <1>2 DEF RunStops, RunOk, RunTooLong, RunFails, RunEnds, Put, Unlist, Close, Steps
<1>6. ASSUME NEW r \in Requests, WakeOk(r) \/ WakeError(r) \/ Abandon(r)
      PROVE attempt'[s] <= 1
  BY <1>6, <1>2 DEF WakeOk, WakeError, Woken, Abandon, ReturnShared, Steps
<1>7. ASSUME NEW v \in Videos, Lose(v) PROVE attempt'[s] <= 1
  BY <1>7, <1>3 DEF Lose
<1>8. CASE UNCHANGED vars
  BY <1>8, <1>3 DEF vars
<1>9. QED
  BY <1>1, <1>4, <1>5, <1>6, <1>7, <1>8 DEF Next, Advance, Wake

\* No step changes what a request asks for.
LEMMA RequestsFixed == [Next]_vars => req' = req
  BY DEF Next, vars, Arrive, Advance, Lookup, LookupHit, LookupMiss, LookupFails, Follow, Lead, RunStops,
         RunOk, RunTooLong, RunFails, RunEnds, Put, Unlist, Close, Wake, WakeOk, WakeError, WakeRetry,
         Abandon, Lose

\* A row is never about a live stream, and only ever holds the duration yt-dlp reported
\* for its video, or 0.
LEMMA NextCacheReports == IInv /\ [Next]_vars => CacheReports'
<1> SUFFICES ASSUME IInv, [Next]_vars PROVE CacheReports' OBVIOUS
<1> USE DEF IInv, TypeOK, CacheReports, Video
<1>1. ASSUME NEW r \in Requests, Put(r) PROVE CacheReports'
  <2>1. flight[r].dur \in Found(Video(r)) /\ Video(r) \notin Live
    BY <1>1 DEF Put, FlightReports, FilterRejects
  <2>2. req' = req /\ (cached' = [cached EXCEPT ![Video(r)] = flight[r].dur] \/ cached' = cached)
    BY <1>1 DEF Put
  <2>3. QED
    BY <2>1, <2>2 DEF Found, Reported
<1>2. ASSUME NEW v \in Videos, Lose(v) PROVE CacheReports'
  BY <1>2 DEF Lose, Found, Reported
<1>3. CASE UNCHANGED cached
  BY <1>3 DEF Found, Reported
<1>4. ASSUME NEW r \in Requests,
             Arrive(r) \/ Lookup(r) \/ LookupFails(r) \/ Follow(r) \/ Lead(r) \/ RunStops(r)
      PROVE CacheReports'
  BY <1>4, <1>3 DEF Arrive, Lookup, LookupHit, LookupMiss, LookupFails, Follow, Lead,
                    RunStops, RunOk, RunTooLong, RunFails, RunEnds
<1>5. ASSUME NEW r \in Requests, Unlist(r) \/ Close(r) \/ Wake(r) \/ Abandon(r)
      PROVE CacheReports'
  BY <1>5, <1>3 DEF Unlist, Close, Wake, WakeOk, WakeError, WakeRetry, Abandon
<1>6. CASE UNCHANGED vars
  BY <1>6, <1>3 DEF vars
<1>7. QED
  BY <1>1, <1>2, <1>4, <1>5, <1>6 DEF Next, Advance

\* The result of a flight is a duration yt-dlp reported, or 0, too, and a TOO_LONG is
\* what its filter makes of the video under the leader's limit.
LEMMA NextFlightReports == IInv /\ [Next]_vars => FlightReports'
<1> SUFFICES ASSUME IInv, [Next]_vars PROVE FlightReports' OBVIOUS
<1> USE DEF IInv, TypeOK, FlightReports, Goto, Return, Video, Max, Found, Reported, FilterRejects
<1>1. req' = req
  BY RequestsFixed
<1>2. ASSUME NEW r \in Requests, RunStops(r) PROVE FlightReports'
  <2>1. CASE RunOk(r)
    BY <1>1, <2>1 DEF RunOk, RunEnds
  <2>2. CASE RunTooLong(r)
    BY <1>1, <2>2 DEF RunTooLong, RunEnds
  <2>3. CASE RunFails(r)
    BY <1>1, <2>3 DEF RunFails, RunEnds
  <2>4. QED
    BY <1>2, <2>1, <2>2, <2>3 DEF RunStops
<1>3. ASSUME NEW r \in Requests, Put(r) \/ Unlist(r) \/ Close(r) PROVE FlightReports'
  BY <1>1, <1>3 DEF Put, Unlist, Close
<1>4. CASE /\ UNCHANGED <<flight, closed>>
           /\ \E r \in Requests, step \in {"lookup", "join", "wait", "run", "done"} :
                pc[r] # "done" /\ Goto(r, step)
  BY <1>1, <1>4
<1>5. CASE UNCHANGED <<flight, closed, pc>>
  BY <1>1, <1>5
<1>6. ASSUME NEW r \in Requests, Arrive(r) \/ Lookup(r) \/ LookupFails(r) \/ Follow(r) \/ Lead(r)
      PROVE FlightReports'
  BY <1>6, <1>4 DEF Arrive, Lookup, LookupHit, LookupMiss, LookupFails, Follow, Lead, ReturnShared
<1>7. ASSUME NEW r \in Requests, Wake(r) \/ Abandon(r) PROVE FlightReports'
  BY <1>7, <1>4 DEF Wake, WakeOk, WakeError, WakeRetry, Woken, Abandon, ReturnShared
<1>8. ASSUME NEW v \in Videos, Lose(v) PROVE FlightReports'
  BY <1>8, <1>5 DEF Lose
<1>9. CASE UNCHANGED vars
  BY <1>9, <1>5 DEF vars
<1>10. QED
  BY <1>2, <1>3, <1>6, <1>7, <1>8, <1>9 DEF Next, Advance

\* Entries of the flights map come and go with the runs, and no flight a follower
\* waits on disappears before its channel is closed.
LEMMA NextFlightsConsistent == IInv /\ [Next]_vars => FlightsConsistent'
<1> SUFFICES ASSUME IInv, [Next]_vars PROVE FlightsConsistent' OBVIOUS
<1> USE ConverterAssumption
    DEF IInv, TypeOK, FlightsConsistent, Leading, Goto, Return, Video
\* A step of r between two program points on the same side of the flights map.
<1>1. CASE /\ UNCHANGED <<req, flights, closed>>
           /\ \E r \in Requests, from, to \in Steps :
                /\ pc[r] = from /\ Goto(r, to) /\ to # "wait" /\ from # "close"
                /\ from \in {"run", "put", "unlist"} <=> to \in {"run", "put", "unlist"}
                /\ \A s \in Requests : s # r => follows'[s] = follows[s]
  BY <1>1
<1>2. CASE UNCHANGED <<req, flights, follows, closed, pc>>
  BY <1>2
<1>3. ASSUME NEW r \in Requests, Arrive(r) \/ Lookup(r) \/ LookupFails(r) \/ Abandon(r)
      PROVE FlightsConsistent'
  <2>1. UNCHANGED <<req, flights, closed>> /\ \A s \in Requests : s # r => follows'[s] = follows[s]
    BY <1>3 DEF Arrive, Lookup, LookupHit, LookupMiss, LookupFails, Abandon, ReturnShared
  <2>2. \E from, to \in Steps :
          /\ pc[r] = from /\ Goto(r, to) /\ to # "wait" /\ from # "close"
          /\ from \in {"run", "put", "unlist"} <=> to \in {"run", "put", "unlist"}
    BY <1>3 DEF Arrive, Lookup, LookupHit, LookupMiss, LookupFails, Abandon, ReturnShared, Steps
  <2>3. QED
    BY <2>1, <2>2, <1>1
<1>4. ASSUME NEW r \in Requests, RunStops(r) \/ Put(r) PROVE FlightsConsistent'
  BY <1>4, <1>1 DEF RunStops, RunOk, RunTooLong, RunFails, RunEnds, Put, Steps
<1>5. ASSUME NEW r \in Requests, WakeOk(r) \/ WakeError(r) PROVE FlightsConsistent'
  <2>1. UNCHANGED <<req, flights, closed>> /\ \A s \in Requests : s # r => follows'[s] = follows[s]
    BY <1>5 DEF WakeOk, WakeError, ReturnShared
  <2>2. pc[r] = "wait" /\ Goto(r, "done")
    BY <1>5 DEF WakeOk, WakeError, Woken, ReturnShared
  <2>3. QED
    BY <2>1, <2>2, <1>1 DEF Steps
<1>6. ASSUME NEW r \in Requests, WakeRetry(r) PROVE FlightsConsistent'
  <2>1. PICK to \in {"lookup", "done"} : Goto(r, to)
    BY <1>6 DEF WakeRetry
  <2>2. pc[r] = "wait" /\ UNCHANGED <<req, flights, closed>>
    BY <1>6 DEF WakeRetry, Woken
  <2>3. \A s \in Requests : s # r => follows'[s] = follows[s]
    BY <1>6 DEF WakeRetry
  <2>4. QED
    BY <2>1, <2>2, <2>3
<1>7. ASSUME NEW r \in Requests, Follow(r) PROVE FlightsConsistent'
  <2>1. /\ pc[r] = "join" /\ Goto(r, "wait") /\ UNCHANGED <<req, flights, closed>>
        /\ follows' = [follows EXCEPT ![r] = flights[Video(r)]]
    BY <1>7 DEF Follow
  <2>2. /\ Video(r) \in Videos /\ flights[Video(r)] \in Requests
        /\ Leading(flights[Video(r)]) /\ Video(flights[Video(r)]) = Video(r)
    BY <1>7 DEF Follow
  <2>3. QED
    BY <2>1, <2>2
<1>8. ASSUME NEW r \in Requests, Lead(r) PROVE FlightsConsistent'
  <2>1. /\ pc[r] = "join" /\ Goto(r, "run") /\ UNCHANGED <<req, follows, closed>>
        /\ flights[Video(r)] = NoFlight /\ flights' = [flights EXCEPT ![Video(r)] = r]
    BY <1>8 DEF Lead
  <2>2. \A s \in Requests : Leading(s) => Video(s) # Video(r)
    BY <2>1
  <2>3. ASSUME NEW v \in Videos, NEW s \in Requests
        PROVE flights'[v] = s <=> pc'[s] \in {"run", "put", "unlist"} /\ Video(s) = v
    BY <2>1, <2>2
  <2>4. QED
    BY <2>1, <2>3
<1>9. ASSUME NEW r \in Requests, Unlist(r) PROVE FlightsConsistent'
  <2>1. /\ pc[r] = "unlist" /\ Goto(r, "close") /\ UNCHANGED <<req, follows, closed>>
        /\ flights' = [flights EXCEPT ![Video(r)] = NoFlight] /\ flights[Video(r)] = r
    BY <1>9 DEF Unlist
  <2>2. ASSUME NEW v \in Videos, NEW s \in Requests
        PROVE flights'[v] = s <=> pc'[s] \in {"run", "put", "unlist"} /\ Video(s) = v
    BY <2>1
  <2>3. QED
    BY <2>1, <2>2
<1>10. ASSUME NEW r \in Requests, Close(r) PROVE FlightsConsistent'
  BY <1>10 DEF Close
<1>11. ASSUME NEW v \in Videos, Lose(v) PROVE FlightsConsistent'
  BY <1>11, <1>2 DEF Lose
<1>12. CASE UNCHANGED vars
  BY <1>12, <1>2 DEF vars
<1>13. QED
  BY <1>3, <1>4, <1>5, <1>6, <1>7, <1>8, <1>9, <1>10, <1>11, <1>12 DEF Next, Advance, Wake

\* The inductive invariant holds in every state of the converter.
THEOREM Inductive == Spec => []IInv
<1>1. IInv /\ [Next]_vars => IInv'
  BY NextTypeOK, NextLoopBounded, NextCacheReports, NextFlightReports, NextFlightsConsistent DEF IInv
<1>2. QED
  BY InitIInv, <1>1, PTL DEF Spec

\* The state of the converter is well typed.
THEOREM TypeCorrect == Spec => []TypeOK
<1>1. IInv => TypeOK
  BY DEF IInv
<1>2. QED
  BY Inductive, <1>1, PTL

\* Nobody waits for a flight that nobody will land.
THEOREM NoLostWakeup == Spec => []FlightsConsistent
<1>1. IInv => FlightsConsistent
  BY DEF IInv
<1>2. QED
  BY Inductive, <1>1, PTL

\* Two leaders of one video would both be the entry of the flights map.
THEOREM MutualExclusion == Spec => []OneRunPerVideo
<1>1. IInv => OneRunPerVideo
  BY AsksTyped DEF IInv, FlightsConsistent, OneRunPerVideo
<1>2. QED
  BY Inductive, <1>1, PTL

(***************************************************************************)
(* What is answered.  An answer is given once, in the step that returns.   *)
(***************************************************************************)

OkFits(r, a) ==
  a.code = "ok" =>
    /\ Video(r) \notin Live
    /\ a.dur \in Found(Video(r))
    /\ Exceeds(Length[Video(r)], Max(r)) => a.dur = 0 /\ ~a.fresh
OwnLimit(r) == FilterRejects(Video(r), Max(r))

\* A duration that was reported is held against the limit of the request; 0 passes.
LEMMA SharedAnswer ==
  ASSUME IInv, NEW r \in Requests, NEW dur \in Found(Video(r)), Video(r) \notin Live, ReturnShared(r, dur)
  PROVE  /\ answer'[r].code \in {"ok", "toolong"}
         /\ OkFits(r, answer'[r])
         /\ answer'[r].code = "toolong" => OwnLimit(r)
         /\ \A s \in Requests \ {r} : answer'[s] = answer[s]
<1>1. Video(r) \in Videos /\ Length[Video(r)] \in Nat \ {0} /\ Max(r) \in Nat
  BY AsksTyped, ConverterAssumption DEF IInv
<1>2. dur \in Nat /\ (dur # 0 => Video(r) \in Known /\ dur = Length[Video(r)])
  BY <1>1 DEF Found, Reported
<1>3. PICK code \in {"ok", "toolong"} : Return(r, code, dur, FALSE) /\ (code = "toolong" <=> Exceeds(dur, Max(r)))
  BY DEF ReturnShared
<1>4. answer'[r].code = code /\ answer'[r].dur = dur /\ ~answer'[r].fresh
  BY <1>3 DEF Return, IInv, TypeOK
<1>5. code = "toolong" => OwnLimit(r)
  BY <1>1, <1>2, <1>3 DEF Exceeds, OwnLimit, FilterRejects
<1>6. code = "ok" /\ Exceeds(Length[Video(r)], Max(r)) => dur = 0
  BY <1>1, <1>2, <1>3 DEF Exceeds
<1>7. \A s \in Requests \ {r} : answer'[s] = answer[s]
  BY <1>3 DEF Return, IInv, TypeOK
<1>8. QED
  BY <1>4, <1>5, <1>6, <1>7 DEF OkFits

\* What a step answers fits the limit, and says TOO_LONG for a reason.
LEMMA StepAnswers ==
  ASSUME IInv, Next, NEW s \in Requests, answer'[s] # answer[s]
  PROVE  /\ OkFits(s, answer'[s])
         /\ answer'[s].code = "toolong" => OwnLimit(s) \/ attempt'[s] = 2
<1> USE DEF IInv, TypeOK, Return, Goto
<1>1. ASSUME NEW r \in Requests, LookupHit(r)
      PROVE OkFits(s, answer'[s]) /\ (answer'[s].code = "toolong" => OwnLimit(s))
  <2>1. cached[Video(r)] \in Found(Video(r)) /\ Video(r) \notin Live
    BY <1>1, AsksTyped DEF LookupHit, CacheReports
  <2>2. ReturnShared(r, cached[Video(r)])
    BY <1>1 DEF LookupHit
  <2>3. QED
    BY <2>1, <2>2, SharedAnswer
<1>2. ASSUME NEW r \in Requests, WakeOk(r)
      PROVE OkFits(s, answer'[s]) /\ (answer'[s].code = "toolong" => OwnLimit(s))
  <2>1. Video(follows[r]) = Video(r) /\ follows[r] \in Requests
    BY <1>2 DEF WakeOk, Woken, FlightsConsistent
  <2>2. flight[follows[r]].dur \in Found(Video(r)) /\ Video(r) \notin Live
    <3>1. flight[follows[r]].dur \in Found(Video(follows[r])) /\ Video(follows[r]) \notin Live
      BY <1>2, <2>1 DEF WakeOk, FlightReports, FilterRejects
    <3>2. QED
      BY <2>1, <3>1
  <2>3. ReturnShared(r, flight[follows[r]].dur)
    BY <1>2 DEF WakeOk
  <2>4. QED
    BY <2>2, <2>3, SharedAnswer
<1>3. ASSUME NEW r \in Requests, Close(r)
      PROVE OkFits(s, answer'[s]) /\ (answer'[s].code = "toolong" => OwnLimit(s))
  <2>1. s = r /\ answer'[r].code = flight[r].code /\ answer'[r].dur = flight[r].dur
    BY <1>3 DEF Close
  <2>2. flight[r].code = "ok" => ~FilterRejects(Video(r), Max(r)) /\ flight[r].dur \in Found(Video(r))
    BY DEF FlightReports
  <2>3. flight[r].code = "toolong" => FilterRejects(Video(r), Max(r))
    BY DEF FlightReports
  <2>4. QED
    BY <2>1, <2>2, <2>3 DEF FilterRejects, OkFits, OwnLimit, Exceeds
<1>4. ASSUME NEW r \in Requests, WakeError(r)
      PROVE OkFits(s, answer'[s]) /\ (answer'[s].code = "toolong" => OwnLimit(s))
  <2> DEFINE l == follows[r]
  <2>1. l \in Requests /\ Video(l) = Video(r)
    BY <1>4 DEF WakeError, Woken, FlightsConsistent
  <2>2. s = r /\ answer'[r].code = flight[l].code /\ flight[l].code # "ok" /\ ~Stricter(l, r)
    BY <1>4 DEF WakeError
  <2>3. CASE flight[l].code = "toolong"
    <3>1. FilterRejects(Video(r), Max(l))
      <4>1. FilterRejects(Video(l), Max(l))
        BY <2>1, <2>3 DEF FlightReports
      <4>2. QED
        BY <2>1, <4>1
    <3>2. Length[Video(r)] \in Nat /\ Max(r) \in Nat /\ Max(l) \in Nat
      BY <2>1, ConverterAssumption DEF Video, Max
    <3>3. Video(r) \in Live \/ (Max(r) > 0 /\ Max(r) <= Max(l))
      BY <2>2, <2>3, <3>1, <3>2 DEF Stricter, FilterRejects
    <3>4. OwnLimit(r)
      BY <3>1, <3>2, <3>3 DEF FilterRejects, OwnLimit
    <3>5. QED
      BY <2>2, <2>3, <3>4 DEF OkFits
  <2>4. CASE flight[l].code # "toolong"
    BY <2>2, <2>4 DEF OkFits
  <2>5. QED
    BY <2>3, <2>4
<1>5. ASSUME NEW r \in Requests, WakeRetry(r)
      PROVE OkFits(s, answer'[s]) /\ attempt'[s] = 2
  <2>1. attempt[r] = 1 /\ s = r /\ answer'[r].code = "toolong"
    BY <1>5 DEF WakeRetry, Woken, LoopBounded
  <2>2. attempt'[r] = 2
    BY <1>5, <2>1 DEF WakeRetry
  <2>3. QED
    BY <2>1, <2>2 DEF OkFits
<1>6. ASSUME NEW r \in Requests, LookupFails(r) \/ Abandon(r)
      PROVE answer'[s].code = "failed"
  BY <1>6 DEF LookupFails, Abandon
<1>7. ASSUME NEW r \in Requests,
             Arrive(r) \/ LookupMiss(r) \/ Follow(r) \/ Lead(r) \/ RunStops(r) \/ Put(r) \/ Unlist(r)
      PROVE FALSE
  BY <1>7 DEF Arrive, LookupMiss, Follow, Lead, RunStops, RunOk, RunTooLong, RunFails, RunEnds, Put, Unlist
<1>8. ASSUME NEW v \in Videos, Lose(v) PROVE FALSE
  BY <1>8 DEF Lose
<1>9. QED
  BY <1>1, <1>2, <1>3, <1>4, <1>5, <1>6, <1>7, <1>8 DEF Next, Advance, Lookup, Wake, OkFits

Fits(r, a) ==
  a.code = "ok" => Video(r) \notin Live /\ (Exceeds(Length[Video(r)], Max(r)) => a.dur = 0 /\ ~a.fresh)

\* No request is ever answered with a live stream, nor with a track over its limit that
\* it converted itself or whose duration its run found.
THEOREM LimitsKept == Spec => []LimitRespected
<1>1. Init => LimitRespected
  BY DEF Init, LimitRespected, NoAnswer
<1>2. IInv /\ LimitRespected /\ [Next]_vars => LimitRespected'
  <2> SUFFICES ASSUME IInv, LimitRespected, [Next]_vars, NEW s \in Requests
               PROVE  Fits(s, answer'[s])
    BY RequestsFixed DEF LimitRespected, Fits, Video, Max
  <2>1. CASE answer'[s] = answer[s]
    BY <2>1 DEF LimitRespected, Fits
  <2>2. CASE answer'[s] # answer[s]
    BY <2>2, StepAnswers DEF vars, OkFits, Fits
  <2>3. QED
    BY <2>1, <2>2
<1>3. QED
  BY Inductive, <1>1, <1>2, PTL DEF Spec

\* TOO_LONG before the last retry is about the video of the request that gets it: a live
\* stream, or, under its own limit, longer than that or of a length nobody knows.
THEOREM TooLongIsHonest == Spec => []TooLongHonest
<1>1. Init => TooLongHonest
  BY DEF Init, TooLongHonest, NoAnswer
<1>2. IInv /\ TooLongHonest /\ [Next]_vars => TooLongHonest'
  <2> SUFFICES ASSUME IInv, TooLongHonest, [Next]_vars, NEW s \in Requests,
                      answer'[s].code = "toolong", attempt'[s] < 2
               PROVE  OwnLimit(s)
    BY RequestsFixed DEF TooLongHonest, OwnLimit, Video, Max
  <2>1. CASE answer'[s] = answer[s]
    <3>1. ASSUME NEW r \in Requests, WakeRetry(r) PROVE attempt[s] < 2
      <4>1. CASE r = s
        BY <3>1, <4>1 DEF WakeRetry, Woken, IInv, TypeOK, LoopBounded
      <4>2. CASE r # s
        BY <3>1, <4>2 DEF WakeRetry, IInv, TypeOK
      <4>3. QED
        BY <4>1, <4>2
    <3>2. CASE attempt' = attempt
      BY <2>1, <3>2 DEF TooLongHonest, OwnLimit
    <3>3. attempt' = attempt \/ \E r \in Requests : WakeRetry(r)
      BY DEF Next, vars, Arrive, Advance, Lookup, LookupHit, LookupMiss, LookupFails, Follow, Lead, RunStops,
             RunOk, RunTooLong, RunFails, RunEnds, Put, Unlist, Close, Wake, WakeOk, WakeError,
             Abandon, Lose
    <3>4. QED
      BY <2>1, <3>1, <3>2, <3>3 DEF TooLongHonest, OwnLimit
  <2>2. CASE answer'[s] # answer[s]
    BY <2>2, StepAnswers DEF vars
  <2>3. QED
    BY <2>1, <2>2
<1>3. QED
  BY Inductive, <1>1, <1>2, PTL DEF Spec

(***************************************************************************)
(* The refinement.  What the service keeps track of follows from a second  *)
(* invariant: a request has no result of its own before its run ends, and  *)
(* no answer before it returns; a row was written by a run; and the runs   *)
(* that nobody has been charged for can be counted.                        *)
(***************************************************************************)

FlightLate == \A r \in Requests : pc[r] \in {"new", "lookup", "join", "wait", "run"} => flight[r].code = "none"

AnsweredOnce == \A r \in Requests : pc[r] = "done" <=> answer[r].code # "none"

CacheProduced == \A v \in Videos : cached[v] # Miss => v \in Produced

UnpaidFinite == \A v \in Videos : IsFiniteSet(Unpaid(v))

SInv == FlightLate /\ AnsweredOnce /\ CacheProduced /\ UnpaidFinite

\* At the start nothing has run and nobody has been answered.
LEMMA InitSInv == Init => SInv
<1> SUFFICES ASSUME Init PROVE SInv OBVIOUS
<1>1. \A v \in Videos : Unpaid(v) = {}
  BY DEF Init, Unpaid, NoResult
<1>2. UnpaidFinite
  BY <1>1, FS_EmptySet DEF UnpaidFinite
<1>3. FlightLate /\ AnsweredOnce /\ CacheProduced
  BY DEF Init, FlightLate, AnsweredOnce, CacheProduced, NoResult, NoAnswer
<1>4. QED
  BY <1>2, <1>3 DEF SInv

(***************************************************************************)
(* What each step does to the service's view.                              *)
(***************************************************************************)

View == <<Converting, Produced, [v \in Videos |-> Unpaid(v)]>>

\* A request that goes on before or after its run, and is not answered, is not seen.
LEMMA GoesOn ==
  ASSUME IInv, SInv, NEW r \in Requests, NEW to \in Steps \ {"done"}, Goto(r, to),
         UNCHANGED <<req, flight>>,
         pc[r] \in {"new", "lookup", "join", "wait", "put"},
         Leading(r) <=> to \in {"run", "put", "unlist"}
  PROVE  View' = View
<1> USE DEF IInv, TypeOK, Goto, Video
<1>1. Converting' = Converting
  BY DEF Converting, Leading
<1>2. Produced' = Produced
  BY DEF Produced
<1>3. \A v \in Videos : Unpaid(v)' = Unpaid(v)
  BY DEF Unpaid
<1>4. QED
  BY <1>1, <1>2, <1>3 DEF View

\* A request that returns without a run of its own is not seen either.
LEMMA Returns ==
  ASSUME IInv, SInv, NEW r \in Requests, Goto(r, "done"), UNCHANGED <<req, flight>>,
         pc[r] \in {"lookup", "wait"}
  PROVE  View' = View
<1> USE DEF IInv, TypeOK, Goto, Video
<1>1. Converting' = Converting
  BY DEF Converting, Leading
<1>2. Produced' = Produced
  BY DEF Produced
<1>3. \A v \in Videos : Unpaid(v)' = Unpaid(v)
  BY DEF Unpaid, SInv, FlightLate
<1>4. QED
  BY <1>1, <1>2, <1>3 DEF View

\* A leader makes its video one that is being converted, which it was not.
LEMMA LeadView ==
  ASSUME IInv, SInv, NEW r \in Requests, Lead(r)
  PROVE  /\ Video(r) \in Videos \ Converting
         /\ Converting' = Converting \cup {Video(r)}
         /\ Produced' = Produced /\ \A v \in Videos : Unpaid(v)' = Unpaid(v)
<1> USE DEF IInv, TypeOK, Lead, Goto, Video
<1>1. Video(r) \in Videos \ Converting
  BY AsksTyped, ConverterAssumption DEF FlightsConsistent, Converting
<1>2. Converting' = Converting \cup {Video(r)}
  BY <1>1 DEF Converting, Leading
<1>3. Produced' = Produced /\ \A v \in Videos : Unpaid(v)' = Unpaid(v)
  BY DEF Produced, Unpaid
<1>4. QED
  BY <1>1, <1>2, <1>3

\* A run that ends well adds itself to the runs nobody has been charged for.
LEMMA RunOkView ==
  ASSUME IInv, SInv, NEW r \in Requests, RunOk(r)
  PROVE  /\ Video(r) \in Converting /\ Converting' = Converting
         /\ Produced' = Produced \cup {Video(r)}
         /\ r \notin Unpaid(Video(r)) /\ Unpaid(Video(r))' = Unpaid(Video(r)) \cup {r}
         /\ \A v \in Videos \ {Video(r)} : Unpaid(v)' = Unpaid(v)
<1> USE DEF IInv, TypeOK, RunOk, RunEnds, Goto, Video
<1>1. Video(r) \in Converting /\ Converting' = Converting
  BY AsksTyped DEF Converting, Leading
<1>2. flight[r].code = "none" /\ Video(r) \in Videos
  BY AsksTyped DEF SInv, FlightLate
<1>3. Produced' = Produced \cup {Video(r)}
  BY <1>2 DEF Produced
<1>4. \A v \in Videos : Unpaid(v)' = IF v = Video(r) THEN Unpaid(v) \cup {r} ELSE Unpaid(v)
  BY <1>2 DEF Unpaid
<1>5. r \notin Unpaid(Video(r))
  BY <1>2 DEF Unpaid
<1>6. QED
  BY <1>1, <1>2, <1>3, <1>4, <1>5

\* Any other end of a run is not seen.
LEMMA RunFailsView ==
  ASSUME IInv, SInv, NEW r \in Requests, RunTooLong(r) \/ RunFails(r)
  PROVE  View' = View
<1> USE DEF IInv, TypeOK, RunTooLong, RunFails, RunEnds, Goto, Video
<1>1. Converting' = Converting
  BY DEF Converting, Leading
<1>2. flight[r].code = "none" /\ flight'[r].code # "ok"
  BY DEF SInv, FlightLate
<1>3. Produced' = Produced /\ \A v \in Videos : Unpaid(v)' = Unpaid(v)
  BY <1>2 DEF Produced, Unpaid
<1>4. QED
  BY <1>1, <1>3 DEF View

\* Nobody else leads the video of a flight that leaves the map.
LEMMA UnlistView ==
  ASSUME IInv, SInv, NEW r \in Requests, Unlist(r)
  PROVE  /\ Video(r) \in Converting /\ Converting' = Converting \ {Video(r)}
         /\ Produced' = Produced /\ \A v \in Videos : Unpaid(v)' = Unpaid(v)
<1> USE DEF IInv, TypeOK, Unlist, Goto, Video
<1>1. Video(r) \in Converting
  BY AsksTyped DEF Converting, Leading
<1>2. \A s \in Requests : Leading(s) /\ Video(s) = Video(r) => s = r
  BY AsksTyped DEF FlightsConsistent, Leading
<1>3. Converting' = Converting \ {Video(r)}
  BY <1>2 DEF Converting, Leading
<1>4. Produced' = Produced /\ \A v \in Videos : Unpaid(v)' = Unpaid(v)
  BY DEF Produced, Unpaid
<1>5. QED
  BY <1>1, <1>3, <1>4

\* The leader that returns is charged for its run.
LEMMA CloseView ==
  ASSUME IInv, SInv, NEW r \in Requests, Close(r)
  PROVE  /\ Converting' = Converting /\ Produced' = Produced
         /\ flight[r].code = "ok" => r \in Unpaid(Video(r)) /\ Video(r) \in Produced
         /\ Unpaid(Video(r))' = Unpaid(Video(r)) \ {r}
         /\ \A v \in Videos \ {Video(r)} : Unpaid(v)' = Unpaid(v)
<1> USE DEF IInv, TypeOK, Close, Return, Goto, Video
<1>1. Converting' = Converting
  BY DEF Converting, Leading
<1>2. Produced' = Produced /\ (flight[r].code = "ok" => Video(r) \in Produced)
  BY AsksTyped DEF Produced
<1>3. flight[r].code = "ok" => r \in Unpaid(Video(r))
  BY DEF Unpaid
<1>4. Unpaid(Video(r))' = Unpaid(Video(r)) \ {r}
  BY DEF Unpaid
<1>5. \A v \in Videos \ {Video(r)} : Unpaid(v)' = Unpaid(v)
  BY DEF Unpaid
<1>6. QED
  BY <1>1, <1>2, <1>3, <1>4, <1>5

\* The steps by which a request goes on unseen.
LEMMA QuietSteps ==
  ASSUME IInv, SInv, NEW r \in Requests,
         Arrive(r) \/ LookupMiss(r) \/ Follow(r) \/ Put(r)
  PROVE  View' = View
<1>1. PICK to \in Steps \ {"done"} :
        /\ Goto(r, to) /\ pc[r] \in {"new", "lookup", "join", "wait", "put"}
        /\ Leading(r) <=> to \in {"run", "put", "unlist"}
  BY DEF Arrive, LookupMiss, Follow, Put, Leading, Steps
<1>2. UNCHANGED <<req, flight>>
  BY DEF Arrive, LookupMiss, Follow, Put
<1>3. QED
  BY <1>1, <1>2, GoesOn

\* A request is answered with something it has not converted itself.
Unconverted(r, a) ==
  /\ answer' = [answer EXCEPT ![r] = a] /\ pc' = [pc EXCEPT ![r] = "done"]
  /\ a.code # "none" /\ ~a.fresh
  /\ a.code = "ok" => LookupHit(r) \/ WakeOk(r)

\* A return is one answer, and the end of the request.
LEMMA ReturnAnswers ==
  ASSUME NEW r \in Requests, NEW code \in Codes, NEW dur \in Nat, Return(r, code, dur, FALSE)
  PROVE  \E a \in Answers : /\ answer' = [answer EXCEPT ![r] = a] /\ pc' = [pc EXCEPT ![r] = "done"]
                            /\ a.code = code /\ ~a.fresh
<1> DEFINE a == [code |-> code, dur |-> dur, fresh |-> FALSE]
<1>1. a \in Answers /\ a.code = code /\ a.fresh = FALSE
  BY DEF Answers
<1>2. answer' = [answer EXCEPT ![r] = a] /\ pc' = [pc EXCEPT ![r] = "done"]
  BY DEF Return, Goto
<1> HIDE DEF a
<1>3. QED
  BY <1>1, <1>2

\* The steps by which a request returns without a run of its own.
LEMMA ReturnSteps ==
  ASSUME IInv, SInv, NEW r \in Requests,
         LookupHit(r) \/ LookupFails(r) \/ WakeOk(r) \/ WakeError(r) \/ Abandon(r)
  PROVE  View' = View /\ UNCHANGED <<flight, cached>> /\ pc[r] \in {"lookup", "wait"}
         /\ \E a \in Answers : Unconverted(r, a)
<1>1. UNCHANGED <<req, flight, cached>> /\ pc[r] \in {"lookup", "wait"}
  BY DEF LookupHit, LookupFails, WakeOk, WakeError, Woken, Abandon
<1>2. ASSUME LookupHit(r) \/ WakeOk(r) PROVE \E a \in Answers : Unconverted(r, a)
  <2>1. PICK dur \in Nat : ReturnShared(r, dur)
    BY <1>2, AsksTyped DEF LookupHit, WakeOk, Woken, FlightsConsistent, Results, Miss, IInv, TypeOK
  <2>2. PICK code \in Codes \ {"none"} : Return(r, code, dur, FALSE)
    BY <2>1 DEF ReturnShared, Codes
  <2>3. PICK a \in Answers : /\ answer' = [answer EXCEPT ![r] = a] /\ pc' = [pc EXCEPT ![r] = "done"]
                             /\ a.code = code /\ ~a.fresh
    BY <2>2, ReturnAnswers
  <2>4. QED
    BY <1>2, <2>3 DEF Unconverted
<1>3. ASSUME LookupFails(r) \/ Abandon(r) PROVE \E a \in Answers : Unconverted(r, a)
  <2>1. Return(r, "failed", 0, FALSE)
    BY <1>3 DEF LookupFails, Abandon
  <2>2. PICK a \in Answers : /\ answer' = [answer EXCEPT ![r] = a] /\ pc' = [pc EXCEPT ![r] = "done"]
                             /\ a.code = "failed" /\ ~a.fresh
    BY <2>1, ReturnAnswers DEF Codes
  <2>3. QED
    BY <2>2 DEF Unconverted
<1>4. ASSUME WakeError(r) PROVE \E a \in Answers : Unconverted(r, a)
  <2>1. follows[r] \in Requests /\ follows[r] \in closed
    BY <1>4 DEF WakeError, Woken, FlightsConsistent, IInv
  <2>2. flight[follows[r]].code \in Codes \ {"none", "ok"} /\ flight[follows[r]].dur \in Nat
    BY <1>4, <2>1 DEF WakeError, FlightReports, Results, IInv, TypeOK
  <2>3. Return(r, flight[follows[r]].code, flight[follows[r]].dur, FALSE)
    BY <1>4 DEF WakeError
  <2>4. PICK a \in Answers : /\ answer' = [answer EXCEPT ![r] = a] /\ pc' = [pc EXCEPT ![r] = "done"]
                             /\ a.code = flight[follows[r]].code /\ ~a.fresh
    BY <2>2, <2>3, ReturnAnswers
  <2>5. QED
    BY <2>2, <2>4 DEF Unconverted
<1>5. \E a \in Answers : Unconverted(r, a)
  BY <1>2, <1>3, <1>4
<1>6. View' = View
  BY <1>1, <1>5, Returns DEF Unconverted, Goto
<1>7. QED
  BY <1>1, <1>5, <1>6

\* The third attempt that is not made returns, the second goes on.
LEMMA RetrySteps ==
  ASSUME IInv, SInv, NEW r \in Requests, WakeRetry(r)
  PROVE  /\ View' = View /\ UNCHANGED <<flight, cached>> /\ pc[r] = "wait"
         /\ \/ Goto(r, "lookup") /\ UNCHANGED answer
            \/ Return(r, "toolong", 0, FALSE)
<1>1. UNCHANGED <<req, flight, cached>> /\ pc[r] = "wait"
  BY DEF WakeRetry, Woken
<1>2. \/ Goto(r, "lookup") /\ UNCHANGED answer
      \/ Return(r, "toolong", 0, FALSE)
  BY DEF WakeRetry
<1>3. CASE Goto(r, "lookup") /\ UNCHANGED answer
  BY <1>1, <1>3, GoesOn DEF Steps, Leading
<1>4. CASE Return(r, "toolong", 0, FALSE)
  BY <1>1, <1>4, Returns DEF Return
<1>5. QED
  BY <1>1, <1>2, <1>3, <1>4

\* Results appear when a run ends, answers when a request returns.
LEMMA NextLate == IInv /\ SInv /\ [Next]_vars => FlightLate' /\ AnsweredOnce'
<1> SUFFICES ASSUME IInv, SInv, [Next]_vars PROVE FlightLate' /\ AnsweredOnce' OBVIOUS
<1> USE DEF IInv, TypeOK, SInv, FlightLate, AnsweredOnce
<1>1. ASSUME NEW r \in Requests, NEW to \in Steps \ {"done"}, Goto(r, to), UNCHANGED <<flight, answer>>,
             pc[r] # "done", to \in {"new", "lookup", "join", "wait", "run"} => pc[r] \in {"new", "lookup", "join", "wait", "run"}
      PROVE  FlightLate' /\ AnsweredOnce'
  BY <1>1 DEF Goto
<1>2. ASSUME NEW r \in Requests, Arrive(r) \/ LookupMiss(r) \/ Follow(r) \/ Lead(r) \/ Put(r) \/ Unlist(r)
      PROVE  FlightLate' /\ AnsweredOnce'
  <2>1. PICK to \in Steps \ {"done"} :
          /\ Goto(r, to) /\ pc[r] # "done"
          /\ to \in {"new", "lookup", "join", "wait", "run"} => pc[r] \in {"new", "lookup", "join", "wait", "run"}
    BY <1>2 DEF Arrive, LookupMiss, Follow, Lead, Put, Unlist, Steps
  <2>2. UNCHANGED <<flight, answer>>
    BY <1>2 DEF Arrive, LookupMiss, Follow, Lead, Put, Unlist
  <2>3. QED
    BY <1>1, <2>1, <2>2
<1>3. ASSUME NEW r \in Requests, RunStops(r) PROVE FlightLate' /\ AnsweredOnce'
  <2>1. PICK code \in Codes, dur \in Int, step \in {"put", "unlist"} : RunEnds(r, code, dur, step)
    BY <1>3, AsksTyped, ConverterAssumption DEF RunStops, RunOk, RunTooLong, RunFails, Codes, Reported
  <2>2. QED
    BY <2>1 DEF RunEnds, Goto
<1>4. ASSUME NEW r \in Requests, Close(r) PROVE FlightLate' /\ AnsweredOnce'
  BY <1>4 DEF Close, Return, Goto, FlightReports
<1>5. ASSUME NEW r \in Requests, LookupHit(r) \/ LookupFails(r) \/ WakeOk(r) \/ WakeError(r) \/ Abandon(r)
      PROVE  FlightLate' /\ AnsweredOnce'
  BY <1>5, ReturnSteps DEF Unconverted
<1>6. ASSUME NEW r \in Requests, WakeRetry(r) PROVE FlightLate' /\ AnsweredOnce'
  <2>1. CASE Goto(r, "lookup") /\ UNCHANGED answer
    BY <1>1, <1>6, <2>1, RetrySteps DEF Steps
  <2>2. CASE Return(r, "toolong", 0, FALSE)
    BY <1>6, <2>2, RetrySteps DEF Return, Goto
  <2>3. QED
    BY <1>6, <2>1, <2>2, RetrySteps
<1>7. ASSUME NEW v \in Videos, Lose(v) PROVE FlightLate' /\ AnsweredOnce'
  BY <1>7 DEF Lose
<1>8. CASE UNCHANGED vars
  BY <1>8 DEF vars
<1>9. QED
  BY <1>2, <1>3, <1>4, <1>5, <1>6, <1>7, <1>8 DEF Next, Advance, Lookup, Wake

\* A video stays converted, the leader of a run alone writes its row, and one run at a
\* time joins or leaves those that nobody has been charged for.
LEMMA NextCounted == IInv /\ SInv /\ [Next]_vars => CacheProduced' /\ UnpaidFinite'
<1> SUFFICES ASSUME IInv, SInv, [Next]_vars PROVE CacheProduced' /\ UnpaidFinite' OBVIOUS
<1> USE DEF SInv, CacheProduced, UnpaidFinite
<1>1. ASSUME Produced' = Produced, \A v \in Videos : Unpaid(v)' = Unpaid(v),
             \A v \in Videos : cached'[v] # Miss => cached[v] # Miss \/ v \in Produced
      PROVE  CacheProduced' /\ UnpaidFinite'
  BY <1>1
<1>2. ASSUME View' = View, cached' = cached PROVE CacheProduced' /\ UnpaidFinite'
  BY <1>1, <1>2 DEF View
<1>3. ASSUME NEW r \in Requests, Arrive(r) \/ LookupMiss(r) \/ Follow(r) PROVE CacheProduced' /\ UnpaidFinite'
  BY <1>2, <1>3, QuietSteps DEF Arrive, LookupMiss, Follow
<1>4. ASSUME NEW r \in Requests, Put(r) PROVE CacheProduced' /\ UnpaidFinite'
  <2>1. Video(r) \in Produced
    BY <1>4, AsksTyped DEF Put, IInv, FlightReports, Produced
  <2>2. \A v \in Videos : cached'[v] # Miss => cached[v] # Miss \/ v = Video(r)
    BY <1>4 DEF Put, IInv, TypeOK
  <2>3. Produced' = Produced /\ \A v \in Videos : Unpaid(v)' = Unpaid(v)
    BY <1>4, QuietSteps DEF View
  <2>4. QED
    BY <1>1, <2>1, <2>2, <2>3
<1>5. ASSUME NEW r \in Requests, Lead(r) \/ Unlist(r) PROVE CacheProduced' /\ UnpaidFinite'
  <2>1. Produced' = Produced /\ \A v \in Videos : Unpaid(v)' = Unpaid(v)
    BY <1>5, LeadView, UnlistView
  <2>2. cached' = cached
    BY <1>5 DEF Lead, Unlist
  <2>3. QED
    BY <1>1, <2>1, <2>2
<1>6. ASSUME NEW r \in Requests, RunOk(r) PROVE CacheProduced' /\ UnpaidFinite'
  <2>1. cached' = cached
    BY <1>6 DEF RunOk, RunEnds
  <2>2. CacheProduced'
    BY <1>6, <2>1, RunOkView
  <2>3. ASSUME NEW v \in Videos PROVE IsFiniteSet(Unpaid(v)')
    <3>1. Unpaid(v)' = Unpaid(v) \/ Unpaid(v)' = Unpaid(v) \cup {r}
      <4>1. Video(r)' = Video(r)
        BY RequestsFixed DEF Video
      <4>2. CASE v = Video(r)
        BY <1>6, <4>1, <4>2, RunOkView
      <4>3. QED
        BY <1>6, <4>2, RunOkView
    <3>2. IsFiniteSet(Unpaid(v)) /\ IsFiniteSet(Unpaid(v) \cup {r})
      BY FS_AddElement
    <3>3. QED
      BY <3>1, <3>2
  <2>4. QED
    BY <2>2, <2>3
<1>7. ASSUME NEW r \in Requests, RunTooLong(r) \/ RunFails(r) PROVE CacheProduced' /\ UnpaidFinite'
  BY <1>2, <1>7, RunFailsView DEF RunTooLong, RunFails, RunEnds
<1>8. ASSUME NEW r \in Requests, Close(r) PROVE CacheProduced' /\ UnpaidFinite'
  <2>1. cached' = cached /\ Produced' = Produced
    BY <1>8, CloseView DEF Close
  <2>2. ASSUME NEW v \in Videos PROVE IsFiniteSet(Unpaid(v)')
    <3>1. Unpaid(v)' = Unpaid(v) \/ Unpaid(v)' = Unpaid(v) \ {r}
      <4>1. Video(r)' = Video(r)
        BY RequestsFixed DEF Video
      <4>2. CASE v = Video(r)
        BY <1>8, <4>1, <4>2, CloseView
      <4>3. QED
        BY <1>8, <4>2, CloseView
    <3>2. IsFiniteSet(Unpaid(v)) /\ IsFiniteSet(Unpaid(v) \ {r})
      BY FS_RemoveElement
    <3>3. QED
      BY <3>1, <3>2
  <2>3. QED
    BY <2>1, <2>2
<1>9. ASSUME NEW r \in Requests, LookupHit(r) \/ LookupFails(r) \/ WakeOk(r) \/ WakeError(r) \/ Abandon(r)
      PROVE  CacheProduced' /\ UnpaidFinite'
  BY <1>2, <1>9, ReturnSteps
<1>10. ASSUME NEW r \in Requests, WakeRetry(r) PROVE CacheProduced' /\ UnpaidFinite'
  BY <1>2, <1>10, RetrySteps
<1>11. ASSUME NEW v \in Videos, Lose(v) PROVE CacheProduced' /\ UnpaidFinite'
  <2>1. Produced' = Produced /\ \A w \in Videos : Unpaid(w)' = Unpaid(w)
    BY <1>11 DEF Lose, Produced, Unpaid, Video
  <2>2. \A w \in Videos : cached'[w] # Miss => cached[w] # Miss
    BY <1>11 DEF Lose, IInv, TypeOK
  <2>3. QED
    BY <1>1, <2>1, <2>2
<1>12. CASE UNCHANGED vars
  <2>1. View' = View /\ cached' = cached
    BY <1>12 DEF vars, View, Converting, Produced, Unpaid, Leading, Video
  <2>2. QED
    BY <1>2, <2>1
<1>13. QED
  BY <1>3, <1>4, <1>5, <1>6, <1>7, <1>8, <1>9, <1>10, <1>11, <1>12 DEF Next, Advance, Lookup, RunStops, Wake

\* The second invariant holds in every state as well.
LEMMA ServiceInvariant == Spec => []SInv
<1>1. IInv /\ SInv /\ [Next]_vars => SInv'
  BY NextLate, NextCounted DEF SInv
<1>2. QED
  BY InitSInv, Inductive, <1>1, PTL DEF Spec

(***************************************************************************)
(* Step by step                                                            *)
(***************************************************************************)

\* The initial states are those of a service that has done nothing.
LEMMA InitService == Init => Service!Init
<1> SUFFICES ASSUME Init PROVE Service!Init OBVIOUS
<1>1. Converting = {} /\ Produced = {}
  BY DEF Init, Converting, Produced, Leading, NoResult
<1>2. [v \in Videos |-> Cardinality(Unpaid(v))] = [v \in Videos |-> 0]
  <2>1. \A v \in Videos : Unpaid(v) = {}
    BY DEF Init, Unpaid, NoResult
  <2>2. QED
    BY <2>1, FS_EmptySet
<1>3. \A r \in Requests : answer[r].code = "none"
  BY DEF Init, NoAnswer
<1>4. QED
  BY <1>1, <1>2, <1>3 DEF Service!Init

\* A step that is not seen and answers nobody is none of the service's.
LEMMA ServiceStutter ==
  ASSUME View' = View, req' = req, answer' = answer
  PROVE  UNCHANGED Service!vars
<1>1. \A v \in Videos : Unpaid(v)' = Unpaid(v)
  BY DEF View
<1>2. QED
  BY <1>1 DEF View, Service!vars

\* An answer that charges nobody: the track was produced by some run, and fits.
LEMMA ServiceAnswer ==
  ASSUME IInv, SInv, Next, View' = View, req' = req, NEW r \in Requests, pc[r] # "done",
         NEW a \in Answers, answer' = [answer EXCEPT ![r] = a], a.code # "none", ~a.fresh,
         a.code = "ok" => Video(r) \in Produced
  PROVE  Service!Answer(r)
<1>1. answer[r].code = "none" /\ answer'[r] = a /\ answer'[r] # answer[r]
  BY DEF IInv, TypeOK, SInv, AnsweredOnce
<1>2. a.code = "ok" => a.dur \in {0, Length[Video(r)]} /\ (Service!Fits(Video(r), Max(r)) \/ a.dur = 0)
  <2>1. OkFits(r, a)
    BY <1>1, StepAnswers
  <2>2. Length[Video(r)] \in Nat /\ Max(r) \in Nat
    BY AsksTyped, ConverterAssumption DEF IInv
  <2>3. QED
    BY <2>1, <2>2 DEF OkFits, Exceeds, Found, Reported, Service!Fits
<1>3. UNCHANGED <<Converting, Produced>> /\ \A v \in Videos : Unpaid(v)' = Unpaid(v)
  BY DEF View
<1>4. QED
  BY <1>1, <1>2, <1>3 DEF Service!Answer, Video, Max

\* Every step of ensure and run is a step of the service, or is not seen.
LEMMA NextService == IInv /\ SInv /\ [Next]_vars => [Service!Next]_Service!vars
<1> SUFFICES ASSUME IInv, SInv, [Next]_vars PROVE [Service!Next]_Service!vars OBVIOUS
<1>0. req' = req
  BY RequestsFixed
<1>1. ASSUME NEW r \in Requests, Arrive(r) \/ LookupMiss(r) \/ Follow(r) \/ Put(r)
      PROVE  [Service!Next]_Service!vars
  <2>1. answer' = answer
    BY <1>1 DEF Arrive, LookupMiss, Follow, Put
  <2>2. QED
    BY <1>0, <1>1, <2>1, QuietSteps, ServiceStutter
<1>2. ASSUME NEW r \in Requests, Lead(r) PROVE [Service!Next]_Service!vars
  <2>1. answer' = answer
    BY <1>2 DEF Lead
  <2>2. Service!Begin(Video(r))
    BY <1>0, <1>2, <2>1, LeadView DEF Service!Begin
  <2>3. QED
    BY <1>2, <2>2, LeadView DEF Service!Next
<1>3. ASSUME NEW r \in Requests, RunOk(r) PROVE [Service!Next]_Service!vars
  <2> DEFINE w == Video(r)
  <2>1. w \in Videos /\ w' = w /\ answer' = answer
    BY <1>0, <1>3, AsksTyped DEF IInv, Video, RunOk, RunEnds
  <2>2. /\ w \in Converting /\ Converting' = Converting /\ Produced' = Produced \cup {w}
        /\ r \notin Unpaid(w) /\ \A v \in Videos : Unpaid(v)' = IF v = w THEN Unpaid(v) \cup {r} ELSE Unpaid(v)
    BY <1>3, <2>1, RunOkView
  <2> HIDE DEF w
  <2>3. Cardinality(Unpaid(w) \cup {r}) = Cardinality(Unpaid(w)) + 1
    BY <2>1, <2>2, FS_AddElement DEF SInv, UnpaidFinite
  <2>4. [v \in Videos |-> Cardinality(Unpaid(v))]' = [[v \in Videos |-> Cardinality(Unpaid(v))] EXCEPT ![w] = @ + 1]
    BY <2>1, <2>2, <2>3
  <2>5. Service!Produce(w)
    BY <1>0, <2>1, <2>2, <2>4 DEF Service!Produce
  <2>6. QED
    BY <2>1, <2>5 DEF Service!Next
<1>4. ASSUME NEW r \in Requests, RunTooLong(r) \/ RunFails(r) PROVE [Service!Next]_Service!vars
  <2>1. answer' = answer
    BY <1>4 DEF RunTooLong, RunFails, RunEnds
  <2>2. QED
    BY <1>0, <1>4, <2>1, RunFailsView, ServiceStutter
<1>5. ASSUME NEW r \in Requests, Unlist(r) PROVE [Service!Next]_Service!vars
  <2>1. answer' = answer /\ Video(r) \in Videos
    BY <1>5, AsksTyped DEF Unlist, IInv
  <2>2. Service!End(Video(r))
    BY <1>0, <1>5, <2>1, UnlistView DEF Service!End
  <2>3. QED
    BY <2>1, <2>2 DEF Service!Next
<1>6. ASSUME NEW r \in Requests, Close(r) PROVE [Service!Next]_Service!vars
  <2> DEFINE w == Video(r)
             a == [code |-> flight[r].code, dur |-> flight[r].dur, fresh |-> flight[r].code = "ok"]
             count == [v \in Videos |-> Cardinality(Unpaid(v))]
  <2>1. w \in Videos /\ w' = w
    BY <1>0, AsksTyped DEF IInv, Video
  <2>2. /\ Converting' = Converting /\ Produced' = Produced
        /\ flight[r].code = "ok" => r \in Unpaid(w) /\ w \in Produced
        /\ \A v \in Videos : Unpaid(v)' = IF v = w THEN Unpaid(v) \ {r} ELSE Unpaid(v)
    BY <1>6, <2>1, CloseView
  <2>3. /\ answer' = [answer EXCEPT ![r] = a] /\ answer'[r] = a /\ answer[r].code = "none"
        /\ a.code # "none" /\ (a.fresh <=> a.code = "ok") /\ a.code = flight[r].code
    BY <1>6 DEF Close, Return, Goto, IInv, TypeOK, FlightReports, SInv, AnsweredOnce
  <2>4. a.code = "ok" => Service!Fits(w, Max(r)) /\ a.dur \in {0, Length[w]}
    BY <1>6, <2>3, AsksTyped, ConverterAssumption
    DEF IInv, FlightReports, FilterRejects, Found, Reported, Service!Fits, Close
  <2>5. a.fresh => count[w] > 0
    BY <2>1, <2>2, <2>3, FS_EmptySet, FS_CardinalityType DEF SInv, UnpaidFinite
  <2>6. Cardinality(Unpaid(w) \ {r}) = IF a.fresh THEN Cardinality(Unpaid(w)) - 1 ELSE Cardinality(Unpaid(w))
    <3>1. ~a.fresh => r \notin Unpaid(w)
      BY <2>3 DEF Unpaid
    <3>2. QED
      BY <2>1, <2>2, <2>3, <3>1, FS_RemoveElement DEF SInv, UnpaidFinite
  <2>7. count' = IF a.fresh THEN [count EXCEPT ![w] = @ - 1] ELSE count
    BY <2>1, <2>2, <2>6
  <2> HIDE DEF a
  <2>8. Service!Answer(r)
    BY <1>0, <2>2, <2>3, <2>4, <2>5, <2>7 DEF Service!Answer, Video, Max
  <2>9. QED
    BY <2>8 DEF Service!Next
<1>7. ASSUME NEW r \in Requests, LookupHit(r) \/ LookupFails(r) \/ WakeOk(r) \/ WakeError(r) \/ Abandon(r)
      PROVE  [Service!Next]_Service!vars
  <2>1. Next
    BY <1>7 DEF Next, Advance, Lookup, Wake
  <2>2. PICK a \in Answers : Unconverted(r, a)
    BY <1>7, ReturnSteps
  <2>3. LookupHit(r) => Video(r) \in Produced
    BY AsksTyped DEF LookupHit, SInv, CacheProduced, IInv
  <2>4. WakeOk(r) => Video(r) \in Produced
    <3>1. SUFFICES ASSUME WakeOk(r) PROVE Video(r) \in Produced
      OBVIOUS
    <3>2. follows[r] \in Requests /\ Video(follows[r]) = Video(r) /\ flight[follows[r]].code = "ok"
      BY <3>1 DEF WakeOk, Woken, IInv, FlightsConsistent
    <3>3. QED
      BY <3>2, AsksTyped DEF Produced, IInv
  <2>5. View' = View /\ pc[r] # "done"
    BY <1>7, ReturnSteps
  <2>6. Service!Answer(r)
    BY <1>0, <2>1, <2>2, <2>3, <2>4, <2>5, ServiceAnswer DEF Unconverted
  <2>7. QED
    BY <2>6 DEF Service!Next
<1>8. ASSUME NEW r \in Requests, WakeRetry(r) PROVE [Service!Next]_Service!vars
  <2>1. Next /\ View' = View /\ pc[r] # "done"
    BY <1>8, RetrySteps DEF Next, Advance, Wake
  <2>2. CASE Return(r, "toolong", 0, FALSE)
    <3> DEFINE a == [code |-> "toolong", dur |-> 0, fresh |-> FALSE]
    <3>1. a \in Answers /\ a.code = "toolong" /\ ~a.fresh /\ answer' = [answer EXCEPT ![r] = a]
      BY <2>2 DEF Return, Answers, Codes
    <3> HIDE DEF a
    <3>2. Service!Answer(r)
      BY <1>0, <2>1, <3>1, ServiceAnswer
    <3>3. QED
      BY <3>2 DEF Service!Next
  <2>3. CASE UNCHANGED answer
    BY <1>0, <2>1, <2>3, ServiceStutter
  <2>4. QED
    BY <1>8, <2>2, <2>3, RetrySteps
<1>9. ASSUME NEW v \in Videos, Lose(v) PROVE [Service!Next]_Service!vars
  <2>1. View' = View /\ answer' = answer
    BY <1>9 DEF Lose, View, Converting, Produced, Unpaid, Leading, Video
  <2>2. QED
    BY <1>0, <2>1, ServiceStutter
<1>10. CASE UNCHANGED vars
  <2>1. View' = View /\ answer' = answer
    BY <1>10 DEF vars, View, Converting, Produced, Unpaid, Leading, Video
  <2>2. QED
    BY <1>0, <2>1, ServiceStutter
<1>11. QED
  BY <1>1, <1>2, <1>3, <1>4, <1>5, <1>6, <1>7, <1>8, <1>9, <1>10 DEF Next, Advance, Lookup, RunStops, Wake

\* Flights, lookups and retries (convert.go:185-258) implement the conversion service,
\* for any requests, videos and limits: one run of a video at a time, each request
\* answered once, with a track that some run produced and its limit allows, and each
\* successful run charged once.
THEOREM Refines == Spec => ImplementsService
<1>1. Init => Service!Init
  BY InitService
<1>2. IInv /\ SInv /\ [Next]_vars => [Service!Next]_Service!vars
  BY NextService
<1>3. QED
  BY <1>1, <1>2, Inductive, ServiceInvariant, PTL DEF Spec, ImplementsService, Service!Spec

(***************************************************************************)
(* What follows for whoever asks                                           *)
(***************************************************************************)

Delivered == \A r \in Requests : answer[r].code = "ok" => Video(r) \in Produced

ChargedExactly == \A r \in Requests : pc[r] = "done" => (answer[r].fresh <=> flight[r].code = "ok")

\* The service delivers what a run produced, so the converter does, which implements it:
\* no request is told of a track that nobody has converted.
THEOREM OnlyProduced == Spec => []Delivered
<1>1. Init => Delivered
  BY DEF Init, Delivered, NoAnswer
<1>2. IInv /\ SInv /\ Delivered /\ [Next]_vars => Delivered'
  <2> SUFFICES ASSUME IInv, SInv, Delivered, [Next]_vars, NEW s \in Requests, answer'[s].code = "ok"
               PROVE  Video(s)' \in Produced'
    BY DEF Delivered
  <2>0. [Service!Next]_Service!vars /\ req' = req /\ Video(s)' = Video(s)
    BY NextService, RequestsFixed DEF Video
  <2>1. CASE UNCHANGED Service!vars
    BY <2>0, <2>1 DEF Service!vars, Delivered
  <2>2. ASSUME NEW v \in Videos, Service!Begin(v) \/ Service!Produce(v) \/ Service!End(v)
        PROVE  Video(s)' \in Produced'
    <3>1. answer' = answer /\ Produced \subseteq Produced'
      BY <2>2 DEF Service!Begin, Service!Produce, Service!End
    <3>2. QED
      BY <2>0, <3>1 DEF Delivered
  <2>3. ASSUME NEW r \in Requests, Service!Answer(r) PROVE Video(s)' \in Produced'
    <3>1. Produced' = Produced /\ (answer'[r].code = "ok" => Video(r) \in Produced)
      BY <2>3 DEF Service!Answer, Video
    <3>2. s # r => answer'[s] = answer[s]
      BY <2>3 DEF Service!Answer, IInv, TypeOK
    <3>3. QED
      BY <2>0, <3>1, <3>2 DEF Delivered
  <2>4. QED
    BY <2>0, <2>1, <2>2, <2>3 DEF Service!Next
<1>3. QED
  BY Inductive, ServiceInvariant, <1>1, <1>2, PTL DEF Spec

\* A request is told that the conversion was fresh, and is charged for it, exactly when a
\* run of its own succeeded: nobody pays for a shared track, and no run goes unpaid
\* (convert.go:193-197, 209-214, 221-231).
THEOREM ChargedToLeader == Spec => []ChargedExactly
<1>1. Init => ChargedExactly
  BY DEF Init, ChargedExactly
<1>2. IInv /\ SInv /\ ChargedExactly /\ [Next]_vars => ChargedExactly'
  <2> SUFFICES ASSUME IInv, SInv, ChargedExactly, [Next]_vars PROVE ChargedExactly' OBVIOUS
  <2> USE DEF IInv, TypeOK, SInv, FlightLate, ChargedExactly, Return, Goto
  <2>1. ASSUME NEW r \in Requests, LookupHit(r) \/ LookupFails(r) \/ Abandon(r) PROVE ChargedExactly'
    BY <2>1 DEF LookupHit, ReturnShared, LookupFails, Abandon
  <2>2. ASSUME NEW r \in Requests, Wake(r) PROVE ChargedExactly'
    BY <2>2 DEF Wake, WakeOk, ReturnShared, WakeError, WakeRetry, Woken
  <2>3. ASSUME NEW r \in Requests, Close(r) PROVE ChargedExactly'
    BY <2>3 DEF Close
  <2>4. ASSUME NEW r \in Requests, RunStops(r) PROVE ChargedExactly'
    BY <2>4 DEF RunStops, RunOk, RunTooLong, RunFails, RunEnds
  <2>5. ASSUME NEW r \in Requests, Arrive(r) \/ LookupMiss(r) \/ Follow(r) \/ Lead(r) \/ Put(r) \/ Unlist(r)
        PROVE  ChargedExactly'
    BY <2>5 DEF Arrive, LookupMiss, Follow, Lead, Put, Unlist
  <2>6. CASE UNCHANGED vars \/ \E v \in Videos : Lose(v)
    BY <2>6 DEF vars, Lose
  <2>7. QED
    BY <2>1, <2>2, <2>3, <2>4, <2>5, <2>6 DEF Next, Advance, Lookup
<1>3. QED
  BY Inductive, ServiceInvariant, <1>1, <1>2, PTL DEF Spec

UnderWay(r) == pc[r] \notin {"new", "done"}

OneAtATime == \A r, s \in Requests : UnderWay(r) /\ UnderWay(s) /\ Video(r) = Video(s) => r = s

\* Nothing has put the video of a request into the cache since it looked there.
MissStands == \A r \in Requests : pc[r] \in {"join", "run"} => cached[Video(r)] = Miss

\* What NoRunOfCached shows, a run of what is cached already, takes two requests for the
\* same video that overlap: however many come one after the other, before and after its row
\* is written or lost, the look before the lock (convert.go:187-200) is enough, and no run
\* is wasted.
THEOREM NoRunWasted == Spec /\ []OneAtATime => []NoRunOfCached
<1>1. Init => MissStands
  BY DEF Init, MissStands
<1>2. IInv /\ MissStands /\ OneAtATime /\ [Next]_vars => MissStands'
  <2> SUFFICES ASSUME IInv, MissStands, OneAtATime, [Next]_vars PROVE MissStands' OBVIOUS
  <2>0. \A r \in Requests : Video(r)' = Video(r) /\ Video(r) \in Videos
    BY RequestsFixed, AsksTyped DEF Video, IInv
  <2> USE DEF IInv, TypeOK, Return, Goto
  <2>1. ASSUME NEW r \in Requests, Put(r) PROVE MissStands'
    <3>1. \A s \in Requests \ {r} : pc'[s] = pc[s]
      BY <2>1 DEF Put
    <3>2. \A s \in Requests \ {r} : pc[s] \in {"join", "run"} => Video(s) # Video(r)
      BY <2>1 DEF Put, OneAtATime, UnderWay
    <3>3. \A v \in Videos \ {Video(r)} : cached'[v] = cached[v]
      BY <2>1 DEF Put
    <3>4. pc'[r] = "unlist"
      BY <2>1 DEF Put
    <3>5. QED
      BY <2>0, <3>1, <3>2, <3>3, <3>4 DEF MissStands
  <2>2. ASSUME NEW v \in Videos, Lose(v) PROVE MissStands'
    BY <2>0, <2>2 DEF Lose, MissStands
  <2>3. ASSUME NEW r \in Requests, UNCHANGED cached, \A s \in Requests \ {r} : pc'[s] = pc[s],
               pc'[r] \in {"join", "run"} => cached[Video(r)] = Miss
        PROVE  MissStands'
    BY <2>0, <2>3 DEF MissStands
  <2>4. ASSUME NEW r \in Requests, LookupMiss(r) \/ Lead(r) PROVE MissStands'
    <3>1. cached[Video(r)] = Miss
      BY <2>4 DEF LookupMiss, Lead, MissStands
    <3>2. UNCHANGED cached /\ \A s \in Requests \ {r} : pc'[s] = pc[s]
      BY <2>4 DEF LookupMiss, Lead
    <3>3. QED
      BY <2>3, <3>1, <3>2
  <2>5. ASSUME NEW r \in Requests,
               Arrive(r) \/ LookupHit(r) \/ LookupFails(r) \/ Follow(r) \/ Wake(r) \/ Abandon(r)
        PROVE  MissStands'
    <3>1. UNCHANGED cached /\ \A s \in Requests \ {r} : pc'[s] = pc[s]
      BY <2>5 DEF Arrive, LookupHit, ReturnShared, LookupFails, Follow, Wake, WakeOk, WakeError, WakeRetry, Abandon
    <3>2. pc'[r] \in {"lookup", "wait", "done"}
      BY <2>5 DEF Arrive, LookupHit, ReturnShared, LookupFails, Follow, Wake, WakeOk, WakeError, WakeRetry, Abandon
    <3>3. QED
      BY <2>3, <3>1, <3>2
  <2>6. ASSUME NEW r \in Requests, RunStops(r) \/ Unlist(r) \/ Close(r) PROVE MissStands'
    <3>1. UNCHANGED cached /\ \A s \in Requests \ {r} : pc'[s] = pc[s]
      BY <2>6 DEF RunStops, RunOk, RunTooLong, RunFails, RunEnds, Unlist, Close
    <3>2. pc'[r] \in {"put", "unlist", "close", "done"}
      BY <2>6 DEF RunStops, RunOk, RunTooLong, RunFails, RunEnds, Unlist, Close
    <3>3. QED
      BY <2>3, <3>1, <3>2
  <2>7. CASE UNCHANGED vars
    BY <2>0, <2>7 DEF vars, MissStands
  <2>8. QED
    BY <2>1, <2>2, <2>4, <2>5, <2>6, <2>7 DEF Next, Advance, Lookup
<1>3. MissStands => NoRunOfCached
  BY DEF MissStands, NoRunOfCached
<1>4. QED
  BY Inductive, <1>1, <1>2, <1>3, PTL DEF Spec

SameLimits == \A r, s \in Requests : Max(r) = Max(s)

NoRetry == \A r \in Requests : attempt[r] = 0

Honest == \A r \in Requests : answer[r].code = "toolong" => OwnLimit(r)

\* Only requests with different limits ever try again (convert.go:215-219), so it takes three
\* of them for a false TOO_LONG: where everybody has the same limit, the first one included or
\* not, it always says what the filter says of the video.
THEOREM HonestUnderOneLimit == Spec /\ SameLimits => []Honest
<1>1. Init => NoRetry
  BY DEF Init, NoRetry
<1>2. IInv /\ NoRetry /\ SameLimits /\ [Next]_vars => NoRetry' /\ SameLimits'
  <2> SUFFICES ASSUME IInv, NoRetry, SameLimits, [Next]_vars PROVE NoRetry' /\ SameLimits' OBVIOUS
  <2>1. SameLimits'
    BY RequestsFixed DEF SameLimits, Max
  <2>2. ASSUME NEW r \in Requests, WakeRetry(r) PROVE FALSE
    <3>1. follows[r] \in Requests
      BY <2>2 DEF WakeRetry, Woken, IInv, FlightsConsistent
    <3>2. Max(r) = Max(follows[r]) /\ Max(r) \in Nat
      BY <3>1, AsksTyped DEF SameLimits, IInv
    <3>3. QED
      BY <2>2, <3>2 DEF WakeRetry, Stricter
  <2>3. attempt' = attempt
    BY <2>2 DEF Next, Advance, Arrive, Lookup, LookupHit, LookupMiss, LookupFails, Follow, Lead, RunStops, RunOk,
                RunTooLong, RunFails, RunEnds, Put, Unlist, Close, Wake, WakeOk, WakeError, Abandon, Lose, vars
  <2>4. QED
    BY <2>1, <2>3 DEF NoRetry
<1>3. NoRetry /\ TooLongHonest => Honest
  BY DEF NoRetry, TooLongHonest, Honest, OwnLimit
<1>4. QED
  BY Inductive, TooLongIsHonest, <1>1, <1>2, <1>3, PTL DEF Spec
=============================================================================
