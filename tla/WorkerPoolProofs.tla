-------------------------- MODULE WorkerPoolProofs --------------------------
(***************************************************************************)
(* Proofs about WorkerPool, for any finite set of videos and any limits.   *)
(***************************************************************************)
EXTENDS WorkerPool, FiniteSetTheorems, TLAPS

\* Before the sweep is through, a file in TMP_DIR of nobody's is on its list.
TmpListed == ~sweep.todo => tmp \subseteq At({"running"}) \cup sweep.left

\* Only a job past its run, its slot not yet released, is about to return success.
OkAtRelease == \A v \in Videos : result[v] = "ok" => pc[v] = "release"

IInv == TypeOK /\ CountersExact /\ RunsBounded /\ QueueBounded /\ TmpListed /\ OkAtRelease /\ LimitRespected

(***************************************************************************)
(* Counting the jobs at some program points.                               *)
(***************************************************************************)

\* The jobs at some program points are finitely many.
LEMMA AtFinite == ASSUME NEW S
                  PROVE  /\ IsFiniteSet(At(S)) /\ Cardinality(At(S)) \in Nat
                         /\ IsFiniteSet(At(S)') /\ Cardinality(At(S)') \in Nat
<1>1. At(S) \subseteq Videos /\ At(S)' \subseteq Videos
  BY DEF At
<1>2. QED
  BY <1>1, PoolAssumption, FS_Subset, FS_CardinalityType

\* The sets of program points the counters and the bounds are about.
Counted == {"wait", "slot", "leave"}
Queued == {"wait", "slot"}
Running == {"running", "release"}
Holding == {"slot", "running", "release"}

\* The number of jobs at S when one of them moves to another point.
Moved(S, from, to) ==
  Cardinality(At(S)') = IF to \in S /\ from \notin S THEN Cardinality(At(S)) + 1
                        ELSE IF to \notin S /\ from \in S THEN Cardinality(At(S)) - 1
                        ELSE Cardinality(At(S))

\* One job that moves from one point to another changes the number of jobs at a
\* set of points by what Moved says.
LEMMA MoveCounts ==
  ASSUME pc \in [Videos -> Steps], NEW v \in Videos, NEW t, pc' = [pc EXCEPT ![v] = t], NEW S
  PROVE  Moved(S, pc[v], t)
<1>1. CASE t \in S /\ pc[v] \notin S
  <2>1. At(S)' = At(S) \cup {v} /\ v \notin At(S)
    BY <1>1 DEF At
  <2>2. QED
    BY <1>1, <2>1, AtFinite, FS_AddElement DEF Moved
<1>2. CASE t \notin S /\ pc[v] \in S
  <2>1. At(S)' = At(S) \ {v} /\ v \in At(S)
    BY <1>2 DEF At
  <2>2. QED
    BY <1>2, <2>1, AtFinite, FS_RemoveElement DEF Moved
<1>3. CASE t \in S <=> pc[v] \in S
  <2>1. At(S)' = At(S)
    BY <1>3 DEF At
  <2>2. QED
    BY <1>3, <2>1 DEF Moved
<1>4. QED
  BY <1>1, <1>2, <1>3

\* The same for the four sets at once.
LEMMA Moves ==
  ASSUME pc \in [Videos -> Steps], NEW v \in Videos, NEW t, pc' = [pc EXCEPT ![v] = t]
  PROVE  Moved(Counted, pc[v], t) /\ Moved(Queued, pc[v], t) /\ Moved(Running, pc[v], t) /\ Moved(Holding, pc[v], t)
  BY MoveCounts

\* Nobody is counted anywhere while every job is idle.
LEMMA NobodyAt == ASSUME \A v \in Videos : pc[v] = "idle", NEW S, "idle" \notin S
                  PROVE  At(S) = {} /\ Cardinality(At(S)) = 0
<1>1. At(S) = {}
  BY DEF At
<1>2. QED
  BY <1>1, FS_EmptySet

\* A start of the process has no jobs, and its sweep is still to come.
LEMMA InitIInv == Init => IInv
<1> SUFFICES ASSUME Init PROVE IInv OBVIOUS
<1> USE PoolAssumption DEF Init
<1>1. TypeOK
  BY DEF TypeOK, Steps, Outcomes
<1>2. CountersExact /\ RunsBounded /\ QueueBounded
  BY NobodyAt DEF CountersExact, RunsBounded, QueueBounded
<1>3. TmpListed /\ OkAtRelease /\ LimitRespected
  BY DEF TmpListed, OkAtRelease, LimitRespected
<1>4. QED
  BY <1>1, <1>2, <1>3 DEF IInv

(***************************************************************************)
(* The counters and the bounds                                             *)
(***************************************************************************)

Counters == CountersExact /\ RunsBounded /\ QueueBounded

\* Every job that is admitted is counted, whoever else is.
LEMMA QueuedCounted == Cardinality(At(Queued)) <= Cardinality(At(Counted))
<1>1. At(Queued) \subseteq At(Counted)
  BY DEF At, Queued, Counted
<1>2. QED
  BY <1>1, AtFinite, FS_Subset

\* An idle job is counted nowhere.
LEMMA IdleUncounted == "idle" \notin Counted /\ "idle" \notin Queued /\ "idle" \notin Running /\ "idle" \notin Holding
  BY DEF Counted, Queued, Running, Holding

\* Every step of Convert moves its counters together with its program counter.
LEMMA NextCounters == IInv /\ [Next]_vars => Counters'
<1> SUFFICES ASSUME IInv, [Next]_vars PROVE Counters' OBVIOUS
<1> USE PoolAssumption DEF IInv, TypeOK
<1>0. /\ queued = Cardinality(At(Counted)) /\ active = Cardinality(At(Running))
      /\ sem = Cardinality(At(Holding)) /\ sem <= MaxConcurrent
      /\ MaxQueued > 0 => Cardinality(At(Queued)) <= MaxQueued + MaxConcurrent
      /\ Cardinality(At(Queued)) \in Nat
  BY AtFinite DEF CountersExact, RunsBounded, QueueBounded, Counted, Queued, Running, Holding
<1>g. ASSUME queued' = Cardinality(At(Counted)'), active' = Cardinality(At(Running)'),
             sem' = Cardinality(At(Holding)'), sem' <= MaxConcurrent,
             MaxQueued > 0 => Cardinality(At(Queued)') <= MaxQueued + MaxConcurrent
      PROVE Counters'
  BY <1>g DEF Counters, CountersExact, RunsBounded, QueueBounded, Counted, Queued, Running, Holding
<1>1. ASSUME NEW v \in Videos, NEW m \in Limits, Call(v, m) PROVE Counters'
  <2>1. pc[v] = "idle" /\ pc' = [pc EXCEPT ![v] = "enqueue"] /\ UNCHANGED <<queued, active, sem>>
    BY <1>1 DEF Call
  <2>2. /\ Cardinality(At(Counted)') = Cardinality(At(Counted)) /\ Cardinality(At(Queued)') = Cardinality(At(Queued))
        /\ Cardinality(At(Running)') = Cardinality(At(Running)) /\ Cardinality(At(Holding)') = Cardinality(At(Holding))
    <3>1. "enqueue" \notin Counted /\ "enqueue" \notin Queued /\ "enqueue" \notin Running /\ "enqueue" \notin Holding
      BY DEF Counted, Queued, Running, Holding
    <3>2. Moved(Counted, pc[v], "enqueue") /\ Moved(Queued, pc[v], "enqueue") /\ Moved(Running, pc[v], "enqueue") /\ Moved(Holding, pc[v], "enqueue")
      BY <2>1, Moves
    <3>3. QED
      BY <2>1, <3>1, <3>2, IdleUncounted DEF Moved
  <2>3. QED
    BY <1>0, <1>g, <2>1, <2>2
<1>2. ASSUME NEW v \in Videos, Enqueue(v) PROVE Counters'
  <2>1. pc[v] = "enqueue" /\ queued' = queued + 1 /\ UNCHANGED <<active, sem>>
    BY <1>2 DEF Enqueue
  <2>2. CASE QueueFull(queued + 1)
    <3>1. pc' = [pc EXCEPT ![v] = "leave"]
      BY <1>2, <2>2 DEF Enqueue
    <3>2. /\ Cardinality(At(Counted)') = Cardinality(At(Counted)) + 1
          /\ Cardinality(At(Queued)') = Cardinality(At(Queued)) /\ Cardinality(At(Running)') = Cardinality(At(Running)) /\ Cardinality(At(Holding)') = Cardinality(At(Holding))
      BY <2>1, <3>1, Moves DEF Moved, Counted, Queued, Running, Holding
    <3>3. QED
      BY <1>0, <1>g, <2>1, <3>1, <3>2
  <2>3. CASE ~QueueFull(queued + 1)
    <3>1. pc' = [pc EXCEPT ![v] = "wait"]
      BY <1>2, <2>3 DEF Enqueue
    <3>2. /\ Cardinality(At(Queued)') = Cardinality(At(Queued)) + 1
          /\ Cardinality(At(Counted)') = Cardinality(At(Counted)) + 1
          /\ Cardinality(At(Running)') = Cardinality(At(Running)) /\ Cardinality(At(Holding)') = Cardinality(At(Holding))
      BY <2>1, <3>1, Moves DEF Moved, Counted, Queued, Running, Holding
    <3>3. MaxQueued > 0 => queued + 1 <= MaxQueued + MaxConcurrent
      BY <2>3 DEF QueueFull
    <3>4. MaxQueued > 0 => Cardinality(At(Queued)') <= MaxQueued + MaxConcurrent
      BY <1>0, <3>2, <3>3, QueuedCounted
    <3>5. QED
      BY <1>0, <1>g, <2>1, <3>2, <3>4
  <2>4. QED
    BY <2>2, <2>3
<1>3. ASSUME NEW v \in Videos, Acquire(v) PROVE Counters'
  <2>1. /\ pc[v] = "wait" /\ sem < MaxConcurrent /\ sem' = sem + 1
        /\ pc' = [pc EXCEPT ![v] = "slot"] /\ UNCHANGED <<queued, active>>
    BY <1>3 DEF Acquire
  <2>2. /\ Cardinality(At(Holding)') = Cardinality(At(Holding)) + 1
        /\ Cardinality(At(Counted)') = Cardinality(At(Counted)) /\ Cardinality(At(Queued)') = Cardinality(At(Queued))
        /\ Cardinality(At(Running)') = Cardinality(At(Running))
    BY <2>1, Moves DEF Moved, Counted, Queued, Running, Holding
  <2>3. QED
    BY <1>0, <1>g, <2>1, <2>2
<1>4. ASSUME NEW v \in Videos, GiveUp(v) PROVE Counters'
  <2>1. pc[v] = "wait" /\ pc' = [pc EXCEPT ![v] = "leave"] /\ UNCHANGED <<queued, active, sem>>
    BY <1>4 DEF GiveUp
  <2>2. /\ Cardinality(At(Queued)') = Cardinality(At(Queued)) - 1
        /\ Cardinality(At(Counted)') = Cardinality(At(Counted)) /\ Cardinality(At(Running)') = Cardinality(At(Running))
        /\ Cardinality(At(Holding)') = Cardinality(At(Holding))
    BY <2>1, Moves DEF Moved, Counted, Queued, Running, Holding
  <2>3. QED
    BY <1>0, <1>g, <2>1, <2>2
<1>5. ASSUME NEW v \in Videos, Leave(v) PROVE Counters'
  <2>1. /\ pc[v] = "leave" /\ queued' = queued - 1
        /\ pc' = [pc EXCEPT ![v] = "idle"] /\ UNCHANGED <<active, sem>>
    BY <1>5 DEF Leave, Return
  <2>2. /\ Cardinality(At(Counted)') = Cardinality(At(Counted)) - 1
        /\ Cardinality(At(Queued)') = Cardinality(At(Queued)) /\ Cardinality(At(Running)') = Cardinality(At(Running))
        /\ Cardinality(At(Holding)') = Cardinality(At(Holding))
    <3>1. "leave" \in Counted /\ "leave" \notin Queued /\ "leave" \notin Running /\ "leave" \notin Holding
      BY DEF Counted, Queued, Running, Holding
    <3>2. Moved(Counted, pc[v], "idle") /\ Moved(Queued, pc[v], "idle") /\ Moved(Running, pc[v], "idle") /\ Moved(Holding, pc[v], "idle")
      BY <2>1, Moves
    <3>3. QED
      BY <2>1, <3>1, <3>2, IdleUncounted DEF Moved
  <2>3. QED
    BY <1>0, <1>g, <2>1, <2>2
<1>6. ASSUME NEW v \in Videos, Begin(v) PROVE Counters'
  <2>1. /\ pc[v] = "slot" /\ queued' = queued - 1 /\ active' = active + 1
        /\ pc' = [pc EXCEPT ![v] = "running"] /\ UNCHANGED sem
    BY <1>6 DEF Begin
  <2>2. /\ Cardinality(At(Counted)') = Cardinality(At(Counted)) - 1
        /\ Cardinality(At(Queued)') = Cardinality(At(Queued)) - 1
        /\ Cardinality(At(Running)') = Cardinality(At(Running)) + 1
        /\ Cardinality(At(Holding)') = Cardinality(At(Holding))
    BY <2>1, Moves DEF Moved, Counted, Queued, Running, Holding
  <2>3. QED
    BY <1>0, <1>g, <2>1, <2>2
<1>7. ASSUME NEW v \in Videos, Ends(v) PROVE Counters'
  <2>1. pc[v] = "running" /\ pc' = [pc EXCEPT ![v] = "release"] /\ UNCHANGED <<queued, active, sem>>
    BY <1>7 DEF Ends, Rejected, Exited, Errored, RunEnds
  <2>2. /\ Cardinality(At(Counted)') = Cardinality(At(Counted)) /\ Cardinality(At(Queued)') = Cardinality(At(Queued))
        /\ Cardinality(At(Running)') = Cardinality(At(Running)) /\ Cardinality(At(Holding)') = Cardinality(At(Holding))
    BY <2>1, Moves DEF Moved, Counted, Queued, Running, Holding
  <2>3. QED
    BY <1>0, <1>g, <2>1, <2>2
<1>8. ASSUME NEW v \in Videos, Release(v) PROVE Counters'
  <2>1. /\ pc[v] = "release" /\ active' = active - 1 /\ sem' = sem - 1
        /\ pc' = [pc EXCEPT ![v] = "idle"] /\ UNCHANGED queued
    BY <1>8 DEF Release, Return
  <2>2. /\ Cardinality(At(Running)') = Cardinality(At(Running)) - 1
        /\ Cardinality(At(Holding)') = Cardinality(At(Holding)) - 1
        /\ Cardinality(At(Counted)') = Cardinality(At(Counted)) /\ Cardinality(At(Queued)') = Cardinality(At(Queued))
    <3>1. "release" \notin Counted /\ "release" \notin Queued /\ "release" \in Running /\ "release" \in Holding
      BY DEF Counted, Queued, Running, Holding
    <3>2. Moved(Counted, pc[v], "idle") /\ Moved(Queued, pc[v], "idle") /\ Moved(Running, pc[v], "idle") /\ Moved(Holding, pc[v], "idle")
      BY <2>1, Moves
    <3>3. QED
      BY <2>1, <3>1, <3>2, IdleUncounted DEF Moved
  <2>3. QED
    BY <1>0, <1>g, <2>1, <2>2
<1>9. CASE UNCHANGED <<pc, queued, active, sem>>
  BY <1>0, <1>g, <1>9 DEF At
<1>10. ASSUME NEW v \in Videos, Download(v) \/ LearnInfo(v) \/ ForgetInfo(v) \/ SweepRemove(v) PROVE Counters'
  BY <1>9, <1>10 DEF Download, LearnInfo, ForgetInfo, SweepRemove
<1>11. CASE Crash
  <2>1. \A S : "idle" \notin S => At(S)' = {}
    BY <1>11 DEF Crash, At
  <2>2. At(Counted)' = {} /\ At(Queued)' = {} /\ At(Running)' = {} /\ At(Holding)' = {}
    BY <2>1 DEF Counted, Queued, Running, Holding
  <2>3. queued' = 0 /\ active' = 0 /\ sem' = 0
    BY <1>11 DEF Crash
  <2>4. QED
    BY <1>g, <2>2, <2>3, FS_EmptySet
<1>12. CASE Stop \/ SweepList \/ UNCHANGED vars
  BY <1>9, <1>12 DEF Stop, SweepList, vars
<1>13. QED
  BY <1>1, <1>2, <1>3, <1>4, <1>5, <1>6, <1>7, <1>8, <1>10, <1>11, <1>12 DEF Next, Advance

(***************************************************************************)
(* The other parts                                                         *)
(***************************************************************************)

\* Every step keeps the types.
LEMMA NextTypeOK == IInv /\ [Next]_vars => TypeOK'
<1> SUFFICES ASSUME IInv, [Next]_vars PROVE TypeOK' OBVIOUS
<1> USE PoolAssumption DEF IInv
<1>1. queued' \in Nat /\ active' \in Nat /\ sem' \in Nat
  BY NextCounters, AtFinite DEF Counters, CountersExact
<1>2. pc' \in [Videos -> Steps]
  BY DEF TypeOK, Steps, Next, vars, Advance, Ends, Call, Enqueue, GiveUp, Leave, Begin, Release, Return, Acquire,
         Download, Rejected, Exited, Errored, RunEnds, LearnInfo, ForgetInfo, SweepRemove, Stop, Crash, SweepList, files
<1>3. maxDur' \in [Videos -> Limits \cup {0}]
  BY DEF TypeOK, Next, vars, Advance, Ends, Call, Enqueue, GiveUp, Leave, Begin, Release, Return, Acquire,
         Download, Rejected, Exited, Errored, RunEnds, LearnInfo, ForgetInfo, SweepRemove, Stop, Crash, SweepList, files
<1>4. result' \in [Videos -> Outcomes]
  BY DEF TypeOK, Outcomes, Next, vars, Advance, Ends, Call, Enqueue, GiveUp, Leave, Begin, Release, Return, Acquire,
         Download, Rejected, Exited, Errored, RunEnds, LearnInfo, ForgetInfo, SweepRemove, Stop, Crash, SweepList, files
<1>5. infoCache' \subseteq Videos /\ tmp' \subseteq Videos
  BY DEF TypeOK, Next, vars, Advance, Ends, Call, Enqueue, GiveUp, Leave, Begin, Release, Return, Acquire,
         Download, Rejected, Exited, Errored, RunEnds, LearnInfo, ForgetInfo, SweepRemove, Stop, Crash, SweepList, files
<1>6. sweep' \in [todo : BOOLEAN, left : SUBSET Videos]
  <2> TypeOK
    OBVIOUS
  <2>1. ASSUME NEW v \in Videos, SweepRemove(v) PROVE sweep' \in [todo : BOOLEAN, left : SUBSET Videos]
    BY <2>1 DEF TypeOK, SweepRemove
  <2>2. CASE SweepList
    BY <2>2 DEF TypeOK, SweepList
  <2>3. CASE Crash
    <3>1. sweep' = [todo |-> TRUE, left |-> {}]
      BY <2>3 DEF Crash
    <3>2. QED
      BY <3>1
  <2>4. CASE UNCHANGED sweep
    BY <2>4 DEF TypeOK
  <2>5. QED
    BY <2>1, <2>2, <2>3, <2>4
       DEF Next, vars, Advance, Ends, Call, Enqueue, GiveUp, Leave, Begin, Release, Return, Acquire,
           Download, Rejected, Exited, Errored, RunEnds, LearnInfo, ForgetInfo, Stop, files
<1>7. stopping' \in BOOLEAN
  BY DEF TypeOK, Next, vars, Advance, Ends, Call, Enqueue, GiveUp, Leave, Begin, Release, Return, Acquire,
         Download, Rejected, Exited, Errored, RunEnds, LearnInfo, ForgetInfo, SweepRemove, Stop, Crash, SweepList, files
<1>8. QED
  BY <1>1, <1>2, <1>3, <1>4, <1>5, <1>6, <1>7 DEF TypeOK

\* Files of nobody are on the list of the startup sweep until it is through.
LEMMA NextTmpListed == IInv /\ [Next]_vars => TmpListed'
<1> SUFFICES ASSUME IInv, [Next]_vars, ~sweep.todo', NEW w \in tmp' PROVE w \in At({"running"})' \cup sweep'.left
  BY DEF TmpListed
<1> USE PoolAssumption DEF IInv, TypeOK
<1>0. ~sweep.todo => tmp \subseteq At({"running"}) \cup sweep.left
  BY DEF TmpListed
<1>1. CASE tmp' = tmp /\ sweep' = sweep /\ At({"running"}) \subseteq At({"running"})'
  BY <1>0, <1>1
<1>2. ASSUME NEW v \in Videos, (\E m \in Limits : Call(v, m)) \/ Advance(v) \/ Acquire(v) \/ LearnInfo(v) \/ ForgetInfo(v)
      PROVE w \in At({"running"})' \cup sweep'.left
  <2>1. tmp' = tmp /\ sweep' = sweep
    BY <1>2 DEF Advance, Call, Enqueue, GiveUp, Leave, Begin, Release, Acquire, LearnInfo, ForgetInfo, files
  <2>2. \A u \in Videos : pc[u] = "running" => pc'[u] = "running"
    BY <1>2 DEF Advance, Call, Enqueue, GiveUp, Leave, Begin, Release, Return, Acquire, LearnInfo, ForgetInfo
  <2>3. QED
    BY <1>1, <2>1, <2>2 DEF At
<1>3. ASSUME NEW v \in Videos, Download(v) PROVE w \in At({"running"})' \cup sweep'.left
  BY <1>0, <1>3 DEF Download, At
<1>4. ASSUME NEW v \in Videos, Ends(v) PROVE w \in At({"running"})' \cup sweep'.left
  <2>1. tmp' = tmp \ {v} /\ sweep' = sweep /\ pc' = [pc EXCEPT ![v] = "release"]
    BY <1>4 DEF Ends, Rejected, Exited, Errored, RunEnds
  <2>2. QED
    BY <1>0, <2>1 DEF At
<1>5. ASSUME NEW v \in Videos, SweepRemove(v) PROVE w \in At({"running"})' \cup sweep'.left
  BY <1>0, <1>5 DEF SweepRemove, At
<1>6. CASE SweepList
  BY <1>6 DEF SweepList
<1>7. CASE Crash
  BY <1>7 DEF Crash
<1>8. CASE Stop \/ UNCHANGED vars
  BY <1>1, <1>8 DEF Stop, vars, files, At
<1>9. QED
  BY <1>2, <1>3, <1>4, <1>5, <1>6, <1>7, <1>8 DEF Next

\* A success is only reported after the filter and the second check, and a job at
\* rest reports nothing.
LEMMA NextOk == IInv /\ [Next]_vars => OkAtRelease' /\ LimitRespected'
<1> SUFFICES ASSUME IInv, [Next]_vars, NEW w \in Videos, result'[w] = "ok"
             PROVE  pc'[w] = "release" /\ w \notin Live /\ ~TooLong(w, maxDur'[w])
  BY DEF OkAtRelease, LimitRespected, TooLong
<1> USE PoolAssumption DEF IInv, TypeOK
<1> DEFINE Good == pc'[w] = "release" /\ w \notin Live /\ ~TooLong(w, maxDur'[w])
<1>1. CASE result[w] = "ok" /\ pc'[w] = pc[w] /\ maxDur'[w] = maxDur[w]
  BY <1>1 DEF OkAtRelease, LimitRespected
<1>2. ASSUME NEW v \in Videos, (\E m \in Limits : Call(v, m)) \/ Advance(v) \/ Acquire(v) \/ Download(v) PROVE Good
  <2>1. pc[w] # "release" \/ v # w
    BY <1>2 DEF Call, Advance, Enqueue, GiveUp, Leave, Begin, Release, Return, Acquire, Download
  <2>2. CASE v = w
    BY <1>2, <2>1, <2>2 DEF OkAtRelease, Call, Advance, Enqueue, GiveUp, Leave, Begin, Release, Return, Acquire, Download
  <2>3. CASE v # w
    BY <1>1, <1>2, <2>3 DEF Call, Advance, Enqueue, GiveUp, Leave, Begin, Release, Return, Acquire, Download, files
  <2>4. QED
    BY <2>2, <2>3
<1>3. ASSUME NEW v \in Videos, Ends(v) PROVE Good
  <2>1. PICK r, haveInfo : RunEnds(v, r, haveInfo)
    BY <1>3 DEF Ends, Rejected, Exited, Errored
  <2>2. CASE v # w
    BY <1>1, <2>1, <2>2 DEF RunEnds
  <2>3. CASE v = w
    <3>1. Exited(w)
      BY <1>3, <2>3 DEF Ends, Rejected, Errored, RunEnds
    <3>2. ~FilterRejects(w, maxDur[w])
      BY <3>1 DEF Exited
    <3>3. w \notin Live /\ ~TooLong(w, maxDur[w])
      BY <3>2 DEF FilterRejects, TooLong
    <3>4. pc'[w] = "release" /\ maxDur' = maxDur
      BY <2>1, <2>3 DEF RunEnds
    <3>5. QED
      BY <3>3, <3>4
  <2>4. QED
    BY <2>2, <2>3
<1>4. ASSUME NEW v \in Videos, LearnInfo(v) \/ ForgetInfo(v) \/ SweepRemove(v) PROVE Good
  BY <1>1, <1>4 DEF LearnInfo, ForgetInfo, SweepRemove
<1>5. CASE Crash
  BY <1>5 DEF Crash
<1>6. CASE Stop \/ SweepList \/ UNCHANGED vars
  BY <1>1, <1>6 DEF Stop, SweepList, vars, files
<1>7. QED
  BY <1>2, <1>3, <1>4, <1>5, <1>6 DEF Next, Good

(***************************************************************************)
(* The theorems                                                            *)
(***************************************************************************)

\* The strengthening is an invariant of Convert with its crashes and sweeps.
THEOREM Inductive == Spec => []IInv
<1>1. IInv /\ [Next]_vars => IInv'
  BY NextTypeOK, NextCounters, NextTmpListed, NextOk DEF IInv, Counters
<1>2. QED
  BY InitIInv, <1>1, PTL DEF Spec

\* Every variable of the runner keeps its type; no counter becomes negative.
THEOREM TypeCorrect == Spec => []TypeOK
<1>1. IInv => TypeOK
  BY DEF IInv
<1>2. QED
  BY Inductive, <1>1, PTL

\* queued, active and convSem count the jobs they stand for on every path out
\* of Convert, for any number of videos: no capacity is leaked.
THEOREM NothingLeaks == Spec => []CountersExact
<1>1. IInv => CountersExact
  BY DEF IInv
<1>2. QED
  BY Inductive, <1>1, PTL

\* No more than MaxConcurrent yt-dlp runs hold a slot.
THEOREM SlotsBounded == Spec => []RunsBounded
<1>1. IInv => RunsBounded
  BY DEF IInv
<1>2. QED
  BY Inductive, <1>1, PTL

\* The queue never exceeds the bound ytdlp.go compares its counter with.
THEOREM QueueKept == Spec => []QueueBounded
<1>1. IInv => QueueBounded
  BY DEF IInv
<1>2. QED
  BY Inductive, <1>1, PTL

\* No part of a download is left in TMP_DIR once the startup sweep is through.
THEOREM NoTmpLeft == Spec => []TmpOwned
<1>1. IInv => TmpOwned
  BY DEF IInv, TypeOK, TmpListed, TmpOwned
<1>2. QED
  BY Inductive, <1>1, PTL

\* Convert never returns a live stream or a track over its caller's limit.
THEOREM LimitsKept == Spec => []LimitRespected
<1>1. IInv => LimitRespected
  BY DEF IInv
<1>2. QED
  BY Inductive, <1>1, PTL

(***************************************************************************)
(* The refinement                                                          *)
(***************************************************************************)

Waiting == At({"wait"})

\* Whoever waits is counted by Runner.queued.
LEMMA WaitingQueued == Cardinality(Waiting) <= Cardinality(At(Counted)) /\ Cardinality(Waiting) \in Nat
<1>1. Waiting \subseteq At(Counted)
  BY DEF Waiting, At, Counted
<1>2. QED
  BY <1>1, AtFinite, FS_Subset DEF Waiting

\* A step that keeps the jobs waiting for a slot and the jobs holding one is
\* none of the pool's.
LEMMA StutterStep == ASSUME Waiting' = Waiting, At(Holding)' = At(Holding)
                     PROVE  UNCHANGED Pool!vars
  BY DEF Waiting, Holding, Pool!vars

\* The instance of the abstract module counts with the same operator.
LEMMA SameCardinality == ASSUME NEW S PROVE Pool!Cardinality(S) = Cardinality(S)
  BY Zenon DEF Pool!Cardinality, Cardinality

\* The initial states are those of an empty pool.
LEMMA InitPool == Init => Pool!Init
  BY DEF Init, Pool!Init, At

\* Every step of Convert is a step of the pool or changes neither of its sets.
LEMMA NextPool == IInv /\ [Next]_vars => [Pool!Next]_Pool!vars
<1> SUFFICES ASSUME IInv, [Next]_vars PROVE [Pool!Next]_Pool!vars OBVIOUS
<1> USE PoolAssumption DEF IInv
<1>0. pc \in [Videos -> Steps] /\ queued = Cardinality(At(Counted)) /\ sem = Cardinality(At(Holding))
  BY DEF TypeOK, CountersExact, Counted, Holding
<1>1. ASSUME NEW v \in Videos, NEW m \in Limits, Call(v, m) PROVE [Pool!Next]_Pool!vars
  <2>1. Waiting' = Waiting /\ At(Holding)' = At(Holding)
    BY <1>0, <1>1 DEF Call, Waiting, Holding, At
  <2>2. QED
    BY <2>1, StutterStep
<1>2. ASSUME NEW v \in Videos, Enqueue(v) PROVE [Pool!Next]_Pool!vars
  <2>1. CASE QueueFull(queued + 1)
    <3>1. Waiting' = Waiting /\ At(Holding)' = At(Holding)
      BY <1>0, <1>2, <2>1 DEF Enqueue, Waiting, Holding, At
    <3>2. QED
      BY <3>1, StutterStep
  <2>2. CASE ~QueueFull(queued + 1)
    <3>1. Waiting' = Waiting \cup {v} /\ At(Holding)' = At(Holding) /\ v \notin Waiting \cup At(Holding)
      BY <1>0, <1>2, <2>2 DEF Enqueue, Waiting, Holding, At
    <3>2. MaxQueued = 0 \/ queued + 1 <= MaxQueued + MaxConcurrent
      BY <2>2 DEF QueueFull, TypeOK
    <3>3. MaxQueued = 0 \/ Cardinality(Waiting) < MaxQueued + MaxConcurrent
      BY <1>0, <3>2, WaitingQueued, AtFinite
    <3>4. Pool!Admit(v)
      <4>1. MaxQueued = 0 \/ Cardinality(At({"wait"})) < MaxQueued + MaxConcurrent
        BY <3>3 DEF Waiting
      <4>2. QED
        BY <3>1, <4>1, SameCardinality DEF Pool!Admit, Waiting, Holding
    <3>5. QED
      BY <3>4 DEF Pool!Next
  <2>3. QED
    BY <2>1, <2>2
<1>3. ASSUME NEW v \in Videos, Acquire(v) PROVE [Pool!Next]_Pool!vars
  <2>1. v \in Waiting /\ Waiting' = Waiting \ {v} /\ At(Holding)' = At(Holding) \cup {v}
    BY <1>0, <1>3 DEF Acquire, Waiting, Holding, At
  <2>2. Cardinality(At({"slot", "running", "release"})) < MaxConcurrent
    BY <1>0, <1>3 DEF Acquire, Holding
  <2>3. Pool!Start(v)
    BY <2>1, <2>2, SameCardinality DEF Pool!Start, Waiting, Holding
  <2>4. QED
    BY <2>3 DEF Pool!Next
<1>4. ASSUME NEW v \in Videos, GiveUp(v) PROVE [Pool!Next]_Pool!vars
  <2>1. v \in Waiting /\ Waiting' = Waiting \ {v} /\ At(Holding)' = At(Holding)
    BY <1>0, <1>4 DEF GiveUp, Waiting, Holding, At
  <2>2. Pool!Withdraw(v)
    BY <2>1 DEF Pool!Withdraw, Waiting, Holding
  <2>3. QED
    BY <2>2 DEF Pool!Next
<1>5. ASSUME NEW v \in Videos, Leave(v) \/ Begin(v) \/ Ends(v) PROVE [Pool!Next]_Pool!vars
  <2>1. Waiting' = Waiting /\ At(Holding)' = At(Holding)
    BY <1>0, <1>5 DEF Leave, Begin, Return, Ends, Rejected, Exited, Errored, RunEnds, Waiting, Holding, At
  <2>2. QED
    BY <2>1, StutterStep
<1>6. ASSUME NEW v \in Videos, Release(v) PROVE [Pool!Next]_Pool!vars
  <2>1. v \in At(Holding) /\ Waiting' = Waiting /\ At(Holding)' = At(Holding) \ {v}
    BY <1>0, <1>6 DEF Release, Return, Waiting, Holding, At
  <2>2. Pool!Finish(v)
    BY <2>1 DEF Pool!Finish, Waiting, Holding
  <2>3. QED
    BY <2>2 DEF Pool!Next
<1>7. CASE Crash
  <2>1. Waiting' = {} /\ At(Holding)' = {}
    BY <1>7 DEF Crash, Waiting, Holding, At
  <2>2. Pool!Restart
    BY <2>1 DEF Pool!Restart, Waiting, Holding
  <2>3. QED
    BY <2>2 DEF Pool!Next
<1>8. CASE UNCHANGED pc
  <2>1. Waiting' = Waiting /\ At(Holding)' = At(Holding)
    BY <1>8 DEF Waiting, At
  <2>2. QED
    BY <2>1, StutterStep
<1>9. ASSUME NEW v \in Videos, Download(v) \/ LearnInfo(v) \/ ForgetInfo(v) \/ SweepRemove(v) PROVE [Pool!Next]_Pool!vars
  BY <1>8, <1>9 DEF Download, LearnInfo, ForgetInfo, SweepRemove
<1>10. CASE Stop \/ SweepList \/ UNCHANGED vars
  BY <1>8, <1>10 DEF Stop, SweepList, vars
<1>11. QED
  BY <1>1, <1>2, <1>3, <1>4, <1>5, <1>6, <1>7, <1>9, <1>10 DEF Next, Advance

\* The counters, the semaphore and the error paths of Convert add up to the
\* bounded pool, for any set of videos and any limits.
THEOREM Refines == Spec => ImplementsPool
<1>1. Init => Pool!Init
  BY InitPool
<1>2. IInv /\ [Next]_vars => [Pool!Next]_Pool!vars
  BY NextPool
<1>3. QED
  BY <1>1, <1>2, Inductive, PTL DEF Spec, ImplementsPool, Pool!Spec
=============================================================================
