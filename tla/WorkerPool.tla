----------------------------- MODULE WorkerPool -----------------------------
(***************************************************************************)
(* Runner.Convert of internal/ytdlp: the pre-check against the metadata    *)
(* cache, the bounded queue in front of the convSem semaphore, the yt-dlp  *)
(* run with its temporary files, and the release of the slot, together     *)
(* with shutdown, a crash, and the tmp sweep the next start performs.      *)
(*                                                                         *)
(* A job is named by its video: the converter keeps at most one            *)
(* conversion of a video in progress (Converter!OneRunPerVideo).           *)
(***************************************************************************)
EXTENDS Naturals, FiniteSets

CONSTANTS Videos,        \* the videos players ask for
          Limits,        \* duration limits callers come with, 0 for none
          Duration,      \* [Videos -> Nat], as yt-dlp reports it, 0 for unknown
          Live,          \* the videos that are live streams
          MaxConcurrent, \* MAX_CONCURRENT_CONVERSIONS, clamped to 1 or more
          MaxQueued      \* MAX_QUEUED_CONVERSIONS, 0 for no bound

ASSUME PoolAssumption ==
  /\ IsFiniteSet(Videos)
  /\ Limits \subseteq Nat
  /\ Duration \in [Videos -> Nat]
  /\ Live \subseteq Videos
  /\ MaxConcurrent \in Nat \ {0}
  /\ MaxQueued \in Nat

VARIABLES pc,        \* where the job of each video is
          maxDur,    \* the limit its caller came with
          result,    \* what it is about to return
          queued,    \* Runner.queued
          active,    \* Runner.active
          sem,       \* tokens held in Runner.convSem
          infoCache, \* videos whose metadata is in Runner.infoCache
          tmp,       \* videos with files in TMP_DIR
          sweep,     \* the startup sweep: not yet begun, or the entries left
          stopping   \* the base context is cancelled

vars == <<pc, maxDur, result, queued, active, sem, infoCache, tmp, sweep, stopping>>
files == <<infoCache, tmp, sweep>>

Steps == {"idle", "enqueue", "wait", "leave", "slot", "running", "release"}
Outcomes == {"none", "ok", "live", "toolong", "busy", "canceled", "failed"}

TypeOK ==
  /\ pc \in [Videos -> Steps]
  /\ maxDur \in [Videos -> Limits \cup {0}]
  /\ result \in [Videos -> Outcomes]
  /\ queued \in Nat /\ active \in Nat /\ sem \in Nat
  /\ infoCache \subseteq Videos /\ tmp \subseteq Videos
  /\ sweep \in [todo : BOOLEAN, left : SUBSET Videos]
  /\ stopping \in BOOLEAN

\* A start of the process; what an earlier one left on disk is still there.
Init ==
  /\ pc = [v \in Videos |-> "idle"]
  /\ maxDur = [v \in Videos |-> 0]
  /\ result = [v \in Videos |-> "none"]
  /\ queued = 0 /\ active = 0 /\ sem = 0
  /\ infoCache = {} /\ tmp \in SUBSET Videos
  /\ sweep = [todo |-> TRUE, left |-> {}]
  /\ stopping = FALSE

At(s) == {v \in Videos : pc[v] \in s}

(***************************************************************************)
(* Convert, before the run                                                 *)
(***************************************************************************)

TooLong(v, m) == m > 0 /\ Duration[v] > m

\* What the pre-check answers at once: metadata still cached from an earlier
\* run or lookup says the video is live or too long.
KnownUnwanted(v, m) == v \in infoCache /\ (v \in Live \/ TooLong(v, m))

\* A call the pre-check answers changes nothing; every other call goes on.
Call(v, m) ==
  /\ pc[v] = "idle"
  /\ ~KnownUnwanted(v, m)
  /\ maxDur' = [maxDur EXCEPT ![v] = m]
  /\ pc' = [pc EXCEPT ![v] = "enqueue"]
  /\ UNCHANGED <<result, queued, active, sem, files, stopping>>

\* Mutant: the bound of the queue is one too large.
QueueFullOffByOne(q) == MaxQueued > 0 /\ q > MaxQueued + MaxConcurrent + 1

QueueFull(q) == MaxQueued > 0 /\ q > MaxQueued + MaxConcurrent

\* r.queued.Add(1) and the test of its result are one atomic step of the counter.
Enqueue(v) ==
  /\ pc[v] = "enqueue"
  /\ queued' = queued + 1
  /\ IF QueueFull(queued + 1)
     THEN /\ pc' = [pc EXCEPT ![v] = "leave"]
          /\ result' = [result EXCEPT ![v] = "busy"]
     ELSE /\ pc' = [pc EXCEPT ![v] = "wait"]
          /\ UNCHANGED result
  /\ UNCHANGED <<maxDur, active, sem, files, stopping>>

\* Mutant: a semaphore one token too large.
AcquireOneMore(v) ==
  /\ pc[v] = "wait"
  /\ sem <= MaxConcurrent
  /\ sem' = sem + 1
  /\ pc' = [pc EXCEPT ![v] = "slot"]
  /\ UNCHANGED <<maxDur, result, queued, active, files, stopping>>

\* The select on convSem and ctx.Done.
Acquire(v) ==
  /\ pc[v] = "wait"
  /\ sem < MaxConcurrent
  /\ sem' = sem + 1
  /\ pc' = [pc EXCEPT ![v] = "slot"]
  /\ UNCHANGED <<maxDur, result, queued, active, files, stopping>>

GiveUp(v) ==
  /\ pc[v] = "wait"
  /\ stopping
  /\ pc' = [pc EXCEPT ![v] = "leave"]
  /\ result' = [result EXCEPT ![v] = "canceled"]
  /\ UNCHANGED <<maxDur, queued, active, sem, files, stopping>>

\* Convert returns, and its locals are gone.
Return(v) ==
  /\ pc' = [pc EXCEPT ![v] = "idle"]
  /\ maxDur' = [maxDur EXCEPT ![v] = 0]
  /\ result' = [result EXCEPT ![v] = "none"]

\* Mutant: the early returns forget r.queued.Add(-1).
LeaveStillCounted(v) ==
  /\ pc[v] = "leave"
  /\ Return(v)
  /\ UNCHANGED <<queued, active, sem, files, stopping>>

\* r.queued.Add(-1) of a job that was turned away or gave up.
Leave(v) ==
  /\ pc[v] = "leave"
  /\ queued' = queued - 1
  /\ Return(v)
  /\ UNCHANGED <<active, sem, files, stopping>>

Begin(v) ==
  /\ pc[v] = "slot"
  /\ queued' = queued - 1
  /\ active' = active + 1
  /\ pc' = [pc EXCEPT ![v] = "running"]
  /\ UNCHANGED <<maxDur, result, sem, files, stopping>>

(***************************************************************************)
(* The yt-dlp run                                                          *)
(***************************************************************************)

\* Mutant: the filter leaves the duration to the check after the run.
FilterRejectsLive(v, m) == v \in Live

\* --break-match-filters "!is_live & duration <= max": a comparison with a
\* duration yt-dlp does not know is false.
FilterRejects(v, m) == v \in Live \/ (m > 0 /\ (Duration[v] = 0 \/ Duration[v] > m))

\* yt-dlp writes <id>.* into TMP_DIR, again after somebody removed it.
Download(v) ==
  /\ pc[v] = "running"
  /\ ~FilterRejects(v, maxDur[v])
  /\ tmp' = tmp \cup {v}
  /\ UNCHANGED <<pc, maxDur, result, queued, active, sem, infoCache, sweep, stopping>>

\* Mutant: no cleanupGlob, a failed run leaves its parts behind.
RunEndsNoCleanup(v, r, haveInfo) ==
  /\ pc[v] = "running"
  /\ result' = [result EXCEPT ![v] = r]
  /\ infoCache' = IF haveInfo THEN infoCache \cup {v} ELSE infoCache
  /\ tmp' = IF r = "ok" THEN tmp \ {v} ELSE tmp
  /\ pc' = [pc EXCEPT ![v] = "release"]
  /\ UNCHANGED <<maxDur, queued, active, sem, sweep, stopping>>

\* The run ends with r, its metadata line was readable or not (haveInfo), and
\* the deferred cleanupGlob removes what is left of the job in TMP_DIR.
RunEnds(v, r, haveInfo) ==
  /\ pc[v] = "running"
  /\ result' = [result EXCEPT ![v] = r]
  /\ infoCache' = IF haveInfo THEN infoCache \cup {v} ELSE infoCache
  /\ tmp' = tmp \ {v}
  /\ pc' = [pc EXCEPT ![v] = "release"]
  /\ UNCHANGED <<maxDur, queued, active, sem, sweep, stopping>>

\* Exit code 101, nothing downloaded.
Rejected(v) ==
  /\ FilterRejects(v, maxDur[v])
  /\ \E haveInfo \in BOOLEAN :
       RunEnds(v, IF haveInfo /\ v \in Live THEN "live" ELSE "toolong", haveInfo)

\* Exit code 0: the limit once more, then the file moves into the cache if it is there.
Exited(v) ==
  /\ ~FilterRejects(v, maxDur[v])
  /\ \E haveInfo \in BOOLEAN :
       RunEnds(v, IF haveInfo /\ TooLong(v, maxDur[v]) THEN "toolong"
                  ELSE IF v \in tmp THEN "ok" ELSE "failed", haveInfo)

\* Another exit code, or the timeout or the shutdown killed the process group.
Errored(v) ==
  \E haveInfo \in BOOLEAN, r \in {"failed", "canceled"} : RunEnds(v, r, haveInfo)

\* Mutant: the early r.queued.Add(-1) became a defer of every path as well.
ReleaseUnqueues(v) ==
  /\ pc[v] = "release"
  /\ active' = active - 1
  /\ sem' = sem - 1
  /\ queued' = queued - 1
  /\ Return(v)
  /\ UNCHANGED <<files, stopping>>

\* Mutant: the slot is kept when the run was canceled.
ReleaseUnlessCanceled(v) ==
  /\ pc[v] = "release"
  /\ active' = active - 1
  /\ sem' = IF result[v] = "canceled" THEN sem ELSE sem - 1
  /\ Return(v)
  /\ UNCHANGED <<queued, files, stopping>>

\* The deferred r.active.Add(-1); <-r.convSem.
Release(v) ==
  /\ pc[v] = "release"
  /\ active' = active - 1
  /\ sem' = sem - 1
  /\ Return(v)
  /\ UNCHANGED <<queued, files, stopping>>

(***************************************************************************)
(* Metadata expiry, shutdown, crash and the startup sweep                  *)
(***************************************************************************)

\* /api/info or a playlist of one video looks the metadata up, beside any run.
LearnInfo(v) ==
  /\ v \notin infoCache
  /\ infoCache' = infoCache \cup {v}
  /\ UNCHANGED <<pc, maxDur, result, queued, active, sem, tmp, sweep, stopping>>

\* An entry of the metadata cache times out or makes room for another.
ForgetInfo(v) ==
  /\ v \in infoCache
  /\ infoCache' = infoCache \ {v}
  /\ UNCHANGED <<pc, maxDur, result, queued, active, sem, tmp, sweep, stopping>>

Stop ==
  /\ ~stopping
  /\ stopping' = TRUE
  /\ UNCHANGED <<pc, maxDur, result, queued, active, sem, files>>

\* The process dies, in the middle of anything, and starts again.
Crash ==
  /\ pc' = [v \in Videos |-> "idle"]
  /\ maxDur' = [v \in Videos |-> 0]
  /\ result' = [v \in Videos |-> "none"]
  /\ queued' = 0 /\ active' = 0 /\ sem' = 0
  /\ infoCache' = {}
  /\ sweep' = [todo |-> TRUE, left |-> {}]
  /\ stopping' = FALSE
  /\ UNCHANGED tmp

\* sweepTmp(true) runs beside the first requests: it lists the directory ...
SweepList ==
  /\ sweep.todo
  /\ sweep' = [todo |-> FALSE, left |-> tmp]
  /\ UNCHANGED <<pc, maxDur, result, queued, active, sem, infoCache, tmp, stopping>>

\* ... and removes one entry after the other, whoever they belong to by then.
SweepRemove(v) ==
  /\ v \in sweep.left
  /\ sweep' = [sweep EXCEPT !.left = @ \ {v}]
  /\ tmp' = tmp \ {v}
  /\ UNCHANGED <<pc, maxDur, result, queued, active, sem, infoCache, stopping>>

Advance(v) == Enqueue(v) \/ GiveUp(v) \/ Leave(v) \/ Begin(v) \/ Release(v)
Ends(v) == Rejected(v) \/ Exited(v) \/ Errored(v)

Next ==
  \/ \E v \in Videos :
       \/ \E m \in Limits : Call(v, m)
       \/ Advance(v)
       \/ Acquire(v)
       \/ Download(v)
       \/ Ends(v)
       \/ LearnInfo(v)
       \/ ForgetInfo(v)
       \/ SweepRemove(v)
  \/ Stop
  \/ Crash
  \/ SweepList

Spec == Init /\ [][Next]_vars

\* Goroutines are scheduled; a channel hands its slots to the senders in the
\* order they came, so none is passed over for ever; ConversionTimeout and
\* WaitDelay end every run.
Fairness == \A v \in Videos : SF_vars(Advance(v) \/ Acquire(v) \/ Ends(v))

FairSpec == Spec /\ Fairness

(***************************************************************************)
(* Properties                                                              *)
(***************************************************************************)

\* Runner.queued, Runner.active and the semaphore count exactly the jobs they
\* are about, on every path out of Convert (busy, canceled, killed, done): a
\* leaked count would lower the capacity of the server until its restart.
CountersExact ==
  /\ queued = Cardinality(At({"wait", "slot", "leave"}))
  /\ active = Cardinality(At({"running", "release"}))
  /\ sem = Cardinality(At({"slot", "running", "release"}))

\* Never more yt-dlp processes than MAX_CONCURRENT_CONVERSIONS.
RunsBounded == Cardinality(At({"slot", "running", "release"})) <= MaxConcurrent

\* However the Add and the withdrawals of the jobs interleave, no more jobs are
\* queued than the sum ytdlp.go:354 compares with.
QueueBounded == MaxQueued > 0 => Cardinality(At({"wait", "slot"})) <= MaxQueued + MaxConcurrent

\* What Convert returns with success is no live stream and no longer than the
\* caller's limit, whatever was known before the run.
LimitRespected ==
  \A v \in Videos : result[v] = "ok" => v \notin Live /\ ~TooLong(v, maxDur[v])

\* Once the startup sweep is through, every file in TMP_DIR belongs to a running
\* job: neither a failed run nor a crash leaves a part there for good.
TmpOwned == (~sweep.todo /\ sweep.left = {}) => tmp \subseteq At({"running"})

\* A job that joins the queue gets an answer: a slot, or a cancellation.
JobsReturn == \A v \in Videos : pc[v] = "enqueue" ~> pc[v] = "idle"

\* The abstract pool: a slot is held from the moment the semaphore gives it.
Pool == INSTANCE BoundedPool WITH
  Jobs <- Videos,
  MaxWaiting <- IF MaxQueued = 0 THEN 0 ELSE MaxQueued + MaxConcurrent,
  waiting <- At({"wait"}),
  running <- At({"slot", "running", "release"})

\* Convert, with its counters, errors and crashes, implements the bounded pool.
ImplementsPool == Pool!Spec
=============================================================================
