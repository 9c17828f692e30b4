------------------------------ MODULE CacheStore ------------------------------
(***************************************************************************)
(* The mp3 cache: rows of table cache_entries (internal/store) and files   *)
(* in CACHE_DIR.  Lookups and runs (convert.go), the janitor and           *)
(* enforceCacheSize (stream.go) and the dev console's deletes (dev.go)     *)
(* change both, one after the other and under no common lock.              *)
(*                                                                         *)
(* All tracks have one size, so sizes are numbers of tracks, and a batch   *)
(* of LRUCacheIDs is evicted in any order.                                 *)
(***************************************************************************)
EXTENDS Integers, FiniteSets

CONSTANTS Videos,
          NoVideo,
          Readers,   \* lookups that may be going on at the same time
          Enforcers, \* goroutines that run starts for enforceCacheSize
          Janitor,   \* the goroutine of janitorLoop
          Admins,    \* dev console requests that delete
          MaxSize,   \* MAX_CACHE_SIZE_MB, in tracks
          Faulty,    \* the database may fail
          MaxRuns    \* bound of the model on the conversions

ASSUME CacheAssumption ==
  /\ IsFiniteSet(Videos) /\ NoVideo \notin Videos
  /\ MaxSize \in Nat \ {0} /\ MaxRuns \in Nat
  /\ Faulty \in BOOLEAN
  /\ Janitor \notin Enforcers \cup Admins
  /\ Enforcers \cap Admins = {}

Evictors == Enforcers \cup {Janitor}
Sweepers == Evictors \cup Admins

VARIABLES rows,    \* videos with a row
          expired, \* those whose expires_at has passed
          file,    \* videos with a file
          young,   \* those whose file is less than ten minutes old
          run,     \* where the conversion of a video is, "none" without a flight
          runs,    \* conversions so far
          look,    \* what each lookup is about to do
          job,     \* where each sweeper is, and its locals
          known    \* AllCacheIDs as the janitor read it, later those without a file

store == <<rows, expired, file, young>>
vars == <<store, run, runs, look, job, known>>

NoLook == [do |-> "nothing", id |-> NoVideo]
Jobs == [at : {"idle", "expired", "each", "remove", "delete", "known", "readdir", "orphans", "unlink", "rows",
               "measure", "list", "batch", "stat"},
         todo : SUBSET Videos,         \* ids still to be looked at
         id : Videos \cup {NoVideo},   \* the one it is at
         size : Int,                   \* its own account of the total size
         evicted : BOOLEAN,            \* something of the batch was evicted
         back : {"each", "batch"}]     \* where removeCached returns to
NoJob == [at |-> "idle", todo |-> {}, id |-> NoVideo, size |-> 0, evicted |-> FALSE, back |-> "each"]

TypeOK ==
  /\ rows \subseteq Videos /\ expired \subseteq rows
  /\ file \subseteq Videos /\ young \subseteq file
  /\ run \in [Videos -> {"none", "run", "put", "unlist"}] /\ runs \in 0 .. MaxRuns
  /\ look \in [Readers -> [do : {"nothing", "stat", "heal"}, id : Videos \cup {NoVideo}]]
  /\ job \in [Sweepers -> Jobs]
  /\ known \subseteq Videos

\* janitorLoop cleans up before its first tick.
Starting == [w \in Sweepers |-> IF w = Janitor THEN [NoJob EXCEPT !.at = "expired"] ELSE NoJob]

Init ==
  /\ rows = {} /\ expired = {} /\ file = {} /\ young = {}
  /\ run = [v \in Videos |-> "none"] /\ runs = 0
  /\ look = [r \in Readers |-> NoLook]
  /\ job = Starting
  /\ known = {}

(***************************************************************************)
(* The table, the directory and time                                       *)
(***************************************************************************)

\* DeleteCache, whose error nobody looks at.
DeleteRow(v) ==
  /\ \/ rows' = rows \ {v} /\ expired' = expired \ {v}
     \/ Faulty /\ UNCHANGED <<rows, expired>>
  /\ UNCHANGED <<file, young>>

RemoveFile(v) ==
  /\ file' = file \ {v} /\ young' = young \ {v}
  /\ UNCHANGED <<rows, expired>>

Expire(v) ==
  /\ v \in rows \ expired
  /\ expired' = expired \cup {v}
  /\ UNCHANGED <<rows, file, young, run, runs, look, job, known>>

\* Ten minutes pass for a file.  The janitor takes less from its look at the table
\* to its last look at a file, and so does a run from Rename to PutCache.
GracePasses(v) ==
  /\ v \in young
  /\ job[Janitor].at \notin {"readdir", "orphans", "unlink"}
  /\ run[v] # "put"
  /\ young' = young \ {v}
  /\ UNCHANGED <<rows, expired, file, run, runs, look, job, known>>

(***************************************************************************)
(* lookupCache and run                                                     *)
(***************************************************************************)

GetCache(r, v) ==
  /\ look[r] = NoLook
  /\ v \in rows \ expired
  /\ look' = [look EXCEPT ![r] = [do |-> "stat", id |-> v]]
  /\ UNCHANGED <<store, run, runs, job, known>>

\* A hit, and touch finds the row, or did so not long ago; or the row has no file.
Stat(r) ==
  /\ look[r].do = "stat"
  /\ IF look[r].id \in file
     THEN /\ look' = [look EXCEPT ![r] = NoLook]
          /\ expired' \in {expired, expired \ {look[r].id}}
     ELSE /\ look' = [look EXCEPT ![r].do = "heal"]
          /\ UNCHANGED expired
  /\ UNCHANGED <<rows, file, young, run, runs, job, known>>

Heal(r) ==
  /\ look[r].do = "heal"
  /\ DeleteRow(look[r].id)
  /\ look' = [look EXCEPT ![r] = NoLook]
  /\ UNCHANGED <<run, runs, job, known>>

\* A request whose lookup has missed, maybe a while ago, starts a flight.
Lead(v) ==
  /\ run[v] = "none"
  /\ runs < MaxRuns
  /\ run' = [run EXCEPT ![v] = "run"]
  /\ runs' = runs + 1
  /\ UNCHANGED <<store, look, job, known>>

Rename(v) ==
  /\ run[v] = "run"
  /\ file' = file \cup {v} /\ young' = young \cup {v}
  /\ run' = [run EXCEPT ![v] = "put"]
  /\ UNCHANGED <<rows, expired, runs, look, job, known>>

RunFails(v) ==
  /\ run[v] = "run"
  /\ run' = [run EXCEPT ![v] = "unlist"]
  /\ UNCHANGED <<store, runs, look, job, known>>

\* PutCache, whose error is logged, and go enforceCacheSize; the flight is still
\* listed then.
PutCache(v, w) ==
  /\ run[v] = "put"
  /\ job[w].at = "idle"
  /\ \/ rows' = rows \cup {v} /\ expired' = expired \ {v}
     \/ Faulty /\ UNCHANGED <<rows, expired>>
  /\ run' = [run EXCEPT ![v] = "unlist"]
  /\ job' = [job EXCEPT ![w].at = "measure"]
  /\ UNCHANGED <<file, young, runs, look, known>>

Unlist(v) ==
  /\ run[v] = "unlist"
  /\ run' = [run EXCEPT ![v] = "none"]
  /\ UNCHANGED <<store, runs, look, job, known>>

(***************************************************************************)
(* removeCached, for whoever calls it                                      *)
(***************************************************************************)

Remove(w) ==
  /\ job[w].at = "remove"
  /\ RemoveFile(job[w].id)
  /\ job' = [job EXCEPT ![w].at = "delete"]
  /\ UNCHANGED <<run, runs, look, known>>

\* enforceCacheSize leaves its batch as soon as its own account of the size will do.
Delete(w) ==
  /\ job[w].at = "delete"
  /\ DeleteRow(job[w].id)
  /\ job' = [job EXCEPT ![w].at = job[w].back, ![w].id = NoVideo,
               ![w].evicted = (job[w].back = "batch"),
               ![w].todo = IF job[w].back = "batch" /\ job[w].size <= MaxSize THEN {} ELSE @]
  /\ UNCHANGED <<run, runs, look, known>>

(***************************************************************************)
(* enforceCacheSize                                                        *)
(***************************************************************************)

\* Mutant: one more track than the limit may stay.
MeasureOffByOne(w) ==
  /\ job[w].at = "measure"
  /\ job' = [job EXCEPT ![w] = IF Cardinality(rows) <= MaxSize + 1 THEN NoJob
                               ELSE [@ EXCEPT !.at = "list", !.size = Cardinality(rows)]]
  /\ UNCHANGED <<store, run, runs, look, known>>

\* CacheTotalSize, before the loop and after every batch.
Measure(w) ==
  /\ job[w].at = "measure"
  /\ job' = [job EXCEPT ![w] = IF Cardinality(rows) <= MaxSize THEN NoJob
                               ELSE [@ EXCEPT !.at = "list", !.size = Cardinality(rows)]]
  /\ UNCHANGED <<store, run, runs, look, known>>

List(w) ==
  /\ job[w].at = "list"
  /\ job' = [job EXCEPT ![w] = IF rows = {} THEN NoJob
                               ELSE [@ EXCEPT !.at = "batch", !.todo = rows, !.evicted = FALSE, !.back = "batch"]]
  /\ UNCHANGED <<store, run, runs, look, known>>

\* Is there a flight?  It may be gone, or there may be one, when the file is removed.
NextOfBatch(w) ==
  /\ job[w].at = "batch"
  /\ \E v \in job[w].todo :
       \/ run[v] # "none" /\ job' = [job EXCEPT ![w].todo = @ \ {v}]
       \/ run[v] = "none" /\ job' = [job EXCEPT ![w].todo = @ \ {v}, ![w].id = v, ![w].at = "stat"]
  /\ UNCHANGED <<store, run, runs, look, known>>

StatSize(w) ==
  /\ job[w].at = "stat"
  /\ job' = [job EXCEPT ![w].at = "remove", ![w].size = IF job[w].id \in file THEN @ - 1 ELSE @]
  /\ UNCHANGED <<store, run, runs, look, known>>

\* A batch that evicted nothing was in use altogether.
BatchEnds(w) ==
  /\ job[w].at = "batch" /\ job[w].todo = {}
  /\ job' = [job EXCEPT ![w] = IF job[w].evicted THEN [@ EXCEPT !.at = "measure"] ELSE NoJob]
  /\ UNCHANGED <<store, run, runs, look, known>>

(***************************************************************************)
(* The janitor and the dev console                                         *)
(***************************************************************************)

Tick ==
  /\ job[Janitor].at = "idle"
  /\ job' = [job EXCEPT ![Janitor].at = "expired"]
  /\ UNCHANGED <<store, run, runs, look, known>>

\* Until none are left.
ExpiredCacheIDs ==
  /\ job[Janitor].at = "expired"
  /\ job' = [job EXCEPT ![Janitor].at = IF expired = {} THEN "known" ELSE "each", ![Janitor].todo = expired]
  /\ UNCHANGED <<store, run, runs, look, known>>

\* One entry, or all of them.
AdminDelete(w) ==
  /\ w \in Admins
  /\ job[w].at = "idle"
  /\ \E ids \in {{v} : v \in Videos} \cup {rows} : job' = [job EXCEPT ![w].at = "each", ![w].todo = ids]
  /\ UNCHANGED <<store, run, runs, look, known>>

Each(w) ==
  /\ job[w].at = "each"
  /\ \/ \E v \in job[w].todo :
          job' = [job EXCEPT ![w].at = "remove", ![w].id = v, ![w].todo = @ \ {v}]
     \/ /\ job[w].todo = {}
        /\ job' = [job EXCEPT ![w].at = IF w = Janitor THEN "expired" ELSE "idle"]
  /\ UNCHANGED <<store, run, runs, look, known>>

AllCacheIDs ==
  /\ job[Janitor].at = "known"
  /\ known' = rows
  /\ job' = [job EXCEPT ![Janitor].at = "readdir"]
  /\ UNCHANGED <<store, run, runs, look>>

ReadDir ==
  /\ job[Janitor].at = "readdir"
  /\ job' = [job EXCEPT ![Janitor].at = "orphans", ![Janitor].todo = file \ known]
  /\ known' = known \ file
  /\ UNCHANGED <<store, run, runs, look>>

\* Mutant: no grace for a file whose row is still to come.
OrphanAnyAge ==
  /\ job[Janitor].at = "orphans"
  /\ \E v \in job[Janitor].todo :
       \/ v \notin file /\ job' = [job EXCEPT ![Janitor].todo = @ \ {v}]
       \/ v \in file /\ job' = [job EXCEPT ![Janitor].todo = @ \ {v}, ![Janitor].id = v, ![Janitor].at = "unlink"]
  /\ UNCHANGED <<store, run, runs, look, known>>

\* Mutant: the comparison with the grace is the wrong way round.
OrphanYoungOnly ==
  /\ job[Janitor].at = "orphans"
  /\ \E v \in job[Janitor].todo :
       \/ v \notin young /\ job' = [job EXCEPT ![Janitor].todo = @ \ {v}]
       \/ v \in young /\ job' = [job EXCEPT ![Janitor].todo = @ \ {v}, ![Janitor].id = v, ![Janitor].at = "unlink"]
  /\ UNCHANGED <<store, run, runs, look, known>>

\* A file without a row: it goes if it is old enough.
Orphan ==
  /\ job[Janitor].at = "orphans"
  /\ \E v \in job[Janitor].todo :
       \/ v \notin file \ young /\ job' = [job EXCEPT ![Janitor].todo = @ \ {v}]
       \/ v \in file \ young /\ job' = [job EXCEPT ![Janitor].todo = @ \ {v}, ![Janitor].id = v, ![Janitor].at = "unlink"]
  /\ UNCHANGED <<store, run, runs, look, known>>

Unlink ==
  /\ job[Janitor].at = "unlink"
  /\ RemoveFile(job[Janitor].id)
  /\ job' = [job EXCEPT ![Janitor].at = "orphans", ![Janitor].id = NoVideo]
  /\ UNCHANGED <<run, runs, look, known>>

OrphansDone ==
  /\ job[Janitor].at = "orphans" /\ job[Janitor].todo = {}
  /\ job' = [job EXCEPT ![Janitor].at = "rows"]
  /\ UNCHANGED <<store, run, runs, look, known>>

\* Mutant: only expiry and eviction delete rows.
RowWithoutFileKept ==
  /\ job[Janitor].at = "rows"
  /\ \E v \in known : known' = known \ {v}
  /\ UNCHANGED <<store, run, runs, look, job>>

\* Rows without a file, then enforceCacheSize.
RowWithoutFile ==
  /\ job[Janitor].at = "rows"
  /\ \E v \in known : known' = known \ {v} /\ DeleteRow(v)
  /\ UNCHANGED <<run, runs, look, job>>

RowsDone ==
  /\ job[Janitor].at = "rows" /\ known = {}
  /\ job' = [job EXCEPT ![Janitor].at = "measure"]
  /\ UNCHANGED <<store, run, runs, look, known>>

\* A query fails, and the sweeper goes on to its next task.
QueryFails(w) ==
  /\ Faulty
  /\ job[w].at \in {"expired", "known", "measure", "list"}
  /\ job' = [job EXCEPT ![w] = CASE @.at = "expired" -> [@ EXCEPT !.at = "known"]
                                 [] @.at = "known" -> [@ EXCEPT !.at = "measure"]
                                 [] OTHER -> NoJob]
  /\ UNCHANGED <<store, run, runs, look, known>>

Crash ==
  /\ run' = [v \in Videos |-> "none"]
  /\ look' = [r \in Readers |-> NoLook]
  /\ job' = Starting
  /\ known' = {}
  /\ UNCHANGED <<store, runs>>

Lookup(r) == Stat(r) \/ Heal(r) \/ \E v \in Videos : GetCache(r, v)
Run(v) == Rename(v) \/ RunFails(v) \/ Unlist(v) \/ \E w \in Enforcers : PutCache(v, w)
Sweep(w) ==
  \/ Each(w) \/ Remove(w) \/ Delete(w)
  \/ Measure(w) \/ List(w) \/ NextOfBatch(w) \/ StatSize(w) \/ BatchEnds(w)
Clean ==
  \/ Tick \/ ExpiredCacheIDs \/ AllCacheIDs \/ ReadDir \/ Orphan \/ Unlink \/ OrphansDone
  \/ RowWithoutFile \/ RowsDone

Next ==
  \/ \E r \in Readers : Lookup(r)
  \/ \E v \in Videos : Lead(v) \/ Run(v) \/ Expire(v) \/ GracePasses(v)
  \/ \E w \in Sweepers : Sweep(w) \/ AdminDelete(w) \/ QueryFails(w)
  \/ Clean
  \/ Crash

Spec == Init /\ [][Next]_vars

\* The ticker of janitorLoop fires for ever, with more than the grace in between,
\* goroutines are scheduled, every conversion comes to its end, and some day the
\* process stays up.
Fairness ==
  /\ <>[][~Crash]_vars
  /\ WF_vars(Clean)
  /\ \A w \in Sweepers : WF_vars(Sweep(w))
  /\ \A v \in Videos : WF_vars(Run(v)) /\ SF_vars(GracePasses(v))

FairSpec == Spec /\ Fairness

(***************************************************************************)
(* Properties                                                              *)
(***************************************************************************)

\* Although the janitor compares a listing with rows it read before, and a run
\* moves its file into the directory before it writes the row, no file that has a
\* row by then is taken for an orphan: the grace covers both gaps.
OrphansHaveNoRow ==
  [][job[Janitor].at = "orphans" /\ job'[Janitor].at = "unlink" => job'[Janitor].id \notin rows]_vars

\* A row whose file is gone (a crash, an error, a removal that raced a run) goes,
\* too, or gets its file back: the cache does not promise a track for ever that
\* it cannot serve.
RowsHealed == \A v \in Videos : v \in rows \ file ~> v \notin rows \ file

\* A file whose row is gone is removed or gets a row: the disk does not fill up
\* with tracks that count for no limit.
OrphansCollected == \A v \in Videos : v \in file \ rows ~> v \notin file \ rows

\* However runs, lookups and sweepers interleave and although the eviction gives
\* up on tracks in use, the cache gets back below its limit.
SizeEnforced == Cardinality(rows) > MaxSize ~> Cardinality(rows) <= MaxSize
=============================================================================
