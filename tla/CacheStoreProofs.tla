-------------------------- MODULE CacheStoreProofs --------------------------
(***************************************************************************)
(* Proofs about CacheStore, for any finite set of videos and any number of *)
(* lookups, evictions and dev console requests.                            *)
(***************************************************************************)
EXTENDS CacheStore, FiniteSetTheorems, TLAPS

\* What v's file, if there is one, is protected by.
Fresh(v) == v \in file => v \in young

\* A file that Rename has just put there does not age before PutCache.
RenamedFresh == \A v \in Videos : run[v] = "put" => Fresh(v)

\* Rows the janitor has not read are younger than its reading: so are their files.
UnreadFresh ==
  job[Janitor].at = "readdir" => \A v \in rows \ known : Fresh(v)

\* The same for the files it takes for orphans.
SuspectsFresh ==
  job[Janitor].at \in {"orphans", "unlink"} => \A v \in job[Janitor].todo \cap rows : Fresh(v)

IInv == TypeOK /\ RenamedFresh /\ UnreadFresh /\ SuspectsFresh

\* A crash, or the first start, leaves well-formed sweepers.
LEMMA StartingJobs == Starting \in [Sweepers -> Jobs] /\ Starting[Janitor].at = "expired"
<1>1. NoJob \in Jobs
  BY DEF NoJob, Jobs
<1>2. [NoJob EXCEPT !.at = "expired"] \in Jobs /\ [NoJob EXCEPT !.at = "expired"].at = "expired"
  <2>1. ASSUME NEW j \in Jobs PROVE [j EXCEPT !.at = "expired"] \in Jobs /\ [j EXCEPT !.at = "expired"].at = "expired"
    BY DEF Jobs
  <2>2. QED
    BY <1>1, <2>1
<1>3. Janitor \in Sweepers
  BY DEF Sweepers, Evictors
<1>4. QED
  BY <1>1, <1>2, <1>3 DEF Starting

\* A table of rows has a size.
LEMMA RowsCounted == TypeOK => Cardinality(rows) \in Int
<1>1. TypeOK => IsFiniteSet(rows)
  BY CacheAssumption, FS_Subset DEF TypeOK
<1>2. QED
  BY <1>1, FS_CardinalityType

\* At the start there are no rows and no files.
LEMMA InitIInv == Init => IInv
<1> SUFFICES ASSUME Init PROVE IInv OBVIOUS
<1>1. TypeOK
  BY StartingJobs, CacheAssumption DEF Init, TypeOK, NoLook
<1>2. RenamedFresh
  BY DEF Init, RenamedFresh
<1>3. job[Janitor].at = "expired"
  BY StartingJobs DEF Init
<1>4. QED
  BY <1>1, <1>2, <1>3 DEF IInv, UnreadFresh, SuspectsFresh

(***************************************************************************)
(* Types                                                                   *)
(***************************************************************************)

\* A sweeper's step leaves its locals well-formed, and those of the others alone.
LEMMA NextJobs == IInv /\ [Next]_vars => job' \in [Sweepers -> Jobs]
<1> SUFFICES ASSUME TypeOK, [Next]_vars PROVE job' \in [Sweepers -> Jobs] BY DEF IInv
<1>t. /\ job \in [Sweepers -> Jobs] /\ Janitor \in Sweepers /\ Enforcers \subseteq Sweepers
      /\ rows \subseteq Videos /\ expired \subseteq Videos /\ file \subseteq Videos /\ Cardinality(rows) \in Int
  BY RowsCounted DEF TypeOK, Sweepers, Evictors
<1>n. NoJob \in Jobs
  BY DEF NoJob, Jobs
<1>1. CASE UNCHANGED vars
  BY <1>1, <1>t DEF vars
<1>2. ASSUME NEW r \in Readers, Lookup(r) PROVE job' = job
  BY <1>2 DEF Lookup, Stat, Heal, GetCache
<1>3. ASSUME NEW v \in Videos, Lead(v) \/ Expire(v) \/ GracePasses(v) PROVE job' = job
  BY <1>3 DEF Lead, Expire, GracePasses
<1>4. ASSUME NEW v \in Videos, Run(v) PROVE job' \in [Sweepers -> Jobs]
  <2>1. ASSUME NEW w \in Enforcers, PutCache(v, w) PROVE job' \in [Sweepers -> Jobs]
    BY <2>1, <1>t DEF PutCache, Jobs
  <2>2. CASE Rename(v) \/ RunFails(v) \/ Unlist(v)
    BY <2>2, <1>t DEF Rename, RunFails, Unlist
  <2>3. QED
    BY <1>4, <2>1, <2>2 DEF Run
<1>5. ASSUME NEW w \in Sweepers, Sweep(w) PROVE job' \in [Sweepers -> Jobs]
  <2>0. job[w] \in Jobs
    BY <1>t
  <2>1. CASE Each(w)
    <3>1. ASSUME NEW v \in job[w].todo,
                 job' = [job EXCEPT ![w].at = "remove", ![w].id = v, ![w].todo = @ \ {v}]
          PROVE  job' \in [Sweepers -> Jobs]
      <4>1. v \in Videos /\ job[w].todo \ {v} \in SUBSET Videos
        BY <2>0 DEF Jobs
      <4>2. QED
        BY <3>1, <4>1, <2>0, <1>t DEF Jobs
    <3>2. ASSUME NEW a \in {"expired", "idle"}, job' = [job EXCEPT ![w].at = a]
          PROVE  job' \in [Sweepers -> Jobs]
      BY <3>2, <2>0, <1>t DEF Jobs
    <3>3. QED
      BY <2>1, <3>1, <3>2 DEF Each
  <2>2. CASE Remove(w)
    BY <2>2, <2>0, <1>t DEF Remove, Jobs
  <2>3. CASE Delete(w)
    BY <2>3, <2>0, <1>t DEF Delete, Jobs
  <2>4. CASE Measure(w)
    BY <2>4, <2>0, <1>t, <1>n DEF Measure, Jobs
  <2>5. CASE List(w)
    BY <2>5, <2>0, <1>t, <1>n DEF List, Jobs
  <2>6. CASE NextOfBatch(w)
    <3>1. ASSUME NEW v \in job[w].todo
          PROVE  v \in Videos /\ job[w].todo \ {v} \in SUBSET Videos
      BY <2>0 DEF Jobs
    <3>2. ASSUME NEW v \in job[w].todo, job' = [job EXCEPT ![w].todo = @ \ {v}]
          PROVE  job' \in [Sweepers -> Jobs]
      BY <3>1, <3>2, <2>0, <1>t DEF Jobs
    <3>3. ASSUME NEW v \in job[w].todo,
                 job' = [job EXCEPT ![w].todo = @ \ {v}, ![w].id = v, ![w].at = "stat"]
          PROVE  job' \in [Sweepers -> Jobs]
      BY <3>1, <3>3, <2>0, <1>t DEF Jobs
    <3>4. QED
      BY <2>6, <3>2, <3>3 DEF NextOfBatch
  <2>7. CASE StatSize(w)
    <3>1. job[w].size - 1 \in Int /\ job[w].size \in Int
      BY <2>0 DEF Jobs
    <3>2. ASSUME NEW k \in Int, job' = [job EXCEPT ![w].at = "remove", ![w].size = k]
          PROVE  job' \in [Sweepers -> Jobs]
      BY <3>2, <2>0, <1>t DEF Jobs
    <3>3. QED
      BY <2>7, <3>1, <3>2 DEF StatSize
  <2>8. CASE BatchEnds(w)
    BY <2>8, <2>0, <1>t, <1>n DEF BatchEnds, Jobs
  <2>9. QED
    BY <1>5, <2>1, <2>2, <2>3, <2>4, <2>5, <2>6, <2>7, <2>8 DEF Sweep
<1>6. ASSUME NEW w \in Sweepers, AdminDelete(w) \/ QueryFails(w) PROVE job' \in [Sweepers -> Jobs]
  <2>1. CASE AdminDelete(w)
    <3>1. PICK ids \in {{v} : v \in Videos} \cup {rows} : job' = [job EXCEPT ![w].at = "each", ![w].todo = ids]
      BY <2>1 DEF AdminDelete
    <3>2. job[w] \in Jobs /\ ids \in SUBSET Videos
      BY <1>t
    <3>3. QED
      BY <3>1, <3>2, <1>t DEF Jobs
  <2>2. CASE QueryFails(w)
    BY <2>2, <1>t, <1>n DEF QueryFails, Jobs
  <2>3. QED
    BY <1>6, <2>1, <2>2
<1>7. CASE Clean
  <2>0. job[Janitor] \in Jobs
    BY <1>t
  <2>1. CASE Tick \/ ExpiredCacheIDs
    BY <2>1, <2>0, <1>t DEF Tick, ExpiredCacheIDs, Jobs
  <2>2. CASE AllCacheIDs \/ ReadDir \/ OrphansDone \/ RowsDone
    BY <2>2, <2>0, <1>t DEF AllCacheIDs, ReadDir, OrphansDone, RowsDone, Jobs
  <2>3. CASE Orphan
    <3>1. ASSUME NEW v \in job[Janitor].todo
          PROVE  v \in Videos /\ job[Janitor].todo \ {v} \in SUBSET Videos
      BY <2>0 DEF Jobs
    <3>2. ASSUME NEW v \in job[Janitor].todo, job' = [job EXCEPT ![Janitor].todo = @ \ {v}]
          PROVE  job' \in [Sweepers -> Jobs]
      BY <3>1, <3>2, <2>0, <1>t DEF Jobs
    <3>3. ASSUME NEW v \in job[Janitor].todo,
                 job' = [job EXCEPT ![Janitor].todo = @ \ {v}, ![Janitor].id = v, ![Janitor].at = "unlink"]
          PROVE  job' \in [Sweepers -> Jobs]
      BY <3>1, <3>3, <2>0, <1>t DEF Jobs
    <3>4. QED
      BY <2>3, <3>2, <3>3 DEF Orphan
  <2>4. CASE Unlink
    BY <2>4, <2>0, <1>t DEF Unlink, Jobs
  <2>5. CASE RowWithoutFile
    BY <2>5, <1>t DEF RowWithoutFile
  <2>6. QED
    BY <1>7, <2>1, <2>2, <2>3, <2>4, <2>5 DEF Clean
<1>8. CASE Crash
  BY <1>8, StartingJobs DEF Crash
<1>9. QED
  BY <1>1, <1>2, <1>3, <1>4, <1>5, <1>6, <1>7, <1>8, <1>t DEF Next

\* A row that is expired is a row, and a young file a file, whatever a step does.
LEMMA NextStore ==
  IInv /\ [Next]_vars => /\ rows' \subseteq Videos /\ expired' \subseteq rows'
                         /\ file' \subseteq Videos /\ young' \subseteq file'
<1> SUFFICES ASSUME TypeOK, [Next]_vars
             PROVE  /\ rows' \subseteq Videos /\ expired' \subseteq rows'
                    /\ file' \subseteq Videos /\ young' \subseteq file'
  BY DEF IInv
<1>t. rows \subseteq Videos /\ expired \subseteq rows /\ file \subseteq Videos /\ young \subseteq file
  BY DEF TypeOK
<1> DEFINE Good == /\ rows' \subseteq Videos /\ expired' \subseteq rows'
                   /\ file' \subseteq Videos /\ young' \subseteq file'
<1>s. ASSUME UNCHANGED store PROVE Good
  BY <1>s, <1>t DEF store
<1>d. ASSUME NEW v, DeleteRow(v) PROVE Good
  BY <1>d, <1>t DEF DeleteRow
<1>f. ASSUME NEW v, RemoveFile(v) PROVE Good
  BY <1>f, <1>t DEF RemoveFile
<1>1. CASE UNCHANGED vars
  BY <1>1, <1>s DEF vars
<1>2. ASSUME NEW r \in Readers, Lookup(r) PROVE Good
  BY <1>2, <1>t, <1>s, <1>d DEF Lookup, Stat, Heal, GetCache
<1>3. ASSUME NEW v \in Videos, Lead(v) \/ Expire(v) \/ GracePasses(v) PROVE Good
  BY <1>3, <1>t, <1>s DEF Lead, Expire, GracePasses
<1>4. ASSUME NEW v \in Videos, Run(v) PROVE Good
  BY <1>4, <1>t, <1>s DEF Run, Rename, RunFails, Unlist, PutCache
<1>5. ASSUME NEW w \in Sweepers, Sweep(w) PROVE Good
  BY <1>5, <1>s, <1>d, <1>f DEF Sweep, Each, Remove, Delete, Measure, List, NextOfBatch, StatSize, BatchEnds
<1>6. ASSUME NEW w \in Sweepers, AdminDelete(w) \/ QueryFails(w) PROVE Good
  BY <1>6, <1>s DEF AdminDelete, QueryFails
<1>7. CASE Clean
  BY <1>7, <1>s, <1>d, <1>f DEF Clean, Tick, ExpiredCacheIDs, AllCacheIDs, ReadDir, Orphan, Unlink, OrphansDone,
                                RowWithoutFile, RowsDone
<1>8. CASE Crash
  BY <1>8, <1>s DEF Crash
<1>9. QED
  BY <1>1, <1>2, <1>3, <1>4, <1>5, <1>6, <1>7, <1>8 DEF Next

\* The other variables keep their types.
LEMMA NextRest ==
  IInv /\ [Next]_vars => /\ run' \in [Videos -> {"none", "run", "put", "unlist"}] /\ runs' \in 0 .. MaxRuns
                         /\ look' \in [Readers -> [do : {"nothing", "stat", "heal"}, id : Videos \cup {NoVideo}]]
                         /\ known' \subseteq Videos
<1> DEFINE Looks == [do : {"nothing", "stat", "heal"}, id : Videos \cup {NoVideo}]
           Good == /\ run' \in [Videos -> {"none", "run", "put", "unlist"}] /\ runs' \in 0 .. MaxRuns
                   /\ look' \in [Readers -> Looks]
                   /\ known' \subseteq Videos
<1> SUFFICES ASSUME TypeOK, [Next]_vars PROVE Good
  BY DEF IInv
<1>t. /\ run \in [Videos -> {"none", "run", "put", "unlist"}] /\ runs \in 0 .. MaxRuns
      /\ look \in [Readers -> Looks] /\ known \subseteq Videos /\ rows \subseteq Videos
      /\ NoLook \in Looks
  BY DEF TypeOK, NoLook
<1>s. ASSUME UNCHANGED <<run, runs, look, known>> PROVE Good
  BY <1>s, <1>t
<1>1. CASE UNCHANGED vars
  BY <1>1, <1>s DEF vars
<1>2. ASSUME NEW r \in Readers, Lookup(r) PROVE Good
  <2>1. ASSUME NEW k \in Looks, look' = [look EXCEPT ![r] = k], UNCHANGED <<run, runs, known>> PROVE Good
    BY <2>1, <1>t
  <2>2. ASSUME NEW v \in Videos, GetCache(r, v) PROVE Good
    <3>1. [do |-> "stat", id |-> v] \in Looks
      OBVIOUS
    <3> HIDE DEF Looks
    <3>2. QED
      BY <2>1, <2>2, <3>1 DEF GetCache
  <2>3. CASE Stat(r)
    <3>1. CASE look[r].id \in file
      BY <2>3, <3>1, <2>1, <1>t DEF Stat
    <3>2. CASE look[r].id \notin file
      <4>1. look' = [look EXCEPT ![r].do = "heal"] /\ UNCHANGED <<run, runs, known>>
        BY <2>3, <3>2 DEF Stat
      <4>2. QED
        BY <4>1, <1>t
    <3>3. QED
      BY <3>1, <3>2
  <2>4. CASE Heal(r)
    BY <2>4, <2>1, <1>t DEF Heal
  <2>5. QED
    BY <1>2, <2>2, <2>3, <2>4 DEF Lookup
<1>3. ASSUME NEW v \in Videos, Lead(v) \/ Expire(v) \/ GracePasses(v) PROVE Good
  <2>1. CASE Lead(v)
    BY <2>1, <1>t, CacheAssumption DEF Lead
  <2>2. CASE Expire(v) \/ GracePasses(v)
    BY <2>2, <1>s DEF Expire, GracePasses
  <2>3. QED
    BY <1>3, <2>1, <2>2
<1>4. ASSUME NEW v \in Videos, Run(v) PROVE Good
  BY <1>4, <1>t DEF Run, Rename, RunFails, Unlist, PutCache
<1>5. ASSUME NEW w \in Sweepers, Sweep(w) PROVE Good
  BY <1>5, <1>s DEF Sweep, Each, Remove, Delete, Measure, List, NextOfBatch, StatSize, BatchEnds
<1>6. ASSUME NEW w \in Sweepers, AdminDelete(w) \/ QueryFails(w) PROVE Good
  BY <1>6, <1>s DEF AdminDelete, QueryFails
<1>7. CASE Clean
  BY <1>7, <1>s, <1>t DEF Clean, Tick, ExpiredCacheIDs, AllCacheIDs, ReadDir, Orphan, Unlink, OrphansDone,
                          RowWithoutFile, RowsDone
<1>8. CASE Crash
  BY <1>8, <1>t DEF Crash
<1>9. QED
  BY <1>1, <1>2, <1>3, <1>4, <1>5, <1>6, <1>7, <1>8 DEF Next

\* Every step keeps the types.
LEMMA NextTypeOK == IInv /\ [Next]_vars => TypeOK'
  BY NextJobs, NextStore, NextRest DEF TypeOK

(***************************************************************************)
(* What a step may do to a file, a row and the janitor's account of them   *)
(***************************************************************************)

\* Only the time since Rename takes the protection from a file, and not while the
\* janitor is between its readings and its decisions, nor before PutCache.
LEMMA FreshLost ==
  ASSUME [Next]_vars, NEW v \in Videos, Fresh(v), ~Fresh(v)'
  PROVE  /\ run[v] # "put" /\ job[Janitor].at \notin {"readdir", "orphans", "unlink"}
         /\ UNCHANGED <<run, job>>
<1>s. ~UNCHANGED <<file, young>>
  BY DEF Fresh
<1>f. ASSUME NEW u, RemoveFile(u) PROVE FALSE
  BY <1>f DEF RemoveFile, Fresh
<1>d. ASSUME NEW u, DeleteRow(u) PROVE FALSE
  BY <1>d, <1>s DEF DeleteRow
<1>1. PICK u \in Videos : GracePasses(u) \/ Rename(u)
  BY <1>s, <1>f, <1>d
     DEF Next, vars, store, Lookup, Stat, Heal, GetCache, Lead, Expire, Run, RunFails, Unlist, PutCache,
         Sweep, Each, Remove, Delete, Measure, List, NextOfBatch, StatSize, BatchEnds, AdminDelete, QueryFails,
         Clean, Tick, ExpiredCacheIDs, AllCacheIDs, ReadDir, Orphan, Unlink, OrphansDone, RowWithoutFile,
         RowsDone, Crash
<1>2. ~Rename(u)
  BY DEF Rename, Fresh
<1>3. GracePasses(u) /\ u = v
  BY <1>1, <1>2 DEF GracePasses, Fresh
<1>4. QED
  BY <1>3 DEF GracePasses

\* Only PutCache makes a row, for the file of its run.
LEMMA RowMade ==
  ASSUME [Next]_vars, NEW v \in Videos, v \notin rows, v \in rows'
  PROVE  run[v] = "put" /\ UNCHANGED <<file, young>>
<1>s. ~UNCHANGED rows
  OBVIOUS
<1>f. ASSUME NEW u, RemoveFile(u) PROVE FALSE
  BY <1>f, <1>s DEF RemoveFile
<1>d. ASSUME NEW u, DeleteRow(u) PROVE FALSE
  BY <1>d DEF DeleteRow
<1>1. PICK u \in Videos, w \in Enforcers : PutCache(u, w)
  BY <1>s, <1>f, <1>d
     DEF Next, vars, store, Lookup, Stat, Heal, GetCache, Lead, Expire, GracePasses, Run, Rename, RunFails, Unlist,
         Sweep, Each, Remove, Delete, Measure, List, NextOfBatch, StatSize, BatchEnds, AdminDelete, QueryFails,
         Clean, Tick, ExpiredCacheIDs, AllCacheIDs, ReadDir, Orphan, Unlink, OrphansDone, RowWithoutFile,
         RowsDone, Crash
<1>2. u = v
  BY <1>1 DEF PutCache
<1>3. QED
  BY <1>1, <1>2 DEF PutCache

\* A file is only about to be recorded after it has been put there.
LEMMA PutReached ==
  ASSUME TypeOK, [Next]_vars, NEW v \in Videos, run'[v] = "put"
  PROVE  run[v] = "put" \/ Fresh(v)'
<1>t. run \in [Videos -> {"none", "run", "put", "unlist"}]
  BY DEF TypeOK
<1>1. ASSUME NEW u \in Videos, Rename(u) PROVE run[v] = "put" \/ Fresh(v)'
  BY <1>1, <1>t DEF Rename, Fresh
<1>2. ASSUME NEW u \in Videos, Lead(u) \/ RunFails(u) \/ Unlist(u) PROVE run[v] = "put"
  BY <1>2, <1>t DEF Lead, RunFails, Unlist
<1>3. ASSUME NEW u \in Videos, NEW w \in Enforcers, PutCache(u, w) PROVE run[v] = "put"
  BY <1>3, <1>t DEF PutCache
<1>4. CASE Crash
  BY <1>4 DEF Crash
<1>5. CASE UNCHANGED run
  BY <1>5
<1>6. QED
  BY <1>1, <1>2, <1>3, <1>4, <1>5
     DEF Next, vars, Lookup, Stat, Heal, GetCache, Expire, GracePasses, Run,
         Sweep, Each, Remove, Delete, Measure, List, NextOfBatch, StatSize, BatchEnds, AdminDelete, QueryFails,
         Clean, Tick, ExpiredCacheIDs, AllCacheIDs, ReadDir, Orphan, Unlink, OrphansDone, RowWithoutFile, RowsDone

\* The points between the janitor's first look at the table and its last at a file.
Looking == {"readdir", "orphans", "unlink"}

\* No other sweeper's step, and no other task of the janitor, leads there.
LEMMA OthersElsewhere ==
  ASSUME TypeOK, NEW w \in Sweepers, Sweep(w) \/ AdminDelete(w) \/ QueryFails(w) \/ \E v \in Videos : PutCache(v, w) /\ w \in Enforcers
  PROVE  (job'[Janitor] = job[Janitor] \/ job'[Janitor].at \notin Looking) /\ known' = known
<1>t. job \in [Sweepers -> Jobs] /\ job[w] \in Jobs /\ Janitor \in Sweepers
  BY DEF TypeOK, Sweepers, Evictors
<1>k. known' = known
  BY DEF Sweep, Each, Remove, Delete, Measure, List, NextOfBatch, StatSize, BatchEnds, AdminDelete, QueryFails, PutCache
<1>1. CASE w # Janitor
  <2>1. ASSUME NEW v, PutCache(v, w) PROVE job'[Janitor] = job[Janitor]
    BY <2>1, <1>1, <1>t DEF PutCache
  <2>2. ASSUME Each(w) \/ Remove(w) \/ Delete(w) PROVE job'[Janitor] = job[Janitor]
    BY <2>2, <1>1, <1>t DEF Each, Remove, Delete
  <2>3. ASSUME Measure(w) \/ List(w) \/ BatchEnds(w) PROVE job'[Janitor] = job[Janitor]
    BY <2>3, <1>1, <1>t DEF Measure, List, BatchEnds
  <2>4. ASSUME NextOfBatch(w) \/ StatSize(w) PROVE job'[Janitor] = job[Janitor]
    BY <2>4, <1>1, <1>t DEF NextOfBatch, StatSize
  <2>5. ASSUME AdminDelete(w) PROVE job'[Janitor] = job[Janitor]
    BY <2>5, <1>1, <1>t DEF AdminDelete
  <2>6. ASSUME QueryFails(w) PROVE job'[Janitor] = job[Janitor]
    BY <2>6, <1>1, <1>t DEF QueryFails
  <2>7. QED
    BY <1>k, <2>1, <2>2, <2>3, <2>4, <2>5, <2>6 DEF Sweep
<1>2. CASE w = Janitor
  <2>1. w \notin Enforcers \cup Admins
    BY <1>2, CacheAssumption
  <2>n. NoJob.at = "idle"
    BY DEF NoJob
  <2>2. CASE Each(w)
    <3>1. ASSUME NEW v, job' = [job EXCEPT ![w].at = "remove", ![w].id = v, ![w].todo = @ \ {v}]
          PROVE  job'[Janitor].at = "remove"
      BY <3>1, <1>2, <1>t DEF Jobs
    <3>2. ASSUME job' = [job EXCEPT ![w].at = "expired"] PROVE job'[Janitor].at = "expired"
      BY <3>2, <1>2, <1>t DEF Jobs
    <3>3. QED
      BY <2>2, <3>1, <3>2, <1>2, <1>k DEF Each, Looking
  <2>3. CASE Remove(w)
    BY <2>3, <1>2, <1>t, <1>k DEF Remove, Looking, Jobs
  <2>4. CASE Delete(w)
    BY <2>4, <1>2, <1>t, <1>k DEF Delete, Looking, Jobs
  <2>5. CASE Measure(w) \/ List(w) \/ BatchEnds(w)
    <3>1. CASE Measure(w)
      BY <3>1, <2>n, <1>2, <1>t, <1>k DEF Measure, Looking, Jobs
    <3>2. CASE List(w)
      BY <3>2, <2>n, <1>2, <1>t, <1>k DEF List, Looking, Jobs
    <3>3. CASE BatchEnds(w)
      BY <3>3, <2>n, <1>2, <1>t, <1>k DEF BatchEnds, Looking, Jobs
    <3>4. QED
      BY <2>5, <3>1, <3>2, <3>3
  <2>6. CASE NextOfBatch(w) \/ StatSize(w)
    <3>1. ASSUME NEW v, job' = [job EXCEPT ![w].todo = @ \ {v}], job[w].at = "batch"
          PROVE  job'[Janitor].at = "batch"
      BY <3>1, <1>2, <1>t DEF Jobs
    <3>2. ASSUME NEW v, job' = [job EXCEPT ![w].todo = @ \ {v}, ![w].id = v, ![w].at = "stat"]
          PROVE  job'[Janitor].at = "stat"
      BY <3>2, <1>2, <1>t DEF Jobs
    <3>3. ASSUME NEW k, job' = [job EXCEPT ![w].at = "remove", ![w].size = k]
          PROVE  job'[Janitor].at = "remove"
      BY <3>3, <1>2, <1>t DEF Jobs
    <3>4. CASE StatSize(w)
      BY <3>4, <3>3, <1>k DEF StatSize, Looking
    <3>5. CASE NextOfBatch(w)
      BY <3>5, <3>1, <3>2, <1>k DEF NextOfBatch, Looking
    <3>6. QED
      BY <2>6, <3>4, <3>5
  <2>7. CASE QueryFails(w)
    BY <2>7, <2>n, <1>2, <1>t, <1>k DEF QueryFails, Looking, Jobs
  <2>8. QED
    BY <2>1, <2>2, <2>3, <2>4, <2>5, <2>6, <2>7 DEF Sweep, AdminDelete
<1>3. QED
  BY <1>1, <1>2

\* How the janitor gets to its look at the directory, and what it knows there.
LEMMA Arrives ==
  ASSUME TypeOK, [Next]_vars, job'[Janitor].at \in Looking
  PROVE  \/ job'[Janitor].at = "readdir" /\ known' = rows /\ UNCHANGED store
         \/ job'[Janitor].at = "readdir" /\ job[Janitor].at = "readdir" /\ known' = known
         \/ job[Janitor].at = "readdir" /\ job'[Janitor].at = "orphans" /\ job'[Janitor].todo = file \ known
         \/ job[Janitor].at \in {"orphans", "unlink"} /\ job'[Janitor].at \in {"orphans", "unlink"}
            /\ job'[Janitor].todo \subseteq job[Janitor].todo
<1> DEFINE Goal == \/ job'[Janitor].at = "readdir" /\ known' = rows /\ UNCHANGED store
                   \/ job'[Janitor].at = "readdir" /\ job[Janitor].at = "readdir" /\ known' = known
                   \/ job[Janitor].at = "readdir" /\ job'[Janitor].at = "orphans" /\ job'[Janitor].todo = file \ known
                   \/ job[Janitor].at \in {"orphans", "unlink"} /\ job'[Janitor].at \in {"orphans", "unlink"}
                      /\ job'[Janitor].todo \subseteq job[Janitor].todo
<1>t. job \in [Sweepers -> Jobs] /\ Janitor \in Sweepers /\ job[Janitor] \in Jobs /\ Enforcers \subseteq Sweepers
  BY DEF TypeOK, Sweepers, Evictors
<1>s. ASSUME job'[Janitor] = job[Janitor], known' = known PROVE Goal
  BY <1>s DEF Looking
<1>1. CASE UNCHANGED vars
  BY <1>1, <1>s DEF vars
<1>2. ASSUME NEW r \in Readers, Lookup(r) PROVE Goal
  BY <1>2, <1>s DEF Lookup, Stat, Heal, GetCache
<1>3. ASSUME NEW v \in Videos, Lead(v) \/ Expire(v) \/ GracePasses(v) \/ Rename(v) \/ RunFails(v) \/ Unlist(v) PROVE Goal
  BY <1>3, <1>s DEF Lead, Expire, GracePasses, Rename, RunFails, Unlist
<1>4. ASSUME NEW w \in Sweepers,
             Sweep(w) \/ AdminDelete(w) \/ QueryFails(w) \/ \E v \in Videos : PutCache(v, w) /\ w \in Enforcers
      PROVE  Goal
  BY <1>4, <1>s, OthersElsewhere
<1>5. CASE Tick \/ ExpiredCacheIDs \/ OrphansDone \/ RowsDone
  <2>1. CASE Tick \/ OrphansDone \/ RowsDone
    BY <2>1, <1>t DEF Tick, OrphansDone, RowsDone, Looking, Jobs
  <2>2. CASE ExpiredCacheIDs
    BY <2>2, <1>t DEF ExpiredCacheIDs, Looking, Jobs
  <2>3. QED
    BY <1>5, <2>1, <2>2
<1>6. CASE AllCacheIDs
  BY <1>6, <1>t DEF AllCacheIDs, Jobs
<1>7. CASE ReadDir
  BY <1>7, <1>t DEF ReadDir, Jobs
<1>8. CASE Orphan
  BY <1>8, <1>t DEF Orphan, Jobs
<1>9. CASE Unlink
  BY <1>9, <1>t DEF Unlink, Jobs
<1>10. CASE RowWithoutFile
  BY <1>10 DEF RowWithoutFile, Looking
<1>11. CASE Crash
  BY <1>11, StartingJobs DEF Crash, Looking
<1>12. QED
  BY <1>1, <1>2, <1>3, <1>4, <1>5, <1>6, <1>7, <1>8, <1>9, <1>10, <1>11, <1>t DEF Next, Run, Clean

(***************************************************************************)
(* The invariant, and the theorems                                         *)
(***************************************************************************)

\* The grace covers the time from Rename to PutCache, and that from the janitor's
\* reading of the table to its last look at a file.
LEMMA NextFresh == IInv /\ [Next]_vars => RenamedFresh' /\ UnreadFresh' /\ SuspectsFresh'
<1> SUFFICES ASSUME IInv, [Next]_vars PROVE RenamedFresh' /\ UnreadFresh' /\ SuspectsFresh' OBVIOUS
<1>t. TypeOK /\ rows' \subseteq Videos
  BY NextStore DEF IInv
<1>r. ASSUME NEW v \in Videos, v \in rows', v \notin rows PROVE Fresh(v)'
  <2>1. run[v] = "put" /\ UNCHANGED <<file, young>>
    BY <1>r, RowMade
  <2>2. QED
    BY <2>1 DEF IInv, RenamedFresh, Fresh
<1>1. RenamedFresh'
  <2> SUFFICES ASSUME NEW v \in Videos, run'[v] = "put", ~Fresh(v)' PROVE FALSE
    BY DEF RenamedFresh
  <2>1. run[v] = "put"
    BY PutReached, <1>t
  <2>2. Fresh(v)
    BY <2>1 DEF IInv, RenamedFresh
  <2>3. QED
    BY <2>1, <2>2, FreshLost
<1>2. UnreadFresh'
  <2> SUFFICES ASSUME job'[Janitor].at = "readdir", NEW v \in Videos, v \in rows', v \notin known', ~Fresh(v)'
               PROVE  FALSE
    BY <1>t DEF UnreadFresh
  <2>1. v \in rows
    BY <1>r
  <2>2. job[Janitor].at = "readdir" /\ known' = known
    <3>1. ~(known' = rows /\ UNCHANGED store)
      BY DEF store
    <3>2. QED
      BY <3>1, Arrives, <1>t DEF Looking
  <2>3. Fresh(v)
    BY <2>1, <2>2 DEF IInv, UnreadFresh
  <2>4. QED
    BY <2>2, <2>3, FreshLost
<1>3. SuspectsFresh'
  <2> SUFFICES ASSUME job'[Janitor].at \in {"orphans", "unlink"},
                      NEW v \in Videos, v \in job'[Janitor].todo, v \in rows', ~Fresh(v)'
               PROVE  FALSE
    BY <1>t DEF SuspectsFresh
  <2>1. v \in rows
    BY <1>r
  <2>2. \/ job[Janitor].at = "readdir" /\ job'[Janitor].todo = file \ known
        \/ job[Janitor].at \in {"orphans", "unlink"} /\ job'[Janitor].todo \subseteq job[Janitor].todo
    BY Arrives, <1>t DEF Looking
  <2>3. Fresh(v)
    BY <2>1, <2>2 DEF IInv, UnreadFresh, SuspectsFresh
  <2>4. QED
    BY <2>2, <2>3, FreshLost
<1>4. QED
  BY <1>1, <1>2, <1>3

\* The strengthening is an invariant of the cache with its sweepers and crashes.
THEOREM Inductive == Spec => []IInv
<1>1. IInv /\ [Next]_vars => IInv'
  BY NextTypeOK, NextFresh DEF IInv
<1>2. QED
  BY InitIInv, <1>1, PTL DEF Spec

\* Rows, files and every sweeper's locals keep their types.
THEOREM TypeCorrect == Spec => []TypeOK
<1>1. IInv => TypeOK
  BY DEF IInv
<1>2. QED
  BY Inductive, <1>1, PTL

\* The janitor takes no file for an orphan that has a row, for any number of
\* videos, lookups and sweepers and however long the sweeps take one another.
THEOREM GraceSuffices == Spec => OrphansHaveNoRow
<1> DEFINE Taken == job[Janitor].at = "orphans" /\ job'[Janitor].at = "unlink" => job'[Janitor].id \notin rows
<1>1. IInv /\ [Next]_vars => [Taken]_vars
  <2> SUFFICES ASSUME IInv, Next, job[Janitor].at = "orphans", job'[Janitor].at = "unlink"
               PROVE  job'[Janitor].id \notin rows
    BY DEF vars
  <2>t. TypeOK /\ job \in [Sweepers -> Jobs] /\ Janitor \in Sweepers /\ job[Janitor] \in Jobs
    BY DEF IInv, TypeOK, Sweepers, Evictors
  <2>1. CASE Orphan
    <3>1. PICK v \in job[Janitor].todo :
            \/ v \notin file \ young /\ job' = [job EXCEPT ![Janitor].todo = @ \ {v}]
            \/ v \in file \ young
               /\ job' = [job EXCEPT ![Janitor].todo = @ \ {v}, ![Janitor].id = v, ![Janitor].at = "unlink"]
      BY <2>1 DEF Orphan
    <3>2. v \in file \ young /\ job'[Janitor].id = v
      BY <3>1, <2>t DEF Jobs
    <3>3. QED
      BY <3>1, <3>2 DEF IInv, SuspectsFresh, Fresh
  <2>2. CASE ~Orphan
    <3>1. job'[Janitor] # job[Janitor]
      OBVIOUS
    <3>2. ASSUME NEW w \in Sweepers,
                 Sweep(w) \/ AdminDelete(w) \/ QueryFails(w) \/ \E v \in Videos : PutCache(v, w) /\ w \in Enforcers
          PROVE  FALSE
      BY <3>1, <3>2, <2>t, OthersElsewhere DEF Looking
    <3>3. ASSUME Clean PROVE FALSE
      BY <3>1, <3>3, <2>2, <2>t
         DEF Clean, Tick, ExpiredCacheIDs, AllCacheIDs, ReadDir, Unlink, OrphansDone, RowWithoutFile, RowsDone, Jobs
    <3>4. ASSUME Crash PROVE FALSE
      BY <3>4, StartingJobs DEF Crash
    <3>5. ASSUME UNCHANGED job PROVE FALSE
      BY <3>1, <3>5
    <3>6. QED
      BY <3>2, <3>3, <3>4, <3>5, <2>t
         DEF Next, Lookup, Stat, Heal, GetCache, Lead, Expire, GracePasses, Run, Rename, RunFails, Unlist, Sweepers,
             Evictors
  <2>3. QED
    BY <2>1, <2>2
<1>2. QED
  BY Inductive, <1>1, PTL DEF Spec, OrphansHaveNoRow

=============================================================================
