--------------------------- MODULE ServerProofs ---------------------------
(***************************************************************************)
(* Proofs about the two modules that are about the server as a whole:      *)
(* Admission, who gets in, for any players, addresses, items and limits;   *)
(* and Lifecycle, how the process ends, for any conversions and listeners. *)
(***************************************************************************)
EXTENDS Admission, Lifecycle, TLAPS

\* What a request on its way looks like.
Request == [pc : Steps, api : {"convert", "info", "playlist"}, from : Senders, ip : IPs, item : Items]

\* Whoever sends a request, it is counted under a key of the work limiter.
LEMMA WorkKeyTyped == \A s \in Senders, a \in IPs : WorkKey(s, a) \in WorkKeys
  BY DEF Senders, WorkKey, SteamID, WorkKeys

\* A place that serves nothing is one, too.
LEMMA IdleTyped == Idle \in Request
<1>1. (CHOOSE a \in IPs : TRUE) \in IPs /\ (CHOOSE v \in Videos : TRUE) \in Videos
  BY AdmissionAssumption
<1>2. [cred |-> "bad", player |-> NoPlayer] \in Senders
  BY DEF Senders
<1>3. QED
  BY <1>1, <1>2 DEF Idle, Request, Steps, Items

\* The limits are natural numbers, and no bucket is too small for a request.
LEMMA MaxTyped == \A k \in WorkKeys : MaxOf(k) \in Nat \ {0}
  BY AdmissionAssumption DEF MaxOf

\* What is resolved is a Spotify track: a video of the same name goes past it.
ResolvesTracks == \A r \in Requests : req[r].pc = "resolve" => req[r].item \in Tracks

IInv == TypeOK /\ ResolvesTracks

\* Every step keeps the types.
LEMMA NextTypeOK == IInv /\ [Next]_vars => TypeOK'
<1> SUFFICES ASSUME IInv, [Next]_vars PROVE TypeOK' OBVIOUS
<1> USE AdmissionAssumption DEF IInv, TypeOK, world
\* A request moves, and the buckets, the block list and what is known stay.
<1>1. ASSUME NEW r \in Requests, NEW q \in Request, req' = [req EXCEPT ![r] = q] PROVE req' \in [Requests -> Request]
  BY <1>1 DEF Request
<1>2. ASSUME NEW r \in Requests, Answer(r) PROVE req' \in [Requests -> Request]
  BY <1>1, <1>2, IdleTyped DEF Answer
<1>3. ASSUME NEW r \in Requests, NEW to \in Steps, Goto(r, to) PROVE req' \in [Requests -> Request]
  BY <1>3 DEF Goto, Request
<1>4. ASSUME NEW r \in Requests, NEW api \in {"convert", "info", "playlist"}, NEW s \in Senders, NEW a \in IPs,
             NEW i \in Items, Arrive(r, api, s, a, i)
      PROVE  TypeOK'
  <2>1. [pc |-> "auth", api |-> api, from |-> s, ip |-> a, item |-> i] \in Request
    BY DEF Request, Steps
  <2>2. req' \in [Requests -> Request]
    BY <1>1, <1>4, <2>1 DEF Arrive
  <2>3. QED
    BY <1>4, <2>2 DEF Arrive, Request
<1>5. ASSUME NEW r \in Requests, Flooded(r) \/ Blocked(r) \/ RateLimited(r) \/ Fail(r) PROVE TypeOK'
  <2>1. req' \in [Requests -> Request]
    BY <1>2, <1>5 DEF Flooded, Blocked, RateLimited, Fail
  <2>2. QED
    BY <1>5, <2>1 DEF Flooded, Blocked, RateLimited, Fail, Request
<1>6. ASSUME NEW r \in Requests, Authenticate(r) PROVE TypeOK'
  <2>1. req' \in [Requests -> Request]
    BY <1>2, <1>3, <1>6 DEF Authenticate, Steps
  <2>2. flood' \in [IPs -> 0 .. FloodMax]
    BY <1>6 DEF Authenticate
  <2>3. QED
    BY <1>6, <2>1, <2>2 DEF Authenticate, Request
<1>7. ASSUME NEW r \in Requests, Admit(r) PROVE TypeOK'
  <2>1. req' \in [Requests -> Request]
    BY <1>3, <1>7 DEF Admit, Steps
  <2>2. QED
    BY <1>7, <2>1 DEF Admit, Request
<1>8. ASSUME NEW r \in Requests, Pay(r) PROVE TypeOK'
  <2>1. req' \in [Requests -> Request]
    BY <1>3, <1>8 DEF Pay, Work, Steps
  <2>2. KeyOf(r) \in WorkKeys /\ work[KeyOf(r)] \in Nat
    BY WorkKeyTyped, MaxTyped DEF KeyOf
  <2>3. DOMAIN work' = WorkKeys /\ \A k \in WorkKeys : work'[k] \in 0 .. MaxOf(k)
    BY <1>8, <2>2, MaxTyped DEF Pay
  <2>4. QED
    BY <1>8, <2>1, <2>3 DEF Pay, Request
<1>9. ASSUME NEW r \in Requests, Resolve(r) PROVE TypeOK'
  <2>1. req[r].item \in Items /\ VideoOf[req[r].item] \in Items
    BY <1>9 DEF Resolve, ResolvesTracks, Items
  <2>2. PICK to \in {"fetch", "pay"} :
          req' = [req EXCEPT ![r].pc = to, ![r].item = VideoOf[req[r].item]]
    BY <1>9 DEF Resolve, GoOn
  <2>3. req' \in [Requests -> Request]
    BY <2>1, <2>2 DEF Request, Steps
  <2>4. QED
    BY <1>9, <2>1, <2>3 DEF Resolve, Request
<1>10. ASSUME NEW r \in Requests, Serve(r) PROVE TypeOK'
  <2>1. req' \in [Requests -> Request] /\ req[r].item \in Items
    BY <1>2, <1>10 DEF Serve
  <2>2. QED
    BY <1>10, <2>1 DEF Serve, Request
<1>11. ASSUME NEW k \in WorkKeys, Refill(k) PROVE TypeOK'
  BY <1>11, MaxTyped DEF Refill
<1>12. ASSUME NEW a \in IPs, RefillFlood(a) PROVE TypeOK'
  BY <1>12 DEF RefillFlood
<1>13. ASSUME NEW p \in Players, Block(p) PROVE TypeOK'
  BY <1>13 DEF Block
<1>14. ASSUME NEW i \in Items, Forget(i) PROVE TypeOK'
  BY <1>14 DEF Forget
<1>15. CASE UNCHANGED vars
  BY <1>15 DEF vars
<1>16. QED
  BY <1>4, <1>5, <1>6, <1>7, <1>8, <1>9, <1>10, <1>11, <1>12, <1>13, <1>14, <1>15 DEF Next, Handle, Answered

\* Every step that sends a request to be resolved sends a track.
LEMMA NextResolves == IInv /\ [Next]_vars => ResolvesTracks'
<1> SUFFICES ASSUME IInv, [Next]_vars PROVE ResolvesTracks' OBVIOUS
<1> USE DEF IInv, TypeOK, ResolvesTracks
<1>1. ASSUME NEW r \in Requests, NEW q, req' = [req EXCEPT ![r] = q], q.pc = "resolve" => q.item \in Tracks
      PROVE  ResolvesTracks'
  BY <1>1
<1>2. ASSUME NEW r \in Requests, Answer(r) PROVE ResolvesTracks'
  BY <1>1, <1>2 DEF Answer, Idle
<1>3. ASSUME NEW r \in Requests, NEW to, Goto(r, to), to = "resolve" => req[r].item \in Tracks PROVE ResolvesTracks'
  BY <1>3 DEF Goto
<1>4. ASSUME NEW r \in Requests, NEW api \in {"convert", "info", "playlist"}, NEW s \in Senders, NEW a \in IPs,
             NEW i \in Items, Arrive(r, api, s, a, i)
      PROVE  ResolvesTracks'
  BY <1>4 DEF Arrive
<1>5. ASSUME NEW r \in Requests, Flooded(r) \/ Blocked(r) \/ RateLimited(r) \/ Serve(r) \/ Fail(r) PROVE ResolvesTracks'
  BY <1>2, <1>5 DEF Flooded, Blocked, RateLimited, Serve, Fail
<1>6. ASSUME NEW r \in Requests, Authenticate(r) PROVE ResolvesTracks'
  BY <1>2, <1>3, <1>6 DEF Authenticate
<1>7. ASSUME NEW r \in Requests, Admit(r) PROVE ResolvesTracks'
  BY <1>3, <1>7 DEF Admit
<1>8. ASSUME NEW r \in Requests, Pay(r) PROVE ResolvesTracks'
  BY <1>3, <1>8 DEF Pay, Work
<1>9. ASSUME NEW r \in Requests, Resolve(r) PROVE ResolvesTracks'
  BY <1>9 DEF Resolve, GoOn
<1>10. CASE UNCHANGED req
  BY <1>10
<1>11. QED
  BY <1>4, <1>5, <1>6, <1>7, <1>8, <1>9, <1>10
  DEF Next, Handle, Answered, Refill, RefillFlood, Block, Forget, vars

\* The invariant of the requests, the buckets and the block list is inductive.
THEOREM Inductive == Spec => []IInv
<1>1. Init => IInv
  <2> SUFFICES ASSUME Init PROVE IInv OBVIOUS
  <2>1. req \in [Requests -> Request]
    BY IdleTyped DEF Init
  <2>2. TypeOK
    BY <2>1, AdmissionAssumption, MaxTyped DEF Init, TypeOK, Request
  <2>3. ResolvesTracks
    BY DEF Init, ResolvesTracks, Idle
  <2>4. QED
    BY <2>2, <2>3 DEF IInv
<1>2. IInv /\ [Next]_vars => IInv'
  BY NextTypeOK, NextResolves DEF IInv
<1>3. QED
  BY <1>1, <1>2, PTL DEF Spec

\* Requests, buckets, block list and caches are well typed: in particular no bucket goes
\* below zero or above its limit (auth.go:150-166), whoever is counted under it.
THEOREM TypeCorrect == Spec => []TypeOK
<1>1. IInv => TypeOK
  BY DEF IInv
<1>2. QED
  BY Inductive, <1>1, PTL

(***************************************************************************)
(* Whose permits a request uses                                            *)
(***************************************************************************)

\* The key of a player belongs to the requests with that player's token.
LEMMA KeyOfPlayer ==
  ASSUME NEW s \in Senders, NEW a \in IPs, NEW p \in Players, WorkKey(s, a) = <<"p", p>>
  PROVE  s = [cred |-> "token", player |-> p]
<1>1. SteamID(s) # NoPlayer /\ SteamID(s) = p
  BY DEF WorkKey
<1>2. s.cred = "token" /\ s.player = p
  BY <1>1 DEF SteamID
<1>3. QED
  BY <1>2 DEF Senders

\* A bucket gets emptier when a request pays, and at no other time.
LEMMA OnlyPay ==
  ASSUME IInv, [Next]_vars, NEW k \in WorkKeys, work'[k] < work[k]
  PROVE  \E r \in Requests : Pay(r) /\ KeyOf(r) = k
<1> USE DEF IInv, TypeOK
<1>0. work[k] \in Nat
  BY MaxTyped
<1>1. ASSUME UNCHANGED work PROVE FALSE
  BY <1>0, <1>1
<1>2. ASSUME NEW j \in WorkKeys, Refill(j) PROVE FALSE
  BY <1>0, <1>2 DEF Refill
<1>3. ASSUME NEW r \in Requests, Pay(r) PROVE KeyOf(r) = k
  BY <1>0, <1>3 DEF Pay
<1>4. QED
  BY <1>1, <1>2, <1>3
  DEF Next, Arrive, Handle, Flooded, Authenticate, Blocked, Admit, RateLimited, Answered, Resolve, Serve, Fail,
      RefillFlood, Block, Forget, vars, world

\* The permits of a player go to the player's own requests (auth.go:16-17, 121-132),
\* whoever else asks for what at the same time, with any number of players.
THEOREM PermitsOwned == Spec => OwnPermits
<1>1. IInv /\ [Next]_vars =>
        [\A p \in Players : work'[<<"p", p>>] < work[<<"p", p>>] =>
           \E r \in Requests : TokenOf(r, p) /\ req[r].pc = "pay" /\ req'[r].pc # "pay"]_vars
  <2> SUFFICES ASSUME IInv, [Next]_vars, NEW p \in Players, work'[<<"p", p>>] < work[<<"p", p>>]
               PROVE  \E r \in Requests : TokenOf(r, p) /\ req[r].pc = "pay" /\ req'[r].pc # "pay"
    OBVIOUS
  <2>1. <<"p", p>> \in WorkKeys
    BY DEF WorkKeys
  <2>2. PICK r \in Requests : Pay(r) /\ KeyOf(r) = <<"p", p>>
    BY <2>1, OnlyPay
  <2>3. TokenOf(r, p)
    BY <2>2, KeyOfPlayer DEF KeyOf, TokenOf, IInv, TypeOK
  <2>4. req[r].pc = "pay" /\ req'[r].pc # "pay"
    BY <2>2 DEF Pay, Work, Goto, IInv, TypeOK
  <2>5. QED
    BY <2>3, <2>4
<1>2. QED
  BY <1>1, Inductive, PTL DEF Spec, OwnPermits

(***************************************************************************)
(* The inductive invariant: IndexKept says nothing of a process that was   *)
(* forced to end, so what such a process leaves has to be accounted for by *)
(* the time the next one starts, and one that was not has to be idle by    *)
(* the time it closes the store.                                           *)
(***************************************************************************)

NothingConverts == \A v \in Ids : conv[v] = "none"

DrainedIdle == phase \in {"close", "exit"} /\ ~forced => NothingConverts

DownAccounted == phase = "down" => NothingConverts /\ file \ row \subseteq orphaned

LifeInv == LifeTypeOK /\ DrainedIdle /\ DownAccounted /\ IndexKept

\* A process starts with an empty cache and nothing to do.
LEMMA InitLife == LifeInit => LifeInv
  BY DEF LifeInit, LifeInv, LifeTypeOK, DrainedIdle, DownAccounted, IndexKept

\* Every step keeps the types.
LEMMA NextLifeTypeOK == LifeTypeOK /\ [LifeNext]_life => LifeTypeOK'
<1> SUFFICES ASSUME LifeTypeOK, [LifeNext]_life PROVE LifeTypeOK' OBVIOUS
<1> USE DEF LifeTypeOK, main, disk
<1>1. CASE Signal \/ ListenFails \/ Main
  <2>1. CASE Exit
    BY <2>1 DEF Exit, End
  <2>2. CASE Signal \/ ListenFails \/ Shutdown \/ Drained \/ Deadline \/ Close
    BY <2>2 DEF Signal, ListenFails, Shutdown, Drained, Deadline, Close
  <2>3. QED
    BY <1>1, <2>1, <2>2 DEF Main
<1>2. CASE Crash \/ Restart
  BY <1>2 DEF Crash, End, Restart
<1>3. ASSUME NEW l \in Listeners, OpenStream(l) \/ EndStream(l) PROVE LifeTypeOK'
  BY <1>3 DEF OpenStream, EndStream
<1>4. ASSUME NEW v \in Ids, Lead(v) \/ Convert(v) \/ RemoveCached(v) PROVE LifeTypeOK'
  BY <1>4 DEF Lead, Convert, Start, Refuse, RunFails, Move, PutCache, To, RemoveCached
<1>5. CASE UNCHANGED life
  BY <1>5 DEF life
<1>6. QED
  BY <1>1, <1>2, <1>3, <1>4, <1>5 DEF LifeNext

\* Every step keeps what is said of a process that ends; a handler moves only
\* while the process is up.
LEMMA NextEnds == LifeInv /\ [LifeNext]_life => DrainedIdle' /\ DownAccounted'
<1> SUFFICES ASSUME LifeInv, [LifeNext]_life PROVE DrainedIdle' /\ DownAccounted' OBVIOUS
<1> USE DEF LifeInv, LifeTypeOK, DrainedIdle, DownAccounted, IndexKept, NothingConverts, main, disk
<1>1. CASE Signal \/ ListenFails \/ Shutdown \/ Drained \/ Deadline \/ Close
  BY <1>1 DEF Signal, ListenFails, Shutdown, Drained, Deadline, Close, Busy
<1>2. CASE Exit
  BY <1>2 DEF Exit, End
<1>3. CASE Crash \/ Restart
  BY <1>3 DEF Crash, End, Restart
<1>4. ASSUME NEW l \in Listeners, OpenStream(l) \/ EndStream(l) PROVE DrainedIdle' /\ DownAccounted'
  BY <1>4 DEF OpenStream, EndStream
<1>5. ASSUME NEW v \in Ids, Lead(v) \/ RemoveCached(v) PROVE DrainedIdle' /\ DownAccounted'
  BY <1>5 DEF Lead, Accepting, To, RemoveCached, Up
<1>6. ASSUME NEW v \in Ids, Convert(v) PROVE DrainedIdle' /\ DownAccounted'
  BY <1>6 DEF Convert, Start, Refuse, RunFails, Move, PutCache, To, Up
<1>7. CASE UNCHANGED life
  BY <1>7 DEF life
<1>8. QED
  BY <1>1, <1>2, <1>3, <1>4, <1>5, <1>6, <1>7 DEF LifeNext, Main

\* Every step keeps the index: a file is moved by a handler that then writes its
\* row, and only a forced end comes between.
LEMMA NextIndexKept == LifeInv /\ [LifeNext]_life => IndexKept'
<1> SUFFICES ASSUME LifeInv, [LifeNext]_life PROVE IndexKept' OBVIOUS
<1> USE DEF LifeInv, LifeTypeOK, DrainedIdle, DownAccounted, IndexKept, NothingConverts, main, disk
<1>1. CASE Signal \/ ListenFails \/ Shutdown \/ Drained \/ Deadline \/ Close
  BY <1>1 DEF Signal, ListenFails, Shutdown, Drained, Deadline, Close
<1>2. CASE Exit
  BY <1>2 DEF Exit, End
<1>3. CASE Crash \/ Restart
  BY <1>3 DEF Crash, End, Restart
<1>4. ASSUME NEW l \in Listeners, OpenStream(l) \/ EndStream(l) PROVE IndexKept'
  BY <1>4 DEF OpenStream, EndStream
<1>5. ASSUME NEW v \in Ids, Lead(v) \/ RemoveCached(v) PROVE IndexKept'
  BY <1>5 DEF Lead, To, RemoveCached
<1>6. ASSUME NEW v \in Ids, Start(v) \/ Refuse(v) \/ RunFails(v) PROVE IndexKept'
  BY <1>6 DEF Start, Refuse, RunFails, To
<1>7. ASSUME NEW v \in Ids, Move(v) PROVE IndexKept'
  BY <1>7 DEF Move, To
<1>8. ASSUME NEW v \in Ids, PutCache(v) PROVE IndexKept'
  <2>1. CASE StoreOpen
    BY <1>8, <2>1 DEF PutCache, To
  <2>2. CASE ~StoreOpen
    \* The store was closed under this handler, so the process was forced to end.
    BY <1>8, <2>2 DEF PutCache, To, StoreOpen, Up
  <2>3. QED
    BY <2>1, <2>2
<1>9. CASE UNCHANGED life
  BY <1>9 DEF life
<1>10. QED
  BY <1>1, <1>2, <1>3, <1>4, <1>5, <1>6, <1>7, <1>8, <1>9 DEF LifeNext, Main, Convert

\* The invariant of the life cycle is inductive (main.go:48-83, convert.go:248).
THEOREM LifeInductive == LifeSpec => []LifeInv
<1>1. LifeInv /\ [LifeNext]_life => LifeInv'
  BY NextLifeTypeOK, NextEnds, NextIndexKept DEF LifeInv
<1>2. QED
  BY InitLife, <1>1, PTL DEF LifeSpec

\* main's phases, the conversions and the files keep their types.
THEOREM LifeTypeCorrect == LifeSpec => []LifeTypeOK
<1>1. LifeInv => LifeTypeOK
  BY DEF LifeInv
<1>2. QED
  BY LifeInductive, <1>1, PTL

\* No mp3 loses its row but to a forced end (main.go:78-81, convert.go:248), however
\* many conversions are going on.
THEOREM IndexSurvives == LifeSpec => []IndexKept
<1>1. LifeInv => IndexKept
  BY DEF LifeInv
<1>2. QED
  BY LifeInductive, <1>1, PTL
=============================================================================
