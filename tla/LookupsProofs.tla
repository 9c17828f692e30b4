--------------------------- MODULE LookupsProofs ---------------------------
(***************************************************************************)
(* Proofs about Lookups, for any number of requests, any tracks, playlists *)
(* and videos, any bound on the yt-dlp lookups and any size of the cache.  *)
(***************************************************************************)
EXTENDS Lookups, Integers, FiniteSetTheorems, TLAPS

(***************************************************************************)
(* The inductive invariant: who is busy has an item, who may share a fetch *)
(* looks up a track or a playlist, and a flight names a request that looks *)
(* up the item of the flight.                                              *)
(***************************************************************************)

Running == {c \in Callers : pc[c] = "run"}

Placed ==
  \A c \in Callers :
    /\ pc[c] # "idle" <=> item[c] \in Items
    /\ pc[c] \in {"do", "join"} => item[c] \notin Alone

FlightOwned == \A i \in Items : flight[i] # Nobody => item[flight[i]] = i /\ i \notin Alone

IInv == TypeOK /\ Placed /\ FlightOwned /\ FlightsLed /\ MutexHeld /\ MetaExact

\* Nobody has asked for anything.
LEMMA InitIInv == Init => IInv
<1> SUFFICES ASSUME Init PROVE IInv OBVIOUS
<1> USE LookupAssumption DEF Init
<1>1. TypeOK
  BY DEF TypeOK, Steps, Items
<1>2. Placed /\ FlightOwned /\ FlightsLed /\ MutexHeld
  BY DEF Placed, FlightOwned, FlightsLed, MutexHeld, Leading, Items, Lists
<1>3. MetaExact
  <2>1. {c \in Callers : pc[c] = "run"} = {}
    OBVIOUS
  <2>2. metaSem = 0 /\ 0 <= MaxMeta
    OBVIOUS
  <2> HIDE LookupAssumption DEF Init
  <2>3. QED
    BY <2>1, <2>2, FS_EmptySet DEF MetaExact
<1>4. QED
  BY <1>1, <1>2, <1>3 DEF IInv

\* Tracks to resolve, playlists and what /api/info is asked for are all there is, and no
\* two of them are the same.
LEMMA ItemKinds ==
  /\ \A i \in Items : i \in Alone <=> i \notin Tracks \cup Lists
  /\ Nothing \notin Items /\ Nobody \notin Callers
  /\ \A c \in Callers : Wants[c] \subseteq Items
  BY LookupAssumption DEF Items, Lists, Alone

(***************************************************************************)
(* Types                                                                   *)
(***************************************************************************)

\* A lookup that runs is counted.
LEMMA RunCounted ==
  ASSUME TypeOK, MetaExact, NEW c \in Callers, pc[c] = "run"
  PROVE  metaSem - 1 \in Nat
<1>1. IsFiniteSet(Running) /\ c \in Running /\ metaSem = Cardinality(Running)
  <2>1. Running \subseteq Callers /\ c \in Running
    BY DEF Running
  <2>2. QED
    BY <2>1, FS_Subset, LookupAssumption DEF MetaExact, Running
<1>2. Cardinality(Running) # 0 /\ Cardinality(Running) \in Nat
  BY <1>1, FS_EmptySet, FS_CardinalityType
<1>3. QED
  BY <1>1, <1>2

\* Every step keeps the types.
LEMMA NextTypeOK == TypeOK /\ Placed /\ MetaExact /\ [Next]_vars => TypeOK'
<1> SUFFICES ASSUME TypeOK, Placed, MetaExact, [Next]_vars PROVE TypeOK' OBVIOUS
<1> USE DEF TypeOK, Steps, Goto, caches, spotify
<1>1. ASSUME NEW c \in Callers, NEW i \in Items, Ask(c, i) PROVE TypeOK'
  BY <1>1 DEF Ask
<1>2. ASSUME NEW c \in Callers, Hit(c) \/ Miss(c) PROVE TypeOK'
  BY <1>2 DEF Hit, Miss, First
<1>3. ASSUME NEW c \in Callers, Lead(c) \/ Join(c) PROVE TypeOK'
  BY <1>3 DEF Lead, Join, First
<1>4. ASSUME NEW c \in Callers, End(c) PROVE TypeOK'
  BY <1>4 DEF End
<1>5. ASSUME NEW c \in Callers, UseToken(c) \/ Refresh(c) \/ Refreshed(c) \/ RefreshFailed(c) PROVE TypeOK'
  BY <1>5 DEF Fail, UseToken, Refresh, Refreshed, RefreshFailed
<1>6. ASSUME NEW c \in Callers, Unauthorized(c) \/ CallFailed(c) PROVE TypeOK'
  BY <1>6 DEF Fail, Unauthorized, CallFailed
<1>7. ASSUME NEW c \in Callers, Called(c) PROVE TypeOK'
  BY <1>7 DEF Called, After
<1>8. ASSUME NEW c \in Callers, Acquire(c) \/ GiveUp(c) PROVE TypeOK'
  <2>1. CASE Acquire(c)
    BY <2>1 DEF Acquire
  <2>2. CASE GiveUp(c)
    BY <2>2 DEF GiveUp, Fail
  <2>3. QED
    BY <1>8, <2>1, <2>2
<1>9. ASSUME NEW c \in Callers, Ran(c) \/ RunFailed(c) PROVE TypeOK'
  <2>1. metaSem - 1 \in Nat
    BY <1>9, RunCounted DEF Ran, RunFailed, Fail
  <2>2. QED
    BY <1>9, <2>1 DEF Ran, RunFailed, Fail
<1>10. ASSUME NEW c \in Callers, Store(c) \/ StoreFailed(c) PROVE TypeOK'
  <2>1. item[c] \in Items
    BY <1>10 DEF Store, StoreFailed, Placed
  <2>2. known' \subseteq Items
    BY <1>10, <2>1 DEF Store, StoreFailed
  <2>3. QED
    BY <1>10, <2>2 DEF Store, StoreFailed
<1>11. ASSUME NEW c \in Callers, TimeOut(c) PROVE TypeOK'
  BY <1>11 DEF TimeOut
<1>12. ASSUME NEW i \in Items, Forget(i) \/ ForgetTrack(i) PROVE TypeOK'
  BY <1>12 DEF Forget, ForgetTrack
<1>13. CASE Expire \/ Revoke
  BY <1>13 DEF Expire, Revoke
<1>14. CASE UNCHANGED vars
  BY <1>14 DEF vars
<1>15. QED
  BY <1>1, <1>2, <1>3, <1>4, <1>5, <1>6, <1>7, <1>8, <1>9, <1>10, <1>11, <1>12, <1>13, <1>14, ItemKinds
     DEF Next, Serve, GetToken, Answered

(***************************************************************************)
(* Flights                                                                 *)
(***************************************************************************)

\* The steps of a fetch, which only its leader takes.
Fetches(c) ==
  GetToken(c) \/ Answered(c) \/ Acquire(c) \/ GiveUp(c) \/ Store(c) \/ StoreFailed(c)

\* A fetch goes from one of its steps to another, and changes neither what is looked up nor
\* who does it.
LEMMA FetchMoves ==
  ASSUME TypeOK, NEW c \in Callers, Fetches(c)
  PROVE  /\ pc[c] \in Leading /\ \E to \in Leading : pc' = [pc EXCEPT ![c] = to]
         /\ UNCHANGED <<item, flight>>
<1> USE DEF Goto, Leading, caches, spotify
<1>1. CASE UseToken(c) \/ Refresh(c)
  BY <1>1 DEF UseToken, Refresh
<1>2. CASE Refreshed(c) \/ RefreshFailed(c) \/ Unauthorized(c) \/ CallFailed(c)
  BY <1>2 DEF Fail, Refreshed, RefreshFailed, Unauthorized, CallFailed
<1>3. CASE Called(c)
  <2>1. UNCHANGED <<item, flight>> /\ pc[c] = "call"
    BY <1>3 DEF Called, After
  <2>2. \E to \in {"sem", "token", "store", "end"} : pc' = [pc EXCEPT ![c] = to]
    BY <1>3 DEF Called, After
  <2>3. QED
    BY <2>1, <2>2
<1>4. CASE Acquire(c) \/ GiveUp(c) \/ Ran(c) \/ RunFailed(c)
  BY <1>4 DEF Acquire, GiveUp, Ran, RunFailed, Fail
<1>5. CASE Store(c) \/ StoreFailed(c)
  BY <1>5 DEF Store, StoreFailed
<1>6. QED
  BY <1>1, <1>2, <1>3, <1>4, <1>5 DEF Fetches, GetToken, Answered

\* Every step is the ask, the cache, the flight, a fetch or the end of one, or none of these.
LEMMA StepKinds ==
  ASSUME [Next]_vars
  PROVE  \/ \E c \in Callers : \/ \E i \in Items : Ask(c, i)
                               \/ Hit(c) \/ Miss(c) \/ Lead(c) \/ Join(c) \/ Fetches(c) \/ End(c)
         \/ UNCHANGED <<pc, item, flight>>
<1>1. ASSUME NEW c \in Callers, TimeOut(c) PROVE UNCHANGED <<pc, item, flight>>
  BY <1>1 DEF TimeOut
<1>2. ASSUME NEW i \in Items, Forget(i) \/ ForgetTrack(i) PROVE UNCHANGED <<pc, item, flight>>
  BY <1>2 DEF Forget, ForgetTrack
<1>3. CASE Expire \/ Revoke \/ UNCHANGED vars
  BY <1>3 DEF Expire, Revoke, vars
<1>4. QED
  BY <1>1, <1>2, <1>3, ItemKinds DEF Next, Serve, Fetches

\* Every step keeps the items and the flights in order.
LEMMA NextFlights ==
  TypeOK /\ Placed /\ FlightOwned /\ FlightsLed /\ [Next]_vars => Placed' /\ FlightOwned' /\ FlightsLed'
<1> SUFFICES ASSUME TypeOK, Placed, FlightOwned, FlightsLed, [Next]_vars PROVE (Placed /\ FlightOwned /\ FlightsLed)'
  OBVIOUS
<1> USE ItemKinds DEF Placed, FlightOwned, FlightsLed
<1>0. \A c \in Callers : pc[c] \in Leading /\ item[c] \notin Alone => flight[item[c]] = c
  <2> SUFFICES ASSUME NEW c \in Callers, pc[c] \in Leading, item[c] \notin Alone PROVE flight[item[c]] = c
    OBVIOUS
  <2>1. item[c] \in Tracks \cup Lists
    BY DEF Leading
  <2>2. QED
    BY <2>1
<1>1. ASSUME NEW c \in Callers, NEW i \in Items, Ask(c, i) PROVE (Placed /\ FlightOwned /\ FlightsLed)'
  <2>1. pc[c] = "idle" /\ pc' = [pc EXCEPT ![c] = "look"] /\ item' = [item EXCEPT ![c] = i] /\ flight' = flight
    BY <1>1 DEF Ask
  <2>2. \A j \in Items : flight[j] # c
    BY <2>1 DEF TypeOK
  <2>3. Placed'
    BY <2>1 DEF TypeOK
  <2>4. FlightOwned'
    BY <2>1, <2>2 DEF TypeOK
  <2>5. FlightsLed'
    BY <2>1, <2>2 DEF TypeOK, Leading, Items, Lists
  <2>6. QED
    BY <2>3, <2>4, <2>5
<1>2. ASSUME NEW c \in Callers, Hit(c) PROVE (Placed /\ FlightOwned /\ FlightsLed)'
  <2>1. pc[c] = "look" /\ pc' = [pc EXCEPT ![c] = "idle"] /\ item' = [item EXCEPT ![c] = Nothing] /\ flight' = flight
    BY <1>2 DEF Hit, Goto
  <2>2. \A j \in Items : flight[j] # c
    BY <2>1 DEF TypeOK, Leading
  <2>3. Placed'
    BY <2>1 DEF TypeOK
  <2>4. FlightOwned'
    BY <2>1, <2>2 DEF TypeOK
  <2>5. FlightsLed'
    BY <2>1 DEF TypeOK, Leading, Items, Lists
  <2>6. QED
    BY <2>3, <2>4, <2>5
<1>3. ASSUME NEW c \in Callers, Miss(c) PROVE (Placed /\ FlightOwned /\ FlightsLed)'
  <2>1. /\ pc[c] = "look" /\ item[c] \in Items /\ UNCHANGED <<item, flight>>
        /\ \E to \in {"sem", "token"} : pc' = [pc EXCEPT ![c] = IF item[c] \in Alone THEN to ELSE "do"]
    BY <1>3 DEF Miss, Goto, First
  <2>2. Placed' /\ FlightOwned'
    BY <2>1 DEF TypeOK
  <2>3. FlightsLed'
    BY <2>1 DEF TypeOK, Leading
  <2>4. QED
    BY <2>2, <2>3
<1>4. ASSUME NEW c \in Callers, Lead(c) PROVE (Placed /\ FlightOwned /\ FlightsLed)'
  <2>1. /\ pc[c] = "do" /\ item' = item /\ flight[item[c]] = Nobody /\ flight' = [flight EXCEPT ![item[c]] = c]
        /\ \E to \in Leading : pc' = [pc EXCEPT ![c] = to]
    BY <1>4 DEF Lead, Goto, First, Leading
  <2>2. item[c] \in Items /\ item[c] \notin Alone
    BY <2>1
  <2>3. Placed'
    BY <2>1, <2>2 DEF TypeOK, Leading
  <2>4. FlightOwned'
    BY <2>1, <2>2 DEF TypeOK
  <2>5. FlightsLed'
    BY <2>1, <2>2 DEF TypeOK, Leading, Items, Lists
  <2>6. QED
    BY <2>3, <2>4, <2>5
<1>5. ASSUME NEW c \in Callers, Join(c) PROVE (Placed /\ FlightOwned /\ FlightsLed)'
  <2>1. pc[c] = "do" /\ UNCHANGED <<item, flight>> /\ flight[item[c]] # Nobody /\ pc' = [pc EXCEPT ![c] = "join"]
    BY <1>5 DEF Join, Goto
  <2>2. Placed' /\ FlightOwned'
    BY <2>1 DEF TypeOK
  <2>3. FlightsLed'
    BY <2>1 DEF TypeOK, Leading
  <2>4. QED
    BY <2>2, <2>3
<1>6. ASSUME NEW c \in Callers, Fetches(c) PROVE (Placed /\ FlightOwned /\ FlightsLed)'
  <2>1. pc[c] \in Leading /\ UNCHANGED <<item, flight>> /\ \E to \in Leading : pc' = [pc EXCEPT ![c] = to]
    BY <1>6, FetchMoves
  <2>2. Placed' /\ FlightOwned'
    BY <2>1 DEF TypeOK, Leading
  <2>3. FlightsLed'
    BY <2>1 DEF TypeOK, Leading
  <2>4. QED
    BY <2>2, <2>3
<1>7. ASSUME NEW c \in Callers, End(c) PROVE (Placed /\ FlightOwned /\ FlightsLed)'
  <2> DEFINE gone == {c} \cup Joined(c)
  <2>1. /\ pc[c] = "end" /\ item[c] \in Items
        /\ pc' = [d \in Callers |-> IF d \in gone THEN "idle" ELSE pc[d]]
        /\ item' = [d \in Callers |-> IF d \in gone THEN Nothing ELSE item[d]]
        /\ flight' = IF item[c] \in Alone THEN flight ELSE [flight EXCEPT ![item[c]] = Nobody]
    BY <1>7 DEF End
  <2>2. /\ c \in gone
        /\ \A d \in gone : item[d] = item[c]
        /\ \A d \in Callers : pc[d] = "join" /\ item[d] = item[c] => d \in gone
    BY DEF Joined
  <2> HIDE DEF gone
  <2>3. Placed'
    BY <2>1 DEF TypeOK
  <2>4. \A j \in Items : j \notin Alone => flight'[j] = IF j = item[c] THEN Nobody ELSE flight[j]
    BY <2>1 DEF TypeOK
  <2>5. \A j \in Items : j \in Alone => flight'[j] = Nobody
    BY <2>1 DEF TypeOK
  <2>6. FlightOwned'
    BY <2>1, <2>2, <2>4, <2>5 DEF TypeOK
  <2>7. ASSUME NEW d \in Callers, item'[d] \in Tracks \cup Lists
        PROVE  /\ pc'[d] \in Leading <=> flight'[item'[d]] = d
               /\ pc'[d] = "join" => flight'[item'[d]] # Nobody
    <3>1. d \notin gone /\ pc'[d] = pc[d] /\ item'[d] = item[d] /\ item[d] \in Items /\ item[d] \notin Alone
      BY <2>1, <2>7 DEF Items, Lists
    <3>2. CASE item[d] = item[c]
      <4>1. d # c /\ pc[d] # "join" /\ d # Nobody
        BY <2>2, <3>1, <3>2
      <4>2. pc[c] \in Leading
        BY <2>1 DEF Leading
      <4>3. flight[item[d]] = c
        BY <1>0, <3>1, <3>2, <4>2
      <4>4. flight'[item[d]] = Nobody
        BY <2>4, <3>1, <3>2
      <4>5. QED
        BY <2>7, <3>1, <3>2, <4>1, <4>3, <4>4
    <3>3. CASE item[d] # item[c]
      BY <2>4, <2>7, <3>1, <3>3
    <3>4. QED
      BY <3>2, <3>3
  <2>8. QED
    BY <2>3, <2>6, <2>7
<1>8. CASE UNCHANGED <<pc, item, flight>>
  BY <1>8
<1>9. QED
  BY <1>1, <1>2, <1>3, <1>4, <1>5, <1>6, <1>7, <1>8, StepKinds

(***************************************************************************)
(* The mutex and the semaphore                                             *)
(***************************************************************************)

\* Every step keeps the holder of Client.mu the one that refreshes.
LEMMA NextMutex == TypeOK /\ MutexHeld /\ [Next]_vars => MutexHeld'
<1> SUFFICES ASSUME TypeOK, MutexHeld, [Next]_vars PROVE MutexHeld' OBVIOUS
<1> USE ItemKinds DEF TypeOK, MutexHeld, Goto, caches, spotify
<1>1. ASSUME NEW c \in Callers, NEW i \in Items, Ask(c, i) PROVE MutexHeld'
  BY <1>1 DEF Ask
<1>2. ASSUME NEW c \in Callers, Hit(c) \/ Miss(c) \/ Lead(c) \/ Join(c) PROVE MutexHeld'
  BY <1>2 DEF Hit, Miss, Lead, Join, First
<1>3. ASSUME NEW c \in Callers, End(c) PROVE MutexHeld'
  BY <1>3 DEF End, Joined
<1>4. ASSUME NEW c \in Callers, UseToken(c) \/ Unauthorized(c) \/ CallFailed(c) PROVE MutexHeld'
  BY <1>4 DEF Fail, UseToken, Unauthorized, CallFailed
<1>5. ASSUME NEW c \in Callers, Refresh(c) \/ Refreshed(c) \/ RefreshFailed(c) PROVE MutexHeld'
  BY <1>5 DEF Fail, Refresh, Refreshed, RefreshFailed
<1>6. ASSUME NEW c \in Callers, Called(c) PROVE MutexHeld'
  <2>1. pc[c] = "call" /\ mu' = mu /\ \E to \in {"sem", "token", "store", "end"} : pc' = [pc EXCEPT ![c] = to]
    BY <1>6 DEF Called, After
  <2>2. QED
    BY <2>1
<1>7. ASSUME NEW c \in Callers, Acquire(c) \/ GiveUp(c) \/ Ran(c) \/ RunFailed(c) PROVE MutexHeld'
  BY <1>7 DEF Acquire, GiveUp, Ran, RunFailed, Fail
<1>8. ASSUME NEW c \in Callers, Store(c) \/ StoreFailed(c) \/ TimeOut(c) PROVE MutexHeld'
  BY <1>8 DEF Store, StoreFailed, TimeOut
<1>9. ASSUME NEW i \in Items, Forget(i) \/ ForgetTrack(i) PROVE MutexHeld'
  BY <1>9 DEF Forget, ForgetTrack
<1>10. CASE Expire \/ Revoke \/ UNCHANGED vars
  BY <1>10 DEF Expire, Revoke, vars
<1>11. QED
  BY <1>1, <1>2, <1>3, <1>4, <1>5, <1>6, <1>7, <1>8, <1>9, <1>10 DEF Next, Serve, GetToken, Answered

\* Every step keeps the semaphore's count.
LEMMA NextMetaExact == TypeOK /\ MetaExact /\ [Next]_vars => MetaExact'
<1> SUFFICES ASSUME TypeOK, MetaExact, [Next]_vars PROVE MetaExact' OBVIOUS
<1> USE DEF TypeOK, Goto, caches, spotify
<1>0. IsFiniteSet(Running) /\ metaSem = Cardinality(Running) /\ metaSem <= MaxMeta
  <2>1. Running \subseteq Callers
    BY DEF Running
  <2>2. QED
    BY <2>1, FS_Subset, LookupAssumption DEF MetaExact, Running
<1>1. ASSUME metaSem' = metaSem, Running' = Running PROVE MetaExact'
  BY <1>0, <1>1 DEF MetaExact, Running
<1>2. ASSUME NEW c \in Callers, NEW i \in Items, Ask(c, i) PROVE MetaExact'
  BY <1>1, <1>2 DEF Ask, Running
<1>3. ASSUME NEW c \in Callers, Hit(c) \/ Miss(c) \/ Lead(c) \/ Join(c) PROVE MetaExact'
  BY <1>1, <1>3 DEF Hit, Miss, Lead, Join, First, Running
<1>4. ASSUME NEW c \in Callers, End(c) PROVE MetaExact'
  BY <1>1, <1>4 DEF End, Joined, Running
<1>5. ASSUME NEW c \in Callers, UseToken(c) \/ Refresh(c) \/ Refreshed(c) \/ RefreshFailed(c) PROVE MetaExact'
  BY <1>1, <1>5 DEF Fail, UseToken, Refresh, Refreshed, RefreshFailed, Running
<1>6. ASSUME NEW c \in Callers, Unauthorized(c) \/ CallFailed(c) \/ GiveUp(c) PROVE MetaExact'
  BY <1>1, <1>6 DEF Fail, Unauthorized, CallFailed, GiveUp, Running
<1>7. ASSUME NEW c \in Callers, Called(c) PROVE MetaExact'
  <2>1. pc[c] = "call" /\ metaSem' = metaSem /\ \E to \in {"sem", "token", "store", "end"} : pc' = [pc EXCEPT ![c] = to]
    BY <1>7 DEF Called, After
  <2>2. QED
    BY <1>1, <2>1 DEF Running
<1>8. ASSUME NEW c \in Callers, Acquire(c) PROVE MetaExact'
  <2>1. Running' = Running \cup {c} /\ c \notin Running
    BY <1>8 DEF Acquire, Running
  <2>2. Cardinality(Running') = Cardinality(Running) + 1
    BY <1>0, <2>1, FS_AddElement
  <2>3. metaSem' = metaSem + 1 /\ metaSem < MaxMeta
    BY <1>8 DEF Acquire
  <2>4. QED
    BY <1>0, <2>2, <2>3, LookupAssumption DEF MetaExact, Running
<1>9. ASSUME NEW c \in Callers, Ran(c) \/ RunFailed(c) PROVE MetaExact'
  <2>1. Running' = Running \ {c} /\ c \in Running
    BY <1>9 DEF Ran, RunFailed, Fail, Running
  <2>2. Cardinality(Running') = Cardinality(Running) - 1
    BY <1>0, <2>1, FS_RemoveElement
  <2>3. metaSem' = metaSem - 1
    BY <1>9 DEF Ran, RunFailed, Fail
  <2>4. QED
    BY <1>0, <2>2, <2>3, LookupAssumption DEF MetaExact, Running
<1>10. ASSUME NEW c \in Callers, Store(c) \/ StoreFailed(c) \/ TimeOut(c) PROVE MetaExact'
  BY <1>1, <1>10 DEF Store, StoreFailed, TimeOut, Running
<1>11. ASSUME NEW i \in Items, Forget(i) \/ ForgetTrack(i) PROVE MetaExact'
  BY <1>1, <1>11 DEF Forget, ForgetTrack, Running
<1>12. CASE Expire \/ Revoke \/ UNCHANGED vars
  BY <1>1, <1>12 DEF Expire, Revoke, vars, Running
<1>13. QED
  BY <1>2, <1>3, <1>4, <1>5, <1>6, <1>7, <1>8, <1>9, <1>10, <1>11, <1>12, ItemKinds DEF Next, Serve, GetToken, Answered

(***************************************************************************)
(* The theorems                                                            *)
(***************************************************************************)

\* The invariant of the lookups is inductive (convert.go, spotify.go, ytdlp.go).
THEOREM Inductive == Spec => []IInv
<1>1. IInv /\ [Next]_vars => IInv'
  BY NextTypeOK, NextFlights, NextMutex, NextMetaExact DEF IInv
<1>2. QED
  BY InitIInv, <1>1, PTL DEF Spec

\* The lookups keep their types; the semaphore's count does not become negative.
THEOREM TypeCorrect == Spec => []TypeOK
<1>1. IInv => TypeOK
  BY DEF IInv
<1>2. QED
  BY Inductive, <1>1, PTL

\* Every fetch is led by one request, and whoever waits has one to wait for
\* (convert.go:313-330, 588-600).
THEOREM OneLeader == Spec => []FlightsLed
<1>1. IInv => FlightsLed
  BY DEF IInv
<1>2. QED
  BY Inductive, <1>1, PTL

\* The mutex of the Spotify client is held by the request that refreshes the token and
\* given back on every way out (spotify.go:69-101).
THEOREM MutexReturned == Spec => []MutexHeld
<1>1. IInv => MutexHeld
  BY DEF IInv
<1>2. QED
  BY Inductive, <1>1, PTL

\* The tokens of metaSem count the yt-dlp lookups that run, for any number of requests
\* (ytdlp.go, acquireMeta).
THEOREM SemaphoreExact == Spec => []MetaExact
<1>1. IInv => MetaExact
  BY DEF IInv
<1>2. QED
  BY Inductive, <1>1, PTL

\* A call repeated after a 401 carries a token issued since the refusal (spotify.go,
\* Client.get).
THEOREM FreshRetry == Spec => RetryIsFresh
<1>1. IInv /\ [Next]_vars =>
        [\A c \in Callers : forced[c] /\ pc[c] # "call" /\ pc'[c] = "call" => held'[c] = "good"]_vars
  <2> SUFFICES ASSUME IInv, [Next]_vars, NEW c \in Callers, forced[c], pc[c] # "call", pc'[c] = "call"
               PROVE  held'[c] = "good"
    OBVIOUS
  <2> USE DEF IInv, TypeOK, Goto, caches, spotify
  <2>1. ASSUME NEW d \in Callers, NEW i \in Items, Ask(d, i) PROVE FALSE
    BY <2>1 DEF Ask
  <2>2. ASSUME NEW d \in Callers, Hit(d) \/ Miss(d) \/ Lead(d) \/ Join(d) PROVE FALSE
    BY <2>2 DEF Hit, Miss, Lead, Join, First
  <2>3. ASSUME NEW d \in Callers, End(d) PROVE FALSE
    BY <2>3 DEF End, Joined
  <2>4. ASSUME NEW d \in Callers, Refreshed(d) PROVE held'[c] = "good"
    BY <2>4 DEF Refreshed
  <2>5. ASSUME NEW d \in Callers, UseToken(d) \/ Refresh(d) \/ RefreshFailed(d) \/ Unauthorized(d) PROVE FALSE
    BY <2>5 DEF Fail, UseToken, Refresh, RefreshFailed, Unauthorized
  <2>6. ASSUME NEW d \in Callers, Called(d) PROVE FALSE
    <3>1. \E to \in {"sem", "token", "store", "end"} : pc' = [pc EXCEPT ![d] = to]
      BY <2>6 DEF Called, After
    <3>2. QED
      BY <3>1
  <2>7. ASSUME NEW d \in Callers, CallFailed(d) \/ Acquire(d) \/ GiveUp(d) \/ Ran(d) \/ RunFailed(d) PROVE FALSE
    BY <2>7 DEF CallFailed, Acquire, GiveUp, Ran, RunFailed, Fail
  <2>8. ASSUME NEW d \in Callers, Store(d) \/ StoreFailed(d) \/ TimeOut(d) PROVE FALSE
    BY <2>8 DEF Store, StoreFailed, TimeOut
  <2>9. ASSUME NEW i \in Items, Forget(i) \/ ForgetTrack(i) PROVE FALSE
    BY <2>9 DEF Forget, ForgetTrack
  <2>10. CASE Expire \/ Revoke \/ UNCHANGED vars
    BY <2>10 DEF Expire, Revoke, vars
  <2>11. QED
    BY <2>1, <2>2, <2>3, <2>4, <2>5, <2>6, <2>7, <2>8, <2>9, <2>10, ItemKinds DEF Next, Serve, GetToken, Answered
<1>2. QED
  BY Inductive, <1>1, PTL DEF Spec, RetryIsFresh

(***************************************************************************)
(* The refinement                                                          *)
(***************************************************************************)

Fetching == {c \in Callers : pc[c] \in Leading}
Waiting == {c \in Callers : pc[c] = "join"}

\* What the service is seen to do is what these two sets, the items and the memory show.
LEMMA ServiceStutter ==
  ASSUME UNCHANGED <<item, Remembered>>, Fetching' = Fetching, Waiting' = Waiting
  PROVE  UNCHANGED Service!vars
  BY DEF Fetching, Waiting, Service!vars

\* The initial states are those of a service that nobody has asked.
LEMMA InitService == Init => Service!Init
  BY DEF Init, Service!Init, Leading, Remembered

\* A caller who leads is the only one to fetch its track or playlist.
LEMMA LeadStep == ASSUME IInv, NEW c \in Callers, Lead(c) PROVE Service!Fetch(c)
<1>1. /\ pc[c] = "do" /\ item[c] \in Tracks \cup Lists /\ item[c] # Nothing
      /\ pc' = [pc EXCEPT ![c] = First(item[c])] /\ First(item[c]) \in {"token", "sem"}
      /\ UNCHANGED <<item, Remembered>>
  BY ItemKinds DEF Lead, Goto, First, IInv, Placed, Remembered, caches
<1>2. ASSUME NEW d \in Fetching, item[d] = item[c] PROVE FALSE
  <2>1. flight[item[d]] = d
    BY <1>1, <1>2 DEF IInv, FlightsLed, Fetching
  <2>2. flight[item[c]] = Nobody
    BY <1>1, ItemKinds DEF Lead
  <2>3. QED
    BY <1>2, <2>1, <2>2, ItemKinds DEF Fetching
<1>3. Fetching' = Fetching \cup {c} /\ Waiting' = Waiting /\ c \notin Fetching \cup Waiting
  BY <1>1 DEF Fetching, Waiting, Leading, IInv, TypeOK
<1>4. QED
  BY <1>1, <1>2, <1>3 DEF Service!Fetch, Fetching, Waiting

\* Whoever misses goes on to fetch a video, or to share what is not one.
LEMMA MissStep == ASSUME IInv, NEW c \in Callers, Miss(c) PROVE [Service!Next]_Service!vars
<1>1. pc[c] = "look" /\ item[c] \in Items /\ item[c] # Nothing /\ UNCHANGED <<item, Remembered>>
  BY ItemKinds DEF Miss, Goto, IInv, Placed, Remembered, caches
<1>2. CASE item[c] \in Alone
  <2>1. \E to \in {"sem", "token"} : pc' = [pc EXCEPT ![c] = to]
    BY <1>2 DEF Miss, Goto, First
  <2>2. Fetching' = Fetching \cup {c} /\ Waiting' = Waiting /\ c \notin Fetching \cup Waiting
    BY <1>1, <2>1 DEF Fetching, Waiting, Leading, IInv, TypeOK
  <2>3. Service!Fetch(c)
    BY <1>1, <1>2, <2>2 DEF Service!Fetch, Fetching, Waiting
  <2>4. QED
    BY <2>3 DEF Service!Next
<1>3. CASE item[c] \notin Alone
  <2>1. pc' = [pc EXCEPT ![c] = "do"]
    BY <1>3 DEF Miss, Goto
  <2>2. Fetching' = Fetching /\ Waiting' = Waiting
    BY <1>1, <2>1 DEF Fetching, Waiting, Leading, IInv, TypeOK
  <2>3. QED
    BY <1>1, <2>2, ServiceStutter
<1>4. QED
  BY <1>2, <1>3

\* There is a fetch to join: the one of the caller that the flight names.
LEMMA JoinStep == ASSUME IInv, NEW c \in Callers, Join(c) PROVE Service!Join(c)
<1>1. /\ pc[c] = "do" /\ item[c] \in Items /\ item[c] \notin Alone /\ flight[item[c]] # Nobody
      /\ pc' = [pc EXCEPT ![c] = "join"] /\ UNCHANGED <<item, Remembered>>
  BY DEF Join, Goto, IInv, Placed, Remembered, caches
<1>2. PICK d \in Callers : d = flight[item[c]]
  BY <1>1 DEF IInv, TypeOK
<1>3. item[d] = item[c] /\ item[d] \in Tracks \cup Lists
  BY <1>1, <1>2, ItemKinds DEF IInv, FlightOwned
<1>4. d \in Fetching
  BY <1>2, <1>3 DEF IInv, FlightsLed, Fetching
<1>5. Waiting' = Waiting \cup {c} /\ Fetching' = Fetching /\ c \notin Fetching \cup Waiting
  BY <1>1 DEF Fetching, Waiting, Leading, IInv, TypeOK
<1>6. QED
  BY <1>1, <1>3, <1>4, <1>5 DEF Service!Join, Fetching, Waiting

\* The end of a fetch wakes those who joined it, and no others.
LEMMA EndStep == ASSUME IInv, NEW c \in Callers, End(c) PROVE Service!End(c)
<1>1. /\ pc[c] = "end" /\ UNCHANGED Remembered
      /\ pc' = [d \in Callers |-> IF d \in {c} \cup Joined(c) THEN "idle" ELSE pc[d]]
      /\ item' = [d \in Callers |-> IF d \in {c} \cup Joined(c) THEN Nothing ELSE item[d]]
  BY DEF End, Remembered, caches
<1>2. Joined(c) = {d \in Waiting : item[d] = item[c]}
  BY DEF Joined, Waiting
<1>3. Waiting' = Waiting \ Joined(c)
  BY <1>1, <1>2 DEF Waiting
<1>4. Fetching' = Fetching \ {c} /\ c \in Fetching
  BY <1>1 DEF Fetching, Joined, Leading
<1>5. QED
  BY <1>1, <1>2, <1>3, <1>4 DEF Service!End, Service!Followers, Fetching, Waiting

\* Every step of a lookup is a step of the service, or is not seen.
LEMMA NextService == IInv /\ [Next]_vars => [Service!Next]_Service!vars
<1> SUFFICES ASSUME IInv, [Next]_vars PROVE [Service!Next]_Service!vars OBVIOUS
<1> USE DEF IInv, TypeOK
<1>1. ASSUME NEW c \in Callers, NEW i \in Items, Ask(c, i) PROVE [Service!Next]_Service!vars
  <2>1. item[c] = Nothing
    BY <1>1 DEF Ask, Placed
  <2>2. Fetching' = Fetching /\ Waiting' = Waiting
    BY <1>1 DEF Ask, Fetching, Waiting, Leading
  <2>3. Service!Ask(c)
    BY <1>1, <2>1, <2>2 DEF Ask, Remembered, caches, Service!Ask, Fetching, Waiting
  <2>4. QED
    BY <2>3 DEF Service!Next
<1>2. ASSUME NEW c \in Callers, Hit(c) PROVE [Service!Next]_Service!vars
  <2>1. Fetching' = Fetching /\ Waiting' = Waiting /\ c \notin Fetching \cup Waiting
    BY <1>2 DEF Hit, Goto, Fetching, Waiting, Leading
  <2>2. Service!Recall(c)
    BY <1>2, <2>1 DEF Hit, Remembered, caches, Service!Recall, Fetching, Waiting
  <2>3. QED
    BY <2>2 DEF Service!Next
<1>3. ASSUME NEW c \in Callers, Lead(c) \/ Join(c) \/ End(c) PROVE [Service!Next]_Service!vars
  BY <1>3, LeadStep, JoinStep, EndStep DEF Service!Next
<1>4. ASSUME NEW c \in Callers, Fetches(c) PROVE [Service!Next]_Service!vars
  <2>1. Fetching' = Fetching /\ Waiting' = Waiting /\ item' = item /\ c \in Fetching
    BY <1>4, FetchMoves DEF Fetching, Waiting, Leading
  <2>2. ASSUME Remembered' \subseteq Remembered \cup Learned[item[c]], Remembered \cap Tracks \subseteq Remembered'
        PROVE  [Service!Next]_Service!vars
    <3>1. Service!Keep(c)
      BY <2>1, <2>2 DEF Service!Keep, Fetching, Waiting
    <3>2. QED
      BY <3>1 DEF Service!Next
  <2>3. Learned[item[c]] = {item[c]} \cup {j \in Infos : TrackOf[j] = Track(item[c])}
    BY <1>4, <2>1, FetchMoves DEF Learned, Placed, Fetching, Leading
  <2>4. CASE Store(c)
    <3>1. known' \subseteq known \cup {item[c]} /\ known \cap Tracks \subseteq known' /\ tracks' = tracks
      BY <2>4, LookupAssumption DEF Store
    <3>2. QED
      BY <2>2, <2>3, <3>1, LookupAssumption DEF Remembered, Alone
  <2>5. CASE Called(c)
    <3>1. known' = known /\ tracks' = tracks \cup ({Track(item[c])} \cap Tracks)
      BY <2>5 DEF Called
    <3>2. QED
      BY <2>2, <2>3, <3>1 DEF Remembered
  <2>6. CASE ~Store(c) /\ ~Called(c)
    <3>1. UNCHANGED <<known, tracks>>
      BY <1>4, <2>6 DEF Fetches, GetToken, UseToken, Refresh, Answered, Refreshed, RefreshFailed, Unauthorized,
                        CallFailed, Ran, RunFailed, Fail, Acquire, GiveUp, StoreFailed, caches
    <3>2. QED
      BY <2>1, <3>1, ServiceStutter DEF Remembered
  <2>7. QED
    BY <2>2, <2>4, <2>5, <2>6
<1>5. ASSUME NEW i \in Items, Forget(i) \/ ForgetTrack(i) PROVE [Service!Next]_Service!vars
  <2>1. Fetching' = Fetching /\ Waiting' = Waiting /\ item' = item
    BY <1>5 DEF Forget, ForgetTrack, Fetching, Waiting
  <2>2. Remembered' \subseteq Remembered /\ Remembered \cap Tracks \subseteq Remembered'
    BY <1>5, LookupAssumption DEF Forget, ForgetTrack, Remembered, Alone
  <2>3. Service!Forget
    BY <2>1, <2>2 DEF Service!Forget, Fetching, Waiting
  <2>4. QED
    BY <2>3 DEF Service!Next
<1>6. CASE UNCHANGED <<pc, item, Remembered>>
  BY <1>6, ServiceStutter DEF Fetching, Waiting
<1>7. ASSUME NEW c \in Callers, TimeOut(c) PROVE [Service!Next]_Service!vars
  BY <1>6, <1>7 DEF TimeOut, Remembered, caches
<1>8. CASE Expire \/ Revoke \/ UNCHANGED vars
  BY <1>6, <1>8 DEF Expire, Revoke, vars, Remembered, caches
<1>9. QED
  BY <1>1, <1>2, <1>3, <1>4, <1>5, <1>7, <1>8, MissStep, ItemKinds DEF Next, Serve, Fetches

\* singleflight, metaSem and the Spotify client (convert.go, ytdlp.go, spotify.go)
\* implement the lookup service, for any callers, any items and any limits: a track is
\* resolved and a playlist listed once at a time, the end of that answers those who joined
\* it and nobody else, and memory holds what was fetched and keeps the resolved tracks;
\* whoever asks /api/info fetches alone.
THEOREM Refines == Spec => ImplementsLookups
<1>1. Init => Service!Init
  BY InitService
<1>2. IInv /\ [Next]_vars => [Service!Next]_Service!vars
  BY NextService
<1>3. QED
  BY <1>1, <1>2, Inductive, PTL DEF Spec, ImplementsLookups, Service!Spec

(***************************************************************************)
(* What follows for whoever asks                                           *)
(***************************************************************************)

OneFetch == \A c, d \in Fetching : item[c] = item[d] /\ item[c] \in Tracks \cup Lists => c = d

NobodyForgotten == \A c \in Waiting : \E d \in Fetching : item[d] = item[c]

\* A track is never resolved and a playlist never listed twice at the same time, and whoever
\* waits, waits for a fetch of the same item, whose end will wake it (convert.go:296-335,
\* 596-615).  Spotify may still be asked for one track by several requests: by one that
\* resolves it and any number of /api/info (529-545), which are no part of this.
THEOREM FetchShared == Spec => [](OneFetch /\ NobodyForgotten)
<1>1. IInv => OneFetch
  <2> SUFFICES ASSUME IInv, NEW c \in Fetching, NEW d \in Fetching, item[c] = item[d], item[c] \in Tracks \cup Lists
               PROVE  c = d
    BY DEF OneFetch
  <2>1. flight[item[c]] = c /\ flight[item[d]] = d
    BY DEF IInv, FlightsLed, Fetching
  <2>2. QED
    BY <2>1
<1>2. IInv => NobodyForgotten
  <2> SUFFICES ASSUME IInv, NEW c \in Waiting PROVE \E d \in Fetching : item[d] = item[c]
    BY DEF NobodyForgotten
  <2>1. c \in Callers /\ item[c] \in Items /\ item[c] \in Tracks \cup Lists
    BY ItemKinds DEF IInv, Placed, Waiting
  <2>2. flight[item[c]] # Nobody
    BY <2>1 DEF IInv, FlightsLed, Waiting
  <2>3. PICK d \in Callers : d = flight[item[c]]
    BY <2>1, <2>2 DEF IInv, TypeOK
  <2>4. item[d] = item[c]
    BY <2>1, <2>2, <2>3 DEF IInv, FlightOwned
  <2>5. d \in Fetching
    BY <2>1, <2>3, <2>4 DEF IInv, FlightsLed, Fetching
  <2>6. QED
    BY <2>4, <2>5
<1>3. QED
  BY Inductive, <1>1, <1>2, PTL
=============================================================================
