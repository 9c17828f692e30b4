-------------------------- MODULE DailyLimitProofs --------------------------
(***************************************************************************)
(* Proofs about DailyLimit, for any number of requests, players and videos *)
(* and any limits.                                                         *)
(***************************************************************************)
EXTENDS DailyLimit, FiniteSetTheorems, TLAPS

\* Only a request that ensure returned to is fresh.
FreshLate == \A r \in Slots : fresh[r] => pc[r] \in {"release", "finish"}

IInv == TypeOK /\ FreshLate /\ InflightExact /\ OvershootBounded

\* The sets that are counted are finite.
LEMMA Finite ==
  ASSUME NEW p
  PROVE  /\ IsFiniteSet(Pending(p)) /\ Cardinality(Pending(p)) \in Nat /\ Cardinality(Pending(p)) <= Cardinality(Slots)
         /\ IsFiniteSet(InFlight(p)) /\ Cardinality(InFlight(p)) \in Nat
         /\ Cardinality(Slots) \in Nat
<1>1. Pending(p) \subseteq Slots /\ InFlight(p) \subseteq Slots
  BY DEF Pending, InFlight
<1>2. QED
  BY <1>1, LimitAssumption, FS_Subset, FS_CardinalityType

\* They stay finite after a step.
LEMMA FiniteNext ==
  ASSUME NEW p
  PROVE  /\ IsFiniteSet(Pending(p)') /\ Cardinality(Pending(p)') \in Nat /\ Cardinality(Pending(p)') <= Cardinality(Slots)
         /\ IsFiniteSet(InFlight(p)') /\ Cardinality(InFlight(p)') \in Nat
<1>1. Pending(p)' \subseteq Slots /\ InFlight(p)' \subseteq Slots
  BY DEF Pending, InFlight
<1>2. QED
  BY <1>1, LimitAssumption, FS_Subset, FS_CardinalityType

\* The rows a player is charged for are finitely many.
LEMMA ChargedFinite ==
  ASSUME day \in Nat, Len(history) \in Nat, NEW p
  PROVE  IsFiniteSet(Charged(p)) /\ Cardinality(Charged(p)) \in Nat
<1>1. Charged(p) \subseteq day + 1 .. Len(history)
  BY DEF Charged
<1>2. IsFiniteSet(day + 1 .. Len(history))
  BY FS_Interval
<1>3. QED
  BY <1>1, <1>2, FS_Subset, FS_CardinalityType

\* At the start nothing is in flight and the history is empty.
LEMMA InitIInv == Init => IInv
<1> SUFFICES ASSUME Init PROVE IInv OBVIOUS
<1> USE LimitAssumption DEF Init
<1>1. TypeOK /\ FreshLate
  BY DEF TypeOK, FreshLate, Steps
<1>2. \A p : InFlight(p) = {} /\ Pending(p) = {} /\ Charged(p) = {}
  BY DEF InFlight, Pending, Charged
<1>3. InflightExact
  BY <1>2, FS_EmptySet DEF InflightExact
<1>4. OvershootBounded
  <2> SUFFICES ASSUME NEW p \in Players, Limited(p)
               PROVE  Cardinality(Charged(p)) + Cardinality(Pending(p)) <= Limit[p] - 1 + Cardinality(Slots)
    BY DEF OvershootBounded, DailyConversions
  <2>1. Cardinality(Charged(p)) = 0 /\ Cardinality(Pending(p)) = 0
    BY <1>2, FS_EmptySet
  <2>2. Limit[p] \in Nat /\ Limit[p] > 0 /\ Cardinality(Slots) \in Nat
    BY Finite DEF Limited
  <2>3. QED
    BY <2>1, <2>2
<1>5. QED
  BY <1>1, <1>3, <1>4 DEF IInv

(***************************************************************************)
(* Types                                                                   *)
(***************************************************************************)

\* Every step keeps the types, and nothing is fresh before ensure has returned.
LEMMA NextTypeOK == IInv /\ [Next]_vars => TypeOK' /\ FreshLate'
<1> SUFFICES ASSUME IInv, [Next]_vars PROVE TypeOK' /\ FreshLate' OBVIOUS
<1> USE LimitAssumption DEF IInv, TypeOK
<1>c. \A p \in Players : DailyConversions(p) \in Nat
  BY ChargedFinite DEF DailyConversions
<1>1. ASSUME NEW r \in Slots, NEW p \in Players, NEW v \in Videos, Arrive(r, p, v) PROVE TypeOK' /\ FreshLate'
  BY <1>1 DEF Arrive, Goto, table, Steps, FreshLate
<1>2. ASSUME NEW r \in Slots, Disconnect(r) \/ LookupHit(r) \/ LookupMiss(r) \/ Check(r) PROVE TypeOK' /\ FreshLate'
  BY <1>2 DEF Disconnect, LookupHit, LookupMiss, Check, Goto, request, table, Steps, FreshLate
<1>3. ASSUME NEW r \in Slots, Refuse(r) \/ CountFails(r) \/ DailyLimitReached(r) \/ RecordFails(r)
      PROVE TypeOK' /\ FreshLate'
  <2>1. Return(r) /\ UNCHANGED <<inflight, table>>
    BY <1>3 DEF Refuse, CountFails, DailyLimitReached, RecordFails
  <2>2. TypeOK'
    BY <2>1 DEF Return, Goto, table, Steps
  <2>3. FreshLate'
    BY <2>1 DEF Return, Goto, FreshLate
  <2>4. QED
    BY <2>2, <2>3
<1>4. ASSUME NEW r \in Slots, Count(r) PROVE TypeOK' /\ FreshLate'
  <2>1. DailyConversions(player[r]) \in Nat
    BY <1>c
  <2>2. n' \in [Slots -> Nat]
    BY <1>4, <2>1 DEF Count
  <2>3. QED
    BY <1>4, <2>2 DEF Count, Goto, request, table, Steps, FreshLate
<1>5. ASSUME NEW r \in Slots, Reserve(r) PROVE TypeOK' /\ FreshLate'
  BY <1>5 DEF Reserve, Goto, request, table, Steps, FreshLate
<1>6. ASSUME NEW r \in Slots, NEW own \in BOOLEAN, EnsureReturns(r, own) PROVE TypeOK' /\ FreshLate'
  BY <1>6 DEF EnsureReturns, Goto, request, table, Steps, FreshLate
<1>7. ASSUME NEW r \in Slots, EnsureFails(r) PROVE TypeOK' /\ FreshLate'
  BY <1>7 DEF EnsureFails, Goto, request, table, Steps, FreshLate
<1>8. ASSUME NEW r \in Slots, Release(r) \/ ReleaseFailed(r) PROVE TypeOK' /\ FreshLate'
  <2>1. player[r] \in Players /\ inflight[player[r]] \in Nat /\ inflight' = Released(player[r])
    BY <1>8 DEF Release, ReleaseFailed
  <2>2. (IF inflight[player[r]] <= 1 THEN 0 ELSE inflight[player[r]] - 1) \in Nat
    BY <2>1
  <2>3. inflight' \in [Players -> Nat]
    BY <2>1, <2>2 DEF Released
  <2>4. CASE Release(r)
    BY <2>3, <2>4 DEF Release, Goto, request, table, Steps, FreshLate
  <2>5. CASE ReleaseFailed(r)
    BY <2>3, <2>5 DEF ReleaseFailed, Return, Goto, table, Steps, FreshLate
  <2>6. QED
    BY <1>8, <2>4, <2>5
<1>9. ASSUME NEW r \in Slots, Record(r) PROVE TypeOK' /\ FreshLate'
  <2>1. [steamid |-> player[r], video |-> video[r], cached |-> ~fresh[r]] \in Rows
    BY DEF Rows
  <2>2. history' \in Seq(Rows) /\ Len(history') >= Len(history)
    BY <1>9, <2>1 DEF Record
  <2>3. QED
    BY <1>9, <2>2 DEF Record, Return, Goto, Steps, FreshLate
<1>10. CASE MinutePasses \/ DayPasses
  BY <1>10 DEF MinutePasses, DayPasses, request, FreshLate
<1>11. CASE Crash
  BY <1>11 DEF Crash, table, Steps, FreshLate
<1>12. CASE UNCHANGED vars
  BY <1>12 DEF vars, request, table, FreshLate
<1>13. QED
  BY <1>1, <1>2, <1>3, <1>4, <1>5, <1>6, <1>7, <1>8, <1>9, <1>10, <1>11, <1>12 DEF Next, Handle

(***************************************************************************)
(* The counter of conversions in flight                                    *)
(***************************************************************************)

\* reserve and release move the counter together with the requests between them,
\* a crash clears both.
LEMMA NextInflight == IInv /\ [Next]_vars => InflightExact'
<1> SUFFICES ASSUME IInv, [Next]_vars, NEW p \in Players \ {NoID}
             PROVE  inflight'[p] = Cardinality(InFlight(p)')
  BY DEF InflightExact
<1> USE LimitAssumption DEF IInv, TypeOK
<1>0. inflight[p] = Cardinality(InFlight(p)) /\ inflight[p] \in Nat
  BY DEF InflightExact
<1>1. CASE InFlight(p)' = InFlight(p) /\ inflight'[p] = inflight[p]
  BY <1>0, <1>1
<1>2. ASSUME NEW r \in Slots, NEW q \in Players, NEW v \in Videos, Arrive(r, q, v) PROVE inflight'[p] = Cardinality(InFlight(p)')
  <2>1. InFlight(p)' = InFlight(p)
    BY <1>2 DEF Arrive, Goto, InFlight
  <2>2. QED
    BY <1>1, <1>2, <2>1 DEF Arrive
<1>3. ASSUME NEW r \in Slots,
             \/ Disconnect(r) \/ LookupHit(r) \/ LookupMiss(r) \/ Count(r) \/ Check(r) \/ EnsureFails(r)
             \/ \E own \in BOOLEAN : EnsureReturns(r, own)
      PROVE  inflight'[p] = Cardinality(InFlight(p)')
  <2>1. InFlight(p)' = InFlight(p)
    BY <1>3 DEF Disconnect, LookupHit, LookupMiss, Count, Check, EnsureFails, EnsureReturns, Goto, request, InFlight
  <2>2. inflight' = inflight
    BY <1>3 DEF Disconnect, LookupHit, LookupMiss, Count, Check, EnsureFails, EnsureReturns
  <2>3. QED
    BY <1>1, <2>1, <2>2
<1>4. ASSUME NEW r \in Slots, Refuse(r) \/ CountFails(r) \/ DailyLimitReached(r) \/ Record(r) \/ RecordFails(r)
      PROVE  inflight'[p] = Cardinality(InFlight(p)')
  <2>1. InFlight(p)' = InFlight(p)
    BY <1>4 DEF Refuse, CountFails, DailyLimitReached, Record, RecordFails, Return, Goto, InFlight
  <2>2. inflight' = inflight
    BY <1>4 DEF Refuse, CountFails, DailyLimitReached, Record, RecordFails
  <2>3. QED
    BY <1>1, <2>1, <2>2
<1>5. ASSUME NEW r \in Slots, Reserve(r) PROVE inflight'[p] = Cardinality(InFlight(p)')
  <2>1. CASE player[r] = p
    <3>1. InFlight(p)' = InFlight(p) \cup {r} /\ r \notin InFlight(p)
      BY <1>5, <2>1 DEF Reserve, Goto, request, InFlight
    <3>2. inflight'[p] = inflight[p] + 1
      BY <1>5, <2>1 DEF Reserve
    <3>3. Cardinality(InFlight(p)') = Cardinality(InFlight(p)) + 1
      BY <3>1, Finite, FS_AddElement
    <3>4. QED
      BY <1>0, <3>2, <3>3
  <2>2. CASE player[r] # p
    <3>1. InFlight(p)' = InFlight(p)
      BY <1>5, <2>2 DEF Reserve, Goto, request, InFlight
    <3>2. inflight'[p] = inflight[p]
      BY <1>5, <2>2 DEF Reserve
    <3>3. QED
      BY <1>1, <3>1, <3>2
  <2>3. QED
    BY <2>1, <2>2
<1>6. ASSUME NEW r \in Slots, Release(r) \/ ReleaseFailed(r) PROVE inflight'[p] = Cardinality(InFlight(p)')
  <2>0. inflight' = Released(player[r])
    BY <1>6 DEF Release, ReleaseFailed
  <2>1. CASE player[r] = p
    <3>1. InFlight(p)' = InFlight(p) \ {r} /\ r \in InFlight(p)
      BY <1>6, <2>1 DEF Release, ReleaseFailed, Return, Goto, request, InFlight
    <3>2. Cardinality(InFlight(p)') = Cardinality(InFlight(p)) - 1 /\ Cardinality(InFlight(p)') \in Nat
      BY <3>1, Finite, FiniteNext, FS_RemoveElement
    <3>3. inflight'[p] = IF inflight[p] <= 1 THEN 0 ELSE inflight[p] - 1
      BY <2>0, <2>1 DEF Released
    <3>4. QED
      BY <1>0, <3>2, <3>3
  <2>2. CASE player[r] # p
    <3>1. InFlight(p)' = InFlight(p)
      BY <1>6, <2>2 DEF Release, ReleaseFailed, Return, Goto, request, InFlight
    <3>2. inflight'[p] = inflight[p]
      BY <2>0, <2>2 DEF Released
    <3>3. QED
      BY <1>1, <3>1, <3>2
  <2>3. QED
    BY <2>1, <2>2
<1>7. CASE MinutePasses \/ DayPasses \/ UNCHANGED vars
  BY <1>1, <1>7 DEF MinutePasses, DayPasses, vars, request, InFlight
<1>8. CASE Crash
  <2>1. InFlight(p)' = {} /\ inflight'[p] = 0
    BY <1>8 DEF Crash, InFlight
  <2>2. QED
    BY <2>1, FS_EmptySet
<1>9. QED
  BY <1>2, <1>3, <1>4, <1>5, <1>6, <1>7, <1>8 DEF Next, Handle

(***************************************************************************)
(* The limit                                                               *)
(***************************************************************************)

\* A request that passes its check had counted fewer rows than the limit, and a
\* request that adds a row was pending before: the sum stays bounded.
LEMMA NextOvershoot == IInv /\ [Next]_vars => OvershootBounded'
<1> SUFFICES ASSUME IInv, [Next]_vars, NEW p \in Players, Limited(p)
             PROVE  Cardinality(Charged(p)') + Cardinality(Pending(p)') <= Limit[p] - 1 + Cardinality(Slots)
  BY DEF OvershootBounded, Limited, DailyConversions
<1> USE LimitAssumption DEF IInv, TypeOK
<1> DEFINE Goal == Cardinality(Charged(p)') + Cardinality(Pending(p)') <= Limit[p] - 1 + Cardinality(Slots)
<1>0. Cardinality(Charged(p)) + Cardinality(Pending(p)) <= Limit[p] - 1 + Cardinality(Slots)
  BY DEF OvershootBounded, DailyConversions
<1>f. /\ Limit[p] \in Nat /\ Cardinality(Slots) \in Nat
      /\ IsFiniteSet(Charged(p)) /\ Cardinality(Charged(p)) \in Nat
      /\ IsFiniteSet(Pending(p)) /\ Cardinality(Pending(p)) \in Nat
  BY ChargedFinite, Finite
<1>g. Cardinality(Pending(p)') \in Nat /\ Cardinality(Pending(p)') <= Cardinality(Slots)
  BY FiniteNext
<1>1. ASSUME Charged(p)' \subseteq Charged(p), Pending(p)' \subseteq Pending(p) PROVE Goal
  <2>1. Cardinality(Charged(p)') \in Nat /\ Cardinality(Charged(p)') <= Cardinality(Charged(p))
    BY <1>1, <1>f, FS_Subset, FS_CardinalityType
  <2>2. Cardinality(Pending(p)') <= Cardinality(Pending(p))
    BY <1>1, <1>f, FS_Subset
  <2>3. QED
    BY <1>0, <1>f, <1>g, <2>1, <2>2
<1>2. ASSUME UNCHANGED <<day, history>> PROVE Charged(p)' = Charged(p)
  BY <1>2 DEF Charged
<1>3. ASSUME NEW r \in Slots, NEW q \in Players, NEW v \in Videos, Arrive(r, q, v) PROVE Goal
  <2>1. UNCHANGED <<day, history>>
    BY <1>3 DEF Arrive, table
  <2>2. Pending(p)' \subseteq Pending(p)
    BY <1>3 DEF Arrive, Goto, Pending
  <2>3. QED
    BY <1>1, <1>2, <2>1, <2>2
<1>4. ASSUME NEW r \in Slots,
             \/ Disconnect(r) \/ LookupHit(r) \/ LookupMiss(r) \/ Check(r) \/ Reserve(r) \/ EnsureFails(r)
             \/ Release(r) \/ \E own \in BOOLEAN : EnsureReturns(r, own)
      PROVE  Goal
  <2>1. UNCHANGED <<day, history>>
    BY <1>4 DEF Disconnect, LookupHit, LookupMiss, Check, Reserve, EnsureFails, Release, EnsureReturns, table
  <2>2. CASE Disconnect(r)
    <3>1. Pending(p)' = Pending(p)
      BY <2>2 DEF Disconnect, Pending
    <3>2. QED
      BY <1>1, <1>2, <2>1, <3>1
  <2>3. CASE LookupHit(r)
    <3>1. ~fresh[r]
      BY <2>3 DEF LookupHit, FreshLate
    <3>2. Pending(p)' \subseteq Pending(p)
      BY <2>3, <3>1 DEF LookupHit, Goto, request, Pending
    <3>3. QED
      BY <1>1, <1>2, <2>1, <3>2
  <2>4. CASE LookupMiss(r)
    <3>1. Pending(p)' \subseteq Pending(p)
      BY <2>4 DEF LookupMiss, Goto, request, Pending
    <3>2. QED
      BY <1>1, <1>2, <2>1, <3>1
  <2>5. CASE Check(r)
    <3>1. player[r] = p => n[r] < Limit[p]
      BY <2>5 DEF Check, Reached
    <3>2. Pending(p)' \subseteq Pending(p)
      BY <2>5, <3>1 DEF Check, Goto, request, Pending
    <3>3. QED
      BY <1>1, <1>2, <2>1, <3>2
  <2>6. CASE Reserve(r) \/ EnsureFails(r) \/ Release(r) \/ \E own \in BOOLEAN : EnsureReturns(r, own)
    <3>1. Pending(p)' \subseteq Pending(p)
      BY <2>6 DEF Reserve, EnsureFails, Release, EnsureReturns, Goto, request, Pending
    <3>2. QED
      BY <1>1, <1>2, <2>1, <3>1
  <2>7. QED
    BY <1>4, <2>2, <2>3, <2>4, <2>5, <2>6
<1>5. ASSUME NEW r \in Slots, Refuse(r) \/ CountFails(r) \/ DailyLimitReached(r) \/ RecordFails(r) \/ ReleaseFailed(r)
      PROVE  Goal
  <2>1. UNCHANGED <<day, history>>
    BY <1>5 DEF Refuse, CountFails, DailyLimitReached, RecordFails, ReleaseFailed, table
  <2>2. Return(r)
    BY <1>5 DEF Refuse, CountFails, DailyLimitReached, RecordFails, ReleaseFailed
  <2>3. Pending(p)' \subseteq Pending(p)
    BY <2>2 DEF Return, Goto, Pending
  <2>4. QED
    BY <1>1, <1>2, <2>1, <2>3
<1>6. ASSUME NEW r \in Slots, Count(r) PROVE Goal
  <2>1. Charged(p)' = Charged(p)
    BY <1>2, <1>6 DEF Count, table
  <2>2. CASE player[r] = p /\ Cardinality(Charged(p)) < Limit[p]
    BY <1>f, <1>g, <2>1, <2>2
  <2>3. CASE player[r] # p \/ ~(Cardinality(Charged(p)) < Limit[p])
    <3>1. player[r] = p => n'[r] = Cardinality(Charged(p))
      BY <1>6 DEF Count, DailyConversions
    <3>2. Pending(p)' \subseteq Pending(p)
      BY <1>6, <2>3, <3>1 DEF Count, Goto, request, Pending
    <3>3. QED
      BY <1>1, <2>1, <3>2
  <2>4. QED
    BY <2>2, <2>3
<1>7. ASSUME NEW r \in Slots, Record(r) PROVE Goal
  <2>1. Return(r)
    BY <1>7 DEF Record
  <2>2. Pending(p)' \subseteq Pending(p) \ {r}
    BY <2>1 DEF Return, Goto, Pending
  <2>3. CASE Charged(p)' \subseteq Charged(p)
    BY <1>1, <2>2, <2>3
  <2>4. CASE ~(Charged(p)' \subseteq Charged(p))
    <3>1. history' = Append(history, [steamid |-> player[r], video |-> video[r], cached |-> ~fresh[r]]) /\ day' = day
      <4>1. history' # history
        BY <1>2, <1>7, <2>4 DEF Record
      <4>2. QED
        BY <1>7, <4>1 DEF Record
    <3>2. Len(history') = Len(history) + 1 /\ \A i \in 1 .. Len(history) : history'[i] = history[i]
      BY <3>1
    <3>3. history'[Len(history) + 1] = [steamid |-> player[r], video |-> video[r], cached |-> ~fresh[r]]
      BY <3>1
    <3>4. Charged(p)' \subseteq Charged(p) \cup {Len(history) + 1}
      BY <3>1, <3>2 DEF Charged
    <3>5. Len(history) + 1 \in Charged(p)'
      BY <2>4, <3>4
    <3>6. player[r] = p /\ fresh[r]
      <4>1. history'[Len(history) + 1].steamid = p /\ ~history'[Len(history) + 1].cached
        BY <3>5 DEF Charged
      <4>2. /\ history'[Len(history) + 1].steamid = player[r]
            /\ history'[Len(history) + 1].cached = ~fresh[r]
        BY <3>3
      <4>3. player[r] = p
        BY <4>1, <4>2
      <4>4. fresh[r]
        BY <4>1, <4>2, Zenon
      <4>5. QED
        BY <4>3, <4>4
    <3>7. r \in Pending(p)
      BY <1>7, <3>6 DEF Record, Pending
    <3>8. Cardinality(Pending(p)') <= Cardinality(Pending(p)) - 1
      <4>1. IsFiniteSet(Pending(p) \ {r}) /\ Cardinality(Pending(p) \ {r}) = Cardinality(Pending(p)) - 1
        BY <1>f, <3>7, FS_RemoveElement
      <4>2. QED
        BY <2>2, <4>1, FS_Subset
    <3>9. Cardinality(Charged(p)') \in Nat /\ Cardinality(Charged(p)') <= Cardinality(Charged(p)) + 1
      <4>1. /\ IsFiniteSet(Charged(p) \cup {Len(history) + 1})
            /\ Cardinality(Charged(p) \cup {Len(history) + 1}) <= Cardinality(Charged(p)) + 1
            /\ Cardinality(Charged(p) \cup {Len(history) + 1}) \in Nat
        <5>1. IsFiniteSet(Charged(p) \cup {Len(history) + 1})
          BY <1>f, FS_AddElement
        <5>2. \/ Cardinality(Charged(p) \cup {Len(history) + 1}) = Cardinality(Charged(p)) + 1
              \/ Cardinality(Charged(p) \cup {Len(history) + 1}) = Cardinality(Charged(p))
          BY <1>f, FS_AddElement
        <5>3. QED
          BY <1>f, <5>1, <5>2
      <4>2. /\ IsFiniteSet(Charged(p)')
            /\ Cardinality(Charged(p)') <= Cardinality(Charged(p) \cup {Len(history) + 1})
        BY <3>4, <4>1, FS_Subset
      <4>3. Cardinality(Charged(p)') \in Nat
        BY <4>2, FS_CardinalityType
      <4>4. QED
        BY <1>f, <4>1, <4>2, <4>3
    <3>10. QED
      BY <1>0, <1>f, <1>g, <3>8, <3>9, SMTT(30)
  <2>5. QED
    BY <2>3, <2>4
<1>8. CASE MinutePasses \/ UNCHANGED vars
  <2>1. UNCHANGED <<day, history>>
    BY <1>8 DEF MinutePasses, vars, table
  <2>2. Pending(p)' = Pending(p)
    BY <1>8 DEF MinutePasses, vars, request, Pending
  <2>3. QED
    BY <1>1, <1>2, <2>1, <2>2
<1>9. CASE DayPasses
  <2>1. Pending(p)' = Pending(p)
    BY <1>9 DEF DayPasses, request, Pending
  <2>2. Charged(p)' \subseteq Charged(p)
    BY <1>9 DEF DayPasses, Charged
  <2>3. QED
    BY <1>1, <2>1, <2>2
<1>10. CASE Crash
  <2>1. Charged(p)' = Charged(p)
    BY <1>2, <1>10 DEF Crash, table
  <2>2. Pending(p)' = {}
    BY <1>10 DEF Crash, Pending
  <2>3. QED
    BY <1>1, <2>1, <2>2
<1>11. QED
  BY <1>3, <1>4, <1>5, <1>6, <1>7, <1>8, <1>9, <1>10 DEF Next, Handle

(***************************************************************************)
(* The theorems                                                            *)
(***************************************************************************)

\* The strengthening is an invariant of doConvert and its crashes.
THEOREM Inductive == Spec => []IInv
<1>1. IInv /\ [Next]_vars => IInv'
  BY NextTypeOK, NextInflight, NextOvershoot DEF IInv
<1>2. QED
  BY InitIInv, <1>1, PTL DEF Spec

\* Every variable of a request and of the history keeps its type.
THEOREM TypeCorrect == Spec => []TypeOK
<1>1. IInv => TypeOK
  BY DEF IInv
<1>2. QED
  BY Inductive, <1>1, PTL

\* No reservation of a player is leaked or released twice, on any path.
THEOREM ReservationsExact == Spec => []InflightExact
<1>1. IInv => InflightExact
  BY DEF IInv
<1>2. QED
  BY Inductive, <1>1, PTL

\* A player exceeds his limit by less than the number of requests open together.
THEOREM LimitAlmostKept == Spec => []OvershootBounded
<1>1. IInv => OvershootBounded
  BY DEF IInv
<1>2. QED
  BY Inductive, <1>1, PTL

\* What slips past the limit (convert.go:259-260) does so only beside another request:
\* if requests come one after the other, no player is ever charged for more than the limit
\* allows, whatever fails, disconnects or crashes.
THEOREM KeptOneByOne ==
  ASSUME Cardinality(Slots) = 1
  PROVE  Spec => []DailyLimitKept
<1>1. IInv => DailyLimitKept
  <2> SUFFICES ASSUME IInv, NEW p \in Players, Limited(p) PROVE DailyConversions(p) <= Limit[p]
    BY DEF DailyLimitKept
  <2>1. Cardinality(Pending(p)) \in Nat
    BY Finite
  <2>2. DailyConversions(p) \in Nat
    <3>1. day \in Nat /\ Len(history) \in Nat
      BY DEF IInv, TypeOK
    <3>2. QED
      BY <3>1, ChargedFinite DEF DailyConversions
  <2>3. DailyConversions(p) + Cardinality(Pending(p)) <= Limit[p] - 1 + 1
    BY DEF IInv, OvershootBounded
  <2>4. QED
    BY <2>1, <2>2, <2>3, LimitAssumption
<1>2. QED
  BY Inductive, <1>1, PTL
=============================================================================
