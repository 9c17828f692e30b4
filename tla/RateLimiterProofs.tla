------------------------ MODULE RateLimiterProofs ------------------------
(***************************************************************************)
(* Proofs about RateLimiter, for any set of requests and keys, any maxima, *)
(* window and lateness of at most half a window.                           *)
(***************************************************************************)
EXTENDS RateLimiter, Integers, TLAPS

(***************************************************************************)
(* Arithmetic, and what Capped and Advance do                              *)
(***************************************************************************)

\* A product distributes over a sum.
LEMMA Distribute == ASSUME NEW m \in Nat, NEW a \in Int, NEW b \in Int PROVE m * (a + b) = m * a + m * b
  BY SMT

\* A product grows with its factor.
LEMMA Monotone == ASSUME NEW m \in Nat, NEW a \in Int, NEW b \in Int, a <= b PROVE m * a <= m * b
<1>1. m * a + m * (b - a) = m * b
  BY Distribute
<1>2. m * (b - a) \in Nat
  BY SMT
<1>3. QED
  BY <1>1, <1>2

\* A bucket holds at least one request when it is full.
LEMMA CapTyped == \A k \in Keys : Cap(k) \in Nat /\ Window <= Cap(k) /\ Max[k] \in Nat
<1> SUFFICES ASSUME NEW k \in Keys PROVE Cap(k) \in Nat /\ Window <= Cap(k) /\ Max[k] \in Nat OBVIOUS
<1>1. Max[k] \in Nat \ {0} /\ Window \in Nat
  BY LimiterAssumption
<1>2. Window * 1 <= Window * Max[k]
  BY <1>1, Monotone
<1>3. QED
  BY <1>1, <1>2 DEF Cap

(***************************************************************************)
(* The inductive invariant: a call is late by Late at most, the limiter it *)
(* is about to ask has been seen no longer ago, and each key's account of  *)
(* the requests it was granted is covered by the time that has passed.     *)
(***************************************************************************)

Recent == \A r \in Requests : call[r].pc # "idle" => now <= call[r].stamp + Late

Held ==
  \A r \in Requests :
    call[r].pc = "ask" => entry[call[r].key].listed /\ call[r].stamp <= entry[call[r].key].seen + Late

Seen ==
  \A k \in Keys :
    /\ entry[k].listed => entry[k].last <= entry[k].seen + Late
    /\ ~entry[k].listed => entry[k].tokens = Cap(k)

\* A limiter that was never asked, one that was since the observer began or a
\* little earlier, and one that was not.
Account(k) ==
  /\ entry[k].tokens = Cap(k) =>
       entry[k].last = 0 /\ granted[k] * Window <= Max[k] * (rewound[k] + (now - since[k]))
  /\ entry[k].tokens # Cap(k) /\ since[k] <= entry[k].last + Late =>
       granted[k] * Window + entry[k].tokens <= Max[k] * (Window + Late + rewound[k] + (entry[k].last - since[k]))
  /\ entry[k].tokens # Cap(k) /\ entry[k].last + Late < since[k] => granted[k] = 0

Covered == \A k \in Keys : Account(k)

IInv == TypeOK /\ Recent /\ Held /\ Seen /\ Covered

\* No time has passed and nothing was granted.
LEMMA InitIInv == Init => IInv
<1> SUFFICES ASSUME Init PROVE IInv OBVIOUS
<1> USE CapTyped, LimiterAssumption DEF Init, Unlisted, None, Zero
<1>1. TypeOK
  <2>1. boot \in BOOLEAN
    BY Zenon
  <2>2. QED
    BY <2>1 DEF TypeOK
<1>2. Recent /\ Held /\ Seen
  BY DEF Recent, Held, Seen
<1>3. Covered
  <2> SUFFICES ASSUME NEW k \in Keys PROVE Account(k) BY DEF Covered
  <2>1. granted[k] * Window = 0 /\ rewound[k] = 0 /\ now - since[k] = 0 /\ Max[k] * 0 = 0
    OBVIOUS
  <2>2. QED
    BY <2>1 DEF Account
<1>4. QED
  BY <1>1, <1>2, <1>3 DEF IInv

\* What a limiter says it holds is never more than a full bucket, and no more
\* than it had and was refilled with.
LEMMA AdvanceTyped ==
  ASSUME TypeOK, NEW k \in Keys, NEW t \in 0 .. now
  PROVE  /\ Advance(k, t) \in 0 .. Cap(k)
         /\ entry[k].last <= t => Advance(k, t) <= entry[k].tokens + Max[k] * (t - entry[k].last)
         /\ t < entry[k].last => Advance(k, t) = entry[k].tokens
<1>1. entry[k].tokens \in 0 .. Cap(k) /\ entry[k].last \in Nat /\ Cap(k) \in Nat /\ Max[k] \in Nat /\ t \in Nat
  BY CapTyped DEF TypeOK
<1>2. CASE t < entry[k].last
  BY <1>1, <1>2 DEF Advance
<1>3. CASE entry[k].last <= t
  <2>1. Max[k] * (t - entry[k].last) \in Nat
    BY <1>1, <1>3
  <2>2. QED
    BY <1>1, <1>3, <2>1 DEF Advance, Capped
<1>4. QED
  BY <1>1, <1>2, <1>3

\* A request that passes changes its own limiter, and leaves it less than full.
LEMMA PassEntry ==
  ASSUME TypeOK, NEW r \in Requests, Pass(r), NEW k, k = call[r].key, NEW t, t = call[r].stamp
  PROVE  /\ k \in Keys /\ t \in 0 .. now
         /\ Advance(k, t) \in Window .. Cap(k)
         /\ entry'[k] = [listed |-> entry[k].listed, tokens |-> Advance(k, t) - Window, last |-> t, seen |-> entry[k].seen]
         /\ DOMAIN entry' = Keys
         /\ \A j \in Keys \ {k} : entry'[j] = entry[j]
<1>1. k \in Keys /\ t \in 0 .. now
  BY DEF TypeOK
<1>2. Advance(k, t) \in Window .. Cap(k)
  BY <1>1, AdvanceTyped, LimiterAssumption, CapTyped DEF Pass
<1>3. QED
  BY <1>1, <1>2 DEF TypeOK, Pass

\* A request that enters has its key seen, and changes nothing else.
LEMMA EnterEntry ==
  ASSUME TypeOK, NEW r \in Requests, Enter(r), NEW k, k = call[r].key, NEW t, t = call[r].stamp
  PROVE  /\ k \in Keys /\ t \in 0 .. now
         /\ entry'[k] = [listed |-> TRUE, tokens |-> entry[k].tokens, last |-> entry[k].last, seen |-> t]
         /\ DOMAIN entry' = Keys
         /\ \A j \in Keys \ {k} : entry'[j] = entry[j]
<1>1. k \in Keys /\ t \in 0 .. now
  BY DEF TypeOK
<1>2. QED
  BY <1>1 DEF TypeOK, Enter

\* Every step keeps the types.
LEMMA NextTypeOK == TypeOK /\ [Next]_vars => TypeOK'
<1> SUFFICES ASSUME TypeOK, [Next]_vars PROVE TypeOK' OBVIOUS
<1> USE LimiterAssumption DEF TypeOK, watch
<1>1. ASSUME NEW r \in Requests, NEW k \in Keys, Read(r, k) PROVE TypeOK'
  BY <1>1 DEF Read
<1>2. ASSUME NEW r \in Requests, Enter(r) PROVE TypeOK'
  <2> DEFINE k == call[r].key
             t == call[r].stamp
  <2>1. /\ k \in Keys /\ t \in 0 .. now
        /\ entry'[k] = [listed |-> TRUE, tokens |-> entry[k].tokens, last |-> entry[k].last, seen |-> t]
        /\ DOMAIN entry' = Keys
        /\ \A j \in Keys \ {k} : entry'[j] = entry[j]
    BY <1>2, EnterEntry
  <2> HIDE DEF k, t
  <2>2. ASSUME NEW j \in Keys
        PROVE  entry'[j] \in [listed : BOOLEAN, tokens : 0 .. Cap(j), last : 0 .. now, seen : 0 .. now]
    <3>1. entry[j] \in [listed : BOOLEAN, tokens : 0 .. Cap(j), last : 0 .. now, seen : 0 .. now]
      OBVIOUS
    <3>2. CASE j = k
      <4>1. entry'[j] = [listed |-> TRUE, tokens |-> entry[j].tokens, last |-> entry[j].last, seen |-> t]
        BY <2>1, <3>2
      <4>2. entry[j].tokens \in 0 .. Cap(j) /\ entry[j].last \in 0 .. now /\ t \in 0 .. now
        BY <2>1, <3>1
      <4>3. QED
        BY <4>1, <4>2
    <3>3. CASE j # k
      BY <2>1, <3>1, <3>3
    <3>4. QED
      BY <3>2, <3>3
  <2>3. call' \in [Requests -> [pc : {"idle", "lock", "ask"}, key : Keys, stamp : 0 .. now]]
    BY <1>2 DEF Enter
  <2>4. QED
    BY <1>2, <2>1, <2>2, <2>3 DEF Enter
<1>3. ASSUME NEW r \in Requests, Pass(r) PROVE TypeOK'
  <2> DEFINE k == call[r].key
             t == call[r].stamp
  <2>1. /\ k \in Keys /\ t \in 0 .. now
        /\ Advance(k, t) \in Window .. Cap(k)
        /\ entry'[k] = [listed |-> entry[k].listed, tokens |-> Advance(k, t) - Window, last |-> t, seen |-> entry[k].seen]
        /\ DOMAIN entry' = Keys
        /\ \A j \in Keys \ {k} : entry'[j] = entry[j]
    BY <1>3, PassEntry
  <2>2. boot' = boot /\ now' = now /\ since' = since /\ call' = [call EXCEPT ![r] = None] /\ granted' = [granted EXCEPT ![k] = @ + 1]
    BY <1>3 DEF Pass
  <2>3. rewound' \in [Keys -> Nat]
    BY <1>3, <2>1 DEF Pass
  <2>4. \A j \in Keys : entry'[j] \in [listed : BOOLEAN, tokens : 0 .. Cap(j), last : 0 .. now', seen : 0 .. now']
    BY <2>1, <2>2, CapTyped
  <2>5. None \in [pc : {"idle", "lock", "ask"}, key : Keys, stamp : 0 .. now]
    BY DEF None
  <2>6. call' \in [Requests -> [pc : {"idle", "lock", "ask"}, key : Keys, stamp : 0 .. now]]
    BY <2>2, <2>5
  <2>7. granted' \in [Keys -> Nat]
    BY <2>1, <2>2
  <2> HIDE DEF k, t
  <2>8. QED
    BY <2>1, <2>2, <2>3, <2>4, <2>6, <2>7
<1>4. ASSUME NEW r \in Requests, Refuse(r) PROVE TypeOK'
  BY <1>4 DEF Refuse, None
<1>5. CASE Collect
  BY <1>5, CapTyped DEF Collect, Unlisted
<1>6. CASE Restart
  BY <1>6, CapTyped DEF Restart, Unlisted, None, Zero
<1>7. CASE Tick
  BY <1>7 DEF Tick
<1>8. ASSUME NEW k \in Keys, Observe(k) PROVE TypeOK'
  BY <1>8 DEF Observe
<1>9. CASE UNCHANGED vars
  BY <1>9 DEF vars
<1>10. QED
  BY <1>1, <1>2, <1>3, <1>4, <1>5, <1>6, <1>7, <1>8, <1>9 DEF Next

\* gcLoop takes no limiter that a call holds: none was seen as long ago as two windows.
LEMMA HeldNotIdle ==
  ASSUME TypeOK, Recent, Held, NEW r \in Requests, call[r].pc = "ask", NEW t \in 0 .. now
  PROVE  ~Idle(call[r].key, t)
<1>1. call[r].key \in Keys /\ call[r].stamp \in Nat /\ entry[call[r].key].seen \in Nat
  BY DEF TypeOK
<1>2. now <= call[r].stamp + Late /\ call[r].stamp <= entry[call[r].key].seen + Late
  BY DEF Recent, Held
<1>3. QED
  BY <1>1, <1>2, LimiterAssumption DEF Idle, TypeOK

\* Every step keeps the calls recent.
LEMMA NextRecent == TypeOK /\ Recent /\ [Next]_vars => Recent'
<1> SUFFICES ASSUME TypeOK, Recent, [Next]_vars PROVE Recent' OBVIOUS
<1> USE LimiterAssumption DEF TypeOK, Recent, watch
<1>1. ASSUME NEW r \in Requests, NEW k \in Keys, Read(r, k) PROVE Recent'
  BY <1>1 DEF Read
<1>2. ASSUME NEW r \in Requests, Enter(r) PROVE Recent'
  BY <1>2 DEF Enter
<1>3. ASSUME NEW r \in Requests, Pass(r) \/ Refuse(r) PROVE Recent'
  BY <1>3 DEF Pass, Refuse, None
<1>4. CASE Collect
  BY <1>4 DEF Collect
<1>5. CASE Restart
  BY <1>5 DEF Restart, None
<1>6. CASE Tick
  BY <1>6 DEF Tick
<1>7. ASSUME NEW k \in Keys, Observe(k) PROVE Recent'
  BY <1>7 DEF Observe
<1>8. CASE UNCHANGED vars
  BY <1>8 DEF vars
<1>9. QED
  BY <1>1, <1>2, <1>3, <1>4, <1>5, <1>6, <1>7, <1>8 DEF Next

\* Every step keeps the limiters of the calls.
LEMMA NextHeld == TypeOK /\ Recent /\ Held /\ [Next]_vars => Held'
<1> SUFFICES ASSUME TypeOK, Recent, Held, [Next]_vars PROVE Held' OBVIOUS
<1> USE LimiterAssumption DEF Held
<1>1. ASSUME NEW r \in Requests, NEW k \in Keys, Read(r, k) PROVE Held'
  BY <1>1 DEF Read, TypeOK
<1>2. ASSUME NEW r \in Requests, Enter(r) PROVE Held'
  <2> DEFINE k == call[r].key
             t == call[r].stamp
  <2>1. /\ k \in Keys /\ t \in 0 .. now
        /\ entry'[k] = [listed |-> TRUE, tokens |-> entry[k].tokens, last |-> entry[k].last, seen |-> t]
        /\ \A j \in Keys \ {k} : entry'[j] = entry[j]
    BY <1>2, EnterEntry
  <2>2. now <= t + Late /\ call' = [call EXCEPT ![r].pc = "ask"]
    BY <1>2 DEF Enter, Recent
  <2>3. ASSUME NEW q \in Requests, call'[q].pc = "ask"
        PROVE  entry'[call'[q].key].listed /\ call'[q].stamp <= entry'[call'[q].key].seen + Late
    <3>1. call'[q].key = call[q].key /\ call'[q].stamp = call[q].stamp
      BY <2>2 DEF TypeOK
    <3>2. call[q].key \in Keys /\ call[q].stamp \in 0 .. now
      BY DEF TypeOK
    <3>3. CASE call[q].key = k
      <4>1. entry'[k].listed /\ entry'[k].seen = t
        BY <2>1
      <4>2. call[q].stamp <= t + Late
        BY <2>1, <2>2, <3>2 DEF TypeOK
      <4>3. QED
        BY <3>1, <3>3, <4>1, <4>2
    <3>4. CASE call[q].key # k
      <4>1. call[q].pc = "ask"
        BY <2>2, <2>3, <3>4 DEF TypeOK
      <4>2. QED
        BY <2>1, <3>1, <3>2, <3>4, <4>1
    <3>5. QED
      BY <3>3, <3>4
  <2>4. QED
    BY <2>3
<1>3. ASSUME NEW r \in Requests, Pass(r) PROVE Held'
  <2> DEFINE k == call[r].key
             t == call[r].stamp
  <2>1. /\ entry'[k] = [listed |-> entry[k].listed, tokens |-> Advance(k, t) - Window, last |-> t, seen |-> entry[k].seen]
        /\ \A j \in Keys \ {k} : entry'[j] = entry[j]
    BY <1>3, PassEntry
  <2>2. ASSUME NEW j \in Keys PROVE entry'[j].listed = entry[j].listed /\ entry'[j].seen = entry[j].seen
    <3> HIDE DEF k, t
    <3> QED
      BY <2>1
  <2>3. call' = [call EXCEPT ![r] = None]
    BY <1>3 DEF Pass
  <2>4. QED
    BY <2>2, <2>3 DEF TypeOK, None
<1>4. ASSUME NEW r \in Requests, Refuse(r) PROVE Held'
  BY <1>4 DEF Refuse, None, TypeOK
<1>5. CASE Collect
  <2>1. PICK t \in 0 .. now : entry' = [k \in Keys |-> IF Idle(k, t) THEN Unlisted(k) ELSE entry[k]]
    BY <1>5 DEF Collect
  <2>2. ASSUME NEW r \in Requests, call[r].pc = "ask" PROVE entry'[call[r].key] = entry[call[r].key]
    BY <2>1, <2>2, HeldNotIdle DEF TypeOK
  <2>3. QED
    BY <1>5, <2>2 DEF Collect
<1>6. CASE Restart
  BY <1>6 DEF Restart, None
<1>7. CASE Tick
  BY <1>7 DEF Tick
<1>8. ASSUME NEW k \in Keys, Observe(k) PROVE Held'
  BY <1>8 DEF Observe
<1>9. CASE UNCHANGED vars
  BY <1>9 DEF vars
<1>10. QED
  BY <1>1, <1>2, <1>3, <1>4, <1>5, <1>6, <1>7, <1>8, <1>9 DEF Next

\* Every step keeps the time an entry was seen close to its last grant.
LEMMA NextSeen == TypeOK /\ Recent /\ Held /\ Seen /\ [Next]_vars => Seen'
<1> SUFFICES ASSUME TypeOK, Recent, Held, Seen, [Next]_vars PROVE Seen' OBVIOUS
<1> USE LimiterAssumption DEF Seen, watch
<1>1. ASSUME NEW r \in Requests, NEW k \in Keys, Read(r, k) PROVE Seen'
  BY <1>1 DEF Read
<1>2. ASSUME NEW r \in Requests, Enter(r) PROVE Seen'
  <2> DEFINE k == call[r].key
             t == call[r].stamp
  <2>1. /\ k \in Keys /\ t \in 0 .. now
        /\ entry'[k] = [listed |-> TRUE, tokens |-> entry[k].tokens, last |-> entry[k].last, seen |-> t]
        /\ \A j \in Keys \ {k} : entry'[j] = entry[j]
    BY <1>2, EnterEntry
  <2>2. now <= t + Late /\ entry[k].last \in 0 .. now
    BY <1>2, <2>1 DEF Enter, Recent, TypeOK
  <2>3. entry[k].last <= t + Late
    BY <2>1, <2>2 DEF TypeOK
  <2> HIDE DEF k, t
  <2>4. QED
    BY <2>1, <2>3
<1>3. ASSUME NEW r \in Requests, Pass(r) PROVE Seen'
  <2> DEFINE k == call[r].key
             t == call[r].stamp
  <2>1. /\ k \in Keys /\ t \in 0 .. now
        /\ entry'[k] = [listed |-> entry[k].listed, tokens |-> Advance(k, t) - Window, last |-> t, seen |-> entry[k].seen]
        /\ \A j \in Keys \ {k} : entry'[j] = entry[j]
    BY <1>3, PassEntry
  <2>2. entry[k].listed /\ t <= entry[k].seen + Late
    BY <1>3 DEF Pass, Held
  <2> HIDE DEF k, t
  <2>3. QED
    BY <2>1, <2>2
<1>4. CASE Collect
  BY <1>4 DEF Collect, Unlisted
<1>5. CASE Restart
  BY <1>5 DEF Restart, Unlisted
<1>6. CASE Tick
  BY <1>6 DEF Tick
<1>7. CASE UNCHANGED vars
  BY <1>7 DEF vars
<1>8. ASSUME NEW r \in Requests, Refuse(r) PROVE Seen'
  BY <1>8 DEF Refuse
<1>9. ASSUME NEW k \in Keys, Observe(k) PROVE Seen'
  BY <1>9 DEF Observe
<1>10. QED
  BY <1>1, <1>2, <1>3, <1>4, <1>5, <1>6, <1>7, <1>8, <1>9 DEF Next

\* The numbers of an account are what they seem.
LEMMA AccountTyped ==
  ASSUME TypeOK, NEW k \in Keys
  PROVE  /\ Max[k] \in Nat \ {0} /\ Window \in Nat \ {0} /\ Late \in Nat /\ Cap(k) = Max[k] * Window
         /\ now \in Nat /\ since[k] \in 0 .. now /\ granted[k] \in Nat /\ rewound[k] \in Nat
         /\ entry[k].tokens \in 0 .. Cap(k) /\ entry[k].last \in 0 .. now /\ entry[k].seen \in 0 .. now
  BY LimiterAssumption DEF TypeOK, Cap

\* A request that passes is covered by what its limiter held when it was read.
LEMMA PassCovered ==
  ASSUME TypeOK, NEW k \in Keys, Account(k),
         NEW t \in 0 .. now, now <= t + Late, NEW a \in Window .. Cap(k), NEW rewed \in Nat,
         entry[k].last <= t => a <= entry[k].tokens + Max[k] * (t - entry[k].last) /\ rewed = rewound[k],
         t < entry[k].last => a = entry[k].tokens /\ rewed = rewound[k] + (entry[k].last - t)
  PROVE  granted[k] * Window + a <= Max[k] * (Window + Late + rewed + (t - since[k]))
<1> DEFINE m == Max[k]
           w == Window
           late == Late
           tokens == entry[k].tokens
           last == entry[k].last
           g == granted[k]
           s == since[k]
           rew == rewound[k]
<1>1. /\ m \in Nat \ {0} /\ w \in Nat \ {0} /\ late \in Nat /\ now \in Nat
      /\ tokens \in 0 .. m * w /\ last \in 0 .. now /\ g \in Nat /\ s \in 0 .. now /\ rew \in Nat
      /\ a \in w .. m * w /\ now <= t + late
  BY AccountTyped
<1>2. /\ tokens = m * w => last = 0 /\ g * w <= m * (rew + (now - s))
      /\ tokens # m * w /\ s <= last + late => g * w + tokens <= m * (w + late + rew + (last - s))
      /\ tokens # m * w /\ last + late < s => g = 0
  BY DEF Account, Cap
<1>3. /\ last <= t => a <= tokens + m * (t - last) /\ rewed = rew
      /\ t < last => a = tokens /\ rewed = rew + (last - t)
  OBVIOUS
<1> HIDE DEF m, w, late, tokens, last, g, s, rew
<1> USE <1>1, <1>2, <1>3
<1>4. g * w \in Nat /\ a \in Nat
  OBVIOUS
<1>5. g * w + a <= m * (w + late + rewed + (t - s))
  <2>1. CASE tokens = m * w
    <3>1. m * (rew + (now - s)) + m * w = m * (rew + (now - s) + w)
      BY Distribute
    <3>2. m * (rew + (now - s) + w) <= m * (w + late + rewed + (t - s))
      BY <2>1, Monotone
    <3>3. QED
      BY <1>4, <2>1, <3>1, <3>2
  <2>2. CASE tokens # m * w /\ s <= last + late /\ t < last
    <3>1. w + late + rewed + (t - s) = w + late + rew + (last - s)
      BY <2>2
    <3>2. QED
      BY <2>2, <3>1
  <2>3. CASE tokens # m * w /\ s <= last + late /\ last <= t
    <3>1. m * (w + late + rew + (last - s)) + m * (t - last) = m * (w + late + rew + (last - s) + (t - last))
      BY Distribute
    <3>2. w + late + rew + (last - s) + (t - last) = w + late + rewed + (t - s)
      BY <2>3
    <3>3. QED
      BY <1>4, <2>3, <3>1, <3>2
  <2>4. CASE tokens # m * w /\ last + late < s
    <3>1. m * w <= m * (w + late + rewed + (t - s))
      BY <2>4, Monotone
    <3>2. g * w = 0
      BY <2>4
    <3>3. QED
      BY <1>4, <3>1, <3>2
  <2>5. QED
    BY <2>1, <2>2, <2>3, <2>4
<1>6. QED
  BY <1>5 DEF m, w, late, g, s

\* Time can only pay for more.
LEMMA TickCovered ==
  ASSUME TypeOK, NEW k \in Keys, Account(k), NEW later, later = now + 1
  PROVE  Max[k] * (rewound[k] + (now - since[k])) <= Max[k] * (rewound[k] + (later - since[k]))
<1> DEFINE a == rewound[k] + (now - since[k])
           b == rewound[k] + (later - since[k])
<1>1. a \in Int /\ b \in Int /\ a <= b /\ Max[k] \in Nat
  BY AccountTyped
<1> HIDE DEF a, b
<1>2. Max[k] * a <= Max[k] * b
  BY <1>1, Monotone
<1>3. QED
  BY <1>2 DEF a, b

\* What an idle key was granted is covered by the windows it was idle for.
LEMMA IdleCovered ==
  ASSUME TypeOK, Seen, NEW k \in Keys, Account(k), NEW t \in 0 .. now, Idle(k, t)
  PROVE  granted[k] * Window <= Max[k] * (rewound[k] + (now - since[k]))
<1> USE AccountTyped
<1>1. CASE entry[k].tokens = Cap(k)
  BY <1>1 DEF Account
<1>2. CASE entry[k].tokens # Cap(k) /\ since[k] <= entry[k].last + Late
  <2>1. granted[k] * Window + entry[k].tokens <= Max[k] * (Window + Late + rewound[k] + (entry[k].last - since[k]))
    BY <1>2 DEF Account
  <2>2. Window + Late + entry[k].last <= now
    BY LimiterAssumption DEF Seen, Idle
  <2>3. Max[k] * (Window + Late + rewound[k] + (entry[k].last - since[k])) <= Max[k] * (rewound[k] + (now - since[k]))
    <3> DEFINE a == Window + Late + rewound[k] + (entry[k].last - since[k])
               b == rewound[k] + (now - since[k])
    <3>1. a \in Int /\ b \in Int /\ a <= b
      BY <2>2
    <3> HIDE DEF a, b
    <3>2. Max[k] * a <= Max[k] * b
      BY <3>1, Monotone
    <3>3. QED
      BY <3>2 DEF a, b
  <2>4. granted[k] * Window \in Nat
    OBVIOUS
  <2>5. QED
    BY <2>1, <2>3, <2>4
<1>3. CASE entry[k].tokens # Cap(k) /\ entry[k].last + Late < since[k]
  <2>1. granted[k] * Window = 0
    BY <1>3 DEF Account
  <2>2. Max[k] * 0 <= Max[k] * (rewound[k] + (now - since[k]))
    BY Monotone
  <2>3. QED
    BY <2>1, <2>2
<1>4. QED
  BY <1>1, <1>2, <1>3

\* Every step keeps the accounts.
LEMMA NextCovered == IInv /\ [Next]_vars => Covered'
<1> SUFFICES ASSUME IInv, [Next]_vars, NEW k \in Keys PROVE Account(k)' BY DEF Covered
<1>1. TypeOK /\ Recent /\ Held /\ Seen /\ Account(k)
  BY DEF IInv, Covered
<1> USE <1>1
<1>2. ASSUME UNCHANGED <<now, entry[k], granted[k], since[k], rewound[k]>> PROVE Account(k)'
  BY <1>2 DEF Account, Cap
<1>3. ASSUME NEW r \in Requests, NEW j \in Keys, Read(r, j) PROVE Account(k)'
  BY <1>2, <1>3 DEF Read, watch
<1>4. ASSUME NEW r \in Requests, Enter(r) PROVE Account(k)'
  <2> DEFINE j == call[r].key
             t == call[r].stamp
  <2>1. /\ entry'[j] = [listed |-> TRUE, tokens |-> entry[j].tokens, last |-> entry[j].last, seen |-> t]
        /\ \A i \in Keys \ {j} : entry'[i] = entry[i]
    BY <1>4, EnterEntry
  <2>2. UNCHANGED <<now, granted, since, rewound>>
    BY <1>4 DEF Enter, watch
  <2> HIDE DEF j, t
  <2>3. entry'[k].tokens = entry[k].tokens /\ entry'[k].last = entry[k].last
    BY <2>1
  <2>4. QED
    BY <2>2, <2>3 DEF Account, Cap
<1>5. ASSUME NEW r \in Requests, Pass(r) PROVE Account(k)'
  <2> DEFINE j == call[r].key
             t == call[r].stamp
  <2>1. /\ j \in Keys /\ t \in 0 .. now
        /\ Advance(j, t) \in Window .. Cap(j)
        /\ entry'[j] = [listed |-> entry[j].listed, tokens |-> Advance(j, t) - Window, last |-> t, seen |-> entry[j].seen]
        /\ \A i \in Keys \ {j} : entry'[i] = entry[i]
    BY <1>5, PassEntry
  <2>2. /\ UNCHANGED <<now, since>>
        /\ granted' = [granted EXCEPT ![j] = @ + 1]
        /\ rewound' = [rewound EXCEPT ![j] = IF t < entry[j].last THEN @ + (entry[j].last - t) ELSE @]
    BY <1>5 DEF Pass
  <2>3. now <= t + Late
    BY <1>5 DEF Pass, Recent
  <2> HIDE DEF j, t
  <2>4. CASE k # j
    BY <1>2, <2>1, <2>2, <2>4 DEF TypeOK
  <2>5. CASE k = j
    <3> DEFINE a == Advance(k, t)
    <3>1. a \in Window .. Cap(k) /\ entry'[k].tokens = a - Window /\ entry'[k].last = t
      BY <2>1, <2>5
    <3>2. granted'[k] = granted[k] + 1
      BY <2>1, <2>2, <2>5 DEF TypeOK
    <3>3. /\ entry[k].last <= t => a <= entry[k].tokens + Max[k] * (t - entry[k].last) /\ rewound'[k] = rewound[k]
          /\ t < entry[k].last => a = entry[k].tokens /\ rewound'[k] = rewound[k] + (entry[k].last - t)
      <4>1. /\ entry[k].last <= t => a <= entry[k].tokens + Max[k] * (t - entry[k].last)
            /\ t < entry[k].last => a = entry[k].tokens
        BY <2>1, AdvanceTyped
      <4>2. rewound'[k] = IF t < entry[k].last THEN rewound[k] + (entry[k].last - t) ELSE rewound[k]
        BY <2>1, <2>2, <2>5 DEF TypeOK
      <4>3. entry[k].last \in Nat /\ t \in Nat
        BY <2>1, AccountTyped
      <4> HIDE DEF a
      <4>4. QED
        BY <4>1, <4>2, <4>3
    <3>4. rewound'[k] \in Nat
      BY <3>3, <2>1, AccountTyped
    <3> HIDE DEF a
    <3>5. granted[k] * Window + a <= Max[k] * (Window + Late + rewound'[k] + (t - since[k]))
      <4> DEFINE rewed == rewound'[k]
      <4>1. now <= t + Late /\ rewed \in Nat /\ t \in 0 .. now
        BY <2>1, <2>3, <3>4
      <4>2. /\ entry[k].last <= t => a <= entry[k].tokens + Max[k] * (t - entry[k].last) /\ rewed = rewound[k]
            /\ t < entry[k].last => a = entry[k].tokens /\ rewed = rewound[k] + (entry[k].last - t)
        BY <3>3
      <4> HIDE DEF rewed
      <4>3. granted[k] * Window + a <= Max[k] * (Window + Late + rewed + (t - since[k]))
        BY <3>1, <4>1, <4>2, PassCovered
      <4>4. QED
        BY <4>3 DEF rewed
    <3>6. granted'[k] * Window + entry'[k].tokens = granted[k] * Window + a
      <4>1. (granted[k] + 1) * Window = granted[k] * Window + Window
        BY AccountTyped
      <4>2. granted[k] * Window \in Nat /\ a \in Nat /\ Window \in Nat
        BY <3>1, AccountTyped
      <4>3. QED
        BY <3>1, <3>2, <4>1, <4>2
    <3>7. entry'[k].tokens # Cap(k) /\ since[k] <= t + Late
      BY <2>1, <2>3, <3>1, AccountTyped
    <3>8. QED
      BY <2>1, <2>2, <3>1, <3>5, <3>6, <3>7, AccountTyped DEF Account, Cap
  <2>6. QED
    BY <2>4, <2>5
<1>6. ASSUME NEW r \in Requests, Refuse(r) PROVE Account(k)'
  BY <1>2, <1>6 DEF Refuse, watch
<1>7. CASE Collect
  <2>1. PICK t \in 0 .. now : entry' = [j \in Keys |-> IF Idle(j, t) THEN Unlisted(j) ELSE entry[j]]
    BY <1>7 DEF Collect
  <2>2. UNCHANGED <<now, granted, since, rewound>>
    BY <1>7 DEF Collect, watch
  <2>3. CASE Idle(k, t)
    <3>1. entry'[k].tokens = Cap(k) /\ entry'[k].last = 0
      BY <2>1, <2>3 DEF Unlisted
    <3>2. granted[k] * Window <= Max[k] * (rewound[k] + (now - since[k]))
      BY <2>3, IdleCovered
    <3>3. QED
      BY <2>2, <3>1, <3>2 DEF Account, Cap
  <2>4. CASE ~Idle(k, t)
    BY <1>2, <2>1, <2>2, <2>4
  <2>5. QED
    BY <2>3, <2>4
<1>8. CASE Restart
  <2>1. entry'[k].tokens = Cap(k) /\ entry'[k].last = 0 /\ granted'[k] = 0 /\ rewound'[k] = 0 /\ since'[k] = now /\ now' = now
    BY <1>8 DEF Restart, Unlisted, Zero
  <2>2. granted'[k] * Window = 0 /\ Max[k] * (rewound'[k] + (now' - since'[k])) = 0
    BY <2>1, AccountTyped
  <2>3. QED
    BY <2>1, <2>2 DEF Account, Cap
<1>9. CASE Tick
  <2>1. now' = now + 1 /\ UNCHANGED <<entry, granted, since, rewound>>
    BY <1>9 DEF Tick, watch
  <2>2. Max[k] * (rewound[k] + (now - since[k])) <= Max[k] * (rewound[k] + (now' - since[k]))
    <3> DEFINE later == now'
    <3>1. later = now + 1
      BY <2>1
    <3> HIDE DEF later
    <3>2. Max[k] * (rewound[k] + (now - since[k])) <= Max[k] * (rewound[k] + (later - since[k]))
      BY <3>1, TickCovered
    <3>3. QED
      BY <3>2 DEF later
  <2>3. granted[k] * Window \in Nat /\ Max[k] * (rewound[k] + (now - since[k])) \in Nat
        /\ Max[k] * (rewound[k] + (now' - since[k])) \in Nat
    BY <2>1, AccountTyped
  <2>4. QED
    BY <2>1, <2>2, <2>3 DEF Account, Cap
<1>10. ASSUME NEW j \in Keys, Observe(j) PROVE Account(k)'
  <2>1. CASE k # j
    BY <1>2, <1>10, <2>1 DEF Observe, TypeOK
  <2>2. CASE k = j
    <3>1. granted'[k] = 0 /\ rewound'[k] = 0 /\ since'[k] = now /\ UNCHANGED <<now, entry>>
      BY <1>10, <2>2 DEF Observe, TypeOK
    <3>2. granted'[k] * Window = 0 /\ Max[k] * (rewound'[k] + (now' - since'[k])) = 0
      BY <3>1, AccountTyped
    <3>3. ASSUME now <= entry[k].last + Late
          PROVE  entry[k].tokens <= Max[k] * (Window + Late + 0 + (entry[k].last - now))
      <4>1. Max[k] * Window <= Max[k] * (Window + Late + 0 + (entry[k].last - now))
        BY <3>3, AccountTyped, Monotone
      <4>2. QED
        BY <4>1, AccountTyped
    <3>4. QED
      BY <3>1, <3>2, <3>3, AccountTyped DEF Account, Cap
  <2>3. QED
    BY <2>1, <2>2
<1>11. CASE UNCHANGED vars
  BY <1>2, <1>11 DEF vars, watch
<1>12. QED
  BY <1>3, <1>4, <1>5, <1>6, <1>7, <1>8, <1>9, <1>10, <1>11 DEF Next

\* The account of a key keeps what it was granted within the bound.
LEMMA AccountBounds ==
  ASSUME TypeOK, NEW k \in Keys, Account(k)
  PROVE  granted[k] * Window <= Max[k] * (Window + (now - since[k]) + Late + rewound[k])
<1> DEFINE bound == Window + (now - since[k]) + Late + rewound[k]
           fresh == rewound[k] + (now - since[k])
           used == Window + Late + rewound[k] + (entry[k].last - since[k])
<1>1. bound \in Nat /\ fresh \in Int /\ used \in Int /\ fresh <= bound /\ used <= bound
  BY AccountTyped
<1>2. granted[k] * Window \in Nat /\ Max[k] \in Nat /\ entry[k].tokens \in Nat
  BY AccountTyped
<1>3. granted[k] * Window <= Max[k] * bound
  <2>1. CASE entry[k].tokens = Cap(k)
    <3>1. granted[k] * Window <= Max[k] * fresh
      BY <2>1 DEF Account
    <3> HIDE DEF bound, fresh, used
    <3>2. Max[k] * fresh <= Max[k] * bound
      BY <1>1, <1>2, Monotone
    <3>3. QED
      BY <1>1, <1>2, <3>1, <3>2
  <2>2. CASE entry[k].tokens # Cap(k) /\ since[k] <= entry[k].last + Late
    <3>1. granted[k] * Window + entry[k].tokens <= Max[k] * used
      BY <2>2 DEF Account
    <3> HIDE DEF bound, fresh, used
    <3>2. Max[k] * used <= Max[k] * bound
      BY <1>1, <1>2, Monotone
    <3>3. QED
      BY <1>1, <1>2, <3>1, <3>2
  <2>3. CASE entry[k].tokens # Cap(k) /\ entry[k].last + Late < since[k]
    <3>1. granted[k] = 0
      BY <2>3 DEF Account
    <3> HIDE DEF bound
    <3>2. granted[k] * Window = 0 /\ Max[k] * bound \in Nat
      BY <1>1, <1>2, <3>1, LimiterAssumption
    <3>3. QED
      BY <3>2
  <2>4. QED
    BY <2>1, <2>2, <2>3, AccountTyped
<1>4. QED
  BY <1>3

\* The invariant of the limiters is inductive (auth.go:155-195).
THEOREM Inductive == Spec => []IInv
<1>1. IInv /\ [Next]_vars => IInv'
  BY NextTypeOK, NextRecent, NextHeld, NextSeen, NextCovered DEF IInv
<1>2. QED
  BY InitIInv, <1>1, PTL DEF Spec

\* Limiters never hold more than their burst, and no reading of the clock is ahead of it.
THEOREM TypeCorrect == Spec => []TypeOK
<1>1. IInv => TypeOK
  BY DEF IInv
<1>2. QED
  BY Inductive, <1>1, PTL

\* From any moment on, a key is let through for its burst and the refill since, but for
\* what late readings of the clock turn its limiter back by (auth.go:150).
THEOREM BoundedPerWindow == Spec => []WindowBounded
<1>1. IInv => WindowBounded
  BY AccountBounds DEF IInv, Covered, WindowBounded
<1>2. QED
  BY Inductive, <1>1, PTL

\* A limiter that was looked up is still the key's until the call has asked it: gcLoop
\* takes none that was seen so lately (auth.go:170, 186-190).
THEOREM HeldKept == Spec => HeldNotCollected
<1>1. IInv /\ IInv' /\ [Next]_vars =>
        [\A r \in Requests : call[r].pc = "ask" /\ call'[r] = call[r] => entry'[call[r].key].listed]_vars
  BY DEF IInv, Held
<1>2. QED
  BY Inductive, <1>1, PTL DEF Spec, HeldNotCollected

(***************************************************************************)
(* The buckets                                                             *)
(***************************************************************************)

\* What a limiter would hold by now, were it brought up to date.
LevelAt(k) == Capped(k, entry[k].tokens + Max[k] * (now - entry[k].last))

\* Capping keeps a number within a full bucket.
LEMMA CappedTyped ==
  ASSUME NEW k \in Keys, NEW n \in Nat
  PROVE  /\ Capped(k, n) \in 0 .. Cap(k) /\ Capped(k, n) \in Nat /\ Capped(k, n) <= n
         /\ Cap(k) <= n => Capped(k, n) = Cap(k)
         /\ n <= Cap(k) => Capped(k, n) = n
  BY CapTyped DEF Capped

\* Capping is monotone, and no more is lost by capping twice.
LEMMA CappedBounds ==
  ASSUME NEW k \in Keys, NEW m \in Nat, NEW n \in Nat
  PROVE  /\ m <= n => Capped(k, m) <= Capped(k, n)
         /\ Capped(k, Capped(k, n) + m) = Capped(k, n + m)
         /\ Capped(k, n) <= Capped(k, n + m) /\ Capped(k, n + m) <= Capped(k, n) + m
<1>1. Cap(k) \in Nat
  BY CapTyped
<1>2. QED
  BY <1>1 DEF Capped

\* The level of a key is that of its limiter when it has one, and full otherwise.
LEMMA LevelIs ==
  ASSUME TypeOK, NEW k \in Keys
  PROVE  /\ Level[k] = IF entry[k].listed THEN LevelAt(k) ELSE Cap(k)
         /\ LevelAt(k) \in 0 .. Cap(k) /\ Level[k] \in 0 .. Cap(k) /\ Cap(k) \in Nat
         /\ entry[k].tokens \in 0 .. Cap(k) /\ Max[k] * (now - entry[k].last) \in Nat
<1>1. entry[k].tokens \in 0 .. Cap(k) /\ Cap(k) \in Nat /\ Max[k] \in Nat /\ now - entry[k].last \in Nat
  BY AccountTyped, CapTyped
<1>2. Max[k] * (now - entry[k].last) \in Nat
  BY <1>1
<1>3. LevelAt(k) \in 0 .. Cap(k)
  BY <1>1, <1>2, CappedTyped DEF LevelAt
<1>4. Level[k] = IF entry[k].listed THEN LevelAt(k) ELSE Cap(k)
  BY DEF Level, LevelAt
<1>5. QED
  BY <1>1, <1>2, <1>3, <1>4

\* Two buckets of every key with the same levels are the same.
LEMMA SameLevel == ASSUME \A k \in Keys : Level'[k] = Level[k] PROVE Level' = Level
  BY DEF Level

\* An idle limiter has long been full.
LEMMA IdleFull ==
  ASSUME TypeOK, Seen, NEW k \in Keys, NEW t \in 0 .. now, Idle(k, t)
  PROVE  LevelAt(k) = Cap(k)
<1> DEFINE age == now - entry[k].last
<1>1. age \in Nat /\ Window \in Nat /\ Max[k] \in Nat /\ entry[k].tokens \in Nat /\ Window <= age
  BY AccountTyped, LimiterAssumption DEF Seen, Idle
<1> HIDE DEF age
<1>2. Max[k] * Window <= Max[k] * age /\ Max[k] * age \in Nat /\ Max[k] * Window \in Nat
  BY <1>1, Monotone
<1>3. Cap(k) <= entry[k].tokens + Max[k] * age
  BY <1>1, <1>2 DEF Cap
<1>4. Capped(k, entry[k].tokens + Max[k] * age) = Cap(k)
  BY <1>1, <1>2, <1>3, CappedTyped
<1>5. QED
  BY <1>4 DEF LevelAt, age

\* A limiter that has just been made is full.
LEMMA FreshFull ==
  ASSUME TypeOK, Seen, NEW k \in Keys, ~entry[k].listed
  PROVE  LevelAt(k) = Cap(k)
<1>1. entry[k].tokens = Cap(k) /\ Max[k] * (now - entry[k].last) \in Nat /\ Cap(k) \in Nat
  BY LevelIs DEF Seen
<1>2. QED
  BY <1>1, CappedTyped DEF LevelAt

\* A reading of up to Late ticks ago finds at most what there is now, and what there is
\* now is at most the refill since the reading more.
LEMMA AdvanceNearLevel ==
  ASSUME TypeOK, NEW k \in Keys, NEW t \in 0 .. now
  PROVE  Advance(k, t) <= LevelAt(k) /\ LevelAt(k) <= Advance(k, t) + Max[k] * (now - t)
<1> DEFINE n == entry[k].tokens
           last == entry[k].last
<1>1. n \in 0 .. Cap(k) /\ last \in 0 .. now /\ Max[k] \in Nat /\ Cap(k) \in Nat /\ now \in Nat /\ t \in Nat
  BY AccountTyped, CapTyped
<1>2. LevelAt(k) = Capped(k, n + Max[k] * (now - last))
  BY DEF LevelAt
<1>3. Advance(k, t) = IF t < last THEN n ELSE Capped(k, n + Max[k] * (t - last))
  BY DEF Advance
<1>4. Max[k] * (now - last) \in Nat /\ Max[k] * (now - t) \in Nat
  BY <1>1
<1> HIDE DEF n, last
<1>5. CASE t < last
  <2>1. Max[k] * (now - last) <= Max[k] * (now - t)
    BY <1>1, <1>5, Monotone
  <2>2. Capped(k, n) = n /\ Capped(k, n) <= Capped(k, n + Max[k] * (now - last))
        /\ Capped(k, n + Max[k] * (now - last)) <= n + Max[k] * (now - last)
    BY <1>1, <1>4, CappedTyped, CappedBounds
  <2>3. Capped(k, n + Max[k] * (now - last)) \in Nat
    BY <1>1, <1>4, CappedTyped
  <2>4. QED
    BY <1>1, <1>2, <1>3, <1>4, <1>5, <2>1, <2>2, <2>3
<1>6. CASE last <= t
  <2> DEFINE then == n + Max[k] * (t - last)
             more == Max[k] * (now - t)
  <2>1. Max[k] * (t - last) + Max[k] * (now - t) = Max[k] * (t - last + (now - t)) /\ t - last + (now - t) = now - last
    BY <1>1, <1>6, Distribute
  <2>2. Max[k] * (t - last) \in Nat
    BY <1>1, <1>6
  <2>3. then \in Nat /\ more \in Nat /\ n + Max[k] * (now - last) = then + more
    BY <1>1, <1>4, <2>1, <2>2
  <2>4. Advance(k, t) = Capped(k, then) /\ LevelAt(k) = Capped(k, then + more)
    BY <1>1, <1>2, <1>3, <1>6, <2>3
  <2> HIDE DEF then
  <2>5. Capped(k, then) <= Capped(k, then + more) /\ Capped(k, then + more) <= Capped(k, then) + more
    BY <2>3, CappedBounds
  <2>6. QED
    BY <2>4, <2>5
<1>7. QED
  BY <1>1, <1>5, <1>6

\* One step of the clock refills every bucket.
LEMMA TickLevel ==
  ASSUME TypeOK, TypeOK', Tick, NEW k \in Keys
  PROVE  Level'[k] = Capped(k, Level[k] + Max[k])
<1> DEFINE n == entry[k].tokens
           age == now - entry[k].last
<1>1. n \in Nat /\ age \in Nat /\ Max[k] \in Nat /\ Cap(k) \in Nat /\ now' - entry[k].last = age + 1 /\ entry' = entry
  BY AccountTyped, CapTyped DEF Tick
<1>2. Level[k] = IF entry[k].listed THEN Capped(k, n + Max[k] * age) ELSE Cap(k)
  BY DEF Level
<1>3. Level'[k] = IF entry[k].listed THEN Capped(k, n + Max[k] * (now' - entry[k].last)) ELSE Cap(k)
  BY <1>1 DEF Level, Capped, Cap
<1> HIDE DEF n, age
<1>4. CASE entry[k].listed
  <2>1. Max[k] * (age + 1) = Max[k] * age + Max[k] /\ Max[k] * age \in Nat
    <3>1. Max[k] * (age + 1) = Max[k] * age + Max[k] * 1
      BY <1>1, Distribute
    <3>2. Max[k] * 1 = Max[k] /\ Max[k] * age \in Nat
      BY <1>1
    <3>3. QED
      BY <3>1, <3>2
  <2>2. n + Max[k] * (age + 1) = (n + Max[k] * age) + Max[k] /\ n + Max[k] * age \in Nat
    BY <1>1, <2>1
  <2>3. Capped(k, Capped(k, n + Max[k] * age) + Max[k]) = Capped(k, (n + Max[k] * age) + Max[k])
    BY <1>1, <2>2, CappedBounds
  <2>4. QED
    BY <1>1, <1>2, <1>3, <1>4, <2>2, <2>3
<1>5. CASE ~entry[k].listed
  <2>1. Capped(k, Cap(k) + Max[k]) = Cap(k)
    BY <1>1, CappedTyped
  <2>2. QED
    BY <1>2, <1>3, <1>5, <2>1
<1>6. QED
  BY <1>4, <1>5

\* A request that passes takes a request's share of its key's bucket, or up to Late
\* ticks of refill more, and nothing of the others'.
LEMMA PassLevel ==
  ASSUME IInv, IInv', NEW r \in Requests, Pass(r)
  PROVE  Bucket!Next
<1> DEFINE k == call[r].key
           t == call[r].stamp
<1>1. TypeOK /\ TypeOK' /\ now' = now /\ boot' = boot
  BY DEF IInv, Pass
<1>2. /\ k \in Keys /\ t \in 0 .. now
      /\ Advance(k, t) \in Window .. Cap(k)
      /\ entry'[k] = [listed |-> entry[k].listed, tokens |-> Advance(k, t) - Window, last |-> t, seen |-> entry[k].seen]
      /\ \A j \in Keys \ {k} : entry'[j] = entry[j]
  BY <1>1, PassEntry
<1>3. entry[k].listed /\ now <= t + Late
  BY DEF IInv, Held, Recent, Pass
<1> HIDE DEF k, t
<1> DEFINE a == Advance(k, t)
           more == Max[k] * (now - t)
<1>4. Level[k] = LevelAt(k) /\ Level[k] \in 0 .. Cap(k) /\ Cap(k) \in Nat
  BY <1>1, <1>2, <1>3, LevelIs
<1>5. a <= Level[k] /\ Level[k] <= a + more
  BY <1>1, <1>2, <1>4, AdvanceNearLevel
<1>6. Level'[k] = Capped(k, a - Window + more)
  BY <1>1, <1>2, <1>3 DEF Level, Capped, Cap
<1>7. \A j \in Keys \ {k} : Level'[j] = Level[j]
  BY <1>1, <1>2 DEF Level, Capped, Cap
<1>8. /\ Max[k] \in Nat /\ Window \in Nat /\ Late \in Nat /\ now \in Nat /\ t \in Nat
      /\ more \in Nat /\ Max[k] * Late \in Nat /\ more <= Max[k] * Late
  <2>1. Max[k] \in Nat /\ Window \in Nat /\ Late \in Nat /\ now \in Nat /\ t \in Nat /\ now - t \in Nat /\ now - t <= Late
    BY <1>1, <1>2, <1>3, AccountTyped
  <2>2. QED
    BY <2>1, Monotone
<1>9. a \in Nat /\ Window <= a
  BY <1>2, <1>8
<1> HIDE DEF a, more
<1>10. Level'[k] \in Level[k] - Window .. Capped(k, Level[k] - Window + Max[k] * Late)
  <2>1. Capped(k, a - Window + more) <= Capped(k, Level[k] - Window + Max[k] * Late)
    <3> DEFINE m == a - Window + more
               n == Level[k] - Window + Max[k] * Late
    <3>1. m \in Nat /\ n \in Nat /\ m <= n
      BY <1>4, <1>5, <1>8, <1>9
    <3> HIDE DEF m, n
    <3>2. Capped(k, m) <= Capped(k, n)
      BY <1>2, <3>1, CappedBounds
    <3>3. QED
      BY <3>2 DEF m, n
  <2>2. Level[k] - Window <= Capped(k, a - Window + more) /\ Capped(k, a - Window + more) \in Nat
    BY <1>4, <1>5, <1>8, <1>9 DEF Capped
  <2>3. Capped(k, Level[k] - Window + Max[k] * Late) \in Nat
    BY <1>2, <1>4, <1>5, <1>8, <1>9, CappedTyped
  <2>4. QED
    BY <1>4, <1>6, <1>8, <2>1, <2>2, <2>3
<1>11. Level' = [Level EXCEPT ![k] = Level'[k]]
  <2>1. Level \in [Keys -> Nat] /\ DOMAIN Level' = Keys
    BY <1>1, LevelIs DEF Level
  <2>2. QED
    BY <1>2, <1>7, <2>1 DEF Level
<1>12. Bucket!Take(k)
  BY <1>1, <1>4, <1>5, <1>8, <1>9, <1>10, <1>11 DEF Bucket!Take, Bucket!Capped, Bucket!Cap, Capped, Cap
<1>13. QED
  BY <1>2, <1>12 DEF Bucket!Next

\* Every step is a step of the buckets, or changes none of them.
LEMMA NextBucket == IInv /\ IInv' /\ [Next]_vars => [Bucket!Next]_Bucket!vars
<1> SUFFICES ASSUME IInv, IInv', [Next]_vars PROVE [Bucket!Next]_Bucket!vars OBVIOUS
<1>0. TypeOK /\ TypeOK' /\ Seen
  BY DEF IInv
<1>1. ASSUME UNCHANGED <<now, entry, boot>> PROVE [Bucket!Next]_Bucket!vars
  BY <1>1 DEF Level, Capped, Cap, Bucket!vars
<1>2. ASSUME NEW r \in Requests, NEW k \in Keys, Read(r, k) PROVE [Bucket!Next]_Bucket!vars
  BY <1>1, <1>2 DEF Read, watch
<1>3. ASSUME NEW r \in Requests, Enter(r) PROVE [Bucket!Next]_Bucket!vars
  <2> DEFINE k == call[r].key
             t == call[r].stamp
  <2>1. /\ k \in Keys
        /\ entry'[k] = [listed |-> TRUE, tokens |-> entry[k].tokens, last |-> entry[k].last, seen |-> t]
        /\ \A j \in Keys \ {k} : entry'[j] = entry[j]
    BY <1>0, <1>3, EnterEntry
  <2>2. now' = now /\ boot' = boot
    BY <1>3 DEF Enter, watch
  <2> HIDE DEF k, t
  <2>3. Level'[k] = LevelAt(k)
    BY <2>1, <2>2 DEF Level, LevelAt, Capped, Cap
  <2>4. Level[k] = LevelAt(k)
    BY <1>0, <2>1, FreshFull, LevelIs
  <2>5. \A j \in Keys \ {k} : Level'[j] = Level[j]
    BY <2>1, <2>2 DEF Level, Capped, Cap
  <2>6. QED
    BY <2>2, <2>3, <2>4, <2>5, SameLevel DEF Bucket!vars
<1>4. ASSUME NEW r \in Requests, Pass(r) PROVE [Bucket!Next]_Bucket!vars
  BY <1>4, PassLevel
<1>5. ASSUME NEW r \in Requests, Refuse(r) PROVE [Bucket!Next]_Bucket!vars
  BY <1>1, <1>5 DEF Refuse, watch
<1>6. CASE Collect
  <2>1. PICK t \in 0 .. now : entry' = [k \in Keys |-> IF Idle(k, t) THEN Unlisted(k) ELSE entry[k]]
    BY <1>6 DEF Collect
  <2>2. now' = now /\ boot' = boot
    BY <1>6 DEF Collect, watch
  <2>3. ASSUME NEW k \in Keys PROVE Level'[k] = Level[k]
    <3>1. CASE Idle(k, t)
      <4>1. Level'[k] = Cap(k)
        BY <2>1, <3>1 DEF Level, Unlisted, Cap
      <4>2. Level[k] = LevelAt(k)
        BY <1>0, <3>1, LevelIs DEF Idle
      <4>3. QED
        BY <1>0, <3>1, <4>1, <4>2, IdleFull
    <3>2. CASE ~Idle(k, t)
      BY <2>1, <2>2, <3>2 DEF Level, Capped, Cap
    <3>3. QED
      BY <3>1, <3>2
  <2>4. QED
    BY <2>2, <2>3, SameLevel DEF Bucket!vars
<1>7. CASE Restart
  <2>1. Level' = [k \in Keys |-> Cap(k)]
    BY <1>7 DEF Restart, Unlisted, Level, Cap
  <2>2. QED
    BY <1>7, <2>1 DEF Restart, Bucket!Next, Bucket!Restart, Bucket!Cap, Cap
<1>8. CASE Tick
  <2>1. \A k \in Keys : Level'[k] = Capped(k, Level[k] + Max[k])
    BY <1>0, <1>8, TickLevel
  <2>2. Level' = [k \in Keys |-> Capped(k, Level[k] + Max[k])]
    BY <2>1 DEF Level
  <2>3. QED
    BY <1>8, <2>2 DEF Tick, watch, Bucket!Next, Bucket!Refill, Bucket!Capped, Bucket!Cap, Capped, Cap
<1>9. ASSUME NEW k \in Keys, Observe(k) PROVE [Bucket!Next]_Bucket!vars
  BY <1>1, <1>9 DEF Observe
<1>10. CASE UNCHANGED vars
  BY <1>1, <1>10 DEF vars
<1>11. QED
  BY <1>2, <1>3, <1>4, <1>5, <1>6, <1>7, <1>8, <1>9, <1>10 DEF Next

\* Looked up late, dropped and remade, the limiters are one bucket per key that is always
\* there, for any maxima, window and lateness of at most half a window (auth.go:162-195).
THEOREM Refines == Spec => ImplementsBucket
<1>1. Init => Bucket!Init
  BY DEF Init, Unlisted, Level, Bucket!Init, Bucket!Cap, Cap
<1>2. IInv /\ IInv' /\ [Next]_vars => [Bucket!Next]_Bucket!vars
  BY NextBucket
<1>3. QED
  BY <1>1, <1>2, Inductive, PTL DEF Spec, ImplementsBucket, Bucket!Spec

(***************************************************************************)
(* What it takes to go beyond the burst and the refill                     *)
(***************************************************************************)

\* No two calls of Allow with one key are under way at once.
OneAtATime ==
  \A r, q \in Requests :
    call[r].pc # "idle" /\ call[q].pc # "idle" /\ call[r].key = call[q].key => r = q

\* A call has not read the clock before the last one that passed.
AfterLast == \A r \in Requests : call[r].pc # "idle" => entry[call[r].key].last <= call[r].stamp

NoneTurnedBack == \A k \in Keys : rewound[k] = 0

BurstAndRefill ==
  \A k \in Keys : granted[k] * Window <= Max[k] * (Window + (now - since[k]) + Late)

\* As long as the calls of a key follow one another, however late each is, no limiter is
\* turned back and a key gets its burst and the refill since, give or take what one call
\* may be late: anything more that WindowBounded allows takes two calls of the key between
\* the reading of the clock and AllowN at once (auth.go:156-165).
THEOREM SurplusTakesTwo == Spec /\ []OneAtATime => []BurstAndRefill
<1> DEFINE InOrder == AfterLast /\ NoneTurnedBack
<1>1. Init => InOrder
  BY DEF Init, AfterLast, NoneTurnedBack, Zero, None
<1>2. IInv /\ OneAtATime /\ InOrder /\ [Next]_vars => InOrder'
  <2> SUFFICES ASSUME IInv, OneAtATime, InOrder, [Next]_vars PROVE InOrder' OBVIOUS
  <2> USE DEF IInv, TypeOK, AfterLast, NoneTurnedBack
  <2>1. ASSUME NEW r \in Requests, NEW k \in Keys, Read(r, k) PROVE InOrder'
    BY <2>1 DEF Read, watch
  <2>2. ASSUME NEW r \in Requests, Enter(r) PROVE InOrder'
    BY <2>2 DEF Enter, watch
  <2>3. ASSUME NEW r \in Requests, Pass(r) PROVE InOrder'
    <3>1. rewound' = rewound
      BY <2>3 DEF Pass
    <3>2. AfterLast'
      BY <2>3 DEF Pass, OneAtATime, None
    <3>3. QED
      BY <3>1, <3>2
  <2>4. ASSUME NEW r \in Requests, Refuse(r) PROVE InOrder'
    BY <2>4 DEF Refuse, None, watch
  <2>5. CASE Collect
    BY <2>5 DEF Collect, Unlisted, watch
  <2>6. CASE Restart
    BY <2>6 DEF Restart, Unlisted, None, Zero
  <2>7. CASE Tick \/ UNCHANGED vars
    BY <2>7 DEF Tick, watch, vars
  <2>8. ASSUME NEW k \in Keys, Observe(k) PROVE InOrder'
    BY <2>8 DEF Observe
  <2>9. QED
    BY <2>1, <2>2, <2>3, <2>4, <2>5, <2>6, <2>7, <2>8 DEF Next
<1>3. IInv /\ NoneTurnedBack /\ WindowBounded => BurstAndRefill
  <2> SUFFICES ASSUME IInv, NoneTurnedBack, WindowBounded, NEW k \in Keys
               PROVE  granted[k] * Window <= Max[k] * (Window + (now - since[k]) + Late)
    BY DEF BurstAndRefill
  <2>1. Window + (now - since[k]) + Late + rewound[k] = Window + (now - since[k]) + Late
    BY LimiterAssumption DEF IInv, TypeOK, NoneTurnedBack
  <2>2. QED
    BY <2>1 DEF WindowBounded
<1>4. QED
  BY Inductive, BoundedPerWindow, <1>1, <1>2, <1>3, PTL DEF Spec
=============================================================================
