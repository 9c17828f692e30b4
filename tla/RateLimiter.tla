---------------------------- MODULE RateLimiter ----------------------------
(***************************************************************************)
(* limiterSet of internal/server/auth.go: Allow reads the clock, looks the *)
(* limiter of the key up (or makes it) under the lock, and asks it after   *)
(* the unlock; gcLoop drops what was not seen for two windows.  The flood, *)
(* work and login limiters are three such sets; the limiter itself is      *)
(* golang.org/x/time/rate, a token bucket that is brought up to date only  *)
(* when a request passes.  A max of 0 or less never gets this far.         *)
(***************************************************************************)
EXTENDS Naturals

CONSTANTS Requests, \* calls of Allow that may be under way at once
          Keys,     \* the keys they come with
          Max,      \* [Keys -> Nat], the max they come with
          Window,   \* ticks in limiterSet.window
          Late,     \* bound: ticks a call may take
          MaxTime   \* bound: the clock

ASSUME LimiterAssumption ==
  /\ Keys # {} /\ Max \in [Keys -> Nat \ {0}]
  /\ Window \in Nat \ {0} /\ Late \in Nat /\ MaxTime \in Nat
  /\ 2 * Late <= Window

VARIABLES now,     \* time.Now()
          entry,   \* limiterSet.m, with the limiter each entry points to
          call,    \* the calls of Allow
          granted, \* observed: requests of a key let through ...
          since,   \* ... since this time ...
          rewound, \* ... and the ticks their late readings turned limiters back by
          boot     \* observed: another one with each start of the process

vars == <<now, entry, call, granted, since, rewound, boot>>
watch == <<granted, since, rewound, boot>>

Cap(k) == Max[k] * Window

Capped(k, n) == IF n > Cap(k) THEN Cap(k) ELSE n

None == [pc |-> "idle", key |-> CHOOSE k \in Keys : TRUE, stamp |-> 0]

\* No entry; rate.NewLimiter starts full, with the zero time as its last.
Unlisted(k) == [listed |-> FALSE, tokens |-> Cap(k), last |-> 0, seen |-> 0]

TypeOK ==
  /\ now \in 0 .. MaxTime
  /\ DOMAIN entry = Keys
  /\ \A k \in Keys : entry[k] \in [listed : BOOLEAN, tokens : 0 .. Cap(k), last : 0 .. now, seen : 0 .. now]
  /\ call \in [Requests -> [pc : {"idle", "lock", "ask"}, key : Keys, stamp : 0 .. now]]
  /\ granted \in [Keys -> Nat] /\ since \in [Keys -> 0 .. now] /\ rewound \in [Keys -> Nat]
  /\ boot \in BOOLEAN

Zero == [k \in Keys |-> 0]

Init ==
  /\ now = 0
  /\ entry = [k \in Keys |-> Unlisted(k)]
  /\ call = [r \in Requests |-> None]
  /\ granted = Zero /\ since = Zero /\ rewound = Zero /\ boot = FALSE

(***************************************************************************)
(* Allow                                                                   *)
(***************************************************************************)

\* now := time.Now()
Read(r, k) ==
  /\ call[r].pc = "idle"
  /\ call' = [call EXCEPT ![r] = [pc |-> "lock", key |-> k, stamp |-> now]]
  /\ UNCHANGED <<now, entry, watch>>

\* Under the lock: the entry is found or made, and seen.
Enter(r) ==
  /\ call[r].pc = "lock"
  /\ entry' = [entry EXCEPT ![call[r].key].listed = TRUE, ![call[r].key].seen = call[r].stamp]
  /\ call' = [call EXCEPT ![r].pc = "ask"]
  /\ UNCHANGED <<now, watch>>

\* Mutant: the tokens of an idle key pile up beyond the burst.
AdvanceUncapped(k, t) ==
  IF t < entry[k].last THEN entry[k].tokens ELSE entry[k].tokens + Max[k] * (t - entry[k].last)

\* rate.Limiter.advance: what the bucket holds at t; a t before the last grant
\* counts as that grant's.
Advance(k, t) ==
  IF t < entry[k].last THEN entry[k].tokens ELSE Capped(k, entry[k].tokens + Max[k] * (t - entry[k].last))

\* AllowN(now, 1) lets the request pass, and the reading becomes the limiter's
\* last, also one that is before it.
Pass(r) ==
  LET k == call[r].key
      t == call[r].stamp
  IN
  /\ call[r].pc = "ask"
  /\ Advance(k, t) >= Window
  /\ entry' = [entry EXCEPT ![k].tokens = Advance(k, t) - Window, ![k].last = t]
  /\ call' = [call EXCEPT ![r] = None]
  /\ granted' = [granted EXCEPT ![k] = @ + 1]
  /\ rewound' = [rewound EXCEPT ![k] = IF t < entry[k].last THEN @ + (entry[k].last - t) ELSE @]
  /\ UNCHANGED <<now, since, boot>>

\* A refusal leaves the limiter as it is.
Refuse(r) ==
  /\ call[r].pc = "ask"
  /\ Advance(call[r].key, call[r].stamp) < Window
  /\ call' = [call EXCEPT ![r] = None]
  /\ UNCHANGED <<now, entry, watch>>

(***************************************************************************)
(* gcLoop, restart, time, and the observer                                 *)
(***************************************************************************)

\* Mutant: every entry that was not seen at this very moment is idle.
IdleAtOnce(k, t) == entry[k].listed /\ t - entry[k].seen > 0

\* Mutant: one window would have to be enough, and is taken for half of one.
IdleHalfWindow(k, t) == entry[k].listed /\ 2 * (t - entry[k].seen) > Window

Idle(k, t) == entry[k].listed /\ t - entry[k].seen > 2 * Window

\* A tick of the ticker, which may have been sent before now.
Collect ==
  \E t \in 0 .. now :
    /\ entry' = [k \in Keys |-> IF Idle(k, t) THEN Unlisted(k) ELSE entry[k]]
    /\ UNCHANGED <<now, call, watch>>

\* Nothing of this survives the process.
Restart ==
  /\ entry' = [k \in Keys |-> Unlisted(k)]
  /\ call' = [r \in Requests |-> None]
  /\ granted' = Zero /\ since' = [k \in Keys |-> now] /\ rewound' = Zero
  /\ boot' = ~boot
  /\ UNCHANGED now

Tick ==
  /\ now < MaxTime
  /\ \A r \in Requests : call[r].pc # "idle" => now - call[r].stamp < Late
  /\ now' = now + 1
  /\ UNCHANGED <<entry, call, watch>>

\* The observer starts to count the requests of a key, at any time.
Observe(k) ==
  /\ since' = [since EXCEPT ![k] = now]
  /\ granted' = [granted EXCEPT ![k] = 0]
  /\ rewound' = [rewound EXCEPT ![k] = 0]
  /\ UNCHANGED <<now, entry, call, boot>>

Next ==
  \/ \E r \in Requests : Enter(r) \/ Pass(r) \/ Refuse(r) \/ \E k \in Keys : Read(r, k)
  \/ \E k \in Keys : Observe(k)
  \/ Collect
  \/ Restart
  \/ Tick

Spec == Init /\ [][Next]_vars

(***************************************************************************)
(* Properties                                                              *)
(***************************************************************************)

\* auth.go:150, "max events per window with bursts up to max": from any moment
\* on, the requests let through under a key are no more than the burst and the
\* refill of the time since then, where each late reading may add what it
\* turned the limiter back by, and the first one Late ticks.
WindowBounded ==
  \A k \in Keys : granted[k] * Window <= Max[k] * (Window + (now - since[k]) + Late + rewound[k])

\* gcLoop never drops the limiter a call of Allow has looked up and not yet
\* asked: two limiters of one key would let through twice its burst.
HeldNotCollected ==
  [][\A r \in Requests :
       call[r].pc = "ask" /\ call'[r] = call[r] => entry'[call[r].key].listed]_vars

\* The abstract bucket of a key: full when the set has no entry.
Level ==
  [k \in Keys |-> IF entry[k].listed THEN Capped(k, entry[k].tokens + Max[k] * (now - entry[k].last)) ELSE Cap(k)]

Bucket == INSTANCE TokenBucket WITH level <- Level

\* Dropping and remaking limiters is invisible: every key has a bucket of its
\* own that is always there, so neither gcLoop nor the requests of other keys
\* give or take a request; only a new process (boot) starts with full ones.
ImplementsBucket == Bucket!Spec
=============================================================================
