--------------------------- MODULE LookupService ---------------------------
(***************************************************************************)
(* What whoever looks something up may rely on, without flights, tokens,   *)
(* semaphores and deadlines: of what is shared one fetch is going on at a  *)
(* time; a request is answered from memory, by a fetch of its own, or, if  *)
(* it joined one, together with everybody who did; memory holds what was   *)
(* fetched and nothing else, and keeps some of it for ever.  Lookups.tla   *)
(* is shown to implement it.                                               *)
(***************************************************************************)
CONSTANTS Callers, Items,
          Alone,   \* items that every request fetches for itself
          Kept,    \* items whose answers are never dropped
          Learned, \* [Items -> SUBSET Items], what else a fetch answers
          Nothing

VARIABLES want,     \* [Callers -> Items \cup {Nothing}], what a request looks up
          fetching, \* the requests that fetch
          waiting,  \* the requests that wait for the fetch of another one
          known     \* items with an answer in memory

vars == <<want, fetching, waiting, known>>

Init ==
  /\ want = [c \in Callers |-> Nothing]
  /\ fetching = {} /\ waiting = {}
  /\ known \subseteq Kept

Ask(c) ==
  /\ want[c] = Nothing
  /\ \E i \in Items : want' = [want EXCEPT ![c] = i]
  /\ UNCHANGED <<fetching, waiting, known>>

Recall(c) ==
  /\ c \notin fetching \cup waiting /\ want[c] \in known
  /\ want' = [want EXCEPT ![c] = Nothing]
  /\ UNCHANGED <<fetching, waiting, known>>

Fetch(c) ==
  /\ c \notin fetching \cup waiting /\ want[c] # Nothing
  /\ want[c] \in Alone \/ \A d \in fetching : want[d] # want[c]
  /\ fetching' = fetching \cup {c}
  /\ UNCHANGED <<want, waiting, known>>

Join(c) ==
  /\ c \notin fetching \cup waiting
  /\ want[c] \notin Alone /\ \E d \in fetching : want[d] = want[c]
  /\ waiting' = waiting \cup {c}
  /\ UNCHANGED <<want, fetching, known>>

Keep(c) ==
  /\ c \in fetching
  /\ known' \subseteq known \cup Learned[want[c]] /\ known \cap Kept \subseteq known'
  /\ UNCHANGED <<want, fetching, waiting>>

Followers(c) == {d \in waiting : want[d] = want[c]}

End(c) ==
  /\ c \in fetching
  /\ want' = [d \in Callers |-> IF d \in {c} \cup Followers(c) THEN Nothing ELSE want[d]]
  /\ fetching' = fetching \ {c}
  /\ waiting' = waiting \ Followers(c)
  /\ UNCHANGED known

Forget ==
  /\ known' \subseteq known /\ known \cap Kept \subseteq known'
  /\ UNCHANGED <<want, fetching, waiting>>

Next ==
  \/ \E c \in Callers : Ask(c) \/ Recall(c) \/ Fetch(c) \/ Join(c) \/ Keep(c) \/ End(c)
  \/ Forget

Spec == Init /\ [][Next]_vars
=============================================================================
