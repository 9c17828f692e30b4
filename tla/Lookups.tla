------------------------------ MODULE Lookups ------------------------------
(***************************************************************************)
(* Metadata lookups: resolveSpotify, handleInfo and cachedPlaylist of      *)
(* internal/server/convert.go over Info, Search and Playlist of            *)
(* internal/ytdlp and the client of internal/spotify.  Callers that        *)
(* resolve one track or list one playlist share a fetch (singleflight of   *)
(* x/sync, external), those of /api/info do not; every yt-dlp lookup holds *)
(* a token of metaSem, and every Spotify request needs the access token    *)
(* that getToken keeps under its mutex.                                    *)
(***************************************************************************)
EXTENDS Naturals, FiniteSets

CONSTANTS Callers, \* requests that may look something up at once
          Tracks,  \* Spotify tracks to resolve
          Infos,   \* Spotify tracks of /api/info, as other items than the tracks
          TrackOf, \* [Infos -> Tracks], which tracks they are
          SLists,  \* Spotify playlists
          YLists,  \* YouTube playlists
          Videos,  \* YouTube videos of /api/info
          Wants,   \* [Callers -> SUBSET Items], a bound of the model on what each may ask for
          MaxMeta, \* MAX_CONCURRENT_META, clamped to 1 or more
          MaxLists \* playlists kept before the cache is cleared (500 in the code)

Items == Tracks \cup Infos \cup SLists \cup YLists \cup Videos
Alone == Infos \cup Videos
Lists == SLists \cup YLists
Nobody == "nobody"
Nothing == "nothing"

ASSUME LookupAssumption ==
  /\ IsFiniteSet(Callers) /\ Nobody \notin Callers /\ Nothing \notin Items
  /\ Tracks \cap (Lists \cup Alone) = {} /\ Lists \cap Alone = {} /\ SLists \cap YLists = {}
  /\ Infos \cap Videos = {} /\ TrackOf \in [Infos -> Tracks]
  /\ Wants \in [Callers -> SUBSET Items]
  /\ MaxMeta \in Nat \ {0} /\ MaxLists \in Nat

VARIABLES pc,      \* where each request is
          item,    \* what it looks up
          forced,  \* its second attempt in Client.get
          held,    \* the access token it sends: one Spotify accepts ("good") or not
          late,    \* its deadline has passed, or its client or the server went away
          flight,  \* the singleflight groups: who fetches an item
          metaSem, \* tokens held in Runner.metaSem
          known,   \* items answered from memory or the spotify_cache table
          tracks,  \* Client.trackCache
          token,   \* Client.token: "none" (also past tokenExp), "good", or "bad" (revoked, not noticed)
          mu       \* the holder of Client.mu while it asks for a token

vars == <<pc, item, forced, held, late, flight, metaSem, known, tracks, token, mu>>
caches == <<known, tracks>>
spotify == <<token, mu>>

Steps == {"idle", "look", "do", "join", "token", "refresh", "call", "sem", "run", "store", "end"}

TypeOK ==
  /\ pc \in [Callers -> Steps]
  /\ item \in [Callers -> Items \cup {Nothing}]
  /\ forced \in [Callers -> BOOLEAN]
  /\ held \in [Callers -> {"none", "good", "bad"}]
  /\ late \in [Callers -> BOOLEAN]
  /\ flight \in [Items -> Callers \cup {Nobody}]
  /\ metaSem \in Nat
  /\ known \subseteq Items /\ tracks \subseteq Tracks
  /\ token \in {"none", "good", "bad"}
  /\ mu \in Callers \cup {Nobody}

Init ==
  /\ pc = [c \in Callers |-> "idle"]
  /\ item = [c \in Callers |-> Nothing]
  /\ forced = [c \in Callers |-> FALSE]
  /\ held = [c \in Callers |-> "none"]
  /\ late = [c \in Callers |-> FALSE]
  /\ flight = [i \in Items |-> Nobody]
  /\ metaSem = 0
  /\ known \in SUBSET Tracks /\ tracks = {}
  /\ token = "none" /\ mu = Nobody

\* The track GetTrack is asked for, if any.
Track(i) == IF i \in Infos THEN TrackOf[i] ELSE i

Goto(c, from, to) == pc[c] = from /\ pc' = [pc EXCEPT ![c] = to]

\* The fetch returns an error, and its context and its attempts are over.
Fail(c, from) ==
  /\ Goto(c, from, "end")
  /\ forced' = [forced EXCEPT ![c] = FALSE]
  /\ late' = [late EXCEPT ![c] = FALSE]

Joined(c) == {d \in Callers : pc[d] = "join" /\ item[d] = item[c]}

(***************************************************************************)
(* Callers: the look into the cache, and singleflight                      *)
(***************************************************************************)

Ask(c, i) ==
  /\ pc[c] = "idle"
  /\ pc' = [pc EXCEPT ![c] = "look"]
  /\ item' = [item EXCEPT ![c] = i]
  /\ UNCHANGED <<forced, held, late, flight, metaSem, caches, spotify>>

\* A stored mapping, an unexpired playlist or metadata still cached is the answer, and
\* for /api/info what GetTrack finds in trackCache.
Remembered == known \cup {i \in Infos : TrackOf[i] \in tracks}

Hit(c) ==
  /\ item[c] \in Remembered
  /\ Goto(c, "look", "idle")
  /\ item' = [item EXCEPT ![c] = Nothing]
  /\ UNCHANGED <<forced, held, late, flight, metaSem, caches, spotify>>

\* Where the fetch of an item begins; GetTrack looks into trackCache first.
First(i) == IF i \in SLists \cup Infos \/ (i \in Tracks /\ i \notin tracks) THEN "token" ELSE "sem"

\* A mapping cannot be read while the database fails, which counts as a miss.
Miss(c) ==
  /\ item[c] \notin Remembered \/ item[c] \in Tracks
  /\ Goto(c, "look", IF item[c] \in Alone THEN First(item[c]) ELSE "do")
  /\ UNCHANGED <<item, forced, held, late, flight, metaSem, caches, spotify>>

\* Mutant: a plain map of running fetches, looked at before the lock is taken.
LeadAnyway(c) ==
  /\ Goto(c, "do", First(item[c]))
  /\ flight' = [flight EXCEPT ![item[c]] = c]
  /\ UNCHANGED <<item, forced, held, late, metaSem, caches, spotify>>

Lead(c) ==
  /\ Goto(c, "do", First(item[c]))
  /\ flight[item[c]] = Nobody
  /\ flight' = [flight EXCEPT ![item[c]] = c]
  /\ UNCHANGED <<item, forced, held, late, metaSem, caches, spotify>>

Join(c) ==
  /\ Goto(c, "do", "join")
  /\ flight[item[c]] # Nobody
  /\ UNCHANGED <<item, forced, held, late, flight, metaSem, caches, spotify>>

\* Mutant: only the leader of a fetch that failed goes on; the others wait.
EndAlone(c) ==
  /\ pc[c] = "end"
  /\ flight' = IF item[c] \in Alone THEN flight ELSE [flight EXCEPT ![item[c]] = Nobody]
  /\ pc' = [pc EXCEPT ![c] = "idle"]
  /\ item' = [item EXCEPT ![c] = Nothing]
  /\ UNCHANGED <<forced, held, late, metaSem, caches, spotify>>

\* The fetch returns, with an answer or an error, to everybody who waited.
End(c) ==
  /\ pc[c] = "end"
  /\ pc' = [d \in Callers |-> IF d \in {c} \cup Joined(c) THEN "idle" ELSE pc[d]]
  /\ item' = [d \in Callers |-> IF d \in {c} \cup Joined(c) THEN Nothing ELSE item[d]]
  /\ flight' = IF item[c] \in Alone THEN flight ELSE [flight EXCEPT ![item[c]] = Nobody]
  /\ UNCHANGED <<forced, held, late, metaSem, caches, spotify>>

(***************************************************************************)
(* The Spotify client                                                      *)
(***************************************************************************)

\* Mutant: the second attempt takes the cached token as well.
UseTokenAgain(c) ==
  /\ mu = Nobody /\ token # "none"
  /\ held' = [held EXCEPT ![c] = token]
  /\ Goto(c, "token", "call")
  /\ UNCHANGED <<item, forced, late, flight, metaSem, caches, spotify>>

\* getToken under its mutex: the cached token, unless a new one is forced ...
UseToken(c) ==
  /\ mu = Nobody /\ token # "none" /\ ~forced[c]
  /\ held' = [held EXCEPT ![c] = token]
  /\ Goto(c, "token", "call")
  /\ UNCHANGED <<item, forced, late, flight, metaSem, caches, spotify>>

\* ... or a request to accounts.spotify.com, with the mutex held until it ends.
Refresh(c) ==
  /\ mu = Nobody /\ (forced[c] \/ token = "none")
  /\ mu' = c
  /\ Goto(c, "token", "refresh")
  /\ UNCHANGED <<item, forced, held, late, flight, metaSem, caches, token>>

Refreshed(c) ==
  /\ ~late[c]
  /\ mu' = Nobody
  /\ token' = "good"
  /\ held' = [held EXCEPT ![c] = "good"]
  /\ Goto(c, "refresh", "call")
  /\ UNCHANGED <<item, forced, late, flight, metaSem, caches>>

\* Mutant: the error path returns without the deferred unlock.
RefreshFailedLocked(c) ==
  /\ Fail(c, "refresh")
  /\ UNCHANGED <<item, held, flight, metaSem, caches, spotify>>

RefreshFailed(c) ==
  /\ mu' = Nobody
  /\ Fail(c, "refresh")
  /\ UNCHANGED <<item, held, flight, metaSem, caches, token>>

\* 401 once: the token was revoked early, get another one.
Unauthorized(c) ==
  /\ held[c] = "bad" /\ ~forced[c]
  /\ Goto(c, "call", "token")
  /\ forced' = [forced EXCEPT ![c] = TRUE]
  /\ held' = [held EXCEPT ![c] = "none"]
  /\ UNCHANGED <<item, late, flight, metaSem, caches, spotify>>

\* A second 401, or any other error.
CallFailed(c) ==
  /\ Fail(c, "call")
  /\ held' = [held EXCEPT ![c] = "none"]
  /\ UNCHANGED <<item, flight, metaSem, caches, spotify>>

\* What an answer is followed by: a search for the track on YouTube, the response of
\* /api/info, another page of the playlist or the end of it.
After(i) == IF i \in Tracks THEN {"sem"} ELSE IF i \in Infos THEN {"end"} ELSE {"token", "store"}

Called(c) ==
  /\ held[c] = "good" /\ ~late[c]
  /\ \E to \in After(item[c]) : Goto(c, "call", to)
  /\ tracks' = tracks \cup ({Track(item[c])} \cap Tracks)
  /\ forced' = [forced EXCEPT ![c] = FALSE]
  /\ held' = [held EXCEPT ![c] = "none"]
  /\ UNCHANGED <<item, late, flight, metaSem, known, spotify>>

(***************************************************************************)
(* The yt-dlp lookup                                                       *)
(***************************************************************************)

\* acquireMeta: a token of metaSem, or the end of the context.
Acquire(c) ==
  /\ metaSem < MaxMeta
  /\ metaSem' = metaSem + 1
  /\ Goto(c, "sem", "run")
  /\ UNCHANGED <<item, forced, held, late, flight, caches, spotify>>

GiveUp(c) ==
  /\ late[c]
  /\ Fail(c, "sem")
  /\ UNCHANGED <<item, held, flight, metaSem, caches, spotify>>

\* The process ends, and the deferred release gives the token back.
Ran(c) ==
  /\ ~late[c]
  /\ metaSem' = metaSem - 1
  /\ Goto(c, "run", "store")
  /\ UNCHANGED <<item, forced, held, late, flight, caches, spotify>>

\* Mutant: release is called on success only.
RunFailedUnreleased(c) ==
  /\ Fail(c, "run")
  /\ UNCHANGED <<item, held, flight, metaSem, caches, spotify>>

\* It fails, finds nothing or is killed.
RunFailed(c) ==
  /\ metaSem' = metaSem - 1
  /\ Fail(c, "run")
  /\ UNCHANGED <<item, held, flight, caches, spotify>>

\* Mutant: singleflight.Forget as soon as there is an answer, before it is given out.
StoreForgets(c) ==
  /\ Goto(c, "store", "end")
  /\ known' = {item[c]} \cup (IF item[c] \in Lists /\ Cardinality(known \cap Lists) > MaxLists
                              THEN known \ Lists ELSE known)
  /\ flight' = [i \in Items |-> IF i = item[c] THEN Nobody ELSE flight[i]]
  /\ UNCHANGED <<item, forced, held, late, metaSem, tracks, spotify>>

\* The answer is kept; more than MaxLists playlists are dropped before another comes.
Store(c) ==
  /\ Goto(c, "store", "end")
  /\ known' = {item[c]} \cup (IF item[c] \in Lists /\ Cardinality(known \cap Lists) > MaxLists
                              THEN known \ Lists ELSE known)
  /\ UNCHANGED <<item, forced, held, late, flight, metaSem, tracks, spotify>>

\* PutSpotify failed, which nobody looks at.
StoreFailed(c) ==
  /\ item[c] \in Tracks
  /\ Goto(c, "store", "end")
  /\ UNCHANGED <<item, forced, held, late, flight, metaSem, caches, spotify>>

(***************************************************************************)
(* Time and the world outside                                              *)
(***************************************************************************)

\* The 60 seconds or 2 minutes of a fetch are over (40 s and 90 s for yt-dlp), the
\* client of /api/info has gone, or the server stops.
TimeOut(c) ==
  /\ pc[c] \in {"token", "refresh", "call", "sem", "run"} /\ ~late[c]
  /\ late' = [late EXCEPT ![c] = TRUE]
  /\ UNCHANGED <<pc, item, forced, held, flight, metaSem, caches, spotify>>

\* A playlist (10 minutes) or metadata (1 hour) expires; a mapping does not.
Forget(i) ==
  /\ i \in known \ Tracks
  /\ known' = known \ {i}
  /\ UNCHANGED <<pc, item, forced, held, late, flight, metaSem, tracks, spotify>>

\* trackCache keeps 6 hours, and 4096 tracks.
ForgetTrack(i) ==
  /\ i \in tracks
  /\ tracks' = tracks \ {i}
  /\ UNCHANGED <<pc, item, forced, held, late, flight, metaSem, known, spotify>>

\* tokenExp lies a minute before the end Spotify announced: who holds the token still can use it.
Expire ==
  /\ token # "none"
  /\ token' = "none"
  /\ UNCHANGED <<pc, item, forced, held, late, flight, metaSem, caches, mu>>

\* Spotify revokes every token it has given out.
Revoke ==
  /\ token = "good"
  /\ token' = "bad"
  /\ held' = [c \in Callers |-> IF held[c] = "good" THEN "bad" ELSE held[c]]
  /\ UNCHANGED <<pc, item, forced, late, flight, metaSem, caches, mu>>

Serve(c) == Hit(c) \/ Miss(c) \/ Lead(c) \/ Join(c) \/ Store(c) \/ StoreFailed(c) \/ End(c)
GetToken(c) == UseToken(c) \/ Refresh(c)
Answered(c) ==
  Refreshed(c) \/ RefreshFailed(c) \/ Unauthorized(c) \/ CallFailed(c) \/ Called(c) \/ Ran(c) \/ RunFailed(c)

Next ==
  \/ \E c \in Callers :
       (\E i \in Wants[c] : Ask(c, i)) \/ Serve(c) \/ GetToken(c) \/ Answered(c) \/ Acquire(c) \/ GiveUp(c) \/ TimeOut(c)
  \/ \E i \in Items : Forget(i) \/ ForgetTrack(i)
  \/ Expire
  \/ Revoke

Spec == Init /\ [][Next]_vars

\* Goroutines are scheduled; the mutex and the channel serve their waiters in
\* turn; the HTTP client (15 s), the context and the kill behind it end every call.
Fairness ==
  \A c \in Callers :
    /\ WF_vars(Serve(c)) /\ SF_vars(GetToken(c))
    /\ WF_vars(Answered(c)) /\ WF_vars(TimeOut(c)) /\ SF_vars(Acquire(c)) /\ WF_vars(GiveUp(c))

FairSpec == Spec /\ Fairness

(***************************************************************************)
(* Properties                                                              *)
(***************************************************************************)

Leading == {"token", "refresh", "call", "sem", "run", "store", "end"}

\* metaSem counts exactly the yt-dlp lookups that run, on every way out of Info,
\* Search and Playlist, and they are at most MAX_CONCURRENT_META.
MetaExact ==
  /\ metaSem = Cardinality({c \in Callers : pc[c] = "run"})
  /\ metaSem <= MaxMeta

\* Whoever resolves a track or lists a playlist is the one its flight names, so that
\* is done once at a time, and whoever waits has a fetch to wait for.  It says nothing
\* of /api/info: that asks Spotify for a track outside the flights, also while the
\* track is being resolved.
FlightsLed ==
  \A c \in Callers : item[c] \in Tracks \cup Lists =>
    /\ pc[c] \in Leading <=> flight[item[c]] = c
    /\ pc[c] = "join" => flight[item[c]] # Nobody

\* Client.mu is held by the request that refreshes the token, and by no other.
MutexHeld == \A c \in Callers : pc[c] = "refresh" <=> mu = c

\* A request that was refused with 401 repeats its call with a token issued
\* after the refusal, whatever other requests did to the cached one meanwhile.
RetryIsFresh ==
  [][\A c \in Callers : forced[c] /\ pc[c] # "call" /\ pc'[c] = "call" => held'[c] = "good"]_vars

\* The items a fetch may teach the answer to: a track in trackCache answers /api/info.
Learned == [i \in Items |-> {i} \cup {j \in Infos : TrackOf[j] = Track(i)}]

\* Flights, tokens, semaphore and deadlines implement a service that resolves a track
\* and lists a playlist once at a time, answers everybody who joined a fetch when it
\* ends, and remembers only what was fetched, while requests of /api/info fetch alone.
Service == INSTANCE LookupService WITH
  Kept <- Tracks, want <- item, known <- Remembered,
  fetching <- {c \in Callers : pc[c] \in Leading}, waiting <- {c \in Callers : pc[c] = "join"}

ImplementsLookups == Service!Spec

\* Every lookup is answered, though Spotify or yt-dlp may never answer, and the
\* leader of a fetch may have gone away.
LookupsReturn == \A c \in Callers : pc[c] # "idle" ~> pc[c] = "idle"
=============================================================================
