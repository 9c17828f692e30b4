----------------------------- MODULE Admission -----------------------------
(***************************************************************************)
(* Who gets past withAuth and who pays for the work: the two credentials,  *)
(* the flood limiter per address, the block list, and the work limiter     *)
(* that /api/convert, /api/info and /api/playlist ask before they do       *)
(* anything expensive.  The limiters are what RateLimiter promises, buckets*)
(* that are always there, counted in requests.                             *)
(***************************************************************************)
EXTENDS Naturals

CONSTANTS Requests,   \* requests served at once
          Players,    \* players, with or without a token
          IPs,        \* addresses requests come from
          Tracks,     \* Spotify tracks
          VideoOf,    \* [Tracks -> Videos], what they resolve to
          Videos,     \* YouTube videos
          Lists,      \* playlists
          Asked,      \* bound of the model: the endpoints and items each request may come with
          FloodMax,   \* 240 a minute in the code
          RateMax,    \* RATE_LIMIT_MAX
          ServerMax   \* RATE_LIMIT_SERVER_MAX

NoPlayer == "none"
Items == Tracks \cup Videos \cup Lists

ASSUME AdmissionAssumption ==
  /\ VideoOf \in [Tracks -> Videos]
  /\ NoPlayer \notin Players
  /\ IPs # {} /\ Videos # {}
  /\ Asked \in [Requests -> SUBSET ({"convert", "info", "playlist"} \X Items)]
  /\ {FloodMax, RateMax, ServerMax} \subseteq Nat \ {0}

\* The API key, naming a player or none; a valid token of a player; neither.
Senders == [cred : {"key"}, player : Players \cup {NoPlayer}]
             \cup [cred : {"token"}, player : Players] \cup {[cred |-> "bad", player |-> NoPlayer]}

\* The buckets of the work limiter, per player, server and address.
WorkKeys == ({"p"} \X Players) \cup ({"s", "i"} \X IPs)
MaxOf(k) == IF k[1] = "s" THEN ServerMax ELSE RateMax

VARIABLES req,     \* the requests being served
          flood,   \* [IPs -> Nat], what floodLimiter has left
          work,    \* [WorkKeys -> Nat], what workLimiter has left
          blocked, \* Store.blocked
          known    \* items answered without work: mapped, converted, cached

vars == <<req, flood, work, blocked, known>>
world == <<blocked, known>>

Steps == {"idle", "auth", "enter", "pay", "resolve", "convert", "fetch"}

\* An endpoint is "convert", "info" or "playlist"; a request on its way holds its item.
Idle == [pc |-> "idle", api |-> "info", from |-> [cred |-> "bad", player |-> NoPlayer],
         ip |-> CHOOSE a \in IPs : TRUE, item |-> CHOOSE v \in Videos : TRUE]

Accepts(api, i) ==
  CASE api = "convert" -> i \in Tracks \cup Videos
    [] api = "info" -> i \in Tracks \cup Videos
    [] api = "playlist" -> i \in Lists

TypeOK ==
  /\ req \in [Requests -> [pc : Steps, api : {"convert", "info", "playlist"}, from : Senders, ip : IPs, item : Items]]
  /\ flood \in [IPs -> 0 .. FloodMax]
  /\ DOMAIN work = WorkKeys /\ \A k \in WorkKeys : work[k] \in 0 .. MaxOf(k)
  /\ blocked \subseteq Players /\ known \subseteq Items

Init ==
  /\ req = [r \in Requests |-> Idle]
  /\ flood = [a \in IPs |-> FloodMax]
  /\ work = [k \in WorkKeys |-> MaxOf(k)]
  /\ blocked \in SUBSET Players /\ known = {}

(***************************************************************************)
(* identity, newCaller, workKey                                            *)
(***************************************************************************)

\* The identity knows a player from a token only; newCaller takes the one the
\* server names in the body as well.
SteamID(s) == IF s.cred = "token" THEN s.player ELSE NoPlayer
CallerOf(s) == s.player

\* Mutant: every request is counted under its address.
WorkKeyByIP(s, ip) == <<"i", ip>>

\* Mutant: whichever player a request names is charged.
WorkKeyNamed(s, ip) == IF s.player # NoPlayer THEN <<"p", s.player>> ELSE <<"i", ip>>

WorkKey(s, ip) ==
  IF SteamID(s) # NoPlayer THEN <<"p", SteamID(s)>>
  ELSE IF s.cred = "key" THEN <<"s", ip>> ELSE <<"i", ip>>

\* checkAPIKey, else verifyClientToken, which turns away what is malformed, not
\* signed with the secret, past its time or meant to last too long.
Authentic(s) == s.cred # "bad"

(***************************************************************************)
(* withAuth                                                                *)
(***************************************************************************)

Arrive(r, api, s, ip, i) ==
  /\ req[r].pc = "idle"
  /\ <<api, i>> \in Asked[r] /\ Accepts(api, i)
  /\ req' = [req EXCEPT ![r] = [pc |-> "auth", api |-> api, from |-> s, ip |-> ip, item |-> i]]
  /\ UNCHANGED <<flood, work, world>>

Goto(r, to) == req' = [req EXCEPT ![r].pc = to]
Answer(r) == req' = [req EXCEPT ![r] = Idle]

\* 429 before 401: who has no key is counted first, whatever else is wrong.
Flooded(r) ==
  /\ req[r].pc = "auth" /\ req[r].from.cred # "key"
  /\ flood[req[r].ip] = 0
  /\ Answer(r)
  /\ UNCHANGED <<flood, work, world>>

Authenticate(r) ==
  /\ req[r].pc = "auth"
  /\ IF req[r].from.cred = "key" THEN UNCHANGED flood
     ELSE flood[req[r].ip] > 0 /\ flood' = [flood EXCEPT ![req[r].ip] = @ - 1]
  /\ IF Authentic(req[r].from) THEN Goto(r, "enter") ELSE Answer(r)
  /\ UNCHANGED <<work, world>>

(***************************************************************************)
(* The handlers                                                            *)
(***************************************************************************)

Caller(r) == CallerOf(req[r].from)
KeyOf(r) == WorkKey(req[r].from, req[r].ip)

\* Only doConvert asks the block list.
Blocked(r) ==
  /\ req[r].pc = "enter" /\ req[r].api = "convert" /\ Caller(r) \in blocked
  /\ Answer(r)
  /\ UNCHANGED <<flood, work, world>>

\* A stored mapping, an mp3 or a playlist still cached costs nothing; info always does.
Admit(r) ==
  /\ req[r].pc = "enter"
  /\ ~(req[r].api = "convert" /\ Caller(r) \in blocked)
  /\ Goto(r, IF req[r].api = "info" \/ req[r].item \notin known THEN "pay"
             ELSE IF req[r].item \in Tracks THEN "resolve" ELSE "fetch")
  /\ UNCHANGED <<flood, work, world>>

\* What a request that paid goes on to: a track to be converted is resolved first.
Work(r) ==
  IF req[r].api # "convert" THEN "fetch"
  ELSE IF req[r].item \in Tracks THEN "resolve" ELSE "convert"

\* Mutant: the limiter takes a permit whether there is one or not.
PayAnyway(r) ==
  /\ req[r].pc = "pay"
  /\ work' = [work EXCEPT ![KeyOf(r)] = @ - 1]
  /\ Goto(r, Work(r))
  /\ UNCHANGED <<flood, world>>

\* workLimiter.Allow(workKey).
Pay(r) ==
  /\ req[r].pc = "pay"
  /\ work[KeyOf(r)] > 0
  /\ work' = [work EXCEPT ![KeyOf(r)] = @ - 1]
  /\ Goto(r, Work(r))
  /\ UNCHANGED <<flood, world>>

RateLimited(r) ==
  /\ req[r].pc = "pay"
  /\ work[KeyOf(r)] = 0
  /\ Answer(r)
  /\ UNCHANGED <<flood, work, world>>

\* Where a resolved track goes: to its mp3, or to pay for the conversion.
GoOn(r) ==
  LET v == VideoOf[req[r].item]
  IN req' = [req EXCEPT ![r].pc = IF v \in known THEN "fetch" ELSE "pay", ![r].item = v]

\* Mutant: the resolution is answered but not stored.
ResolveUnstored(r) ==
  /\ req[r].pc = "resolve"
  /\ GoOn(r)
  /\ UNCHANGED <<flood, work, world>>

\* resolveSpotify: the mapping is stored, so a track is paid for once, and its
\* conversion apart.
Resolve(r) ==
  /\ req[r].pc = "resolve"
  /\ known' = known \cup {req[r].item}
  /\ GoOn(r)
  /\ UNCHANGED <<flood, work, blocked>>

\* A conversion, a lookup or an answer from a cache; one that expired after the
\* request saw it is made again without another permit.
Serve(r) ==
  /\ req[r].pc \in {"convert", "fetch"}
  /\ known' = IF req[r].api = "info" THEN known ELSE known \cup {req[r].item}
  /\ Answer(r)
  /\ UNCHANGED <<flood, work, blocked>>

\* Spotify, yt-dlp or the limits of the conversion say no; a stored mapping does not.
Fail(r) ==
  /\ req[r].pc \in {"resolve", "convert", "fetch"}
  /\ req[r].pc = "resolve" => req[r].item \notin known
  /\ Answer(r)
  /\ UNCHANGED <<flood, work, world>>

(***************************************************************************)
(* Time and the block list                                                 *)
(***************************************************************************)

Refill(k) ==
  /\ work[k] < MaxOf(k)
  /\ work' = [work EXCEPT ![k] = @ + 1]
  /\ UNCHANGED <<req, flood, world>>

RefillFlood(a) ==
  /\ flood[a] < FloodMax
  /\ flood' = [flood EXCEPT ![a] = @ + 1]
  /\ UNCHANGED <<req, work, world>>

Block(p) ==
  /\ blocked' = IF p \in blocked THEN blocked \ {p} ELSE blocked \cup {p}
  /\ UNCHANGED <<req, flood, work, known>>

\* Tracks stay mapped; files and playlists expire.
Forget(i) ==
  /\ i \in known \ Tracks
  /\ known' = known \ {i}
  /\ UNCHANGED <<req, flood, work, blocked>>

Answered(r) == Resolve(r) \/ Serve(r) \/ Fail(r)
Handle(r) == Flooded(r) \/ Authenticate(r) \/ Blocked(r) \/ Admit(r) \/ Pay(r) \/ RateLimited(r)

Next ==
  \/ \E r \in Requests :
       \/ \E api \in {"convert", "info", "playlist"}, s \in Senders, a \in IPs, i \in Items : Arrive(r, api, s, a, i)
       \/ Handle(r)
       \/ Answered(r)
  \/ \E k \in WorkKeys : Refill(k)
  \/ \E a \in IPs : RefillFlood(a)
  \/ \E p \in Players : Block(p)
  \/ \E i \in Items : Forget(i)

Spec == Init /\ [][Next]_vars

\* Handlers go on and return, time refills the buckets, and Spotify, asked again
\* and again, answers at last.
Fairness ==
  /\ \A r \in Requests : WF_vars(Handle(r)) /\ WF_vars(Answered(r)) /\ SF_vars(Resolve(r))
  /\ \A k \in WorkKeys : WF_vars(Refill(k))
  /\ \A a \in IPs : WF_vars(RefillFlood(a))

FairSpec == Spec /\ Fairness

(***************************************************************************)
(* Properties                                                              *)
(***************************************************************************)

TokenOf(r, p) == req[r].from = [cred |-> "token", player |-> p]

\* auth.go:16-17, 121-123: the permits of a player go to requests that carry the
\* player's own token; neither the server nor anybody behind the same address can
\* use them up.
OwnPermits ==
  [][\A p \in Players : work'[<<"p", p>>] < work[<<"p", p>>] =>
       \E r \in Requests : TokenOf(r, p) /\ req[r].pc = "pay" /\ req'[r].pc # "pay"]_vars

Wanting(p) == \E r \in Requests : TokenOf(r, p) /\ req[r].pc = "pay"
Working(p) == \E r \in Requests : TokenOf(r, p) /\ req[r].pc \in {"resolve", "convert", "fetch"}

Asking(p, a) == \E r \in Requests : TokenOf(r, p) /\ req[r].ip = a /\ req[r].pc = "auth"

\* Everybody else at the player's address is the server with its key, and the
\* player is not blocked.
OwnAddress(p, a) ==
  /\ p \notin blocked
  /\ \A r \in Requests : req[r].pc # "idle" /\ req[r].ip = a => TokenOf(r, p) \/ req[r].from.cred = "key"

\* auth.go:95-101, 121-132: a player with a token whose requests go on getting past
\* withAuth is not refused by the work limiter for ever, whatever others ask for; and
\* one who goes on asking from an address of the player's own gets past withAuth, too.
\* Of an address that is shared this says nothing: floodLimiter is asked before
\* anybody is turned away, so those behind it, with valid credentials or without,
\* can use up its permits each time, and the player never gets in.
NotStarved ==
  \A p \in Players :
    /\ []<>Wanting(p) => []<>Working(p)
    /\ \A a \in IPs : <>[]OwnAddress(p, a) /\ []<>Asking(p, a) => []<>Working(p)

AsksOnly(p, t) == \A r \in Requests : TokenOf(r, p) => req[r].item \in {t, VideoOf[t]} /\ req[r].api = "convert"
Asks(p, t) == \E r \in Requests : TokenOf(r, p) /\ req[r].pc \in {"pay", "resolve"}
Served(p, t) == \E r \in Requests : TokenOf(r, p) /\ req[r].pc \in {"convert", "fetch"} /\ req[r].item = VideoOf[t]

\* A Spotify track costs two permits, one to resolve it and one to convert it;
\* a player who is refused in between and tries again pays for the rest only, so
\* that the track is converted at last even where one permit is all there is.
TrackProgress ==
  \A p \in Players, t \in Tracks : <>[]AsksOnly(p, t) /\ []<>Asks(p, t) => <>Served(p, t)
=============================================================================
