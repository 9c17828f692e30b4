----------------------------- MODULE DevConsole -----------------------------
(***************************************************************************)
(* What the dev console edits while players are served: the rank limits,   *)
(* kept in rank-limits.json and in Config.rankLimits, and the blocked      *)
(* players, kept in a table and in Store.blocked.  Every change is made in *)
(* two places one after the other, and nothing keeps two admins apart: the *)
(* saves even share the name of their temporary file.                      *)
(***************************************************************************)
EXTENDS FiniteSets

CONSTANTS Admins,  \* people with the console open
          Ranks,   \* rank names
          Players, \* players to block
          Files,   \* limits somebody may have written into the file by hand
          Edits    \* limits a PUT may carry

\* What a rank may be configured as: not at all, null, zeroes, or a real limit.
Limits == [Ranks -> {"absent", "null", "zero", "limit"}]
NoLimits == [r \in Ranks |-> "absent"]
NoRank == "no rank"
None == "none"
RankFile == "rank-limits.json"

ASSUME ConsoleAssumption ==
  /\ Files \subseteq Limits
  /\ Edits \subseteq {l \in Limits : \A r \in Ranks : l[r] # "null"}
  /\ NoRank \notin Ranks /\ {None, RankFile} \cap Players = {}

VARIABLES pc,       \* where the request of each admin is
          on,       \* what it changes: the rank file or a player
          next,     \* the limits it saves
          cut,      \* the rank a DELETE removes
          fd,       \* what the file it has opened is called by now
          file,     \* rank-limits.json
          tmp,      \* rank-limits.json.tmp
          limits,   \* Config.rankLimits
          table,    \* the blocked_players table
          blocked,  \* Store.blocked
          session,  \* sessionStore: the admins whose session is valid
          crossed,  \* observed: requests under way that met another on the same thing
          mixed,    \* observed: things such requests changed, and no request alone since
          stale     \* observed: saves under way since before another one took effect

vars == <<pc, on, next, cut, fd, file, tmp, limits, table, blocked, session, crossed, mixed, stale>>
ranks == <<next, cut, fd, file, tmp, limits>>
blocks == <<table, blocked>>
seen == <<on, crossed, mixed, stale>>

\* What a file may hold: limits, or nothing json.Unmarshal accepts.
Bad(what) == [r \in Ranks |-> what]
Missing == Bad("missing")
Empty == Bad("empty")
Torn == Bad("torn")
Contents == Limits \cup {Missing, Empty, Torn}

TypeOK ==
  /\ pc \in [Admins -> {"idle", "open", "write", "rename", "swap", "add", "remove"}]
  /\ on \in [Admins -> {None, RankFile} \cup Players]
  /\ next \in [Admins -> Limits] /\ cut \in [Admins -> Ranks \cup {NoRank}]
  /\ fd \in [Admins -> {"none", "tmp", "file", "gone"}]
  /\ file \in Contents /\ tmp \in Contents /\ limits \in Limits
  /\ table \subseteq Players /\ blocked \subseteq Players
  /\ session \subseteq Admins /\ crossed \subseteq Admins /\ stale \subseteq Admins
  /\ mixed \subseteq {RankFile} \cup Players

\* ReloadRankLimits: a missing file and one that cannot be parsed mean no limits.
Parsed(f) == IF f \in Limits THEN f ELSE NoLimits

\* LimitsFor: null and zeroes are no limit; a rank that is not configured has the global one.
LimitsFor(l) == [r \in Ranks |-> IF l[r] = "null" THEN "zero" ELSE l[r]]

\* Mutant: an explicit null does not reach the copy.
RankLimitsNoNull == [r \in Ranks |-> IF limits[r] = "null" THEN "absent" ELSE limits[r]]

\* RankLimits: the copy the console gets has zeroes for an explicit null.
RankLimits == LimitsFor(limits)

Init ==
  /\ pc = [a \in Admins |-> "idle"] /\ on = [a \in Admins |-> None]
  /\ next = [a \in Admins |-> NoLimits] /\ cut = [a \in Admins |-> NoRank]
  /\ fd = [a \in Admins |-> "none"]
  /\ file \in Files \cup {Missing} /\ tmp = Missing /\ limits = Parsed(file)
  /\ table = {} /\ blocked = {}
  /\ session = {} /\ crossed = {} /\ mixed = {} /\ stale = {}

(***************************************************************************)
(* Sessions: the limiter of POST /dev/login is a RateLimiter of its own;   *)
(* logout, the first request after eight hours and gcLoop end a session.   *)
(***************************************************************************)
Login(a) ==
  /\ a \notin session
  /\ session' = session \cup {a}
  /\ UNCHANGED <<pc, ranks, blocks, seen>>

EndSession(a) ==
  /\ session' = session \ {a}
  /\ a \in session
  /\ UNCHANGED <<pc, ranks, blocks, seen>>

(***************************************************************************)
(* Requests                                                                *)
(***************************************************************************)

\* devAuth lets a request in that will change thing.
Begin(a, thing) ==
  LET others == {b \in Admins \ {a} : on[b] = thing}
  IN /\ pc[a] = "idle" /\ a \in session
     /\ on' = [on EXCEPT ![a] = thing]
     /\ crossed' = IF others = {} THEN crossed ELSE crossed \cup others \cup {a}
     /\ mixed' = IF others = {} THEN mixed ELSE mixed \cup {thing}
     /\ UNCHANGED <<session, stale>>

\* The request is answered: a failed one leaves what was mixed mixed.
Finish(a, done) ==
  /\ pc' = [pc EXCEPT ![a] = "idle"]
  /\ on' = [on EXCEPT ![a] = None]
  /\ crossed' = crossed \ {a}
  /\ mixed' = IF done /\ a \notin crossed THEN mixed \ {on[a]} ELSE mixed
  /\ UNCHANGED session

\* The limits a save puts in force are not the ones that others under way have copied.
FinishSave(a, done) ==
  /\ Finish(a, done)
  /\ stale' = (IF done THEN stale \cup {b \in Admins : on[b] = RankFile} ELSE stale) \ {a}
  /\ next' = [next EXCEPT ![a] = NoLimits] /\ cut' = [cut EXCEPT ![a] = NoRank]
  /\ UNCHANGED blocks

Step(a, from, to) ==
  /\ pc[a] = from
  /\ pc' = [pc EXCEPT ![a] = to]
  /\ UNCHANGED <<next, cut, limits, blocks, session, seen>>

BeginSave(a, l, r) ==
  /\ Begin(a, RankFile)
  /\ pc' = [pc EXCEPT ![a] = "open"]
  /\ next' = [next EXCEPT ![a] = l] /\ cut' = [cut EXCEPT ![a] = r]
  /\ UNCHANGED <<fd, file, tmp, limits, blocks>>

\* PUT /dev/api/rank-limits: null has been cleaned to zeroes.
Put(a) == \E l \in Edits : BeginSave(a, l, NoRank)

\* DELETE /dev/api/rank-limits/{rank}: the copy without the rank.
Delete(a) == \E r \in Ranks : BeginSave(a, [RankLimits EXCEPT ![r] = "absent"], r)

\* Mutant: rank-limits.json is written in place.
OpenInPlace(a) ==
  /\ Step(a, "open", "write")
  /\ file' = Empty
  /\ fd' = [fd EXCEPT ![a] = "file"]
  /\ UNCHANGED tmp

\* os.WriteFile opens and truncates the temporary file, whoever else is writing to it ...
Open(a) ==
  /\ Step(a, "open", "write")
  /\ tmp' = Empty
  /\ fd' = [fd EXCEPT ![a] = "tmp"]
  /\ UNCHANGED file

\* Writing l over c from the start: the tail of what another save wrote may stay.
Written(c, l) == IF c = Empty THEN {l} ELSE {l, Torn}

\* ... and writes to what it opened, which another save may have renamed by then.
Fill(a, ofFile, ofTmp) ==
  /\ file' \in IF fd[a] = "file" THEN ofFile ELSE {file}
  /\ tmp' \in IF fd[a] = "tmp" THEN ofTmp ELSE {tmp}

Write(a) ==
  /\ Step(a, "write", "rename")
  /\ Fill(a, Written(file, next[a]), Written(tmp, next[a]))
  /\ fd' = [fd EXCEPT ![a] = "none"]

\* The disk is full: the request fails and the file stays as it is.
WriteFails(a) ==
  /\ pc[a] = "write"
  /\ Fill(a, {Torn}, {Torn})
  /\ fd' = [fd EXCEPT ![a] = "none"]
  /\ FinishSave(a, FALSE)
  /\ UNCHANGED limits

\* os.Rename moves what has the temporary name by now, open or not.
Rename(a) ==
  /\ Step(a, "rename", "swap")
  /\ tmp # Missing
  /\ file' = tmp /\ tmp' = Missing
  /\ fd' = [b \in Admins |-> CASE fd[b] = "tmp" -> "file" [] fd[b] = "file" -> "gone" [] OTHER -> fd[b]]

\* Another save took the temporary file, or the directory refuses the rename.
RenameFails(a) ==
  /\ pc[a] = "rename"
  /\ FinishSave(a, FALSE)
  /\ UNCHANGED <<fd, file, tmp, limits>>

Swap(a) ==
  /\ pc[a] = "swap"
  /\ limits' = next[a]
  /\ FinishSave(a, TRUE)
  /\ UNCHANGED <<fd, file, tmp>>

\* Store.Block and Store.Unblock: the table first; when it refuses, nothing has changed ...
Block(a, p) ==
  /\ Begin(a, p)
  /\ pc' = [pc EXCEPT ![a] = "add"]
  /\ table' = table \cup {p}
  /\ UNCHANGED <<ranks, blocked>>

Unblock(a, p) ==
  /\ Begin(a, p)
  /\ pc' = [pc EXCEPT ![a] = "remove"]
  /\ table' = table \ {p}
  /\ UNCHANGED <<ranks, blocked>>

\* Mutant: Unblock leaves the copy in memory alone.
MirrorAddsOnly(a) ==
  /\ pc[a] \in {"add", "remove"}
  /\ blocked' = blocked \cup (IF pc[a] = "add" THEN {on[a]} ELSE {})
  /\ Finish(a, TRUE)
  /\ UNCHANGED <<ranks, table, stale>>

\* ... then the copy every request is checked against.
Mirror(a) ==
  /\ pc[a] \in {"add", "remove"}
  /\ blocked' = IF pc[a] = "add" THEN blocked \cup {on[a]} ELSE blocked \ {on[a]}
  /\ Finish(a, TRUE)
  /\ UNCHANGED <<ranks, table, stale>>

\* The process dies and starts again: config.Load reads the file and loadBlocked the table.
Restart ==
  /\ limits' = Parsed(file) /\ blocked' = table
  /\ pc' = [a \in Admins |-> "idle"] /\ on' = [a \in Admins |-> None]
  /\ next' = [a \in Admins |-> NoLimits] /\ cut' = [a \in Admins |-> NoRank]
  /\ fd' = [a \in Admins |-> "none"]
  /\ session' = {} /\ crossed' = {} /\ mixed' = {} /\ stale' = {}
  /\ UNCHANGED <<file, tmp, table>>

Next ==
  \/ Restart
  \/ \E a \in Admins :
       \/ Login(a) \/ EndSession(a)
       \/ Put(a) \/ Delete(a)
       \/ Open(a) \/ Write(a) \/ WriteFails(a)
       \/ Rename(a) \/ RenameFails(a) \/ Swap(a)
       \/ Mirror(a)
       \/ \E p \in Players : Block(a, p) \/ Unblock(a, p)

Spec == Init /\ [][Next]_vars

(***************************************************************************)
(* Properties                                                              *)
(***************************************************************************)

\* Saving is crash-safe when admins save one at a time (config.go:250): at every point the
\* file a restart would read means the limits in force, or those the one save under way is
\* about to put in force; it is never lost, empty or half written.
SaveAtomic ==
  RankFile \notin mixed =>
    \/ LimitsFor(Parsed(file)) = LimitsFor(limits)
    \/ \E a \in Admins : pc[a] = "swap" /\ file = next[a]

\* A player is blocked in memory, where every request looks, exactly when the table says so,
\* so that a restart changes nothing (store.go:431): except while a change of that player is
\* on its way to memory, or after two of them crossed.
BlocksAgree ==
  \A p \in Players \ mixed :
    (p \in table <=> p \in blocked) \/ \E a \in Admins : on[a] = p

\* dev.go:303-305: a DELETE saves a copy of the limits, so it puts back whatever other
\* saves put in force since it took the copy, and nobody is told; but only that.  Where
\* none did, the players of the other ranks keep their limits, also when it met saves
\* that failed or that took effect after it; the zeroes the copy has for an explicit
\* null mean the same (config.go:234).
DeleteKeepsOthers ==
  [][\A a \in Admins :
       Swap(a) /\ cut[a] # NoRank =>
         /\ limits'[cut[a]] = "absent"
         /\ a \notin stale => \A r \in Ranks \ {cut[a]} : LimitsFor(limits')[r] = LimitsFor(limits)[r]]_vars
=============================================================================
