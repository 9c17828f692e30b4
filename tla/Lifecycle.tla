----------------------------- MODULE Lifecycle ------------------------------
(***************************************************************************)
(* The life of the process: main starts the server, waits for a signal,    *)
(* gives the handlers twenty seconds, closes the store and returns.  The   *)
(* handlers convert and stream meanwhile; what they do on a cancelled      *)
(* context, and what a kill leaves for the next start, is modelled here.   *)
(* Docker restarts the process (docker-compose.yml).  LifeInit, LifeNext   *)
(* and LifeSpec are named so that ServerProofs can extend this module      *)
(* beside Admission.                                                       *)
(***************************************************************************)
EXTENDS FiniteSets

CONSTANTS Ids,      \* media ids: a conversion of each may be going on
          Listeners \* clients of /stream, who read as slowly as they like

VARIABLES phase,     \* where main is
          cancelled, \* the context of signal.NotifyContext, parent of every other
          listening, \* ListenAndServe accepts connections
          forced,    \* observed: the process ended without waiting for its handlers
          conv,      \* the conversion of each id, in the handler that leads it
          streams,   \* clients being served an mp3
          file,      \* ids with an mp3 in CACHE_DIR
          row,       \* ids with a row in cache_entries
          orphaned   \* observed: files a forced end has left without a row

life == <<phase, cancelled, listening, forced, conv, streams, file, row, orphaned>>
main == <<phase, cancelled, listening, forced>>
disk == <<file, row, orphaned>>

LifeTypeOK ==
  /\ phase \in {"serve", "drain", "close", "exit", "down"}
  /\ cancelled \in BOOLEAN /\ listening \in BOOLEAN /\ forced \in BOOLEAN
  /\ conv \in [Ids -> {"none", "queued", "running", "put"}]
  /\ streams \subseteq Listeners
  /\ file \subseteq Ids /\ row \subseteq Ids /\ orphaned \subseteq Ids

Up == phase # "down"
StoreOpen == phase \in {"serve", "drain", "close"}
Busy == streams # {} \/ \E v \in Ids : conv[v] # "none"

LifeInit ==
  /\ phase = "serve" /\ cancelled = FALSE /\ listening = TRUE /\ forced = FALSE
  /\ conv = [v \in Ids |-> "none"] /\ streams = {}
  /\ file = {} /\ row = {} /\ orphaned = {}

(***************************************************************************)
(* main                                                                    *)
(***************************************************************************)

Signal ==
  /\ Up /\ ~cancelled
  /\ cancelled' = TRUE
  /\ UNCHANGED <<phase, listening, forced, conv, streams, disk>>

\* ListenAndServe returns an error, and stop() cancels the context as a signal does.
ListenFails ==
  /\ phase = "serve" /\ listening
  /\ listening' = FALSE /\ cancelled' = TRUE
  /\ UNCHANGED <<phase, forced, conv, streams, disk>>

\* main wakes up, and Shutdown closes the listener.
Shutdown ==
  /\ phase = "serve" /\ cancelled
  /\ phase' = "drain" /\ listening' = FALSE
  /\ UNCHANGED <<cancelled, forced, conv, streams, disk>>

\* Mutant: the server is closed under its handlers.
DrainedAnyway ==
  /\ phase = "drain"
  /\ phase' = "close"
  /\ UNCHANGED <<cancelled, listening, forced, conv, streams, disk>>

\* Every connection is idle.
Drained ==
  /\ phase = "drain" /\ ~Busy
  /\ phase' = "close"
  /\ UNCHANGED <<cancelled, listening, forced, conv, streams, disk>>

\* Mutant: Shutdown gets the background context.
NoDeadline ==
  /\ phase = "drain" /\ ~Busy
  /\ phase' = "close" /\ forced' = TRUE
  /\ UNCHANGED <<cancelled, listening, conv, streams, disk>>

\* Twenty seconds are over and some handler is not.
Deadline ==
  /\ phase = "drain"
  /\ phase' = "close" /\ forced' = TRUE
  /\ UNCHANGED <<cancelled, listening, conv, streams, disk>>

Close ==
  /\ phase = "close"
  /\ phase' = "exit"
  /\ UNCHANGED <<cancelled, listening, forced, conv, streams, disk>>

\* The process is gone, with every goroutine.
End ==
  /\ phase' = "down" /\ listening' = FALSE
  /\ conv' = [v \in Ids |-> "none"] /\ streams' = {}
  /\ orphaned' = IF forced' THEN file \ row ELSE orphaned
  /\ UNCHANGED <<cancelled, file, row>>

Exit ==
  /\ phase = "exit"
  /\ UNCHANGED forced
  /\ End

\* SIGKILL, out of memory, power.
Crash ==
  /\ Up
  /\ forced' = TRUE
  /\ End

\* config.Load, store.Open, server.New and the listener.
Restart ==
  /\ phase = "down"
  /\ phase' = "serve" /\ cancelled' = FALSE /\ listening' = TRUE /\ forced' = FALSE
  /\ UNCHANGED <<conv, streams, disk>>

(***************************************************************************)
(* Handlers: connections accepted before Shutdown may still bring requests *)
(***************************************************************************)

Accepting == phase \in {"serve", "drain"}

OpenStream(l) ==
  /\ Accepting /\ l \notin streams
  /\ file # {}
  /\ streams' = streams \cup {l}
  /\ UNCHANGED <<main, conv, disk>>

\* The file has been sent, or the client is gone: the context alone ends no stream.
EndStream(l) ==
  /\ l \in streams
  /\ streams' = streams \ {l}
  /\ UNCHANGED <<main, conv, disk>>

To(v, s) == conv' = [conv EXCEPT ![v] = s] /\ UNCHANGED <<main, streams>>

\* ensure: no hit, no flight.  On a cancelled context the query fails first.
Lead(v) ==
  /\ Accepting /\ ~cancelled
  /\ conv[v] = "none" /\ v \notin file \cap row
  /\ To(v, "queued")
  /\ row' = row \ {v}
  /\ UNCHANGED <<file, orphaned>>

\* A worker is free and exec starts the process, which it refuses on a context that is done.
Start(v) ==
  /\ Up /\ conv[v] = "queued" /\ ~cancelled
  /\ To(v, "running")
  /\ UNCHANGED disk

\* The queue is full, the video is known to be too long, or the context is cancelled.
Refuse(v) ==
  /\ Up /\ conv[v] = "queued"
  /\ To(v, "none")
  /\ UNCHANGED disk

\* yt-dlp failed, or was killed with its group on the cancelled context.
RunFails(v) ==
  /\ Up /\ conv[v] = "running"
  /\ To(v, "none")
  /\ UNCHANGED disk

\* yt-dlp has written the mp3, maybe after the signal, and it is moved into CACHE_DIR.
Move(v) ==
  /\ Up /\ conv[v] = "running"
  /\ To(v, "put")
  /\ file' = file \cup {v} /\ orphaned' = orphaned \ {v}
  /\ UNCHANGED row

\* PutCache under the background context: only a closed store refuses it.  (A failing
\* one is in CacheStore, and so is the janitor, which sees to files without a row.)
PutCache(v) ==
  /\ Up /\ conv[v] = "put"
  /\ row' = IF StoreOpen THEN row \cup {v} ELSE row
  /\ To(v, "none")
  /\ UNCHANGED <<file, orphaned>>

\* Expiry, eviction or an admin; CacheStore has it step by step.
RemoveCached(v) ==
  /\ Up /\ v \in file \cap row
  /\ file' = file \ {v} /\ row' = row \ {v}
  /\ UNCHANGED <<main, conv, streams, orphaned>>

Main == Shutdown \/ Drained \/ Deadline \/ Close \/ Exit
Convert(v) == Start(v) \/ Refuse(v) \/ RunFails(v) \/ Move(v) \/ PutCache(v)

LifeNext ==
  \/ Signal \/ ListenFails \/ Main \/ Crash \/ Restart
  \/ \E l \in Listeners : OpenStream(l) \/ EndStream(l)
  \/ \E v \in Ids : Lead(v) \/ Convert(v) \/ RemoveCached(v)

LifeSpec == LifeInit /\ [][LifeNext]_life

\* main is scheduled.  Nothing is assumed of the handlers: a client may read for
\* ever and yt-dlp may hang.
LifeFairSpec == LifeSpec /\ WF_life(Main)

(***************************************************************************)
(* Properties                                                              *)
(***************************************************************************)

\* However the process is stopped, an mp3 that reached CACHE_DIR has its row, or is about
\* to get it: the store is closed under a handler only past the deadline (main.go:78-81),
\* and the row is written although the context is cancelled (convert.go:248).
IndexKept == \A v \in file \ row : conv[v] = "put" \/ forced \/ v \in orphaned

\* A server told to stop, and one that cannot listen any more, exits, to be started
\* again, whatever its clients and yt-dlp do (main.go:56-83).
Exits == cancelled \/ ~listening ~> phase = "down"
=============================================================================
