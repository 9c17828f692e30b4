----------------------------- MODULE MCLookups -----------------------------
(***************************************************************************)
(* Instances of Lookups for TLC.                                           *)
(***************************************************************************)
EXTENDS Lookups

CONSTANTS c1, c2

\* Both callers may ask for the same track, one to play it and one to look at it.
OneTrack == [i \in Infos |-> "t"]

\* One of them asks for anything, the other for what needs Spotify.
AllAndSpotify == [c \in Callers |-> IF c = c1 THEN Items ELSE Tracks \cup Infos \cup SLists]
=============================================================================
