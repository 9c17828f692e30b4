---------------------------- MODULE MCAdmission ----------------------------
(***************************************************************************)
(* Instances of Admission for TLC.                                         *)
(***************************************************************************)
EXTENDS Admission

CONSTANTS q1, q2, p1

\* The track of the instance is the video of the instance.
Video == [t \in Tracks |-> "v"]

\* One of the two requests may come with everything, the other one with a
\* conversion or the metadata of a video.
AllAndConvert ==
  [r \in Requests |->
     IF r = q1 THEN {"convert", "info", "playlist"} \X Items ELSE {<<"convert", "t">>, <<"convert", "v">>, <<"info", "v">>}]
=============================================================================
