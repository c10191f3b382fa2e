----------------------------- MODULE MCRadarEngine ----------------------------
(***************************************************************************)
(* Values for TLC: two aircraft for a table of one track, a recording of   *)
(* two records that runs backwards, and a clock that runs long enough for  *)
(* both to be due at the poll interval of 2.                               *)
(***************************************************************************)
EXTENDS RadarEngine

MCRecording == <<2, 1>>
===============================================================================
