---------------------------- MODULE MCSourcePoller ----------------------------
(***************************************************************************)
(* Values for TLC: an interval of 2, backoffs 1, 2, 3 (the cap cuts the    *)
(* doubling), and a recording of three records whose second is older than  *)
(* its first.                                                              *)
(***************************************************************************)
EXTENDS SourcePoller

MCRecording == <<2, 1, 4>>
===============================================================================
