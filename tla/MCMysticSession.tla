---------------------------- MODULE MCMysticSession ---------------------------
(***************************************************************************)
(* Values for TLC: an interval of 2 and backoffs of 1 and 2, so that a     *)
(* backoff ends before and at the next opening of the loop's gate.         *)
(***************************************************************************)
EXTENDS MysticSession

MCRecording == <<1>>
===============================================================================
