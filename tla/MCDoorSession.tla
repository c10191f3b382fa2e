---------------------------- MODULE MCDoorSession -----------------------------
(***************************************************************************)
(* Values for TLC are in the configurations: 12 seconds granted with a     *)
(* margin of 5, an idle limit of 3, polls of up to 2 seconds and writes    *)
(* and reads of up to 1, so that the calls just fit the margin and a       *)
(* session that is not ended as idle runs on for longer than it may.       *)
(***************************************************************************)
EXTENDS DoorSession
===============================================================================
