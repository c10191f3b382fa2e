----------------------------- MODULE MCLocalSession ---------------------------
(***************************************************************************)
(* Values for TLC: three signals, so that one can come inside the handling *)
(* of another and a third after both.                                      *)
(***************************************************************************)
EXTENDS LocalSession
===============================================================================
