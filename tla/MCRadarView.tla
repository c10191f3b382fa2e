------------------------------- MODULE MCRadarView ----------------------------
(***************************************************************************)
(* Values for TLC: three aircraft, of which one is in an emergency, one    *)
(* says "none" and one is on the ground; two cells, which they may share   *)
(* and of which the help covers one, and a list of two rows.               *)
(***************************************************************************)
EXTENDS RadarView
===============================================================================
