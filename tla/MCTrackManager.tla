---------------------------- MODULE MCTrackManager ----------------------------
(***************************************************************************)
(* Values for TLC: three aircraft for a table of two tracks, so that a     *)
(* full table evicts; clock readings and timestamps 0..3 with ages 1, 1, 2 *)
(* and 1, so that every age can be reached and passed.                     *)
(***************************************************************************)
EXTENDS TrackManager, TLC

MCTime == 0..3

Symmetry == Permutations(Icao)

===============================================================================
