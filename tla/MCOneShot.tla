------------------------------- MODULE MCOneShot ------------------------------
(***************************************************************************)
(* Values for TLC: two snapshots, of which b makes a line that is too      *)
(* long, three writes, and one redirect.                                   *)
(***************************************************************************)
EXTENDS OneShot
===============================================================================
