------------------------------ MODULE TrackTable ------------------------------
(***************************************************************************)
(* What the track manager promises its callers, without saying how: a     *)
(* bounded table that remembers, per aircraft, the time of the newest      *)
(* observation it accepted, never moves that time backwards while it       *)
(* remembers the aircraft, and only ever forgets the oldest.               *)
(*                                                                         *)
(* This is the promise of the docstring of tracking.py (lines 3-6) taken   *)
(* per step of the table; TrackManager.tla is shown to implement it.       *)
(***************************************************************************)
EXTENDS Integers, FiniteSets

CONSTANTS
  Icao,      (* Normalized ICAO addresses.                    *)
  Time,      (* Observation timestamps.                       *)
  None,      (* Marks an aircraft the table does not hold.    *)
  Capacity   (* The most aircraft the table holds.            *)

VARIABLE seen   (* Newest accepted timestamp per aircraft.    *)

Held == {i \in Icao : seen[i] # None}

TableTypeOK == seen \in [Icao -> Time \union {None}]

Init == seen = [i \in Icao |-> None]

(* Dropping S loses nothing newer than what is kept. *)
OldestFirst(S) == \A i \in S, j \in Held \ S : seen[i] <= seen[j]

(* A new aircraft enters while there is room. *)
Learn(i, t) ==
  /\ seen[i] = None
  /\ Cardinality(Held) < Capacity
  /\ seen' = [seen EXCEPT ![i] = t]

(* A new aircraft enters a full table in the place of an oldest one. *)
Replace(i, t) ==
  /\ seen[i] = None
  /\ Cardinality(Held) >= Capacity
  /\ \E v \in Held :
       /\ OldestFirst({v})
       /\ seen' = [seen EXCEPT ![v] = None, ![i] = t]

(* A held aircraft is heard again, at the same time or later. *)
Refresh(i, t) ==
  /\ seen[i] # None
  /\ seen[i] <= t
  /\ seen' = [seen EXCEPT ![i] = t]

(* Aging removes the oldest aircraft. *)
Forget(S) ==
  /\ OldestFirst(S)
  /\ seen' = [i \in Icao |-> IF i \in S THEN None ELSE seen[i]]

Next ==
  \/ \E i \in Icao, t \in Time : Learn(i, t) \/ Replace(i, t) \/ Refresh(i, t)
  \/ \E S \in SUBSET Held : Forget(S)

Spec == Init /\ [][Next]_seen

===============================================================================
