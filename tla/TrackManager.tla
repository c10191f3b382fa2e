----------------------------- MODULE TrackManager -----------------------------
(***************************************************************************)
(* TrackManager of tracking.py: observations are merged into a bounded     *)
(* table of tracks keyed by ICAO address, positions and emergencies age    *)
(* separately from the aircraft, and a snapshot first removes the tracks   *)
(* that are too old.                                                       *)
(*                                                                         *)
(* The manager is single-threaded.  apply() is a loop of _merge() calls:   *)
(* `todo` counts the observations the running call has still to merge, so  *)
(* a snapshot is taken only when it is 0.  All observations of one call    *)
(* carry one timestamp, `stamp`: the sources stamp a whole document at     *)
(* once.  The clock is injected and need not be monotone.                  *)
(*                                                                         *)
(* Data.  A position value and an emergency value carry the time they were *)
(* reported at, so that a stored value can be compared with the time the   *)
(* code keeps for it.  One position field stands for the (latitude,        *)
(* longitude) pair, which the sources produce or drop together; the other  *)
(* fields that are only carried over by _retain are left out, as are       *)
(* first_seen, _last_update and the returned number of accepted updates,   *)
(* which nothing reads.  Which of several equally old tracks is evicted    *)
(* (the code takes the first in dict order) is left open.                  *)
(***************************************************************************)
EXTENDS Integers, FiniteSets

CONSTANTS
  Icao,                  (* Normalized ICAO addresses.                     *)
  Time,                  (* Clock readings and observation timestamps.     *)
  None,                  (* Python's None.                                 *)
  MaxTracksArg,          (* The max_tracks argument of the constructor.    *)
  PositionStaleAge,
  AircraftStaleAge,
  RemovalAge,
  EmergencyRetentionAge,
  MaxBatch               (* Bound: observations in one snapshot.           *)

ASSUME TimeAssumption == Time \subseteq Int /\ Time # {}
ASSUME IcaoAssumption == IsFiniteSet(Icao)
ASSUME AgesAssumption ==
  /\ {PositionStaleAge, AircraftStaleAge, RemovalAge, EmergencyRetentionAge}
       \subseteq Int
  /\ MaxTracksArg \in Int
  /\ MaxBatch \in Nat

VARIABLES
  tracks,    (* _tracks: the track of each aircraft, or None.              *)
  now,       (* What the injected clock returns.                           *)
  stamp,     (* Timestamp of the snapshot being applied.                   *)
  todo       (* Its observations not merged yet.                           *)

vars == <<tracks, now, stamp, todo>>

-------------------------------------------------------------------------------
(* The data.                                                               *)

(* "none" is any text _is_emergency rejects, "alert" any it accepts.       *)
Emergency == [kind : {"none", "alert"}, at : Time]

Track == [last      : Time,
          posTime   : Time \union {None},
          emgTime   : Time \union {None},
          lat       : Time \union {None},
          emergency : Emergency \union {None}]

Report == [icao      : Icao,
           pos       : BOOLEAN,
           emergency : {None, "none", "alert"}]

(* None is equal to no value of the model. *)
ASSUME NoneAssumption ==
  /\ None \notin Time
  /\ None \notin {"none", "alert"}
  /\ None \notin Emergency
  /\ None \notin Track

(* max_tracks is at least one whatever the caller asks for. *)
Capacity == IF MaxTracksArg > 1 THEN MaxTracksArg ELSE 1

IsEmergency(e) == e # None /\ e.kind # "none"

Retain(old, new) == IF new # None THEN new ELSE old

(* An explicit non-emergency clears what is stored. *)
RetainEmergency(old, new) ==
  IF new = None THEN old ELSE IF IsEmergency(new) THEN new ELSE None

SaidPos(r) == IF r.pos THEN stamp ELSE None

SaidEmergency(r) ==
  IF r.emergency = None THEN None ELSE [kind |-> r.emergency, at |-> stamp]

(* A first observation is stored as it is, a "none" emergency included. *)
NewTrack(r) ==
  [last      |-> stamp,
   posTime   |-> SaidPos(r),
   emgTime   |-> IF IsEmergency(SaidEmergency(r)) THEN stamp ELSE None,
   lat       |-> SaidPos(r),
   emergency |-> SaidEmergency(r)]

(* Mistake: a "none" clears the emergency but not its time. *)
MergedKeepsEmgTime(t, r) ==
  [last      |-> stamp,
   posTime   |-> IF r.pos THEN stamp ELSE t.posTime,
   emgTime   |-> IF IsEmergency(SaidEmergency(r)) THEN stamp ELSE t.emgTime,
   lat       |-> Retain(t.lat, SaidPos(r)),
   emergency |-> RetainEmergency(t.emergency, SaidEmergency(r))]

(* Mistake: every observation makes the retained position look new. *)
MergedRenewsPosition(t, r) ==
  [last      |-> stamp,
   posTime   |-> IF t.lat # None \/ r.pos THEN stamp ELSE None,
   emgTime   |-> IF r.emergency = None THEN t.emgTime
                 ELSE IF IsEmergency(SaidEmergency(r)) THEN stamp ELSE None,
   lat       |-> Retain(t.lat, SaidPos(r)),
   emergency |-> RetainEmergency(t.emergency, SaidEmergency(r))]

Merged(t, r) ==
  [last      |-> stamp,
   posTime   |-> IF r.pos THEN stamp ELSE t.posTime,
   emgTime   |-> IF r.emergency = None THEN t.emgTime
                 ELSE IF IsEmergency(SaidEmergency(r)) THEN stamp ELSE None,
   lat       |-> Retain(t.lat, SaidPos(r)),
   emergency |-> RetainEmergency(t.emergency, SaidEmergency(r))]

Known == {i \in Icao : tracks[i] # None}

(* Mistake: max() for min(). *)
Newest(v) == \A j \in Known : tracks[v].last >= tracks[j].last

Oldest(v) == \A j \in Known : tracks[v].last <= tracks[j].last

-------------------------------------------------------------------------------
(* apply() and _merge().                                                   *)

Init ==
  /\ tracks = [i \in Icao |-> None]
  /\ now \in Time
  /\ stamp \in Time
  /\ todo = 0

Apply(ts, n) ==
  /\ todo = 0
  /\ stamp' = ts
  /\ todo' = n
  /\ UNCHANGED <<tracks, now>>

(* Mistake: the loop runs once too often. *)
MergingOnceMore ==
  /\ todo >= 0
  /\ todo' = todo - 1
  /\ UNCHANGED <<now, stamp>>

Merging ==
  /\ todo > 0
  /\ todo' = todo - 1
  /\ UNCHANGED <<now, stamp>>

(* Mistake: the bound is tested after the insertion, not before. *)
MergeNewUntested(r) ==
  /\ Merging
  /\ tracks[r.icao] = None
  /\ Cardinality(Known) <= Capacity
  /\ tracks' = [tracks EXCEPT ![r.icao] = NewTrack(r)]

(* An unknown aircraft while the table has room. *)
MergeNew(r) ==
  /\ Merging
  /\ tracks[r.icao] = None
  /\ Cardinality(Known) < Capacity
  /\ tracks' = [tracks EXCEPT ![r.icao] = NewTrack(r)]

(* An unknown aircraft in a full table: an oldest track makes room. *)
MergeEvicting(r) ==
  /\ Merging
  /\ tracks[r.icao] = None
  /\ Cardinality(Known) >= Capacity
  /\ \E v \in Known :
       /\ Oldest(v)
       /\ tracks' = [tracks EXCEPT ![v] = None, ![r.icao] = NewTrack(r)]

(* An observation older than the track is rejected. *)
MergeRejected(r) ==
  /\ Merging
  /\ tracks[r.icao] # None
  /\ stamp < tracks[r.icao].last
  /\ UNCHANGED tracks

MergeInto(r) ==
  /\ Merging
  /\ tracks[r.icao] # None
  /\ stamp >= tracks[r.icao].last
  /\ tracks' = [tracks EXCEPT ![r.icao] = Merged(tracks[r.icao], r)]

Merge(r) == MergeNew(r) \/ MergeEvicting(r) \/ MergeRejected(r) \/ MergeInto(r)

-------------------------------------------------------------------------------
(* snapshot(), and summary(), which takes one.                             *)

Expired == {i \in Known : now - tracks[i].last > RemovalAge}

Snapshot ==
  /\ todo = 0
  /\ tracks' = [i \in Icao |-> IF i \in Expired THEN None ELSE tracks[i]]
  /\ UNCHANGED <<now, stamp, todo>>

(* The row a snapshot taken now shows for a track. *)
PositionStale(t) == t.posTime = None \/ now - t.posTime > PositionStaleAge

EmergencyExpired(t) ==
  t.emgTime # None /\ now - t.emgTime > EmergencyRetentionAge

Row(t) ==
  [active        |-> now - t.last <= AircraftStaleAge,
   positionStale |-> PositionStale(t),
   lat           |-> IF PositionStale(t) THEN None ELSE t.lat,
   emergency     |-> IF EmergencyExpired(t) THEN None ELSE t.emergency]

Shown == Known \ Expired

(* The injected clock moves, possibly backwards (a wall clock that is set). *)
Clock(t) ==
  /\ now' = t
  /\ UNCHANGED <<tracks, stamp, todo>>

Next ==
  \/ \E ts \in Time, n \in 0..MaxBatch : Apply(ts, n)
  \/ \E r \in Report : Merge(r)
  \/ Snapshot
  \/ \E t \in Time : Clock(t)

Spec == Init /\ [][Next]_vars

-------------------------------------------------------------------------------
(* Properties.                                                             *)

(* Type invariant of the table and of the running apply() call. *)
TypeOK ==
  /\ tracks \in [Icao -> Track \union {None}]
  /\ now \in Time
  /\ stamp \in Time
  /\ todo \in 0..MaxBatch

(* Memory is bounded by the track count (docstring of tracking.py): no     *)
(* sequence of snapshots makes the table larger than max_tracks, although  *)
(* _merge checks the bound only for aircraft it does not know.             *)
BoundedTable == Cardinality(Known) <= Capacity

(* Each time the manager keeps is the time of the value it is kept for,    *)
(* through any mix of observations that carry or omit the field: the       *)
(* position time is that of the retained position, the emergency time that *)
(* of the retained emergency, and neither is later than last_seen.         *)
TimesMatchData ==
  \A i \in Known : LET t == tracks[i] IN
    /\ t.posTime = t.lat
    /\ t.emgTime = IF IsEmergency(t.emergency) THEN t.emergency.at ELSE None
    /\ t.posTime # None => t.posTime <= t.last
    /\ t.emgTime # None => t.emgTime <= t.last

(* What a snapshot shows is fresh at the moment it is taken: a plotted     *)
(* position was reported within the position age, an emergency within its  *)
(* retention age, and the aircraft was heard within the removal age.       *)
ShownIsFresh ==
  \A i \in Shown : LET row == Row(tracks[i]) IN
    /\ row.lat # None => now - row.lat <= PositionStaleAge
    /\ IsEmergency(row.emergency) =>
         now - row.emergency.at <= EmergencyRetentionAge
    /\ now - tracks[i].last <= RemovalAge

(* The manager implements the table it promises: the newest accepted time  *)
(* of a held aircraft never goes back, and eviction and aging forget the   *)
(* oldest first.                                                           *)
LastSeen == [i \in Icao |-> IF tracks[i] = None THEN None ELSE tracks[i].last]

Table == INSTANCE TrackTable WITH seen <- LastSeen

ImplementsTable == Table!Spec

===============================================================================
