-------------------------- MODULE TrackManagerProofs --------------------------
(***************************************************************************)
(* Proofs about TrackManager.tla for every set of aircraft, every clock    *)
(* and every age: the type invariant, the bound on the table, the times    *)
(* matching the data they are kept for, and the freshness of what is       *)
(* shown.                                                                  *)
(***************************************************************************)
EXTENDS TrackManager, FiniteSetTheorems, TLAPS

(* A fresh track and a merged one are well-typed. *)
LEMMA NewTrackType ==
  ASSUME NEW r \in Report, TypeOK
  PROVE  NewTrack(r) \in Track
BY DEF NewTrack, Track, Report, TypeOK, SaidPos, SaidEmergency, IsEmergency,
       Emergency

LEMMA MergedType ==
  ASSUME NEW r \in Report, NEW t \in Track, TypeOK
  PROVE  Merged(t, r) \in Track
BY DEF Merged, Track, Report, TypeOK, SaidPos, SaidEmergency, IsEmergency,
       Emergency, Retain, RetainEmergency

(* The table, the clock and the loop counter keep their types. *)
THEOREM TypeCorrect == Spec => []TypeOK
<1>1. Init => TypeOK
  BY AgesAssumption DEF Init, TypeOK
<1>2. TypeOK /\ [Next]_vars => TypeOK'
  <2> SUFFICES ASSUME TypeOK, [Next]_vars
               PROVE  TypeOK'
    OBVIOUS
  <2>1. ASSUME NEW ts \in Time, NEW n \in 0..MaxBatch, Apply(ts, n)
        PROVE  TypeOK'
    BY <2>1, AgesAssumption DEF Apply, TypeOK
  <2>2. ASSUME NEW r \in Report, Merge(r)
        PROVE  TypeOK'
    <3>1. /\ NewTrack(r) \in Track
          /\ r.icao \in Icao
      BY NewTrackType DEF Report
    <3>2. ASSUME tracks[r.icao] # None
          PROVE  Merged(tracks[r.icao], r) \in Track
      BY <3>1, <3>2, MergedType DEF TypeOK
    <3>3. Merging => /\ now' \in Time
                     /\ stamp' \in Time
                     /\ todo' \in 0..MaxBatch
      BY AgesAssumption DEF Merging, TypeOK
    <3>4. CASE MergeNew(r)
      BY <3>1, <3>3, <3>4 DEF MergeNew, TypeOK
    <3>5. CASE MergeEvicting(r)
      BY <3>1, <3>3, <3>5 DEF MergeEvicting, TypeOK, Known
    <3>6. CASE MergeRejected(r)
      BY <3>3, <3>6 DEF MergeRejected, TypeOK
    <3>7. CASE MergeInto(r)
      BY <3>1, <3>2, <3>3, <3>7 DEF MergeInto, TypeOK
    <3>8. QED
      BY <2>2, <3>4, <3>5, <3>6, <3>7 DEF Merge
  <2>3. CASE Snapshot
    BY <2>3 DEF Snapshot, TypeOK
  <2>4. ASSUME NEW t \in Time, Clock(t)
        PROVE  TypeOK'
    BY <2>4 DEF Clock, TypeOK
  <2>5. CASE UNCHANGED vars
    BY <2>5 DEF vars, TypeOK
  <2>6. QED
    BY <2>1, <2>2, <2>3, <2>4, <2>5 DEF Next
<1>3. QED
  BY <1>1, <1>2, PTL DEF Spec

-------------------------------------------------------------------------------
(* The bound on the table.                                                 *)

(* A merge adds at most the reported aircraft to the known ones, in a full *)
(* table in the place of another; a snapshot only removes.                 *)
LEMMA KnownGrowth ==
  ASSUME TypeOK, [Next]_vars
  PROVE  \/ Known' \subseteq Known
         \/ /\ Cardinality(Known) < Capacity
            /\ \E i \in Icao : Known' = Known \union {i}
         \/ \E i \in Icao \ Known, v \in Known :
              Known' = (Known \ {v}) \union {i}
<1>1. CASE UNCHANGED tracks
  BY <1>1 DEF Known
<1>2. ASSUME NEW r \in Report, MergeNew(r)
      PROVE  /\ Cardinality(Known) < Capacity
             /\ \E i \in Icao : Known' = Known \union {i}
  <2>1. NewTrack(r) # None /\ r.icao \in Icao
    BY NewTrackType, NoneAssumption DEF Report
  <2>2. Known' = Known \union {r.icao}
    BY <1>2, <2>1 DEF MergeNew, Known, TypeOK
  <2>3. QED
    BY <1>2, <2>1, <2>2 DEF MergeNew
<1>3. ASSUME NEW r \in Report, MergeEvicting(r)
      PROVE  \E i \in Icao \ Known, v \in Known :
               Known' = (Known \ {v}) \union {i}
  <2>1. NewTrack(r) # None /\ r.icao \in Icao \ Known
    BY <1>3, NewTrackType, NoneAssumption DEF Report, MergeEvicting, Known
  <2>2. PICK v \in Known :
          tracks' = [tracks EXCEPT ![v] = None, ![r.icao] = NewTrack(r)]
    BY <1>3 DEF MergeEvicting
  <2>3. Known' = (Known \ {v}) \union {r.icao}
    BY <2>1, <2>2 DEF Known, TypeOK
  <2>4. QED
    BY <2>1, <2>3
<1>4. ASSUME NEW r \in Report, MergeInto(r)
      PROVE  Known' \subseteq Known
  <2>1. r.icao \in Known
    BY <1>4 DEF MergeInto, Known, Report
  <2>2. QED
    BY <1>4, <2>1 DEF MergeInto, Known, TypeOK
<1>5. CASE Snapshot
  BY <1>5 DEF Snapshot, Known
<1>6. QED
  BY <1>1, <1>2, <1>3, <1>4, <1>5
     DEF Next, vars, Apply, Merge, MergeRejected, Clock

(* The table never holds more than max_tracks tracks. *)
THEOREM TableIsBounded == Spec => []BoundedTable
<1>1. Init => BoundedTable
  <2>1. ASSUME Init PROVE Known = {}
    BY <2>1 DEF Init, Known
  <2>2. QED
    BY <2>1, FS_EmptySet, AgesAssumption DEF BoundedTable, Capacity
<1>2. TypeOK /\ BoundedTable /\ [Next]_vars => BoundedTable'
  <2> SUFFICES ASSUME TypeOK, BoundedTable, [Next]_vars
               PROVE  Cardinality(Known') <= Capacity
    BY DEF BoundedTable, Capacity
  <2>1. IsFiniteSet(Known) /\ Cardinality(Known) \in Nat /\ Capacity \in Int
    BY IcaoAssumption, AgesAssumption, FS_Subset, FS_CardinalityType
       DEF Known, Capacity
  <2>2. CASE Known' \subseteq Known
    BY <2>1, <2>2, FS_Subset, FS_CardinalityType DEF BoundedTable
  <2>3. ASSUME NEW i \in Icao, Cardinality(Known) < Capacity,
               Known' = Known \union {i}
        PROVE  Cardinality(Known') <= Capacity
    BY <2>1, <2>3, FS_AddElement
  <2>4. ASSUME NEW i \in Icao \ Known, NEW v \in Known,
               Known' = (Known \ {v}) \union {i}
        PROVE  Cardinality(Known') <= Capacity
    <3>1. /\ IsFiniteSet(Known \ {v})
          /\ Cardinality(Known \ {v}) = Cardinality(Known) - 1
      BY <2>1, FS_RemoveElement
    <3>2. Cardinality(Known') = Cardinality(Known \ {v}) + 1
      BY <2>4, <3>1, FS_AddElement
    <3>3. QED
      BY <2>1, <3>1, <3>2 DEF BoundedTable
  <2>5. QED
    BY <2>2, <2>3, <2>4, KnownGrowth
<1>3. QED
  BY <1>1, <1>2, TypeCorrect, PTL DEF Spec

-------------------------------------------------------------------------------
(* The times the manager keeps.                                            *)

(* TimesMatchData, of one track. *)
Matches(t) ==
  /\ t.posTime = t.lat
  /\ t.emgTime = IF IsEmergency(t.emergency) THEN t.emergency.at ELSE None
  /\ t.posTime # None => t.posTime <= t.last
  /\ t.emgTime # None => t.emgTime <= t.last

LEMMA NewTrackMatches ==
  ASSUME NEW r \in Report, TypeOK
  PROVE  Matches(NewTrack(r))
BY TimeAssumption, NoneAssumption
   DEF Matches, NewTrack, Report, TypeOK, SaidPos, SaidEmergency, IsEmergency

(* A merge takes the time along with the value, or keeps both. *)
LEMMA MergedMatches ==
  ASSUME NEW r \in Report, NEW t \in Track, TypeOK, Matches(t),
         stamp >= t.last
  PROVE  Matches(Merged(t, r))
<1>1. t.last \in Int /\ stamp \in Int
  BY TimeAssumption DEF TypeOK, Track
<1>2. /\ Merged(t, r).posTime = Merged(t, r).lat
      /\ Merged(t, r).posTime # None => Merged(t, r).posTime <= stamp
  <2>1. CASE r.pos
    BY <1>1, <2>1, NoneAssumption DEF Merged, Retain, SaidPos, TypeOK
  <2>2. CASE ~r.pos
    <3>1. Merged(t, r).posTime = t.posTime /\ Merged(t, r).lat = t.lat
      BY <2>2 DEF Merged, Retain, SaidPos
    <3>2. t.posTime # None => t.posTime \in Int
      BY TimeAssumption DEF Track
    <3>3. QED
      BY <1>1, <3>1, <3>2 DEF Matches
  <2>3. QED
    BY <2>1, <2>2
<1>3. /\ Merged(t, r).emgTime = IF IsEmergency(Merged(t, r).emergency)
                                 THEN Merged(t, r).emergency.at ELSE None
      /\ Merged(t, r).emgTime # None => Merged(t, r).emgTime <= stamp
  <2>1. CASE r.emergency = None
    <3>1. /\ Merged(t, r).emgTime = t.emgTime
          /\ Merged(t, r).emergency = t.emergency
      BY <2>1 DEF Merged, RetainEmergency, SaidEmergency
    <3>2. t.emgTime # None => t.emgTime \in Int
      BY TimeAssumption DEF Track
    <3>3. QED
      BY <1>1, <3>1, <3>2 DEF Matches
  <2>2. CASE r.emergency # None
    <3>1. /\ SaidEmergency(r) = [kind |-> r.emergency, at |-> stamp]
          /\ SaidEmergency(r) # None
      <4>1. [kind |-> r.emergency, at |-> stamp] \in Emergency
        BY <2>2, NoneAssumption DEF Emergency, Report, TypeOK
      <4>2. QED
        BY <2>2, <4>1, NoneAssumption DEF SaidEmergency
    <3>2. CASE IsEmergency(SaidEmergency(r))
      <4>1. /\ Merged(t, r).emgTime = stamp
            /\ Merged(t, r).emergency = SaidEmergency(r)
        BY <2>2, <3>1, <3>2 DEF Merged, RetainEmergency
      <4>2. QED
        BY <1>1, <3>1, <3>2, <4>1
    <3>3. CASE ~IsEmergency(SaidEmergency(r))
      <4>1. /\ Merged(t, r).emgTime = None
            /\ Merged(t, r).emergency = None
        BY <2>2, <3>1, <3>3 DEF Merged, RetainEmergency
      <4>2. QED
        BY <4>1 DEF IsEmergency
    <3>4. QED
      BY <3>2, <3>3
  <2>3. QED
    BY <2>1, <2>2
<1>4. Merged(t, r).last = stamp
  BY DEF Merged
<1>5. QED
  BY <1>2, <1>3, <1>4 DEF Matches

(* Each kept time is the time of the value it is kept for. *)
THEOREM TimesMatch == Spec => []TimesMatchData
<1> DEFINE Inv == \A i \in Known : Matches(tracks[i])
<1>1. Inv <=> TimesMatchData
  BY DEF TimesMatchData, Matches
<1>2. Init => Inv
  BY DEF Init, Known
<1>3. TypeOK /\ Inv /\ [Next]_vars => Inv'
  <2> SUFFICES ASSUME TypeOK, Inv, [Next]_vars, NEW i \in Known'
               PROVE  Matches(tracks'[i])
    BY DEF Matches, IsEmergency
  <2>1. i \in Icao /\ tracks'[i] # None
    BY DEF Known
  <2>2. ASSUME tracks'[i] = tracks[i]
        PROVE  Matches(tracks'[i])
    BY <2>1, <2>2 DEF Known
  <2>3. ASSUME NEW r \in Report, Merge(r)
        PROVE  Matches(tracks'[i])
    <3>1. CASE MergeNew(r)
      BY <2>1, <2>2, <3>1, NewTrackMatches DEF MergeNew, TypeOK
    <3>2. CASE MergeEvicting(r)
      <4>1. PICK v \in Known :
              tracks' = [tracks EXCEPT ![v] = None, ![r.icao] = NewTrack(r)]
        BY <3>2 DEF MergeEvicting
      <4>2. QED
        BY <2>1, <2>2, <4>1, NewTrackMatches DEF TypeOK, Known
    <3>3. CASE MergeRejected(r)
      BY <2>2, <3>3 DEF MergeRejected
    <3>4. CASE MergeInto(r)
      <4>1. CASE i = r.icao
        <5>1. tracks[i] \in Track /\ Matches(tracks[i]) /\ stamp >= tracks[i].last
          BY <2>1, <3>4, <4>1 DEF MergeInto, TypeOK, Known
        <5>2. tracks'[i] = Merged(tracks[i], r)
          BY <2>1, <3>4, <4>1 DEF MergeInto, TypeOK
        <5>3. QED
          BY <5>1, <5>2, MergedMatches
      <4>2. CASE i # r.icao
        BY <2>1, <2>2, <3>4, <4>2 DEF MergeInto, TypeOK
      <4>3. QED
        BY <4>1, <4>2
    <3>5. QED
      BY <2>3, <3>1, <3>2, <3>3, <3>4 DEF Merge
  <2>4. CASE Snapshot
    BY <2>1, <2>2, <2>4 DEF Snapshot
  <2>5. CASE UNCHANGED tracks
    BY <2>2, <2>5
  <2>6. QED
    BY <2>3, <2>4, <2>5 DEF Next, vars, Apply, Clock
<1>4. QED
  BY <1>1, <1>2, <1>3, TypeCorrect, PTL DEF Spec

(* What a snapshot shows is fresh when it is taken: the ages are tested on *)
(* times that, by TimesMatchData, belong to the values shown.              *)
THEOREM SnapshotsAreFresh == Spec => []ShownIsFresh
<1>1. TypeOK /\ TimesMatchData => ShownIsFresh
  <2> SUFFICES ASSUME TypeOK, TimesMatchData, NEW i \in Shown
               PROVE  LET row == Row(tracks[i]) IN
                      /\ row.lat # None => now - row.lat <= PositionStaleAge
                      /\ IsEmergency(row.emergency) =>
                           now - row.emergency.at <= EmergencyRetentionAge
                      /\ now - tracks[i].last <= RemovalAge
    BY DEF ShownIsFresh
  <2> DEFINE t == tracks[i]
  <2>1. /\ i \in Known
        /\ ~(now - t.last > RemovalAge)
        /\ t \in Track
    BY DEF Shown, Expired, Known, TypeOK
  <2>2. /\ t.posTime = t.lat
        /\ t.emgTime = IF IsEmergency(t.emergency) THEN t.emergency.at ELSE None
    BY <2>1 DEF TimesMatchData
  <2>3. /\ now \in Int
        /\ t.last \in Int
        /\ t.lat # None => t.lat \in Int
        /\ t.emergency # None => t.emergency.at \in Int /\ t.emergency.at # None
    BY <2>1, TimeAssumption, NoneAssumption DEF TypeOK, Track, Emergency
  <2>4. Row(t).lat # None => now - Row(t).lat <= PositionStaleAge
    BY <2>2, <2>3, AgesAssumption DEF Row, PositionStale
  <2>5. ASSUME IsEmergency(Row(t).emergency)
        PROVE  now - Row(t).emergency.at <= EmergencyRetentionAge
    <3>1. Row(t).emergency = t.emergency /\ ~EmergencyExpired(t)
      BY <2>5 DEF Row, IsEmergency
    <3>2. t.emgTime = t.emergency.at /\ t.emgTime # None
      BY <2>2, <2>3, <2>5, <3>1 DEF IsEmergency
    <3>3. QED
      BY <2>3, <2>5, <3>1, <3>2, AgesAssumption DEF EmergencyExpired, IsEmergency
  <2>6. now - t.last <= RemovalAge
    BY <2>1, <2>3, AgesAssumption
  <2>7. QED
    BY <2>4, <2>5, <2>6
<1>2. QED
  BY <1>1, TypeCorrect, TimesMatch, PTL

-------------------------------------------------------------------------------
(* The manager implements the table it promises.                           *)

(* The instance counts elements as this module does. *)
LEMMA SameCardinality == \A S : Table!Cardinality(S) = Cardinality(S)
BY DEF Table!Cardinality, Cardinality, Table!IsFiniteSet, IsFiniteSet

LEMMA LastSeenOfKnown ==
  ASSUME TypeOK
  PROVE  /\ Table!Held = Known
         /\ \A i \in Known : LastSeen[i] = tracks[i].last /\ LastSeen[i] \in Int
         /\ \A i \in Icao \ Known : LastSeen[i] = None
<1>1. \A i \in Known : LastSeen[i] = tracks[i].last /\ tracks[i].last \in Time
  BY DEF LastSeen, Known, TypeOK, Track
<1>2. \A i \in Icao \ Known : LastSeen[i] = None
  BY DEF LastSeen, Known
<1>3. QED
  BY <1>1, <1>2, TimeAssumption, NoneAssumption DEF Table!Held, Known

(* Every step of the manager is a step of the table, or leaves it alone. *)
THEOREM Implementation == Spec => ImplementsTable
<1>1. Init => Table!Init
  BY DEF Init, Table!Init, LastSeen
<1>2. TypeOK /\ [Next]_vars => [Table!Next]_LastSeen
  <2> SUFFICES ASSUME TypeOK, [Next]_vars
               PROVE  Table!Next \/ LastSeen' = LastSeen
    OBVIOUS
  <2>1. ASSUME tracks' = tracks
        PROVE  LastSeen' = LastSeen
    BY <2>1 DEF LastSeen
  <2>2. ASSUME NEW r \in Report
        PROVE  /\ r.icao \in Icao
               /\ stamp \in Time
               /\ NewTrack(r) # None /\ NewTrack(r).last = stamp
    BY NewTrackType, NoneAssumption DEF Report, NewTrack, TypeOK
  <2>3. ASSUME NEW r \in Report, MergeNew(r)
        PROVE  Table!Learn(r.icao, stamp)
    <3>1. LastSeen' = [LastSeen EXCEPT ![r.icao] = stamp]
      BY <2>2, <2>3 DEF MergeNew, LastSeen, TypeOK
    <3>2. r.icao \in Icao \ Known /\ Cardinality(Known) < Capacity
      BY <2>2, <2>3 DEF MergeNew, Known
    <3>3. QED
      BY <3>1, <3>2, LastSeenOfKnown, SameCardinality DEF Table!Learn
  <2>4. ASSUME NEW r \in Report, MergeEvicting(r)
        PROVE  Table!Replace(r.icao, stamp)
    <3>1. PICK v \in Known :
            /\ Oldest(v)
            /\ tracks' = [tracks EXCEPT ![v] = None, ![r.icao] = NewTrack(r)]
      BY <2>4 DEF MergeEvicting
    <3>2. LastSeen' = [LastSeen EXCEPT ![v] = None, ![r.icao] = stamp]
      BY <2>2, <3>1 DEF LastSeen, TypeOK, Known
    <3>3. Table!OldestFirst({v})
      BY <3>1, LastSeenOfKnown DEF Table!OldestFirst, Oldest
    <3>4. r.icao \in Icao \ Known /\ Cardinality(Known) >= Capacity
      BY <2>2, <2>4 DEF MergeEvicting, Known
    <3>5. QED
      BY <3>1, <3>2, <3>3, <3>4, LastSeenOfKnown, SameCardinality
         DEF Table!Replace
  <2>5. ASSUME NEW r \in Report, MergeInto(r)
        PROVE  Table!Refresh(r.icao, stamp)
    <3>1. /\ r.icao \in Known
          /\ stamp >= tracks[r.icao].last
          /\ Merged(tracks[r.icao], r) # None
          /\ Merged(tracks[r.icao], r).last = stamp
      <4>1. tracks[r.icao] \in Track
        BY <2>2, <2>5 DEF MergeInto, TypeOK
      <4>2. QED
        BY <2>2, <2>5, <4>1, MergedType, NoneAssumption
           DEF MergeInto, Known, Merged
    <3>2. LastSeen' = [LastSeen EXCEPT ![r.icao] = stamp]
      BY <2>2, <2>5, <3>1 DEF MergeInto, LastSeen, TypeOK
    <3>3. LastSeen[r.icao] # None /\ LastSeen[r.icao] <= stamp
      <4>1. tracks[r.icao] \in Track /\ LastSeen[r.icao] = tracks[r.icao].last
        BY <3>1, LastSeenOfKnown DEF Known, TypeOK
      <4>2. tracks[r.icao].last \in Time /\ tracks[r.icao].last \in Int
        BY <4>1, TimeAssumption DEF Track
      <4>3. stamp \in Int
        BY TimeAssumption DEF TypeOK
      <4>4. QED
        BY <3>1, <4>1, <4>2, <4>3, NoneAssumption
    <3>4. QED
      BY <3>2, <3>3 DEF Table!Refresh
  <2>6. CASE Snapshot
    <3>1. LastSeen' = [i \in Icao |-> IF i \in Expired THEN None ELSE LastSeen[i]]
      BY <2>6 DEF Snapshot, LastSeen
    <3>2. Table!OldestFirst(Expired)
      <4>1. now \in Int /\ Expired \subseteq Known
        BY TimeAssumption DEF TypeOK, Expired
      <4>2. ASSUME NEW i \in Expired, NEW j \in Known \ Expired
            PROVE  LastSeen[i] <= LastSeen[j]
        BY <4>1, <4>2, LastSeenOfKnown, AgesAssumption DEF Expired
      <4>3. QED
        BY <4>1, <4>2, LastSeenOfKnown DEF Table!OldestFirst
    <3>3. Expired \in SUBSET Table!Held
      BY LastSeenOfKnown DEF Expired
    <3>4. QED
      BY <3>1, <3>2, <3>3 DEF Table!Next, Table!Forget
  <2>7. CASE UNCHANGED tracks
    BY <2>1, <2>7
  <2>8. QED
    BY <2>1, <2>2, <2>3, <2>4, <2>5, <2>6, <2>7
       DEF Next, vars, Apply, Merge, MergeRejected, Clock, Table!Next
<1>3. QED
  BY <1>1, <1>2, TypeCorrect, PTL DEF Spec, ImplementsTable, Table!Spec

===============================================================================
