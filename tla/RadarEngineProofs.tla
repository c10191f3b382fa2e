--------------------------- MODULE RadarEngineProofs --------------------------
(***************************************************************************)
(* Proofs about RadarEngine.tla: every snapshot is merged once, and no     *)
(* observation of a live source is rejected.                               *)
(***************************************************************************)
EXTENDS RadarEngine, TLAPS

(* Types of what the composition reads across its parts. *)
Ranges ==
  /\ now \in Time
  /\ taken \in Time
  /\ position \in 0..Len(Recording)

(* The engine is the poller's only caller, and what it has merged is what  *)
(* the poller got, but for the snapshot that step() or the seeding has     *)
(* just brought.                                                           *)
Counts ==
  /\ data \in Nat /\ lastApplied \in Nat /\ applies \in Nat
  /\ phase \in {"ready", "seeded", "step", "merge", "frame"}
  /\ pc \in {"idle", "polling"}
  /\ pc = "polling" => phase = "step" /\ data = lastApplied
  /\ applies = lastApplied
  /\ phase \in {"ready", "merge", "frame"} => data = lastApplied
  /\ phase = "seeded" => data = lastApplied + 1
  /\ lastApplied <= data /\ data <= lastApplied + 1

LEMMA RecordingTimes ==
  /\ Len(Recording) \in Nat
  /\ \A k \in 1..Len(Recording) : Recording[k] \in Time
  BY EngineAssumption DEF Time

-------------------------------------------------------------------------------
LEMMA InitRanges == Init => Ranges
  BY EngineAssumption, RecordingTimes DEF Init, P!Init, Ranges, Time

LEMMA NextRanges == Ranges /\ [Next]_vars => Ranges'
<1> SUFFICES ASSUME Ranges, [Next]_vars PROVE Ranges'
  OBVIOUS
<1> USE EngineAssumption, RecordingTimes DEF Ranges, Time
<1>1. CASE StepPolls
  BY <1>1 DEF StepPolls, P!StepBegins, P!source
<1>2. CASE StepSkips
  BY <1>2 DEF StepSkips, pollerVars
<1>3. CASE PollReturns
  BY <1>3 DEF PollReturns, P!PollReturns, P!Fetched, Taken
<1>4. CASE PollRaises
  BY <1>4 DEF PollRaises, P!PollRaises, P!source, engineVars
<1>5. CASE StepApplies
  BY <1>5 DEF StepApplies, ApplySnapshot, T!Apply, pollerVars
<1>6. CASE StepHasNothing
  BY <1>6 DEF StepHasNothing, pollerVars
<1>7. CASE \E r \in T!Report : Merge(r)
  BY <1>7 DEF Merge, T!Merge, T!MergeNew, T!MergeEvicting, T!MergeRejected,
       T!MergeInto, T!Merging, pollerVars
<1>8. CASE Seed
  BY <1>8 DEF Seed, P!Seed, P!Fetched, Taken
<1>9. CASE ApplyManual
  BY <1>9 DEF ApplyManual, ApplySnapshot, T!Apply, pollerVars
<1>10. CASE FrameItems
  BY <1>10 DEF FrameItems, T!Snapshot, pollerVars
<1>11. CASE FrameSummary
  BY <1>11 DEF FrameSummary, T!Snapshot, pollerVars
<1>12. CASE ForcePoll
  BY <1>12 DEF ForcePoll, P!ForcePoll, P!source, engineVars
<1>13. CASE Close
  BY <1>13 DEF Close, P!Close, P!source, engineVars
<1>14. CASE Tick
  BY <1>14 DEF Tick, P!Tick, P!source, engineVars
<1>15. CASE Pause
  BY <1>15 DEF Pause, pollerVars
<1>16. CASE UNCHANGED vars
  BY <1>16 DEF vars, pollerVars, engineVars
<1>17. QED
  BY <1>1, <1>2, <1>3, <1>4, <1>5, <1>6, <1>7, <1>8, <1>9, <1>10, <1>11, <1>12,
     <1>13, <1>14, <1>15, <1>16 DEF Next, Calls

-------------------------------------------------------------------------------
LEMMA InitCounts == Init => Counts
  BY DEF Init, P!Init, Counts

LEMMA NextCounts == Counts /\ [Next]_vars => Counts'
<1> SUFFICES ASSUME Counts, [Next]_vars PROVE Counts'
  OBVIOUS
<1> USE DEF Counts
<1>1. CASE StepPolls
  BY <1>1 DEF StepPolls, P!StepBegins
<1>2. CASE StepSkips
  <2>1. pc = "polling" => FALSE
    BY <1>2 DEF StepSkips
  <2>2. QED
    BY <1>2, <2>1 DEF StepSkips, pollerVars
<1>3. CASE PollReturns
  BY <1>3 DEF PollReturns, P!PollReturns, P!Fetched
<1>4. CASE PollRaises
  BY <1>4 DEF PollRaises, P!PollRaises, engineVars
<1>5. CASE StepApplies
  BY <1>5 DEF StepApplies, NewSnapshot, ApplySnapshot, pollerVars
<1>6. CASE StepHasNothing
  BY <1>6 DEF StepHasNothing, NewSnapshot, pollerVars
<1>7. CASE \E r \in T!Report : Merge(r)
  BY <1>7 DEF Merge, pollerVars
<1>8. CASE Seed
  <2>1. /\ pc' = pc /\ pc = "idle" /\ data' = data + 1
        /\ phase = "ready" /\ phase' = "seeded"
        /\ lastApplied' = lastApplied /\ applies' = applies
    BY <1>8 DEF Seed, P!Seed, P!Fetched
  <2>2. QED
    BY <2>1
<1>9. CASE ApplyManual
  BY <1>9 DEF ApplyManual, ApplySnapshot, pollerVars
<1>10. CASE FrameItems
  BY <1>10 DEF FrameItems, pollerVars
<1>11. CASE FrameSummary
  BY <1>11 DEF FrameSummary, pollerVars
<1>12. CASE ForcePoll
  BY <1>12 DEF ForcePoll, P!ForcePoll, engineVars
<1>13. CASE Close
  BY <1>13 DEF Close, P!Close, engineVars
<1>14. CASE Tick
  BY <1>14 DEF Tick, P!Tick, engineVars
<1>15. CASE Pause
  BY <1>15 DEF Pause, pollerVars
<1>16. CASE UNCHANGED vars
  BY <1>16 DEF vars, pollerVars, engineVars
<1>17. QED
  BY <1>1, <1>2, <1>3, <1>4, <1>5, <1>6, <1>7, <1>8, <1>9, <1>10, <1>11, <1>12,
     <1>13, <1>14, <1>15, <1>16 DEF Next, Calls

(* Every snapshot the poller gets is merged exactly once and in order, for *)
(* every recording, schedule and table size.                               *)
THEOREM EverySnapshotOnce == Spec => []AppliedOnce
<1>1. Counts => AppliedOnce
  BY DEF Counts, AppliedOnce
<1>2. QED
  BY InitCounts, NextCounts, <1>1, PTL DEF Spec

-------------------------------------------------------------------------------
(* The order of the times of a live source: what the tracks hold is not    *)
(* later than the stamp of the snapshot merged last, that not later than   *)
(* the one got last, and that not later than the clock.                    *)

Held(s) ==
  /\ tracks = [i \in Icao |-> tracks[i]]
  /\ \A i \in Icao : tracks[i] # None => tracks[i].last \in Int /\ tracks[i].last <= s

LiveOrder ==
  /\ stamp \in Time
  /\ kind = "live" => stamp <= taken /\ taken <= now /\ Held(stamp)

LEMMA InitOrder == Init => LiveOrder
  BY EngineAssumption DEF Init, P!Init, T!Init, LiveOrder, Held, Time

(* One observation merged. *)
LEMMA MergeHeld ==
  ASSUME NEW r \in T!Report, T!Merge(r), stamp \in Int, Held(stamp)
  PROVE  Held(stamp)' /\ stamp' = stamp
<1> USE DEF Held
<1>0. stamp' = stamp /\ r.icao \in Icao
  BY DEF T!Merge, T!MergeNew, T!MergeEvicting, T!MergeRejected, T!MergeInto,
     T!Merging, T!Report
<1>1. T!NewTrack(r).last = stamp /\ \A t : T!Merged(t, r).last = stamp
  BY DEF T!NewTrack, T!Merged
<1>2. CASE T!MergeNew(r)
  BY <1>0, <1>1, <1>2 DEF T!MergeNew
<1>3. CASE T!MergeEvicting(r)
  <2>1. PICK v \in T!Known :
          tracks' = [tracks EXCEPT ![v] = None, ![r.icao] = T!NewTrack(r)]
    BY <1>3 DEF T!MergeEvicting
  <2> DEFINE emptied == [tracks EXCEPT ![v] = None]
  <2>2. emptied = [i \in Icao |-> emptied[i]]
    OBVIOUS
  <2>3. \A i \in Icao : emptied[i] # None =>
          emptied[i].last \in Int /\ emptied[i].last <= stamp
    OBVIOUS
  <2>4. tracks' = [emptied EXCEPT ![r.icao] = T!NewTrack(r)]
    BY <2>1
  <2>5. QED
    <3> HIDE DEF emptied
    <3>1. QED
      BY <1>0, <1>1, <2>2, <2>3, <2>4
<1>4. CASE T!MergeRejected(r)
  BY <1>0, <1>4 DEF T!MergeRejected
<1>5. CASE T!MergeInto(r)
  BY <1>0, <1>1, <1>5 DEF T!MergeInto
<1>6. QED
  BY <1>2, <1>3, <1>4, <1>5 DEF T!Merge

(* A snapshot only takes tracks away. *)
LEMMA SnapshotHeld ==
  ASSUME T!Snapshot, Held(stamp)
  PROVE  Held(stamp)' /\ stamp' = stamp /\ now' = now
BY DEF T!Snapshot, Held

LEMMA NextOrder == Ranges /\ Ranges' /\ LiveOrder /\ [Next]_vars => LiveOrder'
<1> SUFFICES ASSUME Ranges, Ranges', LiveOrder, [Next]_vars PROVE LiveOrder'
  OBVIOUS
<1> USE EngineAssumption DEF LiveOrder, Time, Ranges, trackVars
<1>1. CASE StepPolls
  BY <1>1 DEF StepPolls, P!StepBegins, P!source, Held
<1>2. CASE StepSkips
  BY <1>2 DEF StepSkips, pollerVars, Held
<1>3. CASE PollReturns
  BY <1>3 DEF PollReturns, P!PollReturns, P!Fetched, Taken, Held
<1>4. CASE PollRaises
  BY <1>4 DEF PollRaises, P!PollRaises, P!source, engineVars, Held
<1>5. CASE StepApplies
  BY <1>5 DEF StepApplies, ApplySnapshot, T!Apply, pollerVars, Held
<1>6. CASE StepHasNothing
  BY <1>6 DEF StepHasNothing, pollerVars, Held
<1>7. CASE \E r \in T!Report : Merge(r)
  <2>1. PICK r \in T!Report : Merge(r)
    BY <1>7
  <2>2. stamp' = stamp /\ now' = now
    BY <2>1 DEF Merge, T!Merge, T!MergeNew, T!MergeEvicting, T!MergeRejected,
       T!MergeInto, T!Merging
  <2>3. kind' = kind /\ taken' = taken
    BY <2>1 DEF Merge, pollerVars
  <2>4. kind = "live" => Held(stamp)'
    BY <2>1, MergeHeld DEF Merge
  <2>5. QED
    BY <2>2, <2>3, <2>4
<1>8. CASE Seed
  BY <1>8 DEF Seed, P!Seed, P!Fetched, Taken, Held
<1>9. CASE ApplyManual
  BY <1>9 DEF ApplyManual, ApplySnapshot, T!Apply, pollerVars, Held
<1>10. CASE FrameItems \/ FrameSummary
  <2>1. T!Snapshot /\ kind' = kind /\ taken' = taken
    BY <1>10 DEF FrameItems, FrameSummary, pollerVars
  <2>2. stamp' = stamp /\ now' = now
    BY <2>1 DEF T!Snapshot
  <2>3. kind = "live" => Held(stamp)'
    BY <2>1, SnapshotHeld
  <2>4. QED
    BY <2>1, <2>2, <2>3
<1>11. CASE ForcePoll
  BY <1>11 DEF ForcePoll, P!ForcePoll, P!source, engineVars, Held
<1>12. CASE Close
  BY <1>12 DEF Close, P!Close, P!source, engineVars, Held
<1>13. CASE Tick
  BY <1>13 DEF Tick, P!Tick, P!source, engineVars, Held
<1>14. CASE Pause
  BY <1>14 DEF Pause, pollerVars, Held
<1>15. CASE UNCHANGED vars
  BY <1>15 DEF vars, pollerVars, engineVars, Held
<1>16. QED
  BY <1>1, <1>2, <1>3, <1>4, <1>5, <1>6, <1>7, <1>8, <1>9, <1>10, <1>11, <1>12,
     <1>13, <1>14, <1>15 DEF Next, Calls

(* No observation of a live source is rejected as out of order, however    *)
(* long the polls block and whenever the caller seeds or forces one.       *)
THEOREM LiveIsNeverRejected == Spec => []LiveNeverRejected
<1>1. LiveOrder => LiveNeverRejected
  BY DEF LiveOrder, Held, LiveNeverRejected
<1>2. QED
  BY InitRanges, NextRanges, InitOrder, NextOrder, <1>1, PTL DEF Spec

===============================================================================
