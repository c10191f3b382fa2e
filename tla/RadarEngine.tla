----------------------------- MODULE RadarEngine ------------------------------
(***************************************************************************)
(* RadarEngine of radar/engine.py: one poller (SourcePoller.tla) and one   *)
(* track manager (TrackManager.tla) on one clock.  step() lets the poller  *)
(* step and merges its snapshot if it is not the one merged last; frame()  *)
(* takes two snapshots of the tracks, one for the items and one for the    *)
(* summary, at two readings of the clock.                                  *)
(*                                                                         *)
(* The engine is single-threaded but slow calls let time pass: `phase`     *)
(* says which call is running, and Tick may come between its actions.      *)
(***************************************************************************)
EXTENDS Integers, Sequences, FiniteSets

CONSTANTS
  None, PollInterval, InitialBackoff, MaxBackoff, Recording, MaxTime,
  MaxSnapshots, Icao, MaxTracksArg, PositionStaleAge, AircraftStaleAge,
  RemovalAge, EmergencyRetentionAge, MaxBatch

ASSUME EngineAssumption ==
  /\ MaxTime \in Nat /\ MaxSnapshots \in Nat /\ MaxBatch \in Nat
  /\ Recording \in Seq(0..MaxTime)

VARIABLES
  (* The poller and its source. *)
  kind, now, pc, lastPoll, lastSuccess, backoff, nextPoll, data, failing,
  exhausted, position, closed, fails, forced,
  (* The track manager. *)
  tracks, stamp, todo,
  (* The engine. *)
  paused,       (* The session does not call step(): the pause key.        *)
  phase,        (* "ready", "step", "merge" or "frame".                    *)
  taken,        (* Timestamp the source gave snapshot number `data`.       *)
  lastApplied,  (* Number of _last_applied; 0 is None.                     *)
  applies       (* History: calls of tracks.apply().                       *)

Time == 0..MaxTime

P == INSTANCE SourcePoller
T == INSTANCE TrackManager

pollerVars == <<kind, pc, lastPoll, lastSuccess, backoff, nextPoll, data,
                failing, exhausted, position, closed, fails, forced>>
trackVars  == <<tracks, stamp, todo>>
engineVars == <<paused, phase, taken, lastApplied, applies>>
vars       == <<pollerVars, trackVars, engineVars, now>>

Init ==
  /\ P!Init
  /\ T!Init
  /\ stamp = 0
  /\ paused = FALSE
  /\ phase = "ready"
  /\ taken = 0
  /\ lastApplied = 0
  /\ applies = 0

-------------------------------------------------------------------------------
(* step().                                                                 *)

(* Mistake: the poll is stamped with a time the document carries. *)
TakenElsewhere == MaxTime - now

(* FileSource and UrlSource stamp a document when they have read it, a     *)
(* replay record carries its time.                                         *)
Taken == IF kind = "replay" THEN Recording[position + 1] ELSE now

StepPolls ==
  /\ phase = "ready" /\ ~paused
  /\ P!StepBegins
  /\ phase' = "step"
  /\ UNCHANGED <<trackVars, paused, taken, lastApplied, applies>>

(* The poller's step returns at once: the poll is not due. *)
StepSkips ==
  /\ phase = "ready" /\ ~paused
  /\ ~closed
  /\ ~(P!TimeIsUp /\ P!SourceDue)
  /\ phase' = "step"
  /\ UNCHANGED <<pollerVars, trackVars, paused, taken, lastApplied, applies,
                 now>>

PollReturns ==
  /\ P!PollReturns
  /\ taken' = Taken
  /\ UNCHANGED <<trackVars, paused, phase, lastApplied, applies>>

PollRaises ==
  /\ P!PollRaises
  /\ UNCHANGED <<trackVars, engineVars>>

(* Mistake: the last snapshot is merged again and again. *)
AnySnapshot == data # 0

NewSnapshot == data # 0 /\ data # lastApplied

(* tracks.apply() begins, with as many observations as the snapshot has.   *)
ApplySnapshot(n) ==
  /\ T!Apply(taken, n)
  /\ lastApplied' = data
  /\ applies' = applies + 1
  /\ phase' = IF n = 0 THEN "ready" ELSE "merge"
  /\ UNCHANGED <<pollerVars, paused, taken>>

StepApplies ==
  /\ phase = "step" /\ pc = "idle"
  /\ NewSnapshot
  /\ \E n \in 0..MaxBatch : ApplySnapshot(n)

StepHasNothing ==
  /\ phase = "step" /\ pc = "idle"
  /\ ~NewSnapshot
  /\ phase' = "ready"
  /\ UNCHANGED <<pollerVars, trackVars, paused, taken, lastApplied, applies,
                 now>>

Merge(r) ==
  /\ phase = "merge"
  /\ T!Merge(r)
  /\ phase' = IF todo = 1 THEN "ready" ELSE "merge"
  /\ UNCHANGED <<pollerVars, paused, taken, lastApplied, applies>>

-------------------------------------------------------------------------------
(* Start, frame(), the refresh key, and the end.                           *)

(* The front end polls once itself and seeds the poller with the result... *)
Seed ==
  /\ phase = "ready" /\ ~paused
  /\ applies = 0
  /\ P!Seed
  /\ taken' = Taken
  /\ phase' = "seeded"
  /\ UNCHANGED <<trackVars, paused, lastApplied, applies>>

(* ... and merges it with apply_manual(), which does not look at what was  *)
(* merged before.                                                          *)
ApplyManual ==
  /\ phase = "seeded"
  /\ \E n \in 0..MaxBatch : ApplySnapshot(n)

(* tracks.snapshot() for the items, then tracks.summary() for the counts.  *)
FrameItems ==
  /\ phase = "ready"
  /\ ~closed
  /\ T!Snapshot
  /\ phase' = "frame"
  /\ UNCHANGED <<pollerVars, paused, taken, lastApplied, applies>>

FrameSummary ==
  /\ phase = "frame"
  /\ T!Snapshot
  /\ phase' = "ready"
  /\ UNCHANGED <<pollerVars, paused, taken, lastApplied, applies>>

ForcePoll ==
  /\ phase = "ready"
  /\ P!ForcePoll
  /\ UNCHANGED <<trackVars, engineVars>>

(* The pause key: frame(), the refresh key and close() are called as ever. *)
Pause ==
  /\ phase = "ready" /\ ~closed
  /\ paused' = ~paused
  /\ UNCHANGED <<pollerVars, trackVars, phase, taken, lastApplied, applies, now>>

Close ==
  /\ phase = "ready"
  /\ P!Close
  /\ UNCHANGED <<trackVars, engineVars>>

Tick ==
  /\ P!Tick
  /\ UNCHANGED <<trackVars, engineVars>>

Calls ==
  \/ StepPolls
  \/ StepSkips
  \/ PollReturns
  \/ PollRaises
  \/ StepApplies
  \/ StepHasNothing
  \/ \E r \in T!Report : Merge(r)
  \/ Seed
  \/ ApplyManual
  \/ FrameItems
  \/ FrameSummary
  \/ ForcePoll
  \/ Pause
  \/ Close

Next == Calls \/ Tick

Spec == Init /\ [][Next]_vars

(* Unless it is paused the runtime loop calls step() many times per time   *)
(* unit, and a replay poll does not block, so a record that is due is      *)
(* polled before the clock moves on; a live source may keep the loop       *)
(* waiting for any time.  Every call of a replay ends, steps are called    *)
(* again and again while the session is not paused, and the clock runs on. *)
ReplayWaits ==
  /\ kind = "replay" /\ ~closed /\ ~paused
  /\ pc = "polling" \/ (P!TimeIsUp /\ P!SourceDue)

(* Bound: a pause leaves a replay the time its records still need before   *)
(* the clock is at MaxTime.                                                *)
PauseFits ==
  kind = "replay" /\ paused =>
    now + PollInterval * (Len(Recording) - position - 1) < MaxTime

PromptTick == ~ReplayWaits /\ PauseFits /\ Tick

FairSpec ==
  /\ Init /\ [][Calls \/ PromptTick]_vars
  /\ WF_vars(PromptTick)
  /\ SF_vars(StepPolls)
  /\ WF_vars(PollReturns \/ PollRaises)
  /\ WF_vars(StepApplies \/ StepHasNothing)
  /\ WF_vars(\E r \in T!Report : Merge(r))
  /\ WF_vars(ApplyManual)
  /\ WF_vars(FrameSummary)

-------------------------------------------------------------------------------
(* Properties.                                                             *)

(* Each snapshot the poller gets reaches the tracks exactly once and in    *)
(* order, whether it was seeded at the start or polled: when the engine is *)
(* between two calls as many have been applied as were got, and a snapshot *)
(* kept over an outage is not merged a second time (which would bring back *)
(* tracks that have expired).                                              *)
AppliedOnce ==
  /\ applies = lastApplied
  /\ phase \in {"ready", "merge", "frame"} => lastApplied = data
  /\ data <= lastApplied + 1

(* While the clock does not go back, an observation of a live source is    *)
(* never rejected as out of order: a poll is stamped after it was made,    *)
(* and merged before the next one.                                         *)
LiveNeverRejected ==
  kind = "live" /\ phase = "merge" =>
    \A i \in Icao : tracks[i] # None => tracks[i].last <= stamp

(* A replay plays to its end: each of its records is polled and merged,    *)
(* even one that is older than the record before it, whatever the user     *)
(* presses; only closing it or a pause that is never ended stops it.       *)
ReplayCompletes ==
  kind = "replay" ~>
    \/ closed
    \/ position = Len(Recording) /\ lastApplied = position
    \/ []paused

===============================================================================
