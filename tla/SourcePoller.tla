----------------------------- MODULE SourcePoller -----------------------------
(***************************************************************************)
(* SourcePoller of poller.py driving one source: it polls when the         *)
(* interval or the backoff has passed, keeps the last good snapshot over   *)
(* failures, and can be forced or seeded.                                  *)
(*                                                                         *)
(* step() reads the clock once, before source.poll() blocks (up to the     *)
(* request timeout), and schedules the next poll from that reading.  So a  *)
(* step is two actions with clock ticks between them: StepBegins, then     *)
(* PollReturns or PollRaises.  The reading is kept in `lastPoll`, which    *)
(* the code sets to it before it polls.  A step that is not due returns    *)
(* without a change and has no action.                                     *)
(*                                                                         *)
(* The source is "live" (FileSource, UrlSource: any poll may succeed or    *)
(* raise) or "replay" (ReplaySource: one record per poll, due when its     *)
(* timestamp is reached).  Snapshots are numbered in the order they were   *)
(* got: the number is their object identity.  Texts of errors, the error   *)
(* history and the skip count are only displayed and are left out.         *)
(***************************************************************************)
EXTENDS Integers, Sequences

CONSTANTS
  None,
  PollInterval,     (* poll_interval                                       *)
  InitialBackoff,   (* initial_backoff                                     *)
  MaxBackoff,       (* max_backoff                                         *)
  Recording,        (* Timestamps of the records of the replay file.       *)
  MaxTime,          (* Bound: the clock stops here.                        *)
  MaxSnapshots      (* Bound: snapshots got from the source.               *)

ASSUME PollerAssumption ==
  /\ PollInterval \in Nat \ {0}
  /\ InitialBackoff \in Nat \ {0}
  /\ MaxBackoff \in Nat
  /\ InitialBackoff <= MaxBackoff
  /\ Recording \in Seq(Nat)
  /\ MaxTime \in Nat
  /\ MaxSnapshots \in Nat
  /\ None \notin Nat

VARIABLES
  kind,         (* "live" or "replay"; fixed.                              *)
  now,          (* The clock.                                              *)
  pc,           (* "idle", or "polling" while source.poll() runs.          *)
  lastPoll,     (* _last_poll                                              *)
  lastSuccess,  (* _last_success                                           *)
  backoff,      (* _backoff                                                *)
  nextPoll,     (* _next_poll                                              *)
  data,         (* Number of _last_snapshot; 0 is None.                    *)
  failing,      (* _last_error is set: status().healthy is its negation.   *)
  exhausted,    (* _exhausted                                              *)
  position,     (* ReplaySource._position                                  *)
  closed,       (* _closed                                                 *)
  fails,        (* History: failures since the last success.               *)
  forced        (* History: force_poll() since the last poll began.        *)

source   == <<kind, position>>
history  == <<fails, forced>>
schedule == <<lastPoll, lastSuccess, backoff, nextPoll, failing, exhausted>>
vars     == <<source, now, pc, schedule, data, closed, history>>

(* The counter of failures stops here: by then the backoff is at its       *)
(* maximum (Doubled[k] >= k + 1).                                          *)
FailCap == MaxBackoff + 1

Min2(a, b) == IF a < b THEN a ELSE b

-------------------------------------------------------------------------------
(* Mistake: a replay whose last record is taken is due again. *)
SourceDueAtEnd ==
  kind = "replay" /\ position < Len(Recording) =>
    Recording[position + 1] <= now

(* Mistake: a record older than the one before it is waited for forever. *)
SourceDueSorted ==
  kind = "replay" =>
    /\ position < Len(Recording)
    /\ Recording[position + 1] <= now
    /\ position > 0 => Recording[position] <= Recording[position + 1]

(* is_due() of a source that has it; the others are always due. *)
SourceDue ==
  kind = "replay" =>
    /\ position < Len(Recording)
    /\ Recording[position + 1] <= now

Init ==
  /\ kind \in {"live", "replay"}
  /\ now = 0
  /\ pc = "idle"
  /\ lastPoll = None
  /\ lastSuccess = None
  /\ backoff = 0
  /\ nextPoll = None
  /\ data = 0
  /\ failing = FALSE
  /\ exhausted = FALSE
  /\ position = 0
  /\ closed = FALSE
  /\ fails = 0
  /\ forced = FALSE

TimeIsUp == nextPoll # None => now >= nextPoll

StepBegins ==
  /\ pc = "idle"
  /\ ~closed
  /\ TimeIsUp
  /\ SourceDue
  /\ data < MaxSnapshots
  /\ lastPoll' = now
  /\ pc' = "polling"
  /\ forced' = FALSE
  /\ UNCHANGED <<source, now, lastSuccess, backoff, nextPoll, failing,
                 exhausted, data, closed, fails>>

(* The next record, or whatever a live source has. *)
Fetched ==
  /\ kind = "replay" => position < Len(Recording)
  /\ data' = data + 1
  /\ position' = IF kind = "replay" THEN position + 1 ELSE position
  /\ UNCHANGED kind

(* Mistake: a success does not end the backoff. *)
AcceptKeepsBackoff(t) ==
  /\ lastSuccess' = t
  /\ failing' = FALSE
  /\ backoff' = backoff
  /\ exhausted' = FALSE
  /\ nextPoll' = t + PollInterval

(* Mistake: the next poll is not put off. *)
AcceptUnscheduled(t) ==
  /\ lastSuccess' = t
  /\ failing' = FALSE
  /\ backoff' = 0
  /\ exhausted' = FALSE
  /\ nextPoll' = t

(* A good snapshot, read for at time t: step() after poll(), and seed(). *)
Accept(t) ==
  /\ lastSuccess' = t
  /\ failing' = FALSE
  /\ backoff' = 0
  /\ exhausted' = FALSE
  /\ nextPoll' = t + PollInterval

PollReturns ==
  /\ pc = "polling"
  /\ Fetched
  /\ Accept(lastPoll)
  /\ pc' = "idle"
  /\ fails' = 0
  /\ UNCHANGED <<now, lastPoll, closed, forced>>

(* Mistake: the cap is forgotten. *)
LongerUncapped == IF backoff <= 0 THEN InitialBackoff ELSE backoff * 2

Longer ==
  IF backoff <= 0 THEN InitialBackoff ELSE Min2(MaxBackoff, backoff * 2)

(* poll() raises: a live source for any reason, a replay when it is over.  *)
PollRaises ==
  /\ pc = "polling"
  /\ kind = "replay" => position = Len(Recording)
  /\ failing' = TRUE
  /\ backoff' = Longer
  /\ nextPoll' = lastPoll + Longer
  /\ exhausted' = (kind = "replay")
  /\ pc' = "idle"
  /\ fails' = Min2(fails + 1, FailCap)
  /\ UNCHANGED <<source, now, lastPoll, lastSuccess, data, closed, forced>>

ForcePoll ==
  /\ pc = "idle"
  /\ ~closed
  /\ nextPoll' = 0
  /\ forced' = TRUE
  /\ UNCHANGED <<source, now, pc, lastPoll, lastSuccess, backoff, failing,
                 exhausted, data, closed, fails>>

(* A caller that polled the source itself installs what it got; the door   *)
(* and the Mystic front end do so before the first step.                   *)
Seed ==
  /\ pc = "idle"
  /\ lastPoll = None
  /\ ~closed
  /\ data < MaxSnapshots
  /\ Fetched
  /\ Accept(now)
  /\ lastPoll' = now
  /\ fails' = 0
  /\ forced' = FALSE
  /\ UNCHANGED <<now, pc, closed>>

(* The owner closes the poller once, after its last step. *)
Close ==
  /\ pc = "idle"
  /\ ~closed
  /\ closed' = TRUE
  /\ UNCHANGED <<source, now, pc, schedule, data, history>>

Tick ==
  /\ now < MaxTime
  /\ now' = now + 1
  /\ UNCHANGED <<source, pc, schedule, data, closed, history>>

Next ==
  \/ StepBegins
  \/ PollReturns
  \/ PollRaises
  \/ ForcePoll
  \/ Seed
  \/ Close
  \/ Tick

Spec == Init /\ [][Next]_vars

-------------------------------------------------------------------------------
(* Properties.                                                             *)

(* Type invariant of the schedule, the source position and the history. *)
TypeOK ==
  /\ kind \in {"live", "replay"}
  /\ pc \in {"idle", "polling"}
  /\ now \in Nat
  /\ {lastPoll, lastSuccess, nextPoll} \subseteq Nat \union {None}
  /\ backoff \in 0..MaxBackoff
  /\ data \in 0..MaxSnapshots
  /\ position \in 0..Len(Recording)
  /\ fails \in 0..FailCap
  /\ failing \in BOOLEAN /\ exhausted \in BOOLEAN
  /\ closed \in BOOLEAN /\ forced \in BOOLEAN

(* The initial backoff doubled n times. *)
Doubled[n \in Nat] == IF n = 0 THEN InitialBackoff ELSE 2 * Doubled[n - 1]

(* docs/m3-sources.md:54-55: retries back off from the initial to the      *)
(* maximum delay and reset after a success.  After n failures in a row the *)
(* delay is the initial one doubled n-1 times and capped, whatever         *)
(* interval, forced polls and seeds came between.                          *)
BackoffLaw ==
  backoff = IF fails = 0 THEN 0 ELSE Min2(MaxBackoff, Doubled[fails - 1])

(* What the poller waits after the beginning of its last poll. *)
Delay == IF failing THEN backoff ELSE PollInterval

(* Between two steps, unless a poll was forced, the next poll is planned   *)
(* one delay after the beginning of the last one; a forced poll is planned *)
(* at once; and health, backoff and last success agree with each other.    *)
ScheduleConsistent ==
  /\ pc = "idle" =>
       nextPoll = IF forced THEN 0
                  ELSE IF lastPoll = None THEN None
                  ELSE lastPoll + Delay
  /\ failing <=> backoff > 0
  /\ data = 0 <=> lastSuccess = None
  /\ lastPoll # None => lastPoll <= now
  /\ lastSuccess # None => lastPoll # None /\ lastSuccess <= lastPoll

(* No poll begins less than one delay after the beginning of the one       *)
(* before, unless it was asked for: however long polls take and however    *)
(* they end, a source is not polled more often than configured.            *)
PollSpacing ==
  [][pc = "idle" /\ pc' = "polling" /\ lastPoll # None /\ ~forced
       => now >= lastPoll + Delay]_vars

(* A replay hands out its records one by one and in order, and never       *)
(* before their timestamp has been reached, the startup poll apart: the    *)
(* number of snapshots got is the position, and a poll that runs was begun *)
(* for a record that was due.  What is told when the records are used up   *)
(* is not its subject.                                                     *)
ReplayInOrder ==
  kind = "replay" =>
    /\ data = position
    /\ pc = "polling" =>
         position < Len(Recording) /\ Recording[position + 1] <= lastPoll

===============================================================================
