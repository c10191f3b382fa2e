-------------------------- MODULE SourcePollerProofs --------------------------
(***************************************************************************)
(* Proofs about SourcePoller.tla for every interval, every backoff and     *)
(* every recording: the type invariant, the consistency of the schedule,   *)
(* the spacing of polls, the law of the backoff and the order of a replay. *)
(***************************************************************************)
EXTENDS SourcePoller, WellFoundedInduction, TLAPS

(* The next delay is a proper one. *)
LEMMA LongerType ==
  ASSUME backoff \in 0..MaxBackoff
  PROVE  Longer \in 1..MaxBackoff
BY PollerAssumption DEF Longer, Min2

LEMMA RecordingLength == Len(Recording) \in Nat
BY PollerAssumption

(* What is known while source.poll() runs: the reading of the clock is in  *)
(* lastPoll, the poll is not a forced one any more, and a replay has a     *)
(* record that is due.                                                     *)
WhilePolling ==
  pc = "polling" =>
    /\ lastPoll \in Nat
    /\ data < MaxSnapshots
    /\ ~forced
    /\ kind = "replay" => /\ position < Len(Recording)
                          /\ Recording[position + 1] <= lastPoll

TypeInv == TypeOK /\ WhilePolling

LEMMA InitType == Init => TypeInv
<1> SUFFICES ASSUME Init PROVE TypeInv
  OBVIOUS
<1>1. {lastPoll, lastSuccess, nextPoll} \subseteq Nat \union {None}
  BY DEF Init
<1>2. /\ position \in 0..Len(Recording)
      /\ data \in 0..MaxSnapshots
      /\ backoff \in 0..MaxBackoff
      /\ fails \in 0..FailCap
  BY RecordingLength, PollerAssumption DEF Init, FailCap
<1>3. QED
  BY <1>1, <1>2 DEF Init, TypeInv, TypeOK, WhilePolling

(* Fetched leaves a number and a position in range. *)
LEMMA FetchedType ==
  ASSUME TypeOK, Fetched, data < MaxSnapshots
  PROVE  /\ data' \in 0..MaxSnapshots
         /\ position' \in 0..Len(Recording)
         /\ kind' \in {"live", "replay"}
BY RecordingLength, PollerAssumption DEF Fetched, TypeOK

LEMMA NextType == TypeInv /\ [Next]_vars => TypeInv'
<1> SUFFICES ASSUME TypeInv, [Next]_vars
             PROVE  TypeInv'
  OBVIOUS
<1> USE DEF TypeInv
<1>1. CASE StepBegins
  BY <1>1 DEF StepBegins, SourceDue, source, TypeOK, WhilePolling
<1>2. CASE PollReturns
  <2>1. /\ lastPoll \in Nat
        /\ data < MaxSnapshots
    BY <1>2 DEF PollReturns, WhilePolling
  <2>2. {lastPoll', lastSuccess', nextPoll'} \subseteq Nat \union {None}
    BY <1>2, <2>1, PollerAssumption DEF PollReturns, Accept, TypeOK
  <2>3. /\ backoff' \in 0..MaxBackoff
        /\ fails' \in 0..FailCap
    BY <1>2, PollerAssumption DEF PollReturns, Accept, FailCap
  <2>4. QED
    BY <1>2, <2>1, <2>2, <2>3, FetchedType
       DEF PollReturns, Accept, TypeOK, WhilePolling
<1>3. CASE PollRaises
  <2>1. lastPoll \in Nat
    BY <1>3 DEF PollRaises, WhilePolling
  <2>2. Longer \in 1..MaxBackoff
    BY LongerType DEF TypeOK
  <2>3. {lastPoll', lastSuccess', nextPoll'} \subseteq Nat \union {None}
    BY <1>3, <2>1, <2>2, PollerAssumption DEF PollRaises, TypeOK
  <2>4. /\ backoff' \in 0..MaxBackoff
        /\ fails' \in 0..FailCap
    BY <1>3, <2>2, PollerAssumption DEF PollRaises, FailCap, Min2, TypeOK
  <2>5. QED
    BY <1>3, <2>3, <2>4 DEF PollRaises, source, TypeOK, WhilePolling
<1>4. CASE ForcePoll
  BY <1>4 DEF ForcePoll, source, TypeOK, WhilePolling
<1>5. CASE Seed
  <2>1. {lastPoll', lastSuccess', nextPoll'} \subseteq Nat \union {None}
    BY <1>5, PollerAssumption DEF Seed, Accept, TypeOK
  <2>2. /\ backoff' \in 0..MaxBackoff
        /\ fails' \in 0..FailCap
    BY <1>5, PollerAssumption DEF Seed, Accept, FailCap
  <2>3. QED
    BY <1>5, <2>1, <2>2, FetchedType DEF Seed, Accept, TypeOK, WhilePolling
<1>6. CASE Close
  BY <1>6 DEF Close, source, schedule, history, TypeOK, WhilePolling
<1>7. CASE Tick
  BY <1>7 DEF Tick, source, schedule, history, TypeOK, WhilePolling
<1>8. CASE UNCHANGED vars
  BY <1>8 DEF vars, source, schedule, history, TypeOK, WhilePolling
<1>9. QED
  BY <1>1, <1>2, <1>3, <1>4, <1>5, <1>6, <1>7, <1>8 DEF Next

(* The schedule, the source position and the history keep their types. *)
THEOREM TypeCorrect == Spec => []TypeOK
<1>1. TypeInv => TypeOK
  BY DEF TypeInv
<1>2. QED
  BY <1>1, InitType, NextType, PTL DEF Spec

-------------------------------------------------------------------------------
(* The schedule.                                                           *)

(* ScheduleConsistent is inductive together with the facts that hold while *)
(* polling.                                                                *)
LEMMA NextSchedule ==
  TypeInv /\ ScheduleConsistent /\ [Next]_vars => ScheduleConsistent'
<1> SUFFICES ASSUME TypeInv, ScheduleConsistent, [Next]_vars
             PROVE  ScheduleConsistent'
  OBVIOUS
<1> USE DEF TypeInv, ScheduleConsistent, Delay
<1>1. CASE StepBegins
  BY <1>1, PollerAssumption DEF StepBegins, TypeOK
<1>2. CASE PollReturns
  <2>1. lastPoll \in Nat /\ ~forced
    BY <1>2 DEF PollReturns, WhilePolling
  <2>2. QED
    BY <1>2, <2>1, PollerAssumption DEF PollReturns, Fetched, Accept, TypeOK
<1>3. CASE PollRaises
  <2>1. lastPoll \in Nat /\ ~forced
    BY <1>3 DEF PollRaises, WhilePolling
  <2>2. Longer \in 1..MaxBackoff
    BY LongerType DEF TypeOK
  <2>3. QED
    BY <1>3, <2>1, <2>2, PollerAssumption DEF PollRaises, TypeOK
<1>4. CASE ForcePoll
  BY <1>4 DEF ForcePoll
<1>5. CASE Seed
  BY <1>5, PollerAssumption DEF Seed, Fetched, Accept, TypeOK
<1>6. CASE Close
  BY <1>6 DEF Close, schedule, history
<1>7. CASE Tick
  BY <1>7, PollerAssumption DEF Tick, schedule, history, TypeOK
<1>8. CASE UNCHANGED vars
  BY <1>8 DEF vars, schedule, history
<1>9. QED
  BY <1>1, <1>2, <1>3, <1>4, <1>5, <1>6, <1>7, <1>8 DEF Next

(* What is planned follows from how the last poll ended. *)
THEOREM ScheduleIsConsistent == Spec => []ScheduleConsistent
<1>1. Init => ScheduleConsistent
  BY DEF Init, ScheduleConsistent
<1>2. QED
  BY <1>1, InitType, NextType, NextSchedule, PTL DEF Spec

(* A source is never polled sooner than the configured delay allows. *)
THEOREM PollsAreSpaced == Spec => PollSpacing
<1> DEFINE Spaced == pc = "idle" /\ pc' = "polling" /\ lastPoll # None /\ ~forced
                       => now >= lastPoll + Delay
<1>1. TypeInv /\ ScheduleConsistent /\ [Next]_vars => [Spaced]_vars
  <2> SUFFICES ASSUME TypeInv, ScheduleConsistent, Next,
                      pc = "idle", pc' = "polling", lastPoll # None, ~forced
               PROVE  now >= lastPoll + Delay
    OBVIOUS
  <2>1. StepBegins
    BY DEF Next, PollReturns, PollRaises, ForcePoll, Seed, Close, Tick
  <2>2. nextPoll = lastPoll + Delay /\ nextPoll # None
    BY PollerAssumption DEF ScheduleConsistent, Delay, TypeInv, TypeOK
  <2>3. QED
    BY <2>1, <2>2 DEF StepBegins, TimeIsUp
<1>2. Init => ScheduleConsistent
  BY DEF Init, ScheduleConsistent
<1>3. QED
  BY <1>1, <1>2, InitType, NextType, NextSchedule, PTL DEF Spec, PollSpacing

-------------------------------------------------------------------------------
(* The law of the backoff.  It needs what the recursive function Doubled   *)
(* computes, hence an induction over the natural numbers: on the set of    *)
(* the numbers a statement holds of, since a statement cannot be passed.   *)

Less == OpToRel(<, Nat)
(* The relation the library proves well-founded is < on Nat. *)
LEMMA LessDef == \A m, n \in Nat : <<m, n>> \in Less <=> m < n
BY DEF Less, OpToRel

LEMMA LessWF == IsWellFoundedOn(Less, Nat)
BY NatLessThanWellFounded DEF Less

(* A set of numbers that has 0 and every successor has them all: of its   *)
(* complement take the least member.                                       *)
LEMMA SetInduction ==
  ASSUME NEW T, 0 \in T, \A n \in Nat : n \in T => n + 1 \in T
  PROVE  Nat \subseteq T
<1> DEFINE U == Nat \ T
<1>1. SUFFICES ASSUME U # {} PROVE FALSE
  OBVIOUS
<1>2. PICK x \in U : \A y \in U : ~ (<<y, x>> \in Less)
  <2> HIDE DEF U
  <2>1. U \subseteq Nat
    BY DEF U
  <2>2. QED
  BY <1>1, <2>1, WFMin, LessWF
<1>3. x # 0 /\ x \in Nat
  OBVIOUS
<1>4. x - 1 \in Nat /\ x - 1 < x
  BY <1>3
<1>5. x - 1 \notin U
  BY <1>2, <1>3, <1>4, LessDef
<1>6. x - 1 \in T
  BY <1>4, <1>5
<1>7. QED
  BY <1>3, <1>4, <1>6

(* g holds the delays after up to n doublings. *)
Delays(n, g) ==
  /\ g \in [0..n -> Nat]
  /\ \A i \in 0..n : g[i] = IF i = 0 THEN InitialBackoff ELSE 2 * g[i - 1]

LEMMA OneMoreDelay ==
  ASSUME NEW n \in Nat, NEW g, Delays(n, g)
  PROVE  \E h : Delays(n + 1, h)
<1> DEFINE h == [i \in 0..(n + 1) |-> IF i = n + 1 THEN 2 * g[n] ELSE g[i]]
<1>1. h[n + 1] = 2 * g[n] /\ \A i \in 0..n : h[i] = g[i]
  OBVIOUS
<1>2. h \in [0..(n + 1) -> Nat]
  BY DEF Delays
<1> HIDE DEF h
<1>3. ASSUME NEW i \in 0..(n + 1)
      PROVE  h[i] = IF i = 0 THEN InitialBackoff ELSE 2 * h[i - 1]
  <2>1. CASE i = n + 1
    BY <1>1, <2>1
  <2>2. CASE i = 0
    BY <1>1, <2>2 DEF Delays
  <2>3. CASE i \in 1..n
    <3>1. i \in 0..n /\ i - 1 \in 0..n /\ i # 0
      BY <2>3
    <3>2. QED
      BY <1>1, <3>1 DEF Delays
  <2>4. QED
    BY <2>1, <2>2, <2>3
<1>4. QED
  BY <1>2, <1>3 DEF Delays

LEMMA DelaysExist == \A n \in Nat : \E g : Delays(n, g)
<1> DEFINE T == {n \in Nat : \E g : Delays(n, g)}
<1>1. 0 \in T
  <2>1. Delays(0, [i \in 0..0 |-> InitialBackoff])
    BY PollerAssumption DEF Delays
  <2>2. QED
    BY <2>1
<1>2. \A n \in Nat : n \in T => n + 1 \in T
  BY OneMoreDelay
<1>3. Nat \subseteq T
  <2> HIDE DEF T
  <2>1. QED
    BY <1>1, <1>2, SetInduction
<1>4. QED
  BY <1>3

LEMMA DelaysAgree ==
  ASSUME NEW n \in Nat, NEW m \in Nat, NEW g, NEW h, Delays(n, g), Delays(m, h),
         NEW i \in Nat, i <= n, i <= m
  PROVE  g[i] = h[i]
<1> DEFINE T == {k \in Nat : k <= n /\ k <= m => g[k] = h[k]}
<1>1. 0 \in T
  BY DEF Delays
<1>2. ASSUME NEW k \in Nat, k \in T
      PROVE  k + 1 \in T
  <2>1. SUFFICES ASSUME k + 1 <= n, k + 1 <= m
                 PROVE  g[k + 1] = h[k + 1]
    OBVIOUS
  <2>2. g[k] = h[k]
    BY <1>2, <2>1
  <2>3. k + 1 \in 0..n /\ k + 1 \in 0..m /\ k + 1 # 0 /\ (k + 1) - 1 = k
    BY <2>1
  <2>4. g[k + 1] = 2 * g[k] /\ h[k + 1] = 2 * h[k]
    BY <2>3 DEF Delays
  <2>5. QED
    BY <2>2, <2>4
<1>3. Nat \subseteq T
  <2> HIDE DEF T
  <2>1. QED
    BY <1>1, <1>2, SetInduction
<1>4. QED
  BY <1>3

(* Doubled is the function its equation describes: one exists. *)
LEMMA DoubledEquation ==
  \A n \in Nat :
    Doubled[n] = IF n = 0 THEN InitialBackoff ELSE 2 * Doubled[n - 1]
<1> DEFINE G(n) == CHOOSE g : Delays(n, g)
           D == [n \in Nat |-> G(n)[n]]
<1>1. \A n \in Nat : Delays(n, G(n))
  BY DelaysExist
<1> HIDE DEF G
<1>2. ASSUME NEW n \in Nat
      PROVE  D[n] = IF n = 0 THEN InitialBackoff ELSE 2 * D[n - 1]
  <2>1. Delays(n, G(n))
    BY <1>1
  <2>2. CASE n = 0
    BY <2>1, <2>2 DEF Delays
  <2>3. CASE n # 0
    <3>1. n - 1 \in Nat /\ n - 1 <= n /\ n - 1 <= n - 1 /\ n \in 0..n
      BY <2>3
    <3>2. G(n)[n - 1] = G(n - 1)[n - 1]
      BY <1>1, <2>1, <3>1, DelaysAgree
    <3>3. G(n)[n] = 2 * G(n)[n - 1]
      BY <2>1, <2>3, <3>1 DEF Delays
    <3>4. QED
      BY <2>3, <3>1, <3>2, <3>3
  <2>4. QED
    BY <2>2, <2>3
<1>3. D = [n \in Nat |-> IF n = 0 THEN InitialBackoff ELSE 2 * D[n - 1]]
  BY <1>2
<1>4. Doubled = [n \in Nat |-> IF n = 0 THEN InitialBackoff ELSE 2 * Doubled[n - 1]]
  <2> HIDE DEF D
  <2>1. \E f : f = [n \in Nat |-> IF n = 0 THEN InitialBackoff ELSE 2 * f[n - 1]]
    BY <1>3
  <2>2. QED
    BY <2>1 DEF Doubled
<1>5. QED
  BY <1>4

(* After n doublings the delay is at least n + 1: it reaches any maximum. *)
LEMMA DoubledGrows ==
  \A n \in Nat : /\ Doubled[n] \in Nat
                 /\ Doubled[n] >= n + 1
                 /\ Doubled[n + 1] = 2 * Doubled[n]
<1>1. Doubled[0] = InitialBackoff
  BY DoubledEquation
<1>2. \A n \in Nat : Doubled[n + 1] = 2 * Doubled[n]
  BY DoubledEquation
<1> DEFINE T == {n \in Nat : Doubled[n] \in Nat /\ Doubled[n] >= n + 1}
<1>3. 0 \in T
  BY <1>1, PollerAssumption
<1>4. \A n \in Nat : n \in T => n + 1 \in T
  BY <1>2
<1>5. Nat \subseteq T
  <2> HIDE DEF T
  <2>1. QED
    BY <1>3, <1>4, SetInduction
<1>6. QED
  BY <1>2, <1>5

(* One more failure lengthens the backoff as the law says; at the cap of   *)
(* the counter the backoff is at its maximum and stays there.              *)
LEMMA LongerFollowsLaw ==
  ASSUME TypeOK, BackoffLaw
  PROVE  Longer = Min2(MaxBackoff, Doubled[Min2(fails + 1, FailCap) - 1])
<1>1. fails \in Nat /\ fails <= MaxBackoff + 1
  BY PollerAssumption DEF TypeOK, FailCap
<1>2. CASE fails = 0
  <2>1. Min2(fails + 1, FailCap) - 1 = 0
    BY <1>2, PollerAssumption DEF Min2, FailCap
  <2>2. Longer = InitialBackoff
    BY <1>2 DEF Longer, BackoffLaw
  <2>3. QED
    BY <2>1, <2>2, DoubledEquation, PollerAssumption DEF Min2
<1>3. CASE fails > 0 /\ fails <= MaxBackoff
  <2>1. Min2(fails + 1, FailCap) - 1 = fails
    BY <1>1, <1>3, PollerAssumption DEF Min2, FailCap
  <2>2. fails - 1 \in Nat /\ (fails - 1) + 1 = fails
    BY <1>1, <1>3
  <2>3. /\ Doubled[fails - 1] \in Nat
        /\ Doubled[fails - 1] >= 1
        /\ Doubled[fails] = 2 * Doubled[fails - 1]
    BY <2>2, DoubledGrows
  <2>4. backoff = Min2(MaxBackoff, Doubled[fails - 1])
    BY <1>3 DEF BackoffLaw
  <2>5. QED
    BY <2>1, <2>3, <2>4, PollerAssumption DEF Longer, Min2
<1>4. CASE fails = MaxBackoff + 1
  <2>1. Min2(fails + 1, FailCap) - 1 = MaxBackoff
    BY <1>4, PollerAssumption DEF Min2, FailCap
  <2>2. Doubled[MaxBackoff] \in Nat /\ Doubled[MaxBackoff] >= MaxBackoff + 1
    BY DoubledGrows, PollerAssumption
  <2>3. backoff = MaxBackoff
    BY <1>4, <2>2, PollerAssumption DEF BackoffLaw, Min2
  <2>4. QED
    BY <2>1, <2>2, <2>3, PollerAssumption DEF Longer, Min2
<1>5. QED
  BY <1>1, <1>2, <1>3, <1>4, PollerAssumption

(* The backoff doubles with every failure in a row up to its maximum, and  *)
(* a success or a seed resets it.                                          *)
THEOREM BackoffFollowsLaw == Spec => []BackoffLaw
<1>1. Init => BackoffLaw
  BY DEF Init, BackoffLaw
<1>2. TypeInv /\ BackoffLaw /\ [Next]_vars => BackoffLaw'
  <2> SUFFICES ASSUME TypeInv, BackoffLaw, [Next]_vars
               PROVE  BackoffLaw'
    OBVIOUS
  <2>1. CASE PollRaises
    <3>1. /\ backoff' = Longer
          /\ fails' = Min2(fails + 1, FailCap)
      BY <2>1 DEF PollRaises
    <3>2. fails' # 0
      BY <3>1, PollerAssumption DEF TypeInv, TypeOK, FailCap, Min2
    <3>3. Longer = Min2(MaxBackoff, Doubled[fails' - 1])
      BY <3>1, LongerFollowsLaw DEF TypeInv
    <3>4. QED
      BY <3>1, <3>2, <3>3 DEF BackoffLaw
  <2>2. CASE PollReturns \/ Seed
    BY <2>2 DEF PollReturns, Seed, Accept, BackoffLaw
  <2>3. CASE StepBegins \/ ForcePoll \/ Close \/ Tick \/ UNCHANGED vars
    <3>1. UNCHANGED <<backoff, fails>>
      BY <2>3 DEF StepBegins, ForcePoll, Close, Tick, vars, schedule, history
    <3>2. QED
      BY <3>1 DEF BackoffLaw
  <2>4. QED
    BY <2>1, <2>2, <2>3 DEF Next
<1>3. QED
  BY <1>1, <1>2, InitType, NextType, PTL DEF Spec

-------------------------------------------------------------------------------
(* A replay hands out its records one by one, in order and when they are   *)
(* due, for every recording, sorted or not.                                *)
THEOREM ReplayIsInOrder == Spec => []ReplayInOrder
<1>1. Init => ReplayInOrder
  BY DEF Init, ReplayInOrder
<1>2. TypeInv /\ ReplayInOrder /\ [Next]_vars => ReplayInOrder'
  <2> SUFFICES ASSUME TypeInv, ReplayInOrder, [Next]_vars
               PROVE  ReplayInOrder'
    OBVIOUS
  <2> USE DEF TypeInv, ReplayInOrder
  <2>1. CASE StepBegins
    BY <2>1 DEF StepBegins, SourceDue, source
  <2>2. CASE PollReturns
    BY <2>2 DEF PollReturns, Fetched, Accept
  <2>3. CASE PollRaises
    BY <2>3 DEF PollRaises, source
  <2>4. CASE ForcePoll
    BY <2>4 DEF ForcePoll, source
  <2>5. CASE Seed
    BY <2>5 DEF Seed, Fetched, Accept
  <2>6. CASE Close
    BY <2>6 DEF Close, source, schedule
  <2>7. CASE Tick
    BY <2>7 DEF Tick, source, schedule
  <2>8. CASE UNCHANGED vars
    BY <2>8 DEF vars, source, schedule
  <2>9. QED
    BY <2>1, <2>2, <2>3, <2>4, <2>5, <2>6, <2>7, <2>8 DEF Next
<1>3. QED
  BY <1>1, <1>2, InitType, NextType, PTL DEF Spec

===============================================================================
