-------------------------- MODULE MysticSessionProofs --------------------------
(***************************************************************************)
(* Proofs about MysticSession.tla: the session cleans up, and its two      *)
(* gates do not starve the source.                                         *)
(***************************************************************************)
EXTENDS MysticSession, TLAPS

-------------------------------------------------------------------------------
(* The end.                                                                *)

(* What is open where, and what the caller sees: the source is open from   *)
(* its construction until the engine is closed, and nothing is drawn       *)
(* before the screen is cleared or after it is restored.                   *)
Kept ==
  /\ at = "start" => source = "none"
  /\ at \in {"report", "ended"} => source # "open"
  /\ at \in {"start", "startup", "clear"} => screen = "plain"
  /\ at \in {"close", "report", "ended"} /\ restore /\ ~broken => screen = "plain"

LEMMA InitKept == Init => Kept
  BY DEF Init, Kept

LEMMA NextKept == Kept /\ [Next]_vars => Kept'
<1> SUFFICES ASSUME Kept, [Next]_vars
             PROVE  Kept'
  OBVIOUS
<1> USE DEF Kept, GoTo, loop, keys, ends
<1>1. CASE BuildSource
  BY <1>1 DEF BuildSource
<1>2. CASE SourceRefused
  BY <1>2 DEF SourceRefused
<1>3. CASE StartupPolled
  BY <1>3 DEF StartupPolled
<1>4. CASE StartupFails
  BY <1>4 DEF StartupFails
<1>5. CASE NoKey
  BY <1>5 DEF NoKey
<1>6. CASE TakeKey
  BY <1>6 DEF TakeKey, TakeQuit, TakePause, TakeHelp, TakeEscape, TakeRefresh,
              TakeOther, TakeNothing, Takes, Goes
<1>7. CASE GetKeyFails
  BY <1>7 DEF GetKeyFails
<1>8. CASE GateOpens
  BY <1>8 DEF GateOpens
<1>9. CASE GateStaysShut
  BY <1>9 DEF GateStaysShut
<1>10. CASE StepPolls
  BY <1>10 DEF StepPolls
<1>11. CASE StepSkips
  BY <1>11 DEF StepSkips
<1>12. CASE PollEnds
  BY <1>12 DEF PollEnds
<1>13. CASE Clear
  BY <1>13 DEF Clear
<1>14. CASE Draw
  BY <1>14 DEF Draw
<1>15. CASE Sleep
  BY <1>15 DEF Sleep
<1>16. CASE WriteFails
  BY <1>16 DEF WriteFails
<1>17. CASE RestoreScreen
  BY <1>17 DEF RestoreScreen, Restores
<1>18. CASE RestoreFails
  BY <1>18 DEF RestoreFails
<1>19. CASE CloseEngine
  BY <1>19 DEF CloseEngine
<1>20. CASE Report
  BY <1>20 DEF Report
<1>21. CASE Tick
  BY <1>21 DEF Tick
<1>22. CASE \E raw \in Raw : Press(raw)
  BY <1>22 DEF Press
<1>23. CASE UNCHANGED vars
  BY <1>23 DEF vars
<1>24. QED
  BY <1>1, <1>2, <1>3, <1>4, <1>5, <1>6, <1>7, <1>8, <1>9, <1>10, <1>11,
     <1>12, <1>13, <1>14, <1>15, <1>16, <1>17, <1>18, <1>19, <1>20, <1>21,
     <1>22, <1>23 DEF Next, Process

(* However the session ends, the script returns with its source closed and *)
(* the cursor back, unless told otherwise or a write failed.               *)
THEOREM ReturnsCleanly == Spec => []CleanedUp
<1>1. Kept => CleanedUp
  BY DEF Kept, CleanedUp
<1>2. QED
  BY <1>1, InitKept, NextKept, PTL DEF Spec

-------------------------------------------------------------------------------
(* The two gates.                                                          *)

Places == Loop \union {"start", "startup", "clear", "restore", "close",
                       "report", "ended"}

(* When the poller wants to poll, if nothing is forced. *)
Due == lastPoll + P!Delay

(* The clock, the delay and the schedule of the poller. *)
Scheduled ==
  /\ at \in Places
  /\ now \in Nat /\ spent \in Nat /\ gate \in Int /\ resumed \in Nat
  /\ paused \in BOOLEAN
  /\ at \in DOMAIN Longest => spent <= Longest[at]
  /\ data \in Nat /\ backoff \in 0..MaxBackoff
  /\ failing => backoff > 0
  /\ at \in Loop \union {"clear"} => lastPoll \in Nat
  /\ at = "clear" => lastPoll = now
  /\ at \in {"start", "startup", "clear"} => gate = -PollInterval
  /\ at \in {"clear", "key", "gate", "step", "draw", "sleep"} =>
       nextPoll = IF forced THEN 0 ELSE Due
  /\ at = "poll" => ~forced

LEMMA InitScheduled == Init => Scheduled
<1> SUFFICES ASSUME Init PROVE Scheduled
  OBVIOUS
<1>1. MaxBackoff \in Nat /\ PollInterval \in Nat
  BY SessionAssumption
<1>2. /\ at = "start" /\ now = 0 /\ spent = 0 /\ gate = -PollInterval
      /\ resumed = 0 /\ paused = FALSE /\ data = 0 /\ backoff = 0 /\ failing = FALSE
  BY DEF Init, P!Init
<1>3. backoff \in 0..MaxBackoff /\ gate \in Int
  BY <1>1, <1>2
<1>4. at \notin DOMAIN Longest
  BY <1>2 DEF Longest
<1>5. QED
  BY <1>2, <1>3, <1>4 DEF Scheduled, Places, Loop

(* The delay after a failure is a positive number. *)
LEMMA LongerRight ==
  ASSUME backoff \in 0..MaxBackoff
  PROVE  P!Longer \in 1..MaxBackoff
BY SessionAssumption DEF P!Longer, P!Min2

LEMMA DelayRight == Scheduled => P!Delay \in Nat \ {0}
BY SessionAssumption DEF Scheduled, P!Delay

LEMMA NextScheduled == Scheduled /\ [Next]_vars => Scheduled'
<1> SUFFICES ASSUME Scheduled, [Next]_vars PROVE Scheduled'
  OBVIOUS
<1>0. /\ PollInterval \in Nat \ {0} /\ MaxBackoff \in Nat
      /\ MaxPoll \in Nat /\ MaxGap \in Nat /\ MaxWrite \in Nat /\ IdleSleep \in Nat
  BY SessionAssumption
<1> USE <1>0 DEF Scheduled, Places, Loop, Longest, Due, P!Delay, GoTo, Idle,
                 pollerVars, loop, keys, ends
<1>1. CASE BuildSource
  BY <1>1 DEF BuildSource
<1>2. CASE SourceRefused
  BY <1>2 DEF SourceRefused
<1>3. CASE StartupPolled
  BY <1>3 DEF StartupPolled, P!Seed, P!Accept, P!Fetched
<1>4. CASE StartupFails
  BY <1>4 DEF StartupFails
<1>5. CASE NoKey
  BY <1>5 DEF NoKey
<1>6. CASE TakeKey
  <2>1. CASE TakeRefresh
    BY <1>6, <2>1 DEF TakeRefresh, Takes, Goes, P!ForcePoll, P!source
  <2>2. CASE TakePause
    BY <1>6, <2>2 DEF TakePause, Takes, Goes
  <2>3. CASE TakeQuit \/ TakeHelp \/ TakeEscape \/ TakeOther \/ TakeNothing
    <3>1. /\ at = "key" /\ at' \in {"gate", "restore"} /\ spent' = 0
          /\ UNCHANGED <<now, gate, resumed, paused, data, backoff, failing,
                         lastPoll, nextPoll, forced>>
      BY <2>3 DEF TakeQuit, TakeHelp, TakeEscape, TakeOther, TakeNothing, Takes, Goes
    <3>2. QED
      BY <3>1
  <2>4. QED
    BY <1>6, <2>1, <2>2, <2>3 DEF TakeKey
<1>7. CASE GetKeyFails
  BY <1>7 DEF GetKeyFails
<1>8. CASE GateOpens
  BY <1>8 DEF GateOpens
<1>9. CASE GateStaysShut
  BY <1>9 DEF GateStaysShut
<1>10. CASE StepPolls
  BY <1>10 DEF StepPolls, P!StepBegins, P!source
<1>11. CASE StepSkips
  BY <1>11 DEF StepSkips
<1>12. CASE PollEnds
  <2>1. at = "poll" /\ at' = "draw" /\ spent' = 0
        /\ UNCHANGED <<gate, resumed, paused>>
    BY <1>12 DEF PollEnds
  <2>2. CASE P!PollReturns
    BY <2>1, <2>2 DEF P!PollReturns, P!Accept, P!Fetched
  <2>3. CASE P!PollRaises
    <3>1. P!Longer \in 1..MaxBackoff
      BY LongerRight
    <3>2. /\ failing' = TRUE /\ backoff' = P!Longer
          /\ nextPoll' = lastPoll + P!Longer
          /\ UNCHANGED <<now, lastPoll, data, forced>>
      BY <2>3 DEF P!PollRaises
    <3>3. QED
      BY <2>1, <3>1, <3>2
  <2>4. QED
    BY <1>12, <2>2, <2>3 DEF PollEnds
<1>13. CASE Clear
  BY <1>13 DEF Clear
<1>14. CASE Draw
  BY <1>14 DEF Draw
<1>15. CASE Sleep
  BY <1>15 DEF Sleep
<1>16. CASE WriteFails
  BY <1>16 DEF WriteFails
<1>17. CASE RestoreScreen
  BY <1>17 DEF RestoreScreen
<1>18. CASE RestoreFails
  BY <1>18 DEF RestoreFails
<1>19. CASE CloseEngine
  BY <1>19 DEF CloseEngine, P!Close, P!source, P!schedule, P!history
<1>20. CASE Report
  BY <1>20 DEF Report
<1>21. CASE Tick
  BY <1>21 DEF Tick, P!Tick, P!source, P!schedule, P!history
<1>22. CASE \E raw \in Raw : Press(raw)
  BY <1>22 DEF Press
<1>23. CASE UNCHANGED vars
  BY <1>23 DEF vars
<1>24. QED
  BY <1>1, <1>2, <1>3, <1>4, <1>5, <1>6, <1>7, <1>8, <1>9, <1>10, <1>11,
     <1>12, <1>13, <1>14, <1>15, <1>16, <1>17, <1>18, <1>19, <1>20, <1>21,
     <1>22, <1>23 DEF Next, Process

-------------------------------------------------------------------------------
(* The deadline.  Once a poll has begun or was put off, the gate opened    *)
(* last before the poller was due; so it opens again at most an interval   *)
(* and an iteration after the poller is, or after the session goes on.     *)
TimelyAt ==
  /\ at \in {"clear", "key", "gate", "draw", "sleep"} => gate < Due
  /\ at = "step" => gate <= now /\ now <= gate + spent
  /\ at = "poll" => gate <= lastPoll /\ now <= lastPoll + spent

TimelyLoop ==
  ~paused =>
    /\ at \in {"key", "gate"} => now < Wanted + PollInterval + MaxWrite + IdleSleep
    /\ at = "step" => gate < Wanted + PollInterval + MaxWrite + IdleSleep
    /\ at = "draw" => now < Wanted + PollInterval + spent
    /\ at = "sleep" => now < Wanted + PollInterval + MaxWrite + spent

Live == MaxPoll <= PollInterval /\ data < MaxSnapshots /\ kind = "live"

Timely == Live => TimelyAt /\ TimelyLoop

WantedLast ==
  /\ Due \in Nat /\ Wanted \in Nat /\ Due > lastPoll
  /\ Wanted >= Due /\ Wanted >= resumed

Wants == at \in Loop \union {"clear"} => WantedLast

LEMMA WantedRight == Scheduled => Wants
<1> SUFFICES ASSUME Scheduled, at \in Loop \union {"clear"} PROVE WantedLast
  BY DEF Wants
<1>1. P!Delay \in Nat \ {0} /\ lastPoll \in Nat /\ resumed \in Nat
  BY DelayRight DEF Scheduled
<1>2. Wanted = IF Due > resumed THEN Due ELSE resumed
  BY DEF Wanted, Due
<1>3. Due \in Nat /\ Due > lastPoll
  BY <1>1 DEF Due
<1>4. QED
  BY <1>1, <1>2, <1>3 DEF WantedLast

(* What a step that is no poll and no key leaves alone. *)
LEMMA SameDeadline ==
  ASSUME UNCHANGED <<lastPoll, failing, backoff, resumed>>
  PROVE  Due' = Due /\ Wanted' = Wanted
BY DEF Due, Wanted, P!Delay

LEMMA InitTimely == Init => Timely
<1> SUFFICES ASSUME Init PROVE TimelyAt /\ TimelyLoop
  BY DEF Timely
<1>1. at = "start"
  BY DEF Init
<1>2. QED
  BY <1>1 DEF TimelyAt, TimelyLoop

LEMMA NextTimely ==
  Scheduled /\ Scheduled' /\ Timely /\ [Next]_vars => Timely'
<1> SUFFICES ASSUME Scheduled, Scheduled', Timely, [Next]_vars, Live'
             PROVE  TimelyAt' /\ TimelyLoop'
  BY DEF Timely
<1>0. /\ PollInterval \in Nat \ {0}
      /\ MaxPoll \in Nat /\ MaxGap \in Nat /\ MaxWrite \in Nat /\ IdleSleep \in Nat
      /\ MaxSnapshots \in Nat
  BY SessionAssumption
<1>1. /\ now \in Nat /\ spent \in Nat /\ gate \in Int /\ resumed \in Nat /\ data \in Nat
      /\ at \in DOMAIN Longest => spent <= Longest[at]
  BY DEF Scheduled
<1>2. /\ now' \in Nat /\ spent' \in Nat /\ gate' \in Int /\ resumed' \in Nat
  BY DEF Scheduled
<1>1a. Wants /\ Wants'
  BY WantedRight, PTL
<1>3. at \in Loop \union {"clear"} => WantedLast
  BY <1>1a DEF Wants
<1>4. at' \in Loop \union {"clear"} => WantedLast'
  BY <1>1a DEF Wants, Loop
<1>5. ASSUME UNCHANGED <<kind, data>> PROVE TimelyAt /\ TimelyLoop
  BY <1>5 DEF Timely, Live
<1>6. CASE \/ BuildSource \/ SourceRefused \/ StartupFails \/ TakeQuit \/ TakeNothing
           \/ GetKeyFails \/ WriteFails \/ RestoreScreen \/ RestoreFails
           \/ CloseEngine \/ Report
  <2>1. at' \in {"startup", "report", "restore", "close", "ended"}
    BY <1>6 DEF BuildSource, SourceRefused, StartupFails, TakeQuit, TakeNothing,
       GetKeyFails, WriteFails, RestoreScreen, RestoreFails, CloseEngine, Report, GoTo
  <2>2. QED
    BY <2>1 DEF TimelyAt, TimelyLoop
<1>7. CASE StartupPolled
  <2>1. at' = "clear" /\ gate' = -PollInterval
    BY <1>7 DEF StartupPolled, GoTo, loop, Scheduled
  <2>2. lastPoll' \in Nat
    BY <2>1 DEF Scheduled, Loop
  <2>3. gate' < Due'
    BY <1>0, <1>4, <2>1, <2>2 DEF WantedLast
  <2>4. QED
    BY <2>1, <2>3 DEF TimelyAt, TimelyLoop
<1>8. CASE Clear
  <2>1. /\ at = "clear" /\ at' = "key"
        /\ UNCHANGED <<now, gate, lastPoll, failing, backoff, resumed, kind, data>>
    BY <1>8 DEF Clear, GoTo, Idle, pollerVars, loop
  <2>2. lastPoll = now /\ gate < Due
    BY <1>5, <2>1 DEF Scheduled, TimelyAt
  <2>3. Due' = Due /\ Wanted' = Wanted /\ WantedLast
    BY <1>3, <2>1, SameDeadline
  <2>4. now' < Wanted' + PollInterval + MaxWrite + IdleSleep
    BY <1>0, <1>1, <2>1, <2>2, <2>3 DEF WantedLast
  <2>5. QED
    BY <2>1, <2>2, <2>3, <2>4 DEF TimelyAt, TimelyLoop
<1>9. CASE NoKey \/ TakeHelp \/ TakeEscape \/ TakeRefresh \/ TakeOther
  <2>1. /\ at = "key" /\ at' = "gate"
        /\ UNCHANGED <<now, gate, lastPoll, failing, backoff, resumed, kind, data, paused>>
    BY <1>9 DEF NoKey, TakeHelp, TakeEscape, TakeRefresh, TakeOther, Takes, Goes,
       P!ForcePoll, P!source, GoTo, Idle, pollerVars, loop
  <2>2. Due' = Due /\ Wanted' = Wanted
    BY <2>1, SameDeadline
  <2>3. QED
    BY <1>5, <2>1, <2>2 DEF TimelyAt, TimelyLoop
<1>10. CASE TakePause
  <2>1. /\ at = "key" /\ at' = "gate" /\ paused' = ~paused
        /\ UNCHANGED <<now, gate, lastPoll, failing, backoff, kind, data>>
        /\ resumed' = IF paused THEN now ELSE resumed
    BY <1>10 DEF TakePause, Takes, Goes, GoTo, pollerVars
  <2>2. Due' = Due /\ WantedLast' /\ gate < Due
    BY <1>4, <1>5, <2>1 DEF Due, P!Delay, TimelyAt, Loop
  <2>3. ~paused' => now' < Wanted' + PollInterval + MaxWrite + IdleSleep
    <3>1. SUFFICES ASSUME ~paused'
                   PROVE  now' < Wanted' + PollInterval + MaxWrite + IdleSleep
      OBVIOUS
    <3>2. paused
      BY <2>1, <3>1
    <3>3. now' = now /\ resumed' = now
      BY <2>1, <3>2
    <3>4. Wanted' \in Nat /\ Wanted' >= resumed'
      BY <2>2 DEF WantedLast
    <3>5. \A w \in Nat : w >= now => now < w + PollInterval + MaxWrite + IdleSleep
      BY <1>0, <1>1
    <3>6. QED
      BY <3>3, <3>4, <3>5
  <2>4. QED
    BY <2>1, <2>2, <2>3 DEF TimelyAt, TimelyLoop
<1>11. CASE GateOpens
  <2>1. /\ at = "gate" /\ at' = "step" /\ gate' = now /\ spent' = 0
        /\ UNCHANGED <<now, lastPoll, failing, backoff, resumed, kind, data, paused>>
    BY <1>11 DEF GateOpens, GoTo, Idle, pollerVars
  <2>2. Wanted' = Wanted
    BY <2>1, SameDeadline
  <2>3. gate' <= now' /\ now' <= gate' + spent'
    BY <1>1, <2>1
  <2>4. QED
    BY <1>5, <2>1, <2>2, <2>3 DEF TimelyAt, TimelyLoop
<1>12. CASE GateStaysShut
  <2>1. /\ at = "gate" /\ at' = "draw" /\ spent' = 0 /\ ~GateIsOpen
        /\ UNCHANGED <<now, gate, lastPoll, failing, backoff, resumed, kind, data, paused>>
    BY <1>12 DEF GateStaysShut, GoTo, Idle, pollerVars, loop
  <2>2. Due' = Due /\ Wanted' = Wanted /\ WantedLast /\ gate < Due
    BY <1>3, <1>5, <2>1, SameDeadline DEF TimelyAt, Loop
  <2>3. ~paused => now < gate + PollInterval
    BY <1>0, <1>1, <2>1 DEF GateIsOpen
  <2>4. ~paused' => now' < Wanted' + PollInterval + spent'
    BY <1>0, <1>1, <2>1, <2>2, <2>3 DEF WantedLast
  <2>5. QED
    BY <2>1, <2>2, <2>4 DEF TimelyAt, TimelyLoop
<1>13. CASE StepPolls
  <2>1. /\ at = "step" /\ at' = "poll" /\ spent' = 0 /\ lastPoll' = now
        /\ UNCHANGED <<now, gate, kind, data>>
    BY <1>13 DEF StepPolls, P!StepBegins, P!source, GoTo, loop
  <2>2. gate <= now
    BY <1>5, <2>1 DEF TimelyAt
  <2>3. QED
    BY <1>1, <2>1, <2>2 DEF TimelyAt, TimelyLoop
<1>14. CASE StepSkips
  <2>1. /\ at = "step" /\ at' = "draw" /\ spent' = 0 /\ ~PollIsDue
        /\ UNCHANGED <<now, gate, lastPoll, failing, backoff, resumed, kind, data, paused>>
    BY <1>14 DEF StepSkips, GoTo, Idle, pollerVars, loop
  <2>2. Due' = Due /\ Wanted' = Wanted /\ WantedLast /\ gate <= now
    BY <1>3, <1>5, <2>1, SameDeadline DEF TimelyAt, Loop
  <2>3. ~P!TimeIsUp
    BY <2>1 DEF PollIsDue, P!SourceDue, Live
  <2>4. now < Due
    <3>1. nextPoll = IF forced THEN 0 ELSE Due
      BY <2>1 DEF Scheduled
    <3>2. ~(now >= nextPoll)
      BY <2>3 DEF P!TimeIsUp
    <3>3. Due \in Nat
      BY <2>2 DEF WantedLast
    <3>4. QED
      BY <1>1, <3>1, <3>2, <3>3
  <2>5. gate < Due
    BY <1>1, <2>2, <2>4 DEF WantedLast
  <2>6. now' < Wanted' + PollInterval + spent'
    BY <1>0, <1>1, <2>1, <2>2, <2>4 DEF WantedLast
  <2>7. QED
    BY <2>1, <2>2, <2>5, <2>6 DEF TimelyAt, TimelyLoop
<1>15. CASE PollEnds
  <2>1. /\ at = "poll" /\ at' = "draw" /\ spent' = 0
        /\ UNCHANGED <<now, gate, lastPoll, resumed, paused>>
    BY <1>15 DEF PollEnds, P!PollReturns, P!PollRaises, GoTo, loop, P!source
  <2>2. Live
    <3>1. kind' = kind /\ data' \in {data, data + 1}
      BY <1>15 DEF PollEnds, P!PollReturns, P!PollRaises, P!Fetched, P!source
    <3>2. QED
      BY <1>0, <1>1, <3>1 DEF Live
  <2>3. gate <= lastPoll /\ now <= lastPoll + spent
    BY <2>1, <2>2 DEF Timely, TimelyAt
  <2>4. spent <= MaxPoll
    BY <1>1, <2>1 DEF Longest
  <2>5. WantedLast' /\ lastPoll \in Nat
    BY <1>4, <2>1 DEF Loop, Scheduled
  <2>6. gate' < Due'
    BY <1>1, <2>1, <2>3, <2>5 DEF WantedLast
  <2>7. now' < Wanted' + PollInterval + spent'
    <3>1. now <= lastPoll + PollInterval
      BY <1>0, <1>1, <2>2, <2>3, <2>4, <2>5 DEF Live
    <3>2. lastPoll' < Wanted'
      BY <2>1, <2>5 DEF WantedLast
    <3>3. Wanted' \in Nat
      BY <2>5 DEF WantedLast
    <3>4. now' = now /\ lastPoll' = lastPoll /\ spent' = 0
      BY <2>1
    <3>5. \A w \in Nat : lastPoll < w => now < w + PollInterval + 0
      BY <1>0, <1>1, <2>5, <3>1
    <3>6. QED
      BY <3>2, <3>3, <3>4, <3>5
  <2>8. QED
    BY <2>1, <2>6, <2>7 DEF TimelyAt, TimelyLoop
<1>16. CASE Draw
  <2>1. /\ at = "draw" /\ at' = "sleep" /\ spent' = 0
        /\ UNCHANGED <<now, gate, lastPoll, failing, backoff, resumed, kind, data, paused>>
    BY <1>16 DEF Draw, GoTo, Idle, pollerVars, loop
  <2>2. Due' = Due /\ Wanted' = Wanted /\ WantedLast /\ gate < Due
    BY <1>3, <1>5, <2>1, SameDeadline DEF TimelyAt, Loop
  <2>3. spent <= MaxWrite
    BY <1>1, <2>1 DEF Longest
  <2>4. ~paused => now < Wanted + PollInterval + spent
    BY <1>5, <2>1 DEF TimelyLoop
  <2>5. ~paused' => now' < Wanted' + PollInterval + MaxWrite + spent'
    BY <1>0, <1>1, <2>1, <2>2, <2>3, <2>4 DEF WantedLast
  <2>6. QED
    BY <2>1, <2>2, <2>5 DEF TimelyAt, TimelyLoop
<1>17. CASE Sleep
  <2>1. /\ at = "sleep" /\ at' = "key"
        /\ UNCHANGED <<now, gate, lastPoll, failing, backoff, resumed, kind, data, paused>>
    BY <1>17 DEF Sleep, GoTo, Idle, pollerVars, loop
  <2>2. Due' = Due /\ Wanted' = Wanted /\ WantedLast /\ gate < Due
    BY <1>3, <1>5, <2>1, SameDeadline DEF TimelyAt, Loop
  <2>3. spent <= IdleSleep
    BY <1>1, <2>1 DEF Longest
  <2>4. ~paused => now < Wanted + PollInterval + MaxWrite + spent
    BY <1>5, <2>1 DEF TimelyLoop
  <2>5. ~paused' => now' < Wanted' + PollInterval + MaxWrite + IdleSleep
    BY <1>0, <1>1, <2>1, <2>2, <2>3, <2>4 DEF WantedLast
  <2>6. QED
    BY <2>1, <2>2, <2>5 DEF TimelyAt, TimelyLoop
<1>18. CASE Tick
  <2>1. /\ at \in DOMAIN Longest /\ now' = now + 1 /\ spent' = spent + 1
        /\ UNCHANGED <<at, gate, lastPoll, failing, backoff, resumed, kind, data, paused>>
    BY <1>18 DEF Tick, P!Tick, P!source, P!schedule, loop
  <2>2. Due' = Due /\ Wanted' = Wanted
    BY <2>1, SameDeadline
  <2>3. at \in {"startup", "step", "poll", "draw", "sleep"}
    BY <2>1 DEF Longest
  <2>4. TimelyAt /\ TimelyLoop
    BY <1>5, <2>1
  <2>5. lastPoll \in Nat \/ at = "startup"
    BY <2>3 DEF Scheduled, Loop
  <2>6. TimelyAt'
    BY <1>1, <2>1, <2>2, <2>3, <2>4, <2>5 DEF TimelyAt
  <2>7. at # "startup" => Wanted \in Nat
    BY <1>3, <2>3 DEF WantedLast, Loop
  <2>8. TimelyLoop'
    BY <1>0, <1>1, <2>1, <2>2, <2>3, <2>4, <2>7 DEF TimelyLoop
  <2>9. QED
    BY <2>6, <2>8
<1>19. CASE (\E raw \in Raw : Press(raw)) \/ UNCHANGED vars
  <2>1. UNCHANGED <<at, now, spent, gate, lastPoll, failing, backoff, resumed, kind,
                    data, paused>>
    BY <1>19 DEF Press, Idle, pollerVars, loop, vars
  <2>2. Due' = Due /\ Wanted' = Wanted
    BY <2>1, SameDeadline
  <2>3. QED
    BY <1>5, <2>1, <2>2 DEF TimelyAt, TimelyLoop
<1>20. QED
  BY <1>6, <1>7, <1>8, <1>9, <1>10, <1>11, <1>12, <1>13, <1>14, <1>15, <1>16,
     <1>17, <1>18, <1>19 DEF Next, Process, TakeKey

LEMMA TimelyIsInTime == Scheduled /\ Timely => PolledInTime
<1> SUFFICES ASSUME Scheduled, Timely, Live, at \in Loop \ {"poll"}, ~paused
             PROVE  now < Wanted + Slack
  BY DEF PolledInTime, Live
<1>1. /\ PollInterval \in Nat \ {0}
      /\ MaxGap \in Nat /\ MaxWrite \in Nat /\ IdleSleep \in Nat
  BY SessionAssumption
<1>2. /\ now \in Nat /\ spent \in Nat /\ gate \in Int
      /\ at \in DOMAIN Longest => spent <= Longest[at]
  BY DEF Scheduled
<1>3. Wanted \in Nat
  BY WantedRight DEF Wants, WantedLast
<1>4. Slack = PollInterval + MaxGap + MaxWrite + IdleSleep
  BY DEF Slack
<1>5. /\ at = "step" => spent <= MaxGap
      /\ at = "draw" => spent <= MaxWrite
      /\ at = "sleep" => spent <= IdleSleep
  BY <1>2 DEF Longest
<1>6. TimelyAt /\ TimelyLoop
  BY DEF Timely
<1>7. at \in {"key", "gate", "step", "draw", "sleep"}
  BY DEF Loop
<1>8. QED
  BY <1>1, <1>2, <1>3, <1>4, <1>5, <1>6, <1>7 DEF TimelyAt, TimelyLoop

(* However the loop's interval and the schedule of the poller lie to each  *)
(* other, whatever the caller presses and however polls end: a live source *)
(* that is due is polled within one interval and one iteration of the loop. *)
THEOREM PollsInTime == Spec => []PolledInTime
<1>1. QED
  BY InitScheduled, NextScheduled, InitTimely, NextTimely, TimelyIsInTime,
     PTL DEF Spec

===============================================================================
