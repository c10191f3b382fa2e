--------------------------- MODULE DoorSessionProofs --------------------------
(***************************************************************************)
(* Proofs about DoorSession for every value of its constants: its type,    *)
(* that the door stops in time and is not kept by a caller who is gone,    *)
(* which exit code tells what, that the terminal is restored and that      *)
(* nothing is left open.  Its second half is about the decoder of keys     *)
(* that the session holds, TransportInput: its type, that its memory is    *)
(* bounded, and that its keys are those the caller pressed.                *)
(***************************************************************************)
EXTENDS DoorSession, TransportInput, SequenceTheorems, WellFoundedInduction, TLAPS

-------------------------------------------------------------------------------
(* What is known at each place.                                            *)

(* Where the session runs. *)
Running == {"setup", "loop", "step", "draw", "read"}

(* How late it can be when the process is at a place: a call adds at most  *)
(* its own bound to the time it began at.                                  *)
Punctual ==
  /\ at \in {"start", "build"} => now = 0
  /\ at = "startup" => now = spent /\ spent <= MaxPoll
  /\ at = "engine" => now <= MaxPoll
  /\ at = "setup" => now - spent <= MaxPoll /\ spent <= MaxWrite
  /\ at = "step" => now - spent < Cutoff /\ spent <= MaxPoll
  /\ at = "draw" => now - spent < Cutoff + MaxPoll /\ spent <= MaxWrite
  /\ at = "read" => now - spent < Cutoff + MaxPoll + MaxWrite /\ spent <= MaxRead
  /\ at \in {"loop", "final"} =>
       \/ now < Cutoff + MaxPoll + MaxWrite + MaxRead
       \/ now <= MaxPoll + MaxWrite
  /\ at = "shutdown" =>
       /\ spent <= MaxWrite
       /\ \/ now - spent < Cutoff + MaxPoll + MaxWrite + MaxRead
          \/ now - spent <= MaxPoll + MaxWrite
  /\ at \in {"exit", "ended"} => now <= SessionSeconds

(* The longest the caller can have been silent at the head of the loop. *)
LastSilence == IdleTimeout + MaxPoll + MaxWrite + MaxRead

(* How long the caller can have been silent when the process is at a       *)
(* place, as Punctual has it for the time granted.                         *)
Silent ==
  /\ lastInput = keyAt
  /\ at \in {"start", "build"} => now = 0
  /\ at = "startup" => now = spent /\ spent <= MaxPoll
  /\ at = "engine" => now <= MaxPoll
  /\ at = "setup" => now - spent <= MaxPoll /\ spent <= MaxWrite
  /\ at = "step" => now - spent - keyAt < IdleTimeout /\ spent <= MaxPoll
  /\ at = "draw" =>
       now - spent - keyAt < IdleTimeout + MaxPoll /\ spent <= MaxWrite
  /\ at = "read" =>
       /\ now - spent - keyAt < IdleTimeout + MaxPoll + MaxWrite
       /\ spent <= MaxRead
  /\ at \in {"loop", "final"} => now - keyAt <= LastSilence
  /\ at = "shutdown" =>
       now - spent - keyAt <= LastSilence /\ spent <= MaxWrite
  /\ now - keyAt <= LastSilence + MaxWrite

(* Before the session. *)
Early == {"start", "build", "startup", "engine"}

(* Before the end nothing has gone wrong that is not recorded, and while   *)
(* the session runs the one thing that can have is the end of the          *)
(* connection behind an Escape, which the next test of the loop finds.     *)
Story ==
  /\ at \in Early => reason = "quit" /\ raised = None /\ screen = "plain"
  /\ at \in Early \union {"setup"} => ~lost /\ ~quitKey /\ ~escaped
  /\ at \in {"build", "startup", "engine"} => connected
  /\ at \in Running =>
       /\ reason = "quit" /\ raised = None /\ ~quitKey
       /\ connected <=> ~lost
       /\ lost => escaped
  /\ at \in {"final", "shutdown"} => connected \/ lost
  /\ raised = "OSError" => lost
  /\ raised = "SourceError" => ~lost /\ at \in {"exit", "ended"}
  /\ escaped =>
       /\ lost /\ ~connected /\ ~quitKey /\ reason = "quit" /\ raised = None
       /\ at \in {"loop", "final", "exit", "ended"}
  /\ quitKey => raised = None
  /\ raised = None /\ at \in {"final", "shutdown", "exit"} =>
       /\ reason # "internal_error"
       /\ reason = "disconnect" => lost /\ ~escaped
       /\ reason \in {"time_expired", "idle_timeout"} => ~lost /\ ~quitKey
       /\ reason = "quit" => escaped \/ (quitKey /\ ~lost)
  /\ at = "exit" /\ ~lost => screen = "plain"

(* What is open where. *)
Holding ==
  /\ at = "start" => source = "none" /\ socket = "none"
  /\ at = "build" => source = "none"
  /\ at \notin {"start", "ended"} => socket = "open" /\ exit = None
  /\ at = "start" => exit = None

IInv ==
  /\ TypeOK
  /\ Story
  /\ Holding
  /\ ExitTellsWhy
  /\ ScreenRestored
  /\ Released

-------------------------------------------------------------------------------
(* Type correctness and the safety of the end.                             *)

(* The bounds of the calls that block, place by place. *)
LEMMA LongestValues ==
  /\ DOMAIN Longest = {"startup", "step", "setup", "draw", "shutdown", "read"}
  /\ Longest["startup"] = MaxPoll /\ Longest["step"] = MaxPoll
  /\ Longest["setup"] = MaxWrite /\ Longest["draw"] = MaxWrite
  /\ Longest["shutdown"] = MaxWrite /\ Longest["read"] = MaxRead
BY DEF Longest

(* Initially nothing is open and nothing has happened. *)
LEMMA InitSafe == Init => IInv
<1> SUFFICES ASSUME Init
             PROVE  IInv
  OBVIOUS
<1> USE SessionAssumption DEF Init
<1>1. at \in Places
  BY DEF Places
<1>2. Flags
  BY DEF Flags
<1>8. Times
  BY DEF Times
<1>3. Outcomes
  BY DEF Outcomes
<1>4. TypeOK
  BY <1>1, <1>2, <1>3, <1>8 DEF TypeOK
<1>5. Story /\ Holding
  BY DEF Story, Holding, Running, Early
<1>6. ExitTellsWhy /\ ScreenRestored /\ Released
  BY DEF ExitTellsWhy, ScreenRestored, Released
<1>7. QED
  BY <1>4, <1>5, <1>6 DEF IInv

(* The process only goes to the places it has. *)
LEMMA NextPlace == at \in Places /\ [Next]_vars => (at \in Places)'
<1> SUFFICES ASSUME at \in Places, [Next]_vars
             PROVE  (at \in Places)'
  OBVIOUS
<1> USE LongestValues DEF Places, GoTo, link, view, outcome, history
<1>1. CASE Refused
  BY <1>1 DEF Refused
<1>2. CASE Accepted
  BY <1>2 DEF Accepted
<1>3. CASE Build
  BY <1>3 DEF Build, Raise
<1>4. CASE StartupPoll
  BY <1>4 DEF StartupPoll, Raise
<1>5. CASE MakeEngine
  BY <1>5 DEF MakeEngine, Raise
<1>6. CASE Setup
  BY <1>6 DEF Setup, WriteLost, WriteFails, Finish, Fail
<1>7. CASE LoopLeft
  BY <1>7 DEF LoopLeft
<1>8. CASE TimeExpires
  BY <1>8 DEF TimeExpires, Finish
<1>9. CASE IdleExpires
  BY <1>9 DEF IdleExpires, Finish, Idle
<1>10. CASE Iterate
  BY <1>10 DEF Iterate
<1>11. CASE Step
  BY <1>11 DEF Step
<1>12. CASE Draw
  BY <1>12 DEF Draw, WriteLost, WriteFails, Finish, Fail
<1>13. CASE ReadNothing
  BY <1>13 DEF ReadNothing
<1>14. CASE QuitKey
  BY <1>14 DEF QuitKey, KeyRead, Finish
<1>15. CASE OtherKey
  BY <1>15 DEF OtherKey, KeyRead
<1>16. CASE ReadLost
  BY <1>16 DEF ReadLost, Finish
<1>17. CASE EscapeAtEnd
  BY <1>17 DEF EscapeAtEnd, KeyRead
<1>18. CASE ReadFails
  BY <1>18 DEF ReadFails, Fail
<1>19. CASE Final
  BY <1>19 DEF Final, Restores
<1>20. CASE Shutdown
  BY <1>20 DEF Shutdown
<1>21. CASE Exit
  BY <1>21 DEF Exit, ExitCode
<1>22. CASE Tick
  BY <1>22 DEF Tick
<1>23. CASE UNCHANGED vars
  BY <1>23 DEF vars
<1>24. QED
  BY <1>1, <1>2, <1>3, <1>4, <1>5, <1>6, <1>7, <1>8, <1>9, <1>10, <1>11, <1>12, <1>13, <1>14, <1>15, <1>16, <1>17, <1>18, <1>19, <1>20, <1>21, <1>22, <1>23 DEF Next, Process

(* What is true or false stays so. *)
LEMMA NextFlags == Flags /\ [Next]_vars => Flags'
<1> SUFFICES ASSUME Flags, [Next]_vars
             PROVE  Flags'
  OBVIOUS
<1> USE SessionAssumption DEF Flags, GoTo, link, view, outcome, history
<1>1. CASE Refused
  BY <1>1 DEF Refused
<1>2. CASE Accepted
  BY <1>2 DEF Accepted
<1>3. CASE Build
  BY <1>3 DEF Build, Raise
<1>4. CASE StartupPoll
  BY <1>4 DEF StartupPoll, Raise
<1>5. CASE MakeEngine
  BY <1>5 DEF MakeEngine, Raise
<1>6. CASE Setup
  BY <1>6 DEF Setup, WriteLost, WriteFails, Finish, Fail
<1>7. CASE LoopLeft
  BY <1>7 DEF LoopLeft
<1>8. CASE TimeExpires
  BY <1>8 DEF TimeExpires, Finish
<1>9. CASE IdleExpires
  BY <1>9 DEF IdleExpires, Finish, Idle
<1>10. CASE Iterate
  BY <1>10 DEF Iterate
<1>11. CASE Step
  BY <1>11 DEF Step
<1>12. CASE Draw
  BY <1>12 DEF Draw, WriteLost, WriteFails, Finish, Fail
<1>13. CASE ReadNothing
  BY <1>13 DEF ReadNothing
<1>14. CASE QuitKey
  BY <1>14 DEF QuitKey, KeyRead, Finish
<1>15. CASE OtherKey
  BY <1>15 DEF OtherKey, KeyRead
<1>16. CASE ReadLost
  BY <1>16 DEF ReadLost, Finish
<1>17. CASE EscapeAtEnd
  BY <1>17 DEF EscapeAtEnd, KeyRead
<1>18. CASE ReadFails
  BY <1>18 DEF ReadFails, Fail
<1>19. CASE Final
  BY <1>19 DEF Final, Restores
<1>20. CASE Shutdown
  BY <1>20 DEF Shutdown
<1>21. CASE Exit
  BY <1>21 DEF Exit, ExitCode
<1>22. CASE Tick
  BY <1>22 DEF Tick
<1>23. CASE UNCHANGED vars
  BY <1>23 DEF vars
<1>24. QED
  BY <1>1, <1>2, <1>3, <1>4, <1>5, <1>6, <1>7, <1>8, <1>9, <1>10, <1>11, <1>12, <1>13, <1>14, <1>15, <1>16, <1>17, <1>18, <1>19, <1>20, <1>21, <1>22, <1>23 DEF Next, Process

(* Times are not in the future. *)
LEMMA NextTimes == Times /\ [Next]_vars => Times'
<1> SUFFICES ASSUME Times, [Next]_vars
             PROVE  Times'
  OBVIOUS
<1> USE SessionAssumption DEF Times, GoTo, link, view, outcome, history
<1>1. CASE Refused
  BY <1>1 DEF Refused
<1>2. CASE Accepted
  BY <1>2 DEF Accepted
<1>3. CASE Build
  BY <1>3 DEF Build, Raise
<1>4. CASE StartupPoll
  BY <1>4 DEF StartupPoll, Raise
<1>5. CASE MakeEngine
  BY <1>5 DEF MakeEngine, Raise
<1>6. CASE Setup
  BY <1>6 DEF Setup, WriteLost, WriteFails, Finish, Fail
<1>7. CASE LoopLeft
  BY <1>7 DEF LoopLeft
<1>8. CASE TimeExpires
  BY <1>8 DEF TimeExpires, Finish
<1>9. CASE IdleExpires
  BY <1>9 DEF IdleExpires, Finish, Idle
<1>10. CASE Iterate
  BY <1>10 DEF Iterate
<1>11. CASE Step
  BY <1>11 DEF Step
<1>12. CASE Draw
  BY <1>12 DEF Draw, WriteLost, WriteFails, Finish, Fail
<1>13. CASE ReadNothing
  BY <1>13 DEF ReadNothing
<1>14. CASE QuitKey
  BY <1>14 DEF QuitKey, KeyRead, Finish
<1>15. CASE OtherKey
  BY <1>15 DEF OtherKey, KeyRead
<1>16. CASE ReadLost
  BY <1>16 DEF ReadLost, Finish
<1>17. CASE EscapeAtEnd
  BY <1>17 DEF EscapeAtEnd, KeyRead
<1>18. CASE ReadFails
  BY <1>18 DEF ReadFails, Fail
<1>19. CASE Final
  BY <1>19 DEF Final, Restores
<1>20. CASE Shutdown
  BY <1>20 DEF Shutdown
<1>21. CASE Exit
  BY <1>21 DEF Exit, ExitCode
<1>22. CASE Tick
  BY <1>22 DEF Tick
<1>23. CASE UNCHANGED vars
  BY <1>23 DEF vars
<1>24. QED
  BY <1>1, <1>2, <1>3, <1>4, <1>5, <1>6, <1>7, <1>8, <1>9, <1>10, <1>11, <1>12, <1>13, <1>14, <1>15, <1>16, <1>17, <1>18, <1>19, <1>20, <1>21, <1>22, <1>23 DEF Next, Process

(* The exit code of each outcome. *)
LEMMA ExitCodes ==
  ASSUME Outcomes,
         raised = None => reason # "internal_error"
  PROVE  /\ ExitCode \in {0, 13, 14, 15, 16, 17}
         /\ ExitCode = 14 <=>
              raised = "OSError" \/ (raised = None /\ reason = "disconnect")
         /\ ExitCode \in {15, 16} =>
              raised = None /\ reason \in {"time_expired", "idle_timeout"}
         /\ ExitCode = 0 <=> raised = None /\ reason = "quit"
<1> USE SessionAssumption DEF ExitCode, Outcomes
<1>1. CASE raised = None
  <2>1. CASE reason = "quit"
    BY <1>1, <2>1
  <2>2. CASE reason = "disconnect"
    BY <1>1, <2>2
  <2>3. CASE reason = "time_expired"
    BY <1>1, <2>3
  <2>4. CASE reason = "idle_timeout"
    BY <1>1, <2>4
  <2>5. QED
    BY <1>1, <2>1, <2>2, <2>3, <2>4
<1>2. CASE raised # None
  BY <1>2
<1>3. QED
  BY <1>1, <1>2

(* Reasons, exceptions and exit codes are those the code knows. *)
LEMMA NextOutcomes == IInv /\ [Next]_vars => Outcomes'
<1> SUFFICES ASSUME IInv, [Next]_vars
             PROVE  Outcomes'
  OBVIOUS
<1> USE SessionAssumption DEF IInv, TypeOK, Outcomes, GoTo, link, view, outcome, history
<1>1. CASE Refused
  BY <1>1 DEF Refused
<1>2. CASE Accepted
  BY <1>2 DEF Accepted
<1>3. CASE Build
  BY <1>3 DEF Build, Raise
<1>4. CASE StartupPoll
  BY <1>4 DEF StartupPoll, Raise
<1>5. CASE MakeEngine
  BY <1>5 DEF MakeEngine, Raise
<1>6. CASE Setup
  BY <1>6 DEF Setup, WriteLost, WriteFails, Finish, Fail
<1>7. CASE LoopLeft
  BY <1>7 DEF LoopLeft
<1>8. CASE TimeExpires
  BY <1>8 DEF TimeExpires, Finish
<1>9. CASE IdleExpires
  BY <1>9 DEF IdleExpires, Finish, Idle
<1>10. CASE Iterate
  BY <1>10 DEF Iterate
<1>11. CASE Step
  BY <1>11 DEF Step
<1>12. CASE Draw
  BY <1>12 DEF Draw, WriteLost, WriteFails, Finish, Fail
<1>13. CASE ReadNothing
  BY <1>13 DEF ReadNothing
<1>14. CASE QuitKey
  BY <1>14 DEF QuitKey, KeyRead, Finish
<1>15. CASE OtherKey
  BY <1>15 DEF OtherKey, KeyRead
<1>16. CASE ReadLost
  BY <1>16 DEF ReadLost, Finish
<1>17. CASE EscapeAtEnd
  BY <1>17 DEF EscapeAtEnd, KeyRead
<1>18. CASE ReadFails
  BY <1>18 DEF ReadFails, Fail
<1>19. CASE Final
  BY <1>19 DEF Final, Restores
<1>20. CASE Shutdown
  BY <1>20 DEF Shutdown
<1>21. CASE Exit
  BY <1>21, ExitCodes DEF Exit, Story
<1>22. CASE Tick
  BY <1>22 DEF Tick
<1>23. CASE UNCHANGED vars
  BY <1>23 DEF vars
<1>24. QED
  BY <1>1, <1>2, <1>3, <1>4, <1>5, <1>6, <1>7, <1>8, <1>9, <1>10, <1>11, <1>12, <1>13, <1>14, <1>15, <1>16, <1>17, <1>18, <1>19, <1>20, <1>21, <1>22, <1>23 DEF Next, Process

(* Steps keep the type. *)
LEMMA NextType == IInv /\ [Next]_vars => TypeOK'
<1> SUFFICES ASSUME IInv, [Next]_vars
             PROVE  TypeOK'
  OBVIOUS
<1> USE DEF IInv, Holding, GoTo, link, view, outcome, history
<1> DEFINE Rest == /\ source \in {"none", "open", "closed"}
                   /\ socket \in {"none", "open", "closed"}
                   /\ screen \in {"plain", "radar"}
                   /\ connected => socket = "open"
<1>a. Rest
  BY DEF TypeOK
<1>1. Refused => Rest'
  BY <1>a DEF Refused
<1>2. Accepted => Rest'
  BY <1>a DEF Accepted
<1>3. Build => Rest'
  BY <1>a DEF Build, Raise
<1>4. StartupPoll => Rest'
  BY <1>a DEF StartupPoll, Raise
<1>5. MakeEngine => Rest'
  BY <1>a DEF MakeEngine, Raise
<1>6. Setup => Rest'
  BY <1>a DEF Setup, WriteLost, WriteFails, Finish, Fail
<1>7. LoopLeft => Rest'
  BY <1>a DEF LoopLeft
<1>8. TimeExpires => Rest'
  BY <1>a DEF TimeExpires, Finish
<1>9. IdleExpires => Rest'
  BY <1>a DEF IdleExpires, Finish, Idle
<1>10. Iterate => Rest'
  BY <1>a DEF Iterate
<1>11. Step => Rest'
  BY <1>a DEF Step
<1>12. Draw => Rest'
  BY <1>a DEF Draw, WriteLost, WriteFails, Finish, Fail
<1>13. ReadNothing => Rest'
  BY <1>a DEF ReadNothing
<1>14. QuitKey => Rest'
  BY <1>a DEF QuitKey, KeyRead, Finish
<1>15. OtherKey => Rest'
  BY <1>a DEF OtherKey, KeyRead
<1>16. ReadLost => Rest'
  BY <1>a DEF ReadLost, Finish
<1>17. EscapeAtEnd => Rest'
  BY <1>a DEF EscapeAtEnd, KeyRead
<1>18. ReadFails => Rest'
  BY <1>a DEF ReadFails, Fail
<1>19. Final => Rest'
  BY <1>a DEF Final, Restores
<1>20. Shutdown => Rest'
  BY <1>a DEF Shutdown
<1>21. Exit => Rest'
  BY <1>a DEF Exit, ExitCode
<1>22. Tick => Rest'
  BY <1>a DEF Tick
<1>23. UNCHANGED vars => Rest'
  BY <1>a DEF vars
<1>24. Rest'
  BY <1>1, <1>2, <1>3, <1>4, <1>5, <1>6, <1>7, <1>8, <1>9, <1>10, <1>11, <1>12, <1>13, <1>14, <1>15, <1>16, <1>17, <1>18, <1>19, <1>20, <1>21, <1>22, <1>23 DEF Next, Process
<1>25. QED
  BY <1>24, NextPlace, NextFlags, NextTimes, NextOutcomes DEF TypeOK

(* Steps keep the story. *)
LEMMA NextStory == IInv /\ [Next]_vars => Story'
<1> SUFFICES ASSUME IInv, [Next]_vars
             PROVE  Story'
  OBVIOUS
<1> USE SessionAssumption DEF IInv, Story, Running, Early, GoTo, link, view, outcome, history
<1>1. CASE Refused
  BY <1>1 DEF Refused
<1>2. CASE Accepted
  BY <1>2 DEF Accepted
<1>3. CASE Build
  BY <1>3 DEF Build, Raise
<1>4. CASE StartupPoll
  BY <1>4 DEF StartupPoll, Raise
<1>5. CASE MakeEngine
  BY <1>5 DEF MakeEngine, Raise
<1>6. CASE Setup
  BY <1>6 DEF Setup, WriteLost, WriteFails, Finish, Fail
<1>7. CASE LoopLeft
  BY <1>7 DEF LoopLeft
<1>8. CASE TimeExpires
  BY <1>8 DEF TimeExpires, Finish
<1>9. CASE IdleExpires
  BY <1>9 DEF IdleExpires, Finish, Idle
<1>10. CASE Iterate
  BY <1>10 DEF Iterate
<1>11. CASE Step
  BY <1>11 DEF Step
<1>12. CASE Draw
  BY <1>12 DEF Draw, WriteLost, WriteFails, Finish, Fail
<1>13. CASE ReadNothing
  BY <1>13 DEF ReadNothing
<1>14. CASE QuitKey
  BY <1>14 DEF QuitKey, KeyRead, Finish
<1>15. CASE OtherKey
  BY <1>15 DEF OtherKey, KeyRead
<1>16. CASE ReadLost
  BY <1>16 DEF ReadLost, Finish
<1>17. CASE EscapeAtEnd
  BY <1>17 DEF EscapeAtEnd, KeyRead
<1>18. CASE ReadFails
  BY <1>18 DEF ReadFails, Fail
<1>19. CASE Final
  BY <1>19 DEF Final, Restores
<1>20. CASE Shutdown
  BY <1>20 DEF Shutdown
<1>21. CASE Exit
  BY <1>21 DEF Exit, ExitCode
<1>22. CASE Tick
  BY <1>22 DEF Tick
<1>23. CASE UNCHANGED vars
  BY <1>23 DEF vars
<1>24. QED
  BY <1>1, <1>2, <1>3, <1>4, <1>5, <1>6, <1>7, <1>8, <1>9, <1>10, <1>11, <1>12, <1>13, <1>14, <1>15, <1>16, <1>17, <1>18, <1>19, <1>20, <1>21, <1>22, <1>23 DEF Next, Process

(* Steps keep what is open where, and a process that ends has released it. *)
LEMMA NextHolding == IInv /\ [Next]_vars => (Holding /\ Released)'
<1> SUFFICES ASSUME IInv, [Next]_vars
             PROVE  (Holding /\ Released)'
  OBVIOUS
<1> USE SessionAssumption DEF IInv, Holding, Released, GoTo, link, view, outcome, history
<1>1. CASE Refused
  BY <1>1 DEF Refused
<1>2. CASE Accepted
  BY <1>2 DEF Accepted
<1>3. CASE Build
  BY <1>3 DEF Build, Raise
<1>4. CASE StartupPoll
  BY <1>4 DEF StartupPoll, Raise
<1>5. CASE MakeEngine
  BY <1>5 DEF MakeEngine, Raise
<1>6. CASE Setup
  BY <1>6 DEF Setup, WriteLost, WriteFails, Finish, Fail
<1>7. CASE LoopLeft
  BY <1>7 DEF LoopLeft
<1>8. CASE TimeExpires
  BY <1>8 DEF TimeExpires, Finish
<1>9. CASE IdleExpires
  BY <1>9 DEF IdleExpires, Finish, Idle
<1>10. CASE Iterate
  BY <1>10 DEF Iterate
<1>11. CASE Step
  BY <1>11 DEF Step
<1>12. CASE Draw
  BY <1>12 DEF Draw, WriteLost, WriteFails, Finish, Fail
<1>13. CASE ReadNothing
  BY <1>13 DEF ReadNothing
<1>14. CASE QuitKey
  BY <1>14 DEF QuitKey, KeyRead, Finish
<1>15. CASE OtherKey
  BY <1>15 DEF OtherKey, KeyRead
<1>16. CASE ReadLost
  BY <1>16 DEF ReadLost, Finish
<1>17. CASE EscapeAtEnd
  BY <1>17 DEF EscapeAtEnd, KeyRead
<1>18. CASE ReadFails
  BY <1>18 DEF ReadFails, Fail
<1>19. CASE Final
  BY <1>19 DEF Final, Restores
<1>20. CASE Shutdown
  BY <1>20 DEF Shutdown
<1>21. CASE Exit
  BY <1>21 DEF Exit, ExitCode
<1>22. CASE Tick
  BY <1>22 DEF Tick
<1>23. CASE UNCHANGED vars
  BY <1>23 DEF vars
<1>24. QED
  BY <1>1, <1>2, <1>3, <1>4, <1>5, <1>6, <1>7, <1>8, <1>9, <1>10, <1>11, <1>12, <1>13, <1>14, <1>15, <1>16, <1>17, <1>18, <1>19, <1>20, <1>21, <1>22, <1>23 DEF Next, Process

(* Steps to the end tell why, and have restored the terminal. *)
LEMMA NextEnd == IInv /\ [Next]_vars => (ExitTellsWhy /\ ScreenRestored)'
<1> SUFFICES ASSUME IInv, [Next]_vars
             PROVE  (ExitTellsWhy /\ ScreenRestored)'
  OBVIOUS
<1> USE SessionAssumption DEF IInv, Story, Holding,
        ExitTellsWhy, ScreenRestored, Running, Early, GoTo, link, view, outcome, history
<1>1. CASE Refused
  BY <1>1 DEF Refused
<1>2. CASE Accepted
  BY <1>2 DEF Accepted
<1>3. CASE Build
  BY <1>3 DEF Build, Raise
<1>4. CASE StartupPoll
  BY <1>4 DEF StartupPoll, Raise
<1>5. CASE MakeEngine
  BY <1>5 DEF MakeEngine, Raise
<1>6. CASE Setup
  BY <1>6 DEF Setup, WriteLost, WriteFails, Finish, Fail
<1>7. CASE LoopLeft
  BY <1>7 DEF LoopLeft
<1>8. CASE TimeExpires
  BY <1>8 DEF TimeExpires, Finish
<1>9. CASE IdleExpires
  BY <1>9 DEF IdleExpires, Finish, Idle
<1>10. CASE Iterate
  BY <1>10 DEF Iterate
<1>11. CASE Step
  BY <1>11 DEF Step
<1>12. CASE Draw
  BY <1>12 DEF Draw, WriteLost, WriteFails, Finish, Fail
<1>13. CASE ReadNothing
  BY <1>13 DEF ReadNothing
<1>14. CASE QuitKey
  BY <1>14 DEF QuitKey, KeyRead, Finish
<1>15. CASE OtherKey
  BY <1>15 DEF OtherKey, KeyRead
<1>16. CASE ReadLost
  BY <1>16 DEF ReadLost, Finish
<1>17. CASE EscapeAtEnd
  BY <1>17 DEF EscapeAtEnd, KeyRead
<1>18. CASE ReadFails
  BY <1>18 DEF ReadFails, Fail
<1>19. CASE Final
  BY <1>19 DEF Final, Restores
<1>20. CASE Shutdown
  BY <1>20 DEF Shutdown
<1>21. CASE Exit
  <2>1. /\ at = "exit" /\ at' = "ended" /\ exit' = ExitCode
        /\ UNCHANGED <<reason, raised, screen, lost, quitKey, escaped>>
    BY <1>21 DEF Exit
  <2>2. Outcomes /\ (raised = None => reason # "internal_error")
    BY <2>1 DEF TypeOK
  <2>3. /\ ExitCode = 14 <=>
             raised = "OSError" \/ (raised = None /\ reason = "disconnect")
        /\ ExitCode \in {15, 16} =>
             raised = None /\ reason \in {"time_expired", "idle_timeout"}
        /\ ExitCode = 0 <=> raised = None /\ reason = "quit"
    BY <2>2, ExitCodes
  <2>4. ScreenRestored'
    BY <2>1
  <2>5. raised = None /\ reason = "quit" <=> escaped \/ (quitKey /\ ~lost)
    BY <2>1, <2>2 DEF Outcomes
  <2>6. raised = "OSError" \/ (raised = None /\ reason = "disconnect")
          <=> lost /\ ~escaped /\ raised # "Exception"
    BY <2>1, <2>2 DEF Outcomes
  <2>7. ExitCode \in {15, 16} => ~lost
    BY <2>1, <2>3
  <2>8. ExitTellsWhy'
    BY <2>1, <2>3, <2>5, <2>6, <2>7
  <2>9. QED
    BY <2>4, <2>8
<1>22. CASE Tick
  BY <1>22 DEF Tick
<1>23. CASE UNCHANGED vars
  BY <1>23 DEF vars
<1>24. QED
  BY <1>1, <1>2, <1>3, <1>4, <1>5, <1>6, <1>7, <1>8, <1>9, <1>10, <1>11, <1>12, <1>13, <1>14, <1>15, <1>16, <1>17, <1>18, <1>19, <1>20, <1>21, <1>22, <1>23 DEF Next, Process

(* Every step keeps the invariant. *)
LEMMA NextSafe == IInv /\ [Next]_vars => IInv'
BY NextType, NextStory, NextHolding, NextEnd DEF IInv

(* The type invariant holds in every reachable state. *)
THEOREM TypeCorrect == Spec => []TypeOK
<1>1. IInv => TypeOK
  BY DEF IInv
<1>2. QED
  BY <1>1, InitSafe, NextSafe, PTL DEF Spec

-------------------------------------------------------------------------------
(* What the end of a session guarantees.                                   *)

(* Exit code 0 is q, or the one disconnect that is not told; 14 is every   *)
(* other lost connection; and no limit is told of a lost caller.           *)
THEOREM ExitTells == Spec => []ExitTellsWhy
<1>1. IInv => ExitTellsWhy
  BY DEF IInv
<1>2. QED
  BY <1>1, InitSafe, NextSafe, PTL DEF Spec

(* The caller gets the cursor back, and source and socket are released. *)
THEOREM ReturnsCleanly == Spec => []CleanedUp
<1>1. IInv => CleanedUp
  BY DEF IInv, CleanedUp
<1>2. QED
  BY <1>1, InitSafe, NextSafe, PTL DEF Spec

-------------------------------------------------------------------------------
(* The door stops in time.                                                 *)

InTime == CallsFit => Punctual

(* The clock starts with the session. *)
LEMMA InitInTime == Init => InTime
BY SessionAssumption DEF Init, InTime, Punctual

(* Each call adds at most its bound to the time it began at. *)
LEMMA NextInTime == Times /\ InTime /\ [Next]_vars => InTime'
<1> SUFFICES ASSUME Times, Punctual, CallsFit, [Next]_vars
             PROVE  Punctual'
  BY DEF InTime
<1> USE SessionAssumption DEF Times, Punctual, CallsFit, Cutoff, GoTo
<1>1. CASE Refused
  BY <1>1 DEF Refused
<1>2. CASE Accepted
  BY <1>2 DEF Accepted
<1>3. CASE Build
  BY <1>3 DEF Build, Raise
<1>4. CASE StartupPoll
  BY <1>4 DEF StartupPoll, Raise
<1>5. CASE MakeEngine
  BY <1>5 DEF MakeEngine, Raise
<1>6. CASE Setup
  BY <1>6 DEF Setup
<1>7. CASE LoopLeft
  BY <1>7 DEF LoopLeft
<1>8. CASE TimeExpires
  BY <1>8 DEF TimeExpires
<1>9. CASE IdleExpires
  BY <1>9 DEF IdleExpires
<1>10. CASE Iterate
  BY <1>10 DEF Iterate, Expired
<1>11. CASE Step
  BY <1>11 DEF Step
<1>12. CASE Draw
  BY <1>12 DEF Draw
<1>13. CASE ReadNothing
  BY <1>13 DEF ReadNothing
<1>14. CASE QuitKey
  BY <1>14 DEF QuitKey, KeyRead
<1>15. CASE OtherKey
  BY <1>15 DEF OtherKey, KeyRead
<1>16. CASE ReadLost
  BY <1>16 DEF ReadLost
<1>17. CASE EscapeAtEnd
  BY <1>17 DEF EscapeAtEnd, KeyRead
<1>18. CASE ReadFails
  BY <1>18 DEF ReadFails
<1>19. CASE Final
  BY <1>19 DEF Final
<1>20. CASE Shutdown
  BY <1>20 DEF Shutdown
<1>21. CASE Exit
  BY <1>21 DEF Exit
<1>22. CASE Tick
  BY <1>22, LongestValues DEF Tick
<1>23. CASE UNCHANGED vars
  BY <1>23 DEF vars
<1>24. QED
  BY <1>1, <1>2, <1>3, <1>4, <1>5, <1>6, <1>7, <1>8, <1>9, <1>10, <1>11, <1>12, <1>13, <1>14, <1>15, <1>16, <1>17, <1>18, <1>19, <1>20, <1>21, <1>22, <1>23 DEF Next, Process

(* The session is over when the time granted is, if the calls fit in the   *)
(* margin.                                                                 *)
THEOREM StoppedInTime == Spec => []StopsInTime
<1>1. TypeOK /\ InTime => StopsInTime
  <2> SUFFICES ASSUME at \in Places, Times, Punctual, CallsFit
               PROVE  now <= SessionSeconds
    BY DEF InTime, StopsInTime, TypeOK
  <2>1. at \in {"start", "build", "engine", "loop", "final", "exit", "ended",
                "startup", "step", "setup", "draw", "shutdown", "read"}
    BY LongestValues DEF Places
  <2>2. QED
    BY <2>1, SessionAssumption DEF Times, Punctual, CallsFit, Cutoff
<1>2. TypeOK => Times
  BY DEF TypeOK
<1>3. QED
  BY <1>1, <1>2, TypeCorrect, InitInTime, NextInTime, PTL DEF Spec

-------------------------------------------------------------------------------
(* The door is not kept by a caller who is gone.                           *)

(* The caller is last known to be there when the session starts. *)
LEMMA InitSilent == Init => Silent
BY SessionAssumption DEF Init, Silent, LastSilence

(* Each call adds at most its bound to the silence it began in. *)
LEMMA NextSilent == Times /\ Silent /\ [Next]_vars => Silent'
<1> SUFFICES ASSUME Times, Silent, [Next]_vars
             PROVE  Silent'
  OBVIOUS
<1> USE SessionAssumption
        DEF Times, Silent, LastSilence, GoTo, link, view, outcome, history
<1>1. CASE Refused
  BY <1>1 DEF Refused
<1>2. CASE Accepted
  BY <1>2 DEF Accepted
<1>3. CASE Build
  BY <1>3 DEF Build, Raise
<1>4. CASE StartupPoll
  BY <1>4 DEF StartupPoll, Raise
<1>5. CASE MakeEngine
  BY <1>5 DEF MakeEngine, Raise
<1>6. CASE Setup
  BY <1>6 DEF Setup
<1>7. CASE LoopLeft
  BY <1>7 DEF LoopLeft
<1>8. CASE TimeExpires
  BY <1>8 DEF TimeExpires
<1>9. CASE IdleExpires
  BY <1>9 DEF IdleExpires
<1>10. CASE Iterate
  BY <1>10 DEF Iterate, Idle
<1>11. CASE Step
  BY <1>11 DEF Step
<1>12. CASE Draw
  BY <1>12 DEF Draw
<1>13. CASE ReadNothing
  BY <1>13 DEF ReadNothing
<1>14. CASE QuitKey
  BY <1>14 DEF QuitKey, KeyRead
<1>15. CASE OtherKey
  BY <1>15 DEF OtherKey, KeyRead
<1>16. CASE ReadLost
  BY <1>16 DEF ReadLost
<1>17. CASE EscapeAtEnd
  BY <1>17 DEF EscapeAtEnd, KeyRead
<1>18. CASE ReadFails
  BY <1>18 DEF ReadFails
<1>19. CASE Final
  BY <1>19 DEF Final
<1>20. CASE Shutdown
  BY <1>20 DEF Shutdown
<1>21. CASE Exit
  BY <1>21 DEF Exit
<1>22. CASE Tick
  BY <1>22, LongestValues DEF Tick
<1>23. CASE UNCHANGED vars
  BY <1>23 DEF vars
<1>24. QED
  BY <1>1, <1>2, <1>3, <1>4, <1>5, <1>6, <1>7, <1>8, <1>9, <1>10, <1>11, <1>12, <1>13, <1>14, <1>15, <1>16, <1>17, <1>18, <1>19, <1>20, <1>21, <1>22, <1>23 DEF Next, Process

(* The session is over an iteration and a shutdown after the idle limit,   *)
(* whatever blocks and whether it is paused.                               *)
THEOREM IdleCallerGone == Spec => []IdleCallerLeaves
<1>1. Silent => IdleCallerLeaves
  BY DEF Silent, LastSilence, IdleCallerLeaves
<1>2. TypeOK => Times
  BY DEF TypeOK
<1>3. QED
  BY <1>1, <1>2, TypeCorrect, InitSilent, NextSilent, PTL DEF Spec

-------------------------------------------------------------------------------
(* The keyboard.  run_interactive() keeps one decoder for the session,     *)
(* that of TransportInput.tla.  Its names are none of DoorSession's, so    *)
(* that a state has the variables of both and each specification speaks of *)
(* its own.                                                                *)

(* What a byte on its way is. *)
Item == [byte : Byte, first : BOOLEAN, key : Key \union {"none"}]

(* Their types, of which the bound of the buffer needs no more. *)
Buffered ==
  /\ wire \in Seq(Item)
  /\ buffer \in Seq(Byte)

(* A set of numbers that is not empty has a least one. *)
LEMMA LeastRight ==
  ASSUME NEW S \in SUBSET Nat, S # {}
  PROVE  Least(S) \in S /\ \A y \in S : Least(S) <= y
<1>1. PICK x \in S : \A y \in S : ~ (<<y, x>> \in OpToRel(<, Nat))
  BY WFMin, NatLessThanWellFounded
<1>2. \A y \in S : ~ (y < x)
  BY <1>1 DEF OpToRel
<1>3. \A y \in S : x <= y
  BY <1>2
<1>4. QED
  BY <1>3 DEF Least

(* What is left of the buffer. *)
LEMMA AfterRight ==
  ASSUME Buffered, NEW n \in 0..Len(buffer)
  PROVE  /\ After(n) \in Seq(Byte)
         /\ Len(After(n)) = Len(buffer) - n
<1>1. Len(buffer) \in Nat /\ \A i \in (n + 1)..Len(buffer) : buffer[i] \in Byte
  BY LenProperties, ElementOfSeq DEF Buffered
<1>2. /\ SubSeq(buffer, n + 1, Len(buffer)) \in Seq(Byte)
      /\ Len(SubSeq(buffer, n + 1, Len(buffer)))
           = IF n + 1 <= Len(buffer) THEN Len(buffer) - (n + 1) + 1 ELSE 0
  BY <1>1, SubSeqProperties
<1>3. QED
  BY <1>1, <1>2 DEF After

LEMMA EndsRight ==
  ASSUME Buffered
  PROVE  /\ CsiEnds # {} => Least(CsiEnds) \in 3..Len(buffer)
         /\ SubEnds # {} => Least(SubEnds) \in 3..(Len(buffer) - 1)
<1>1. Len(buffer) \in Nat
  BY LenProperties DEF Buffered
<1>2. CsiEnds \in SUBSET Nat /\ CsiEnds \subseteq 3..Len(buffer)
  BY <1>1 DEF CsiEnds
<1>3. SubEnds \subseteq 3..Min2(Len(buffer) - 1, MaxTelnet + 1)
  BY DEF SubEnds
<1>4. SubEnds \in SUBSET Nat /\ SubEnds \subseteq 3..(Len(buffer) - 1)
  BY <1>1, <1>3, InputAssumption DEF Min2
<1>5. QED
  BY <1>2, <1>4, LeastRight

(* What read_key() returns takes nothing but an Escape from the buffer. *)
LEMMA GiveRight == ASSUME NEW b, Give(b) PROVE buffer' \in {b, <<>>}
BY DEF Give

(* What a read adds to the buffer are the bytes it takes from the wire. *)
LEMMA ReceiveRight ==
  ASSUME Buffered, NEW n \in 1..Len(wire), Receive(n)
  PROVE  Buffered'
<1>1. /\ Len(wire) \in Nat /\ n \in Nat /\ n <= Len(wire)
      /\ \A i \in 1..Len(wire) : wire[i] \in Item
  BY LenProperties, ElementOfSeq DEF Buffered
<1>2. SubSeq(wire, n + 1, Len(wire)) \in Seq(Item)
  BY <1>1, SubSeqProperties
<1> DEFINE got == SubSeq(wire, 1, n)
           bytes == [i \in 1..n |-> got[i].byte]
<1>3. \A i \in 1..n : got[i] = wire[i]
  BY <1>1, SubSeqProperties
<1>4. \A i \in 1..n : got[i].byte \in Byte
  BY <1>1, <1>3 DEF Item
<1> HIDE DEF got
<1>5. bytes \in Seq(Byte)
  BY <1>1, <1>4
<1>6. buffer' = buffer \o bytes /\ wire' = SubSeq(wire, n + 1, Len(wire))
  BY DEF Receive, got
<1> HIDE DEF bytes
<1>7. buffer \o bytes \in Seq(Byte)
  BY <1>5, ConcatProperties DEF Buffered
<1>8. QED
  BY <1>2, <1>6, <1>7 DEF Buffered

LEMMA SentRight ==
  ASSUME Buffered, NEW u \in Units
  PROVE  wire \o Sent(u) \in Seq(Item)
<1>1. /\ u.bytes \in Seq(Byte) /\ u.key \in Key \union {"none"}
  BY InputAssumption
<1>2. Len(u.bytes) \in Nat /\ \A i \in 1..Len(u.bytes) : u.bytes[i] \in Byte
  BY <1>1, LenProperties, ElementOfSeq
<1>3. ASSUME NEW i \in 1..Len(u.bytes)
      PROVE  [byte  |-> u.bytes[i], first |-> i = 1,
              key   |-> IF i = Len(u.bytes) THEN u.key ELSE "none"] \in Item
  <2>1. (i = 1) \in BOOLEAN
    OBVIOUS
  <2>2. (IF i = Len(u.bytes) THEN u.key ELSE "none") \in Key \union {"none"}
    BY <1>1
  <2>3. QED
    BY <1>2, <2>1, <2>2 DEF Item
<1>4. Sent(u) \in Seq(Item)
  BY <1>2, <1>3 DEF Sent
<1>5. QED
  BY <1>4, ConcatProperties DEF Buffered

LEMMA InitBuffered ==
  InputInit => Buffered /\ BoundedBuffer
<1> SUFFICES ASSUME InputInit PROVE Buffered /\ BoundedBuffer
  OBVIOUS
<1>1. wire = <<>> /\ buffer = <<>>
  BY DEF InputInit
<1>2. Buffered
  BY <1>1 DEF Buffered
<1>3. Len(buffer) = 0
  BY <1>1
<1>4. QED
  BY <1>2, <1>3, InputAssumption DEF BoundedBuffer

LEMMA NextBuffered ==
  Buffered /\ [InputNext]_inputVars => Buffered'
<1> SUFFICES ASSUME Buffered, [InputNext]_inputVars PROVE Buffered'
  OBVIOUS
<1>0. Len(buffer) \in Nat /\ Len(wire) \in Nat /\ <<>> \in Seq(Byte)
  BY LenProperties DEF Buffered
<1>1. CASE \E u \in Units : Send(u)
  <2>1. PICK u \in Units : Send(u)
    BY <1>1
  <2>2. wire' = wire \o Sent(u) /\ buffer' = buffer
    BY <2>1 DEF Send, decoder
  <2>3. QED
    BY <2>2, SentRight DEF Buffered
<1>2. CASE Plain \/ StripIac \/ LoneEscape
           \/ LongEscape \/ Arrow
  <2>1. wire' = wire
    BY <1>2 DEF Plain, StripIac, LoneEscape,
       LongEscape, Arrow, Continue
  <2>2. buffer # <<>> => Len(buffer) > 0
    BY EmptySeq, LenProperties DEF Buffered
  <2>3. buffer' = <<>> \/ \E n \in 0..Len(buffer) : buffer' = After(n)
    <3>1. CASE Plain
      BY <1>0, <2>2, <3>1 DEF Plain
    <3>2. CASE StripIac
      <4>1. IacLength \in 1..Len(buffer)
        BY <1>0, <3>2, EndsRight DEF StripIac, IacLength
      <4>2. QED
        BY <1>0, <3>2, <4>1 DEF StripIac
    <3>3. CASE LoneEscape
      BY <1>0, <3>3 DEF LoneEscape
    <3>4. CASE LongEscape
      <4>1. CsiEnds # {} => Least(CsiEnds) \in 0..Len(buffer)
        BY <1>0, EndsRight
      <4>2. QED
        BY <3>4, <4>1 DEF LongEscape
    <3>5. CASE Arrow
      <4>1. 3 \in 0..Len(buffer)
        BY <1>0, <3>5, EndsRight DEF Arrow
      <4>2. QED
        BY <3>5, <4>1 DEF Arrow
    <3>6. QED
      BY <1>2, <3>1, <3>2, <3>3, <3>4, <3>5
  <2>4. QED
    BY <1>0, <2>1, <2>3, AfterRight DEF Buffered
<1>3. CASE ParseEnds \/ ReadyKey
  <2>1. wire' = wire /\ buffer' \in {buffer, <<>>}
    BY <1>3, GiveRight DEF ParseEnds, ReadyKey
  <2>2. QED
    BY <1>0, <2>1 DEF Buffered
<1>4. CASE UnknownEscape
  <2>1. wire' = wire /\ buffer' \in {After(Least(CsiEnds)), <<>>}
    BY <1>4, GiveRight DEF UnknownEscape
  <2>2. Least(CsiEnds) \in 0..Len(buffer)
    BY <1>0, <1>4, EndsRight DEF UnknownEscape
  <2>3. QED
    BY <1>0, <2>1, <2>2, AfterRight DEF Buffered
<1>5. CASE ReadBytes \/ ReadMore
  <2>1. PICK n \in 1..Min2(MaxBytes, Len(wire)) : Receive(n)
    BY <1>5 DEF ReadBytes, ReadMore
  <2>2. n \in 1..Len(wire)
    BY <1>0, <2>1, InputAssumption DEF Min2
  <2>3. QED
    BY <2>1, <2>2, ReceiveRight
<1>6. CASE \/ HangUp \/ FirstNothing \/ SecondNothing
           \/ ReadEnd \/ UNCHANGED inputVars
  <2>1. wire' = wire /\ buffer' \in {buffer, <<>>}
    BY <1>6 DEF HangUp, FirstNothing, SecondNothing,
       ReadEnd, decoder, inputVars
  <2>2. QED
    BY <1>0, <2>1 DEF Buffered
<1>7. QED
  BY <1>1, <1>2, <1>3, <1>4, <1>5, <1>6
     DEF InputNext, Decode, ReadKey

(* The two bounds, of what an Escape and of what a negotiation may hold.   *)
Limit == IF MaxEscape > MaxTelnet THEN MaxEscape ELSE MaxTelnet

LEMMA NextBounded ==
  Buffered /\ BoundedBuffer /\ [InputNext]_inputVars
           => BoundedBuffer'
<1> SUFFICES ASSUME Buffered, BoundedBuffer, [InputNext]_inputVars,
                    pc' \in {"idle", "second"}
             PROVE  Len(buffer') <= Limit
  BY DEF BoundedBuffer, Limit
<1>0. /\ Len(buffer) \in Nat /\ Len(<<>>) = 0
      /\ Limit \in Nat /\ MaxEscape <= Limit /\ MaxTelnet <= Limit /\ Limit >= 2
      /\ MaxTelnet \in Nat /\ MaxEscape \in Nat
  BY LenProperties, InputAssumption DEF Buffered, Limit
<1>1. pc \in {"idle", "second"} => Len(buffer) <= Limit
  BY DEF BoundedBuffer, Limit
<1>2. CASE ParseEnds
  <2>1. buffer' \in {buffer, <<>>}
    BY <1>2, GiveRight DEF ParseEnds
  <2>2. CASE buffer = <<>>
    BY <1>0, <2>1, <2>2
  <2>3. CASE IacWaits
    <3>1. IacLength = 0
      BY <2>3 DEF IacWaits
    <3>2. SubEnds # {} => Least(SubEnds) + 1 # 0
      BY EndsRight, <1>0
    <3>3. Len(buffer) < 3 \/ ~(Len(buffer) > MaxTelnet)
      BY <1>0, <3>1, <3>2 DEF IacLength
    <3>4. QED
      BY <1>0, <2>1, <3>3
  <2>4. CASE EscapeWaits
    <3>1. Len(buffer) = 1 \/ Len(buffer) <= MaxEscape
      BY <2>4 DEF EscapeWaits
    <3>2. Len(buffer) <= Limit
      BY <1>0, <3>1
    <3>3. buffer' = buffer \/ Len(buffer') = 0
      BY <1>0, <2>1
    <3>4. QED
      BY <1>0, <3>2, <3>3
  <2>5. QED
    BY <1>2, <2>2, <2>3, <2>4 DEF ParseEnds
<1>3. CASE UnknownEscape
  <2>1. buffer' \in {After(Least(CsiEnds)), <<>>}
    BY <1>3, GiveRight DEF UnknownEscape
  <2>2. Least(CsiEnds) \in 0..Len(buffer) /\ Len(buffer) <= MaxEscape
    BY <1>0, <1>3, EndsRight DEF UnknownEscape
  <2>3. Len(After(Least(CsiEnds)))
          = Len(buffer) - Least(CsiEnds)
    BY <2>2, AfterRight
  <2>4. QED
    BY <1>0, <2>1, <2>2, <2>3
<1>4. CASE \/ \E u \in Units : Send(u)
           \/ ReadyKey \/ HangUp \/ FirstNothing
           \/ SecondNothing \/ UNCHANGED inputVars
  <2>1. pc \in {"idle", "second"}
    BY <1>4 DEF Send, ReadyKey, HangUp, FirstNothing,
       SecondNothing, BeforeRead, inputVars
  <2>2. buffer' \in {buffer, <<>>}
    BY <1>4, GiveRight DEF Send, ReadyKey, HangUp,
       FirstNothing, SecondNothing, decoder, inputVars
  <2>3. QED
    BY <1>0, <1>1, <2>1, <2>2
<1>5. CASE \/ Plain \/ StripIac \/ LoneEscape
           \/ LongEscape \/ Arrow
           \/ ReadBytes \/ ReadMore \/ ReadEnd
  BY <1>5 DEF Plain, StripIac, LoneEscape,
     LongEscape, Arrow, Continue, Parsing,
     ReadBytes, ReadMore, ReadEnd
<1>6. QED
  BY <1>2, <1>3, <1>4, <1>5 DEF InputNext, Decode, ReadKey

(* Whatever units the terminal sends and however reads cut them, the       *)
(* decoder of the session keeps no more than its bounds from one call of   *)
(* read_key() to the next.                                                 *)
THEOREM BufferIsBounded ==
  InputSpec => []BoundedBuffer
<1>1. InputInit => Buffered /\ BoundedBuffer
  BY InitBuffered
<1>2. Buffered /\ BoundedBuffer /\ [InputNext]_inputVars
        => (Buffered /\ BoundedBuffer)'
  BY NextBuffered, NextBounded
<1>3. QED
  BY <1>1, <1>2, PTL DEF InputSpec

-------------------------------------------------------------------------------
(* Without(), whose recursive function is followed from the empty sequence *)
(* up: that such a function exists for each length, that it depends on the *)
(* elements it has passed only, and what it makes of \o.                   *)

(* f holds what is left of the first n elements, for each n up to m. *)
KeptUpTo(s, k, m, f) ==
  f = [n \in 0..m |->
         IF n = 0 THEN <<>>
         ELSE IF s[n] = k THEN f[n - 1] ELSE Append(f[n - 1], s[n])]

(* Whatever holds of 0 and of the number after each holds of all. *)
LEMMA UpFromZero ==
  ASSUME NEW T, 0 \in T, \A n \in Nat : n \in T => n + 1 \in T
  PROVE  Nat \subseteq T
<1> SUFFICES ASSUME Nat \ T # {} PROVE FALSE
  OBVIOUS
<1>1. PICK x \in Nat \ T : \A y \in Nat \ T : ~ (<<y, x>> \in OpToRel(<, Nat))
  BY WFMin, NatLessThanWellFounded
<1>2. \A y \in Nat \ T : ~ (y < x)
  BY <1>1 DEF OpToRel
<1>3. x \in Nat /\ x \notin T
  OBVIOUS
<1>4. x # 0 /\ x - 1 \in Nat /\ x - 1 < x
  BY <1>3
<1>5. x - 1 \in T
  BY <1>2, <1>4
<1>6. (x - 1) + 1 = x
  BY <1>3
<1>7. QED
  BY <1>3, <1>4, <1>5, <1>6

LEMMA KeptExists == \A s, k : \A m \in Nat : \E f : KeptUpTo(s, k, m, f)
<1> SUFFICES ASSUME NEW s, NEW k
             PROVE  \A m \in Nat : \E f : KeptUpTo(s, k, m, f)
  OBVIOUS
<1> DEFINE T == {m \in Nat : \E f : KeptUpTo(s, k, m, f)}
<1>1. 0 \in T
  <2>1. KeptUpTo(s, k, 0, [n \in 0..0 |-> <<>>])
    BY DEF KeptUpTo
  <2>2. QED
    BY <2>1
<1>2. ASSUME NEW m \in Nat, m \in T
      PROVE  m + 1 \in T
  <2>1. PICK f : KeptUpTo(s, k, m, f)
    BY <1>2
  <2> DEFINE g == [n \in 0..(m + 1) |->
                     IF n <= m THEN f[n]
                     ELSE IF s[n] = k THEN f[m] ELSE Append(f[m], s[n])]
  <2>2. \A n \in 0..m : g[n] = f[n]
    OBVIOUS
  <2>3. ASSUME NEW n \in 0..(m + 1)
        PROVE  g[n] = IF n = 0 THEN <<>>
                      ELSE IF s[n] = k THEN g[n - 1] ELSE Append(g[n - 1], s[n])
    <3>1. CASE n = 0
      BY <2>1, <2>2, <3>1 DEF KeptUpTo
    <3>2. CASE n \in 1..m
      <4>1. n - 1 \in 0..m /\ n \in 0..m /\ n # 0
        BY <3>2
      <4>2. f[n] = IF s[n] = k THEN f[n - 1] ELSE Append(f[n - 1], s[n])
        BY <2>1, <4>1 DEF KeptUpTo
      <4>3. QED
        BY <2>2, <4>1, <4>2
    <3>3. CASE n = m + 1
      <4>1. n - 1 = m /\ n # 0 /\ ~ (n <= m)
        BY <3>3
      <4>2. QED
        BY <2>2, <4>1
    <3>4. QED
      BY <3>1, <3>2, <3>3
  <2>4. KeptUpTo(s, k, m + 1, g)
    <3> HIDE DEF g
    <3>1. g = [n \in 0..(m + 1) |-> g[n]]
      BY DEF g
    <3>2. QED
      BY <2>3, <3>1 DEF KeptUpTo
  <2>5. QED
    BY <2>4
<1>3. QED
  <2> HIDE DEF T
  <2>1. Nat \subseteq T
    BY <1>1, <1>2, UpFromZero
  <2>2. QED
    BY <2>1 DEF T

LEMMA WithoutIsKept ==
  ASSUME NEW S, NEW s \in Seq(S), NEW k
  PROVE  \E f : KeptUpTo(s, k, Len(s), f) /\ Without(s, k) = f[Len(s)]
<1>1. Len(s) \in Nat
  BY LenProperties
<1> DEFINE kept == CHOOSE f : KeptUpTo(s, k, Len(s), f)
<1>2. KeptUpTo(s, k, Len(s), kept)
  BY <1>1, KeptExists
<1>3. Without(s, k) = kept[Len(s)]
  BY DEF Without, KeptUpTo
<1>4. QED
  BY <1>2, <1>3

(* The same one step at a time. *)
Follows(s, k, n, f) ==
  /\ f[0] = <<>>
  /\ \A i \in Nat : i + 1 \in 1..n =>
       f[i + 1] = IF s[i + 1] = k THEN f[i] ELSE Append(f[i], s[i + 1])

LEMMA KeptFollows ==
  ASSUME NEW s, NEW k, NEW m \in Nat, NEW f, KeptUpTo(s, k, m, f)
  PROVE  Follows(s, k, m, f)
<1>1. f[0] = <<>>
  BY DEF KeptUpTo
<1>2. ASSUME NEW i \in Nat, i + 1 \in 1..m
      PROVE  f[i + 1] = IF s[i + 1] = k THEN f[i] ELSE Append(f[i], s[i + 1])
  <2>1. i + 1 \in 0..m /\ i + 1 # 0 /\ (i + 1) - 1 = i
    BY <1>2
  <2>2. QED
    BY <2>1 DEF KeptUpTo
<1>3. QED
  BY <1>1, <1>2 DEF Follows

LEMMA FollowsLess ==
  ASSUME NEW s, NEW k, NEW n \in Nat, NEW f, Follows(s, k, n + 1, f)
  PROVE  Follows(s, k, n, f)
<1>1. \A i \in Nat : i + 1 \in 1..n => i + 1 \in 1..(n + 1)
  OBVIOUS
<1>2. QED
  BY <1>1 DEF Follows

(* What is left of the first elements is the same in all sequences that    *)
(* begin with them.                                                        *)
LEMMA KeptAgrees ==
  ASSUME NEW s, NEW t, NEW k, NEW n \in Nat, \A i \in 1..n : s[i] = t[i],
         NEW f, NEW g, Follows(s, k, n, f), Follows(t, k, n, g)
  PROVE  f[n] = g[n]
<1> DEFINE T == {i \in Nat : i <= n => f[i] = g[i]}
<1>1. 0 \in T
  BY DEF Follows
<1>2. ASSUME NEW i \in Nat, i \in T
      PROVE  i + 1 \in T
  BY <1>2 DEF Follows
<1>3. QED
  <2> HIDE DEF T
  <2>1. Nat \subseteq T
    BY <1>1, <1>2, UpFromZero
  <2>2. QED
    BY <2>1 DEF T

LEMMA WithoutEmpty == \A k : Without(<<>>, k) = <<>>
<1> SUFFICES ASSUME NEW k PROVE Without(<<>>, k) = <<>>
  OBVIOUS
<1>1. <<>> \in Seq({}) /\ Len(<<>>) = 0
  BY EmptySeq
<1>2. PICK f : KeptUpTo(<<>>, k, 0, f) /\ Without(<<>>, k) = f[0]
  BY <1>1, WithoutIsKept
<1>3. f[0] = <<>>
  BY <1>2 DEF KeptUpTo
<1>4. QED
  BY <1>2, <1>3

LEMMA WithoutAppend ==
  ASSUME NEW S, NEW s \in Seq(S), NEW x \in S, NEW k
  PROVE  Without(Append(s, x), k)
           = IF x = k THEN Without(s, k) ELSE Append(Without(s, k), x)
<1> DEFINE n == Len(s)
           t == Append(s, x)
<1>1. /\ n \in Nat /\ t \in Seq(S) /\ Len(t) = n + 1
      /\ \A i \in 1..n : t[i] = s[i]
      /\ t[n + 1] = x
  BY LenProperties, AppendProperties
<1> HIDE DEF t
<1>2. PICK f : KeptUpTo(s, k, n, f) /\ Without(s, k) = f[n]
  BY WithoutIsKept
<1>3. PICK g : KeptUpTo(t, k, n + 1, g) /\ Without(t, k) = g[n + 1]
  BY <1>1, WithoutIsKept
<1>4. f[n] = g[n]
  <2>1. Follows(s, k, n, f) /\ Follows(t, k, n + 1, g)
    BY <1>1, <1>2, <1>3, KeptFollows
  <2>2. Follows(t, k, n, g)
    BY <1>1, <2>1, FollowsLess
  <2>3. QED
    BY <1>1, <2>1, <2>2, KeptAgrees
<1>5. n + 1 \in 0..(n + 1) /\ n + 1 # 0 /\ (n + 1) - 1 = n
  BY <1>1
<1>6. g[n + 1] = IF t[n + 1] = k THEN g[n] ELSE Append(g[n], t[n + 1])
  BY <1>3, <1>5 DEF KeptUpTo
<1>7. QED
  BY <1>1, <1>2, <1>3, <1>4, <1>6 DEF t

(* Names for \o and Append, which a leaf need not know more of than the    *)
(* following lemmas say.                                                   *)
Cat(a, b) == a \o b

Snoc(a, x) == Append(a, x)

LEMMA CatRight ==
  \A S : \A a, b \in Seq(S) :
    Cat(a, b) \in Seq(S) /\ Cat(a, <<>>) = a /\ Cat(<<>>, a) = a
BY ConcatProperties, ConcatEmptySeq DEF Cat

LEMMA CatElements ==
  \A S : \A a, b \in Seq(S) :
    /\ Len(a) \in Nat /\ Len(b) \in Nat /\ Len(Cat(a, b)) = Len(a) + Len(b)
    /\ \A i \in 1..Len(a) : Cat(a, b)[i] = a[i]
    /\ \A i \in 1..Len(b) : Cat(a, b)[Len(a) + i] = b[i]
<1> SUFFICES ASSUME NEW S, NEW a \in Seq(S), NEW b \in Seq(S)
             PROVE  /\ Len(a) \in Nat /\ Len(b) \in Nat /\ Len(a \o b) = Len(a) + Len(b)
                    /\ \A i \in 1..Len(a) : (a \o b)[i] = a[i]
                    /\ \A i \in 1..Len(b) : (a \o b)[Len(a) + i] = b[i]
  BY DEF Cat
<1>1. /\ Len(a) \in Nat /\ Len(b) \in Nat /\ Len(a \o b) = Len(a) + Len(b)
      /\ \A i \in 1..Len(a) + Len(b) :
            (a \o b)[i] = IF i <= Len(a) THEN a[i] ELSE b[i - Len(a)]
  BY ConcatProperties, LenProperties
<1>2. QED
  BY <1>1

LEMMA SnocRight ==
  \A S : \A a \in Seq(S) : \A x \in S :
    /\ Snoc(a, x) \in Seq(S)
    /\ Len(a) \in Nat
    /\ Len(Snoc(a, x)) = Len(a) + 1
    /\ \A i \in 1..Len(a) : Snoc(a, x)[i] = a[i]
    /\ Snoc(a, x)[Len(a) + 1] = x
BY AppendProperties, LenProperties DEF Snoc

LEMMA CatSnoc ==
  \A S : \A a, b \in Seq(S) : \A x \in S :
    Snoc(Cat(a, b), x) = Cat(a, Snoc(b, x))
<1> SUFFICES ASSUME NEW S, NEW a \in Seq(S), NEW b \in Seq(S), NEW x \in S
             PROVE  Append(a \o b, x) = a \o Append(b, x)
  BY DEF Cat, Snoc
<1>1. a \o b \in Seq(S) /\ <<x>> \in Seq(S)
  BY ConcatProperties
<1>2. Append(a \o b, x) = (a \o b) \o <<x>>
  BY <1>1, AppendIsConcat
<1>3. Append(b, x) = b \o <<x>>
  BY AppendIsConcat
<1>4. QED
  BY <1>1, <1>2, <1>3, ConcatAssociative

LEMMA CatCat ==
  \A S : \A a, b, c \in Seq(S) : Cat(Cat(a, b), c) = Cat(a, Cat(b, c))
BY ConcatAssociative DEF Cat

LEMMA EmptyOrSnoc ==
  \A S : \A t \in Seq(S) :
    (Len(t) = 0 /\ t = <<>>) \/ \E r \in Seq(S) : \E x \in S : t = Snoc(r, x)
BY SequenceEmptyOrAppend, EmptySeq DEF Snoc

LEMMA WithoutSnoc ==
  \A S : \A s \in Seq(S) : \A x \in S : \A k :
    Without(Snoc(s, x), k) = IF x = k THEN Without(s, k) ELSE Snoc(Without(s, k), x)
BY WithoutAppend DEF Snoc

(* Facts about sequences are proved from the empty one up. *)
LEMMA AllLengths ==
  ASSUME NEW S, NEW R, <<>> \in R,
         \A r \in Seq(S) : \A x \in S : r \in R => Snoc(r, x) \in R
  PROVE  Seq(S) \subseteq R
<1> DEFINE T == {n \in Nat : \A t \in Seq(S) : Len(t) = n => t \in R}
<1>1. 0 \in T
  BY EmptyOrSnoc, SnocRight
<1>2. ASSUME NEW n \in Nat, n \in T
      PROVE  n + 1 \in T
  <2>1. SUFFICES ASSUME NEW t \in Seq(S), Len(t) = n + 1 PROVE t \in R
    OBVIOUS
  <2>2. PICK r \in Seq(S), x \in S : t = Snoc(r, x)
    BY <2>1, EmptyOrSnoc
  <2>3. Len(r) = n
    BY <2>1, <2>2, SnocRight
  <2>4. QED
    BY <1>2, <2>2, <2>3
<1>3. Nat \subseteq T
  <2> HIDE DEF T
  <2>1. QED
    BY <1>1, <1>2, UpFromZero
<1>4. QED
  BY <1>3, LenProperties

LEMMA WithoutDrops ==
  \A S, k : \A s \in Seq(S) : Without(s, k) \in Seq(S \ {k})
<1> SUFFICES ASSUME NEW S, NEW k
             PROVE  \A s \in Seq(S) : Without(s, k) \in Seq(S \ {k})
  OBVIOUS
<1> DEFINE R == {s \in Seq(S) : Without(s, k) \in Seq(S \ {k})}
<1>1. <<>> \in R
  BY WithoutEmpty, EmptySeq
<1>2. ASSUME NEW r \in Seq(S), NEW x \in S, r \in R
      PROVE  Snoc(r, x) \in R
  <2>1. Without(Snoc(r, x), k) = IF x = k THEN Without(r, k) ELSE Snoc(Without(r, k), x)
    BY WithoutSnoc
  <2>2. Without(r, k) \in Seq(S \ {k})
    BY <1>2
  <2>3. x # k => Snoc(Without(r, k), x) \in Seq(S \ {k})
    BY <2>2, SnocRight
  <2>4. QED
    BY <2>1, <2>2, <2>3, SnocRight
<1>3. Seq(S) \subseteq R
  <2> HIDE DEF R
  <2>1. QED
    BY <1>1, <1>2, AllLengths
<1>4. QED
  BY <1>3

LEMMA WithoutInSeq ==
  \A S, k : \A s \in Seq(S) : Without(s, k) \in Seq(S)
<1> SUFFICES ASSUME NEW S, NEW k, NEW s \in Seq(S)
             PROVE  Without(s, k) \in Seq(S)
  OBVIOUS
<1>1. Without(s, k) \in Seq(S \ {k}) /\ S \ {k} \subseteq S
  BY WithoutDrops
<1>2. QED
  BY <1>1, SeqMonotonic

LEMMA WithoutCat ==
  \A S, k : \A s, t \in Seq(S) :
    Without(Cat(s, t), k) = Cat(Without(s, k), Without(t, k))
<1> SUFFICES ASSUME NEW S, NEW k, NEW s \in Seq(S)
             PROVE  \A t \in Seq(S) :
                      Without(Cat(s, t), k) = Cat(Without(s, k), Without(t, k))
  OBVIOUS
<1> DEFINE R == {t \in Seq(S) : Without(Cat(s, t), k) = Cat(Without(s, k), Without(t, k))}
<1>1. <<>> \in R
  BY WithoutEmpty, EmptySeq, CatRight, WithoutInSeq
<1>2. ASSUME NEW r \in Seq(S), NEW x \in S, r \in R
      PROVE  Snoc(r, x) \in R
  <2>1. Cat(s, Snoc(r, x)) = Snoc(Cat(s, r), x)
    BY CatSnoc
  <2>2. Without(Snoc(Cat(s, r), x), k)
          = IF x = k THEN Without(Cat(s, r), k) ELSE Snoc(Without(Cat(s, r), k), x)
    BY WithoutSnoc, CatRight
  <2>3. Without(Snoc(r, x), k) = IF x = k THEN Without(r, k) ELSE Snoc(Without(r, k), x)
    BY WithoutSnoc
  <2>4. Snoc(Cat(Without(s, k), Without(r, k)), x) = Cat(Without(s, k), Snoc(Without(r, k), x))
    BY CatSnoc, WithoutInSeq
  <2>5. QED
    BY <1>2, <2>1, <2>2, <2>3, <2>4, SnocRight
<1>3. Seq(S) \subseteq R
  <2> HIDE DEF R
  <2>1. QED
    BY <1>1, <1>2, AllLengths
<1>4. QED
  BY <1>3

LEMMA WithoutAll ==
  \A S, k : \A s \in Seq(S) :
    (\A i \in 1..Len(s) : s[i] = k) => Without(s, k) = <<>>
<1> SUFFICES ASSUME NEW S, NEW k
             PROVE  \A s \in Seq(S) :
                      (\A i \in 1..Len(s) : s[i] = k) => Without(s, k) = <<>>
  OBVIOUS
<1> DEFINE R == {s \in Seq(S) :
                   (\A i \in 1..Len(s) : s[i] = k) => Without(s, k) = <<>>}
<1>1. <<>> \in R
  BY WithoutEmpty, EmptySeq
<1>2. ASSUME NEW r \in Seq(S), NEW x \in S, r \in R
      PROVE  Snoc(r, x) \in R
  <2>1. /\ Snoc(r, x) \in Seq(S)
        /\ Len(r) \in Nat
        /\ Len(Snoc(r, x)) = Len(r) + 1
        /\ \A i \in 1..Len(r) : Snoc(r, x)[i] = r[i]
        /\ Snoc(r, x)[Len(r) + 1] = x
    BY SnocRight
  <2>2. ASSUME \A i \in 1..Len(Snoc(r, x)) : Snoc(r, x)[i] = k
        PROVE  Without(Snoc(r, x), k) = <<>>
    <3>1. (\A i \in 1..Len(r) : r[i] = k) /\ x = k
      BY <2>1, <2>2
    <3>2. QED
      BY <1>2, <3>1, WithoutSnoc
  <2>3. QED
    BY <2>1, <2>2
<1>3. Seq(S) \subseteq R
  <2> HIDE DEF R
  <2>1. QED
    BY <1>1, <1>2, AllLengths
<1>4. QED
  BY <1>3

-------------------------------------------------------------------------------
(* What is sent and what it tells.                                         *)

KeysOf(T) == [i \in 1..Len(T) |-> T[i].key]

(* The keys a caller hears of who gets what is on its way in T. *)
Told(T) == Without(Without(KeysOf(T), "none"), "ENTER")

(* What a unit may mean. *)
ItemKey == Key \union {"none"}

LEMMA KeysOfRight ==
  \A T \in Seq(Item) : KeysOf(T) \in Seq(ItemKey) /\ Len(KeysOf(T)) = Len(T)
<1> SUFFICES ASSUME NEW T \in Seq(Item)
             PROVE  KeysOf(T) \in Seq(ItemKey) /\ Len(KeysOf(T)) = Len(T)
  OBVIOUS
<1>1. Len(T) \in Nat /\ \A i \in 1..Len(T) : T[i] \in Item
  BY LenProperties, ElementOfSeq
<1>2. \A i \in 1..Len(T) : T[i].key \in ItemKey
  BY <1>1 DEF Item, ItemKey
<1>3. QED
  BY <1>1, <1>2 DEF KeysOf

LEMMA KeysOfCat ==
  \A T, U \in Seq(Item) : KeysOf(Cat(T, U)) = Cat(KeysOf(T), KeysOf(U))
<1> SUFFICES ASSUME NEW T \in Seq(Item), NEW U \in Seq(Item)
             PROVE  KeysOf(Cat(T, U)) = Cat(KeysOf(T), KeysOf(U))
  OBVIOUS
<1> DEFINE a == KeysOf(T)
           b == KeysOf(U)
           c == KeysOf(Cat(T, U))
           d == Cat(a, b)
<1>1. /\ Cat(T, U) \in Seq(Item) /\ Len(Cat(T, U)) = Len(T) + Len(U)
      /\ \A i \in 1..Len(T) : Cat(T, U)[i] = T[i]
      /\ \A i \in 1..Len(U) : Cat(T, U)[Len(T) + i] = U[i]
      /\ Len(T) \in Nat /\ Len(U) \in Nat
  <2>1. Cat(T, U) \in Seq(Item)
    BY CatRight
  <2>2. Len(T) \in Nat /\ Len(U) \in Nat /\ Len(Cat(T, U)) = Len(T) + Len(U)
    BY CatElements
  <2>3. \A i \in 1..Len(T) : Cat(T, U)[i] = T[i]
    BY CatElements
  <2>4. \A i \in 1..Len(U) : Cat(T, U)[Len(T) + i] = U[i]
    BY CatElements
  <2>5. QED
    BY <2>1, <2>2, <2>3, <2>4
<1>2. /\ a \in Seq(ItemKey) /\ b \in Seq(ItemKey) /\ c \in Seq(ItemKey)
      /\ Len(a) = Len(T) /\ Len(b) = Len(U) /\ Len(c) = Len(T) + Len(U)
  BY <1>1, KeysOfRight
<1>3. /\ \A i \in 1..Len(T) : a[i] = T[i].key
      /\ \A i \in 1..Len(U) : b[i] = U[i].key
      /\ \A i \in 1..(Len(T) + Len(U)) : c[i] = Cat(T, U)[i].key
  BY <1>1 DEF KeysOf
<1>4. /\ d \in Seq(ItemKey) /\ Len(d) = Len(T) + Len(U)
      /\ \A i \in 1..Len(T) : d[i] = a[i]
      /\ \A i \in 1..Len(U) : d[Len(T) + i] = b[i]
  <2> HIDE DEF a, b
  <2>0. a \in Seq(ItemKey) /\ b \in Seq(ItemKey)
    BY <1>2
  <2>1. Cat(a, b) \in Seq(ItemKey)
    BY <2>0, CatRight
  <2>2. Len(Cat(a, b)) = Len(a) + Len(b)
    BY <2>0, CatElements
  <2>3. \A i \in 1..Len(a) : Cat(a, b)[i] = a[i]
    BY <2>0, CatElements
  <2>4. \A i \in 1..Len(b) : Cat(a, b)[Len(a) + i] = b[i]
    BY <2>0, CatElements
  <2>5. QED
    BY <1>2, <2>1, <2>2, <2>3, <2>4
<1> HIDE DEF a, b, c, d
<1>5. ASSUME NEW i \in 1..(Len(T) + Len(U))
      PROVE  c[i] = d[i]
  <2>1. CASE i \in 1..Len(T)
    BY <1>1, <1>3, <1>4, <2>1
  <2>2. CASE i \notin 1..Len(T)
    <3>1. PICK j \in 1..Len(U) : i = Len(T) + j
      <4>1. i - Len(T) \in 1..Len(U) /\ i = Len(T) + (i - Len(T))
        BY <1>1, <2>2
      <4>2. QED
        BY <4>1
    <3>2. QED
      BY <1>1, <1>3, <1>4, <3>1
  <2>3. QED
    BY <2>1, <2>2
<1>6. c = d
  BY <1>2, <1>4, <1>5, SeqEqual
<1>7. QED
  BY <1>6 DEF a, b, c, d

LEMMA ToldCat ==
  \A T, U \in Seq(Item) :
    Told(T) \in Seq(ItemKey) /\ Told(Cat(T, U)) = Cat(Told(T), Told(U))
<1> SUFFICES ASSUME NEW T \in Seq(Item), NEW U \in Seq(Item)
             PROVE  Told(T) \in Seq(ItemKey) /\ Told(Cat(T, U)) = Cat(Told(T), Told(U))
  OBVIOUS
<1> DEFINE a == Without(KeysOf(T), "none")
           b == Without(KeysOf(U), "none")
<1>1. a \in Seq(ItemKey) /\ b \in Seq(ItemKey)
  BY KeysOfRight, WithoutInSeq
<1>2. Without(KeysOf(Cat(T, U)), "none") = Cat(a, b)
  BY KeysOfCat, KeysOfRight, WithoutCat
<1> HIDE DEF a, b
<1>3. /\ Without(a, "ENTER") \in Seq(ItemKey)
      /\ Without(Cat(a, b), "ENTER") = Cat(Without(a, "ENTER"), Without(b, "ENTER"))
  BY <1>1, WithoutInSeq, WithoutCat
<1>4. QED
  BY <1>2, <1>3 DEF Told, a, b

(* Nothing is told by the beginning of a unit. *)
LEMMA ToldNothing ==
  \A T \in Seq(Item) :
    (\A i \in 1..Len(T) : T[i].key = "none") => Told(T) = <<>>
<1> SUFFICES ASSUME NEW T \in Seq(Item), \A i \in 1..Len(T) : T[i].key = "none"
             PROVE  Told(T) = <<>>
  OBVIOUS
<1>1. \A i \in 1..Len(KeysOf(T)) : KeysOf(T)[i] = "none"
  BY KeysOfRight DEF KeysOf
<1>2. Without(KeysOf(T), "none") = <<>>
  BY <1>1, KeysOfRight, WithoutAll
<1>3. QED
  BY <1>2, WithoutEmpty DEF Told

(* What is told of the key k. *)
Tells(k) == IF k \in {"none", "ENTER"} THEN <<>> ELSE <<k>>

LEMMA WithoutOne == \A k, x : Without(<<x>>, k) = IF x = k THEN <<>> ELSE <<x>>
<1> SUFFICES ASSUME NEW k, NEW x
             PROVE  Without(<<x>>, k) = IF x = k THEN <<>> ELSE <<x>>
  OBVIOUS
<1>1. <<>> \in Seq({x}) /\ Append(<<>>, x) = <<x>>
  OBVIOUS
<1>2. Without(Append(<<>>, x), k) = IF x = k THEN Without(<<>>, k) ELSE Append(Without(<<>>, k), x)
  BY <1>1, WithoutAppend
<1>3. QED
  BY <1>1, <1>2, WithoutEmpty

(* The last byte of a unit tells its key. *)
LEMMA ToldLast ==
  \A t \in Item : Told(<<t>>) = Tells(t.key)
<1> SUFFICES ASSUME NEW t \in Item PROVE Told(<<t>>) = Tells(t.key)
  OBVIOUS
<1>1. KeysOf(<<t>>) = <<t.key>>
  BY DEF KeysOf
<1>2. QED
  BY <1>1, WithoutOne, WithoutEmpty DEF Told, Tells

-------------------------------------------------------------------------------
(* Units in the stream.                                                    *)

(* The unit u follows the first o elements of st. *)
UnitAt(st, o, u) ==
  /\ o + Len(u.bytes) <= Len(st)
  /\ \A j \in 1..Len(u.bytes) :
       /\ st[o + j].byte = u.bytes[j]
       /\ st[o + j].first <=> j = 1
       /\ st[o + j].key = IF j = Len(u.bytes) THEN u.key ELSE "none"
  /\ o + Len(u.bytes) < Len(st) => st[o + Len(u.bytes) + 1].first

(* st begins with a unit and consists of them. *)
Whole(st) ==
  /\ 0 < Len(st) => st[1].first
  /\ \A o \in Nat : o < Len(st) /\ st[o + 1].first => \E u \in Units : UnitAt(st, o, u)

LEMMA UnitRight ==
  \A u \in Units :
    /\ u.bytes \in Seq(Byte) /\ Len(u.bytes) \in Nat /\ Len(u.bytes) >= 1
    /\ u.key \in ItemKey
    /\ Understood(u)
<1> SUFFICES ASSUME NEW u \in Units
             PROVE  /\ u.bytes \in Seq(Byte) /\ Len(u.bytes) \in Nat /\ Len(u.bytes) >= 1
                    /\ u.key \in ItemKey
                    /\ Understood(u)
  OBVIOUS
<1>1. u.bytes \in Seq(Byte) /\ u.bytes # <<>> /\ u.key \in ItemKey
  BY InputAssumption DEF ItemKey
<1>2. Len(u.bytes) \in Nat \ {0}
  BY <1>1, EmptySeq
<1>3. QED
  BY <1>1, <1>2, UnitsAssumption

(* What is left of the stream behind its first unit consists of units. *)
LEMMA WholeRest ==
  \A st, r \in Seq(Item) : \A u \in Units :
    /\ Whole(st) /\ UnitAt(st, 0, u)
    /\ Len(r) = Len(st) - Len(u.bytes)
    /\ \A i \in 1..Len(r) : r[i] = st[Len(u.bytes) + i]
    => Whole(r)
<1> SUFFICES ASSUME NEW st \in Seq(Item), NEW r \in Seq(Item), NEW u \in Units
             PROVE  /\ Whole(st) /\ UnitAt(st, 0, u)
                    /\ Len(r) = Len(st) - Len(u.bytes)
                    /\ \A i \in 1..Len(r) : r[i] = st[Len(u.bytes) + i]
                    => Whole(r)
  OBVIOUS
<1> DEFINE n == Len(u.bytes)
           k == Len(st)
           l == Len(r)
<1>1. SUFFICES ASSUME Whole(st), UnitAt(st, 0, u), l = k - n,
                      \A i \in 1..l : r[i] = st[n + i]
               PROVE  Whole(r)
  OBVIOUS
<1>2. n \in Nat /\ n >= 1 /\ k \in Nat /\ l \in Nat
  BY UnitRight, LenProperties
<1>3. 0 < k - n => st[n + 1].first
  <2>1. 0 + n < k => st[0 + n + 1].first
    BY <1>1 DEF UnitAt
  <2> HIDE DEF n, k
  <2>2. QED
    BY <1>2, <2>1
<1> HIDE DEF n, k, l
<1>4. 0 < l => r[1].first
  BY <1>1, <1>2, <1>3
<1>5. ASSUME NEW o \in Nat, o < l, r[o + 1].first
      PROVE  \E v \in Units : UnitAt(r, o, v)
  <2>1. n + o \in Nat /\ n + o < k /\ o + 1 \in 1..l /\ n + (o + 1) = (n + o) + 1
    BY <1>1, <1>2, <1>5
  <2>2. st[(n + o) + 1].first
    BY <1>1, <1>5, <2>1
  <2>3. PICK v \in Units : UnitAt(st, n + o, v)
    BY <1>1, <2>1, <2>2 DEF Whole, k
  <2> DEFINE m == Len(v.bytes)
  <2>4. m \in Nat /\ m >= 1
    BY UnitRight
  <2>5. (n + o) + m <= k /\ ((n + o) + m < k => st[(n + o) + m + 1].first)
    BY <2>3 DEF UnitAt, k
  <2>12. \A j \in 1..m : /\ st[(n + o) + j].byte = v.bytes[j]
                         /\ st[(n + o) + j].first <=> j = 1
                         /\ st[(n + o) + j].key = IF j = m THEN v.key ELSE "none"
    BY <2>3 DEF UnitAt
  <2> HIDE DEF m
  <2>6. o + m <= l /\ (o + m < l => (n + o) + m < k)
    BY <1>1, <1>2, <2>4, <2>5
  <2>7. ASSUME NEW j \in 1..m
        PROVE  r[o + j] = st[(n + o) + j]
    <3>1. o + j \in 1..l /\ n + (o + j) = (n + o) + j
      BY <1>2, <2>4, <2>6
    <3>2. QED
      BY <1>1, <3>1
  <2>8. ASSUME o + m < l PROVE r[o + m + 1].first
    <3>1. o + m + 1 \in 1..l /\ n + (o + m + 1) = (n + o) + m + 1
      BY <1>2, <2>4, <2>8
    <3>2. QED
      BY <1>1, <2>5, <2>6, <2>8, <3>1
  <2>9. ASSUME NEW j \in 1..m
        PROVE  /\ r[o + j].byte = v.bytes[j]
               /\ r[o + j].first <=> j = 1
               /\ r[o + j].key = IF j = m THEN v.key ELSE "none"
    <3>1. r[o + j] = st[(n + o) + j]
      BY <2>7
    <3>2. /\ st[(n + o) + j].byte = v.bytes[j]
          /\ st[(n + o) + j].first <=> j = 1
          /\ st[(n + o) + j].key = IF j = m THEN v.key ELSE "none"
      BY <2>12
    <3>3. QED
      BY <3>1, <3>2
  <2>10. UnitAt(r, o, v)
    BY <2>6, <2>8, <2>9 DEF UnitAt, m, l
  <2>11. QED
    BY <2>10
<1>6. QED
  BY <1>4, <1>5 DEF Whole, l

LEMMA SentUnit ==
  \A u \in Units :
    /\ Sent(u) \in Seq(Item) /\ Len(Sent(u)) = Len(u.bytes)
    /\ \A i \in 1..Len(u.bytes) :
         /\ Sent(u)[i].byte = u.bytes[i]
         /\ Sent(u)[i].first <=> i = 1
         /\ Sent(u)[i].key = IF i = Len(u.bytes) THEN u.key ELSE "none"
<1> SUFFICES ASSUME NEW u \in Units
             PROVE  /\ Sent(u) \in Seq(Item) /\ Len(Sent(u)) = Len(u.bytes)
                    /\ \A i \in 1..Len(u.bytes) :
                         /\ Sent(u)[i].byte = u.bytes[i]
                         /\ Sent(u)[i].first <=> i = 1
                         /\ Sent(u)[i].key = IF i = Len(u.bytes) THEN u.key ELSE "none"
  OBVIOUS
<1>1. /\ u.bytes \in Seq(Byte) /\ Len(u.bytes) \in Nat /\ u.key \in ItemKey
  BY UnitRight
<1>2. \A i \in 1..Len(u.bytes) : u.bytes[i] \in Byte
  BY <1>1, ElementOfSeq
<1>3. ASSUME NEW i \in 1..Len(u.bytes)
      PROVE  [byte  |-> u.bytes[i], first |-> i = 1,
              key   |-> IF i = Len(u.bytes) THEN u.key ELSE "none"] \in Item
  <2>1. (i = 1) \in BOOLEAN
    OBVIOUS
  <2>2. (IF i = Len(u.bytes) THEN u.key ELSE "none") \in ItemKey
    BY <1>1 DEF ItemKey
  <2>3. QED
    BY <1>2, <2>1, <2>2 DEF Item, ItemKey
<1>4. Sent(u) \in Seq(Item) /\ Len(Sent(u)) = Len(u.bytes)
  BY <1>1, <1>3 DEF Sent
<1>5. QED
  BY <1>1, <1>4 DEF Sent

LEMMA WholeSent ==
  ASSUME NEW st \in Seq(Item), Whole(st), NEW u \in Units
  PROVE  Whole(Cat(st, Sent(u)))
<1> DEFINE s == Sent(u)
           r == Cat(st, s)
           l == Len(st)
           n == Len(u.bytes)
<1>1. s \in Seq(Item) /\ Len(s) = n /\ n \in Nat /\ n >= 1
  BY SentUnit, UnitRight
<1>2. r \in Seq(Item) /\ l \in Nat /\ Len(r) = l + n
  <2>1. l \in Nat /\ Len(r) = l + Len(s)
    BY <1>1, CatElements
  <2>2. QED
    BY <1>1, <2>1, CatRight
<1>3. \A i \in 1..l : r[i] = st[i]
  BY <1>1, CatElements
<1>4. \A i \in 1..n : r[l + i] = s[i]
  <2>1. \A i \in 1..Len(s) : r[l + i] = s[i]
    BY <1>1, CatElements
  <2>2. QED
    BY <1>1, <2>1
<1>5. \A i \in 1..n : /\ s[i].byte = u.bytes[i]
                      /\ s[i].first <=> i = 1
                      /\ s[i].key = IF i = n THEN u.key ELSE "none"
  BY SentUnit
<1> HIDE DEF s, r, l, n
<1>6. r[l + 1].first
  BY <1>1, <1>4, <1>5
<1>7. 0 < Len(r) => r[1].first
  <2>1. CASE l = 0
    BY <1>6, <2>1
  <2>2. CASE l > 0
    BY <1>2, <1>3, <2>2 DEF Whole, l
  <2>3. QED
    BY <1>2, <2>1, <2>2
<1>8. ASSUME NEW o \in Nat, o < Len(r), r[o + 1].first
      PROVE  \E v \in Units : UnitAt(r, o, v)
  <2>1. CASE o < l
    <3>1. st[o + 1].first
      BY <1>2, <1>3, <1>8, <2>1
    <3>2. PICK v \in Units : UnitAt(st, o, v)
      BY <2>1, <3>1 DEF Whole, l
    <3> DEFINE m == Len(v.bytes)
    <3>3. m \in Nat /\ m >= 1
      BY UnitRight
    <3>4. /\ o + m <= l
          /\ o + m < l => st[o + m + 1].first
      BY <3>2 DEF UnitAt, l
    <3>5. \A j \in 1..m : r[o + j] = st[o + j]
      BY <1>2, <1>3, <3>3, <3>4
    <3>6. r[o + m + 1].first
      <4>1. CASE o + m < l
        BY <1>2, <1>3, <3>3, <3>4, <4>1
      <4>2. CASE o + m = l
        BY <1>6, <4>2
      <4>3. QED
        BY <1>2, <3>3, <3>4, <4>1, <4>2
    <3>7. o + m <= Len(r)
      BY <1>1, <1>2, <3>3, <3>4
    <3> HIDE DEF m
    <3>8. UnitAt(r, o, v)
      BY <3>2, <3>5, <3>6, <3>7 DEF UnitAt, m
    <3>9. QED
      BY <3>8
  <2>2. CASE o >= l
    <3>1. o + 1 - l \in 1..n /\ l + (o + 1 - l) = o + 1
      BY <1>1, <1>2, <1>8, <2>2
    <3>2. s[o + 1 - l].first
      BY <1>4, <1>8, <3>1
    <3>3. o = l
      BY <1>2, <1>5, <3>1, <3>2
    <3>4. /\ l + n <= Len(r) /\ ~ (l + n < Len(r))
          /\ \A j \in 1..n : /\ r[l + j].byte = u.bytes[j]
                             /\ r[l + j].first <=> j = 1
                             /\ r[l + j].key = IF j = n THEN u.key ELSE "none"
      <4>1. l + n <= Len(r) /\ ~ (l + n < Len(r))
        BY <1>1, <1>2
      <4>2. ASSUME NEW j \in 1..n
            PROVE  /\ r[l + j].byte = u.bytes[j]
                   /\ r[l + j].first <=> j = 1
                   /\ r[l + j].key = IF j = n THEN u.key ELSE "none"
        <5>1. r[l + j] = s[j]
          BY <1>4
        <5>2. QED
          BY <1>5, <5>1
      <4>3. QED
        BY <4>1, <4>2
    <3>5. UnitAt(r, o, u)
      BY <3>3, <3>4 DEF UnitAt, n
    <3>6. QED
      BY <3>5
  <2>3. QED
    BY <1>2, <2>1, <2>2
<1>9. Whole(r)
  BY <1>7, <1>8 DEF Whole
<1>10. QED
  BY <1>9 DEF r, s

-------------------------------------------------------------------------------
(* What the buffer is.                                                     *)

(* T are the bytes of b, before those of w, and what they tell is what is  *)
(* missing in ks of ms.                                                    *)
Holds(T, b, w, ks, ms) ==
  /\ T \in Seq(Item) /\ Len(T) = Len(b)
  /\ \A i \in 1..Len(b) : T[i].byte = b[i]
  /\ Whole(Cat(T, w))
  /\ Cat(ks, Told(T)) = ms

Pending(T) == Holds(T, buffer, wire, Keys, Meant)

(* A sequence in two parts. *)
LEMMA TwoParts ==
  ASSUME NEW S, NEW T \in Seq(S), NEW n \in 1..Len(T)
  PROVE  /\ SubSeq(T, 1, n - 1) \in Seq(S) /\ Len(SubSeq(T, 1, n - 1)) = n - 1
         /\ \A i \in 1..(n - 1) : SubSeq(T, 1, n - 1)[i] = T[i]
         /\ SubSeq(T, n + 1, Len(T)) \in Seq(S)
         /\ Len(SubSeq(T, n + 1, Len(T))) = Len(T) - n
         /\ \A i \in 1..(Len(T) - n) : SubSeq(T, n + 1, Len(T))[i] = T[n + i]
         /\ T[n] \in S
         /\ T = Cat(Cat(SubSeq(T, 1, n - 1), <<T[n]>>), SubSeq(T, n + 1, Len(T)))
<1>1. Len(T) \in Nat /\ \A i \in 1..Len(T) : T[i] \in S
  BY LenProperties, ElementOfSeq
<1>2. /\ SubSeq(T, 1, n - 1) \in Seq(S)
      /\ Len(SubSeq(T, 1, n - 1)) = IF 1 <= n - 1 THEN (n - 1) - 1 + 1 ELSE 0
      /\ \A i \in 1..((n - 1) - 1 + 1) : SubSeq(T, 1, n - 1)[i] = T[1 + i - 1]
  <2>1. \A i \in 1..(n - 1) : T[i] \in S
    BY <1>1
  <2>2. QED
    BY <1>1, <2>1, SubSeqProperties
<1>3. /\ SubSeq(T, n + 1, Len(T)) \in Seq(S)
      /\ Len(SubSeq(T, n + 1, Len(T)))
           = IF n + 1 <= Len(T) THEN Len(T) - (n + 1) + 1 ELSE 0
      /\ \A i \in 1..(Len(T) - (n + 1) + 1) :
           SubSeq(T, n + 1, Len(T))[i] = T[(n + 1) + i - 1]
  <2>1. \A i \in (n + 1)..Len(T) : T[i] \in S
    BY <1>1
  <2>2. QED
    BY <1>1, <2>1, SubSeqProperties
<1>4. T = Cat(SubSeq(T, 1, n), SubSeq(T, n + 1, Len(T)))
  <2>1. 1 \in 1..Len(T) + 1 /\ n \in 1 - 1 .. Len(T) /\ Len(T) \in n..Len(T)
    BY <1>1
  <2>2. SubSeq(T, 1, n) \o SubSeq(T, n + 1, Len(T)) = SubSeq(T, 1, Len(T))
    BY <2>1, ConcatAdjacentSubSeq
  <2>3. QED
    BY <2>2, SubSeqFull DEF Cat
<1>5. SubSeq(T, 1, n) = Cat(SubSeq(T, 1, n - 1), <<T[n]>>)
  <2>1. 1 \in 1..Len(T) /\ n \in 1..Len(T)
    BY <1>1
  <2>2. QED
    BY <2>1, SubSeqRecursiveSecond DEF Cat
<1>6. /\ Len(SubSeq(T, 1, n - 1)) = n - 1
      /\ \A i \in 1..(n - 1) : SubSeq(T, 1, n - 1)[i] = T[i]
  <2>1. ASSUME NEW i \in 1..(n - 1)
        PROVE  SubSeq(T, 1, n - 1)[i] = T[i]
    <3>1. i \in 1..((n - 1) - 1 + 1) /\ 1 + i - 1 = i
      BY <1>1
    <3>2. QED
      BY <1>2, <3>1
  <2>2. QED
    BY <1>1, <1>2, <2>1
<1>7. /\ Len(SubSeq(T, n + 1, Len(T))) = Len(T) - n
      /\ \A i \in 1..(Len(T) - n) : SubSeq(T, n + 1, Len(T))[i] = T[n + i]
  <2>1. ASSUME NEW i \in 1..(Len(T) - n)
        PROVE  SubSeq(T, n + 1, Len(T))[i] = T[n + i]
    <3>1. i \in 1..(Len(T) - (n + 1) + 1) /\ (n + 1) + i - 1 = n + i
      BY <1>1
    <3>2. QED
      BY <1>3, <3>1
  <2>2. (IF n + 1 <= Len(T) THEN Len(T) - (n + 1) + 1 ELSE 0) = Len(T) - n
    BY <1>1
  <2>3. QED
    BY <1>3, <2>1, <2>2
<1>8. T = Cat(Cat(SubSeq(T, 1, n - 1), <<T[n]>>), SubSeq(T, n + 1, Len(T)))
  BY <1>4, <1>5
<1>9. QED
  BY <1>1, <1>2, <1>3, <1>6, <1>7, <1>8

(* The stream behind T's first n elements. *)
LEMMA RestOfStream ==
  ASSUME NEW T \in Seq(Item), NEW w \in Seq(Item), NEW u \in Units,
         Whole(Cat(T, w)), UnitAt(Cat(T, w), 0, u), Len(u.bytes) <= Len(T)
  PROVE  Whole(Cat(SubSeq(T, Len(u.bytes) + 1, Len(T)), w))
<1> DEFINE n == Len(u.bytes)
           R == SubSeq(T, n + 1, Len(T))
           st == Cat(T, w)
           r == Cat(R, w)
           t == Len(T)
           l == Len(w)
<1>1. n \in Nat /\ n >= 1 /\ t \in Nat /\ l \in Nat /\ n <= t
  BY UnitRight, LenProperties
<1>2. n \in 1..t
  BY <1>1
<1>3. R \in Seq(Item) /\ Len(R) = t - n /\ \A i \in 1..(t - n) : R[i] = T[n + i]
  BY <1>2, TwoParts
<1>4. st \in Seq(Item) /\ r \in Seq(Item)
  <2> HIDE DEF R
  <2>1. QED
    BY <1>3, CatRight
<1>5. Len(st) = t + l /\ (\A i \in 1..t : st[i] = T[i])
  BY CatElements
<1>6. \A i \in 1..l : st[t + i] = w[i]
  BY CatElements
<1>7. Len(r) = Len(R) + l /\ (\A i \in 1..Len(R) : r[i] = R[i])
  <2> HIDE DEF R
  <2>1. QED
    BY <1>3, CatElements
<1>8. \A i \in 1..l : r[Len(R) + i] = w[i]
  <2>1. R \in Seq(Item)
    BY <1>3
  <2> HIDE DEF R
  <2>2. QED
    BY <2>1, CatElements
<1>9. Whole(st) /\ UnitAt(st, 0, u)
  OBVIOUS
<1> HIDE DEF R, st, r, t, l, n
<1>10. Len(r) = Len(st) - n
  BY <1>1, <1>3, <1>5, <1>7
<1>11. ASSUME NEW i \in 1..Len(r)
       PROVE  r[i] = st[n + i]
  <2>1. CASE i <= t - n
    <3>1. i \in 1..(t - n) /\ n + i \in 1..t
      BY <1>1, <2>1
    <3>2. r[i] = R[i] /\ R[i] = T[n + i] /\ st[n + i] = T[n + i]
      BY <1>3, <1>5, <1>7, <3>1
    <3>3. QED
      BY <3>2
  <2>2. CASE i > t - n
    <3>1. i - (t - n) \in 1..l /\ (t - n) + (i - (t - n)) = i /\ t + (i - (t - n)) = n + i
      BY <1>1, <1>3, <1>7, <2>2
    <3>2. r[(t - n) + (i - (t - n))] = w[i - (t - n)]
      BY <1>3, <1>8, <3>1
    <3>3. st[t + (i - (t - n))] = w[i - (t - n)]
      BY <1>6, <3>1
    <3>4. QED
      BY <3>1, <3>2, <3>3
  <2>3. QED
    BY <1>1, <1>3, <1>7, <2>1, <2>2
<1>12. Whole(r)
  BY <1>4, <1>9, <1>10, <1>11, WholeRest DEF n
<1>13. QED
  BY <1>12 DEF r, R, t, n

(* What a unit tells comes first. *)
LEMMA UnitToldFirst ==
  ASSUME NEW T \in Seq(Item), NEW w \in Seq(Item), NEW u \in Units,
         UnitAt(Cat(T, w), 0, u), Len(u.bytes) <= Len(T)
  PROVE  Told(T) = Cat(Tells(u.key), Told(SubSeq(T, Len(u.bytes) + 1, Len(T))))
<1> DEFINE n == Len(u.bytes)
           F == SubSeq(T, 1, n - 1)
           R == SubSeq(T, n + 1, Len(T))
           st == Cat(T, w)
<1>1. n \in Nat /\ n >= 1 /\ Len(T) \in Nat /\ n <= Len(T)
  BY UnitRight, LenProperties
<1>2. n \in 1..Len(T)
  BY <1>1
<1>3. /\ F \in Seq(Item) /\ Len(F) = n - 1 /\ \A i \in 1..(n - 1) : F[i] = T[i]
      /\ R \in Seq(Item)
      /\ T[n] \in Item
      /\ T = Cat(Cat(F, <<T[n]>>), R)
  BY <1>2, TwoParts
<1>4. \A i \in 1..Len(T) : st[i] = T[i]
  BY CatElements
<1>5. \A j \in 1..n : st[0 + j].key = IF j = n THEN u.key ELSE "none"
  BY DEF UnitAt
<1> HIDE DEF n, F, R, st
<1>6. ASSUME NEW i \in 1..Len(F) PROVE F[i].key = "none"
  <2>1. i \in 1..n /\ i # n /\ i \in 1..Len(T) /\ 0 + i = i /\ i \in 1..(n - 1)
    BY <1>1, <1>3
  <2>2. st[i].key = "none"
    BY <1>5, <2>1
  <2>3. F[i] = st[i]
    BY <1>3, <1>4, <2>1
  <2>4. QED
    BY <2>2, <2>3
<1>7. Told(F) = <<>>
  BY <1>3, <1>6, ToldNothing
<1>8. T[n].key = u.key
  <2>1. n \in 1..n /\ 0 + n = n
    BY <1>1
  <2>2. st[n].key = u.key
    BY <1>5, <2>1
  <2>3. QED
    BY <1>2, <1>4, <2>2
<1>9. Told(<<T[n]>>) = Tells(u.key)
  BY <1>3, <1>8, ToldLast
<1> DEFINE L == <<T[n]>>
<1>10. L \in Seq(Item)
  BY <1>3
<1>11. Told(L) = Tells(u.key) /\ T = Cat(Cat(F, L), R)
  BY <1>3, <1>9
<1> HIDE DEF L
<1>12. Told(Cat(F, L)) = Cat(Told(F), Told(L)) /\ Told(L) \in Seq(ItemKey)
  BY <1>3, <1>10, ToldCat
<1>13. Told(Cat(F, L)) = Told(L)
  BY <1>7, <1>12, CatRight
<1>14. Told(T) = Cat(Told(Cat(F, L)), Told(R))
  BY <1>3, <1>10, <1>11, CatRight, ToldCat
<1>15. QED
  BY <1>11, <1>13, <1>14 DEF R, n

(* When the bytes of a unit leave the buffer and its key is among those    *)
(* decoded, the rest is as it was.                                         *)
LEMMA UnitTaken ==
  ASSUME NEW T, NEW b, NEW w \in Seq(Item), NEW ks \in Seq(Key), NEW ms,
         b \in Seq(Byte), Holds(T, b, w, ks, ms),
         NEW u \in Units, UnitAt(Cat(T, w), 0, u), Len(u.bytes) <= Len(b)
  PROVE  Holds(SubSeq(T, Len(u.bytes) + 1, Len(T)), SubSeq(b, Len(u.bytes) + 1, Len(b)),
               w, Cat(ks, Tells(u.key)), ms)
<1> DEFINE n == Len(u.bytes)
           R == SubSeq(T, n + 1, Len(T))
           c == SubSeq(b, n + 1, Len(b))
<1>1. /\ T \in Seq(Item) /\ Len(T) = Len(b) /\ Whole(Cat(T, w))
      /\ \A i \in 1..Len(b) : T[i].byte = b[i]
      /\ Cat(ks, Told(T)) = ms
  BY DEF Holds
<1>2. n \in Nat /\ n >= 1 /\ Len(b) \in Nat /\ n \in 1..Len(b)
  BY UnitRight, LenProperties
<1>3. R \in Seq(Item) /\ Len(R) = Len(T) - n /\ \A i \in 1..(Len(T) - n) : R[i] = T[n + i]
  <2>1. n \in 1..Len(T) /\ T \in Seq(Item)
    BY <1>1, <1>2
  <2> HIDE DEF n
  <2>2. QED
    BY <2>1, TwoParts
<1>4. c \in Seq(Byte) /\ Len(c) = Len(b) - n /\ \A i \in 1..(Len(b) - n) : c[i] = b[n + i]
  BY <1>2, TwoParts
<1>5. Whole(Cat(R, w))
  BY <1>1, RestOfStream
<1>6. Told(T) = Cat(Tells(u.key), Told(R))
  BY <1>1, UnitToldFirst
<1>7. Tells(u.key) \in Seq(ItemKey)
  BY UnitRight DEF Tells
<1> HIDE DEF R, c, n
<1>8. ASSUME NEW i \in 1..Len(c) PROVE R[i].byte = c[i]
  <2>1. i \in 1..(Len(b) - n) /\ n + i \in 1..Len(b)
    BY <1>2, <1>4
  <2>2. R[i] = T[n + i] /\ c[i] = b[n + i]
    BY <1>1, <1>3, <1>4, <2>1
  <2>3. QED
    BY <1>1, <2>1, <2>2
<1>9. ks \in Seq(ItemKey) /\ Told(R) \in Seq(ItemKey)
  <2>1. Key \subseteq ItemKey
    BY DEF ItemKey
  <2>2. QED
    BY <1>3, <2>1, ToldCat, SeqMonotonic
<1>10. Cat(Cat(ks, Tells(u.key)), Told(R)) = Cat(ks, Cat(Tells(u.key), Told(R)))
  BY <1>7, <1>9, CatCat
<1>11. Holds(R, c, w, Cat(ks, Tells(u.key)), ms)
  BY <1>1, <1>3, <1>4, <1>5, <1>6, <1>8, <1>10 DEF Holds
<1>12. QED
  BY <1>11 DEF R, c, n

(* A buffer that is not empty begins with a unit, all of it or the first   *)
(* bytes.                                                                  *)
LEMMA BeginsWithUnit ==
  ASSUME NEW T, NEW b \in Seq(Byte), NEW w \in Seq(Item), NEW ks, NEW ms,
         Holds(T, b, w, ks, ms), b # <<>>
  PROVE  \E u \in Units :
           /\ UnitAt(Cat(T, w), 0, u)
           /\ \A j \in 1..Len(u.bytes) : j <= Len(b) => u.bytes[j] = b[j]
<1>1. /\ T \in Seq(Item) /\ Len(T) = Len(b) /\ Whole(Cat(T, w))
      /\ \A i \in 1..Len(b) : T[i].byte = b[i]
  BY DEF Holds
<1>2. Len(b) \in Nat /\ Len(b) > 0
  BY EmptySeq
<1> DEFINE st == Cat(T, w)
<1>3. Len(w) \in Nat /\ Len(st) = Len(T) + Len(w)
  BY <1>1, CatElements
<1>4. \A i \in 1..Len(T) : st[i] = T[i]
  BY <1>1, CatElements
<1> HIDE DEF st
<1>5. 0 < Len(st) /\ 0 + 1 = 1
  BY <1>1, <1>2, <1>3
<1>6. Whole(st)
  BY <1>1 DEF st
<1>7. st[0 + 1].first
  BY <1>5, <1>6 DEF Whole
<1>8. PICK u \in Units : UnitAt(st, 0, u)
  BY <1>5, <1>6, <1>7 DEF Whole
<1>9. ASSUME NEW j \in 1..Len(u.bytes), j <= Len(b)
      PROVE  u.bytes[j] = b[j]
  <2>1. Len(u.bytes) \in Nat
    BY UnitRight
  <2>2. st[0 + j].byte = u.bytes[j]
    BY <1>8 DEF UnitAt
  <2>3. j \in 1..Len(b) /\ 0 + j = j
    BY <1>9, <2>1
  <2>4. st[j] = T[j] /\ T[j].byte = b[j]
    BY <1>1, <1>4, <2>3
  <2>5. QED
    BY <2>2, <2>3, <2>4
<1>10. QED
  BY <1>8, <1>9 DEF st

(* A buffer that holds less than its first unit tells nothing, and what is *)
(* read next is in the middle of that unit.                                *)
LEMMA InsideUnit ==
  ASSUME NEW T, NEW b \in Seq(Byte), NEW w \in Seq(Item), NEW ks, NEW ms,
         Holds(T, b, w, ks, ms), b # <<>>,
         NEW u \in Units, UnitAt(Cat(T, w), 0, u), Len(u.bytes) > Len(b)
  PROVE  Told(T) = <<>> /\ w # <<>> /\ ~ w[1].first
<1>1. T \in Seq(Item) /\ Len(T) = Len(b)
  BY DEF Holds
<1>2. Len(b) \in Nat /\ Len(b) > 0
  BY EmptySeq
<1> DEFINE st == Cat(T, w)
           n == Len(u.bytes)
<1>3. Len(w) \in Nat /\ Len(st) = Len(T) + Len(w)
  BY <1>1, CatElements
<1>4. \A i \in 1..Len(T) : st[i] = T[i]
  BY <1>1, CatElements
<1>5. \A i \in 1..Len(w) : st[Len(T) + i] = w[i]
  <2>1. T \in Seq(Item)
    BY <1>1
  <2>2. QED
    BY <2>1, CatElements
<1>6. 0 + n <= Len(st) /\ n \in Nat /\ n > Len(b)
  BY UnitRight DEF UnitAt
<1>7. \A j \in 1..n : st[0 + j].key = IF j = n THEN u.key ELSE "none"
  BY DEF UnitAt
<1>8. \A j \in 1..n : st[0 + j].first <=> j = 1
  BY DEF UnitAt
<1> HIDE DEF st, n
<1>9. Told(T) = <<>>
  <2>1. ASSUME NEW i \in 1..Len(T) PROVE T[i].key = "none"
    <3>1. i \in 1..n /\ i # n /\ 0 + i = i
      BY <1>1, <1>2, <1>6
    <3>2. st[i].key = "none"
      BY <1>7, <3>1
    <3>3. QED
      BY <1>4, <3>2
  <2>2. QED
    BY <1>1, <2>1, ToldNothing
<1>10. 1 \in 1..Len(w)
  BY <1>1, <1>2, <1>3, <1>6
<1>11. ~ w[1].first
  <2>1. /\ Len(T) + 1 \in 1..n /\ Len(T) + 1 # 1 /\ 0 + (Len(T) + 1) = Len(T) + 1
    BY <1>1, <1>2, <1>6
  <2>2. ~ st[Len(T) + 1].first
    BY <1>8, <2>1
  <2>3. QED
    BY <1>5, <1>10, <2>2
<1>12. w # <<>>
  BY <1>10, EmptySeq
<1>13. QED
  BY <1>9, <1>11, <1>12

(* What begins with an Escape is an Escape or a CSI sequence, and the byte *)
(* behind it says which.                                                   *)
LEMMA EscapeBegins ==
  ASSUME NEW T, NEW b \in Seq(Byte), NEW w \in Seq(Item), NEW ks \in Seq(Key), NEW ms,
         Holds(T, b, w, ks, ms), b # <<>>, b[1] = "esc",
         NEW u \in Units, UnitAt(Cat(T, w), 0, u),
         \A j \in 1..Len(u.bytes) : j <= Len(b) => u.bytes[j] = b[j]
  PROVE  \/ /\ Len(u.bytes) = 1 /\ u.key = "ESC"
            /\ Len(b) > 1 => b[2] # "["
         \/ /\ Len(u.bytes) >= 3 /\ u.bytes[Len(u.bytes)] \in CsiFinal
            /\ \A i \in 3..Len(u.bytes) - 1 : u.bytes[i] \notin CsiFinal
            /\ u.key = IF Len(u.bytes) = 3 /\ u.bytes[3] = "A" THEN "UP" ELSE "none"
            /\ Len(b) > 1 => b[2] = "["
<1>1. Len(b) \in Nat /\ Len(b) > 0 /\ Len(u.bytes) \in Nat /\ Len(u.bytes) >= 1
  BY EmptySeq, UnitRight
<1>2. u.bytes[1] = "esc"
  BY <1>1
<1>3. Understood(u)
  BY UnitRight
<1>4. \/ Len(u.bytes) = 1 /\ u.key = "ESC"
      \/ /\ Len(u.bytes) >= 3 /\ u.bytes[2] = "["
         /\ u.bytes[Len(u.bytes)] \in CsiFinal
         /\ \A i \in 3..Len(u.bytes) - 1 : u.bytes[i] \notin CsiFinal
         /\ u.key = IF Len(u.bytes) = 3 /\ u.bytes[3] = "A" THEN "UP" ELSE "none"
  BY <1>2, <1>3 DEF Understood
<1>5. ASSUME Len(u.bytes) = 1, u.key = "ESC", Len(b) > 1
      PROVE  b[2] # "["
  <2> DEFINE R == SubSeq(T, Len(u.bytes) + 1, Len(T))
             c == SubSeq(b, Len(u.bytes) + 1, Len(b))
             kt == Cat(ks, Tells(u.key))
  <2>1. Holds(R, c, w, kt, ms)
    <3>1. Len(u.bytes) <= Len(b)
      BY <1>1, <1>5
    <3>2. QED
      BY <3>1, UnitTaken
  <2>2. 1 \in 1..Len(b)
    BY <1>1
  <2>3. /\ SubSeq(b, 2, Len(b)) \in Seq(Byte) /\ Len(SubSeq(b, 2, Len(b))) = Len(b) - 1
        /\ \A i \in 1..(Len(b) - 1) : SubSeq(b, 2, Len(b))[i] = b[1 + i]
    <3>1. /\ SubSeq(b, 1 + 1, Len(b)) \in Seq(Byte)
          /\ Len(SubSeq(b, 1 + 1, Len(b))) = Len(b) - 1
          /\ \A i \in 1..(Len(b) - 1) : SubSeq(b, 1 + 1, Len(b))[i] = b[1 + i]
      BY <2>2, TwoParts
    <3>2. QED
      BY <3>1
  <2>4. c = SubSeq(b, 2, Len(b))
    BY <1>5
  <2>5. c \in Seq(Byte) /\ Len(c) > 0 /\ c[1] = b[2]
    <3>1. 1 \in 1..(Len(b) - 1) /\ 1 + 1 = 2
      BY <1>1, <1>5
    <3>2. QED
      BY <1>1, <1>5, <2>3, <2>4, <3>1
  <2> HIDE DEF R, c, kt
  <2>6. c # <<>>
    BY <2>5, EmptySeq
  <2>7. PICK v \in Units : \A j \in 1..Len(v.bytes) : j <= Len(c) => v.bytes[j] = c[j]
    BY <2>1, <2>5, <2>6, BeginsWithUnit
  <2>8. v.bytes[1] = c[1]
    <3>1. Len(c) \in Nat /\ Len(v.bytes) \in Nat /\ Len(v.bytes) >= 1
      BY <2>5, LenProperties, UnitRight
    <3>2. QED
      BY <2>5, <2>7, <3>1
  <2>9. v.bytes[1] # "["
    BY UnitRight DEF Understood
  <2>10. QED
    BY <2>5, <2>8, <2>9
<1>6. CASE Len(u.bytes) = 1 /\ u.key = "ESC"
  BY <1>5, <1>6
<1>7. CASE /\ Len(u.bytes) >= 3 /\ u.bytes[2] = "["
           /\ u.bytes[Len(u.bytes)] \in CsiFinal
           /\ \A i \in 3..Len(u.bytes) - 1 : u.bytes[i] \notin CsiFinal
           /\ u.key = IF Len(u.bytes) = 3 /\ u.bytes[3] = "A" THEN "UP" ELSE "none"
  <2>1. Len(b) > 1 => b[2] = "["
    BY <1>1, <1>7
  <2>2. QED
    BY <1>7, <2>1
<1>8. QED
  BY <1>4, <1>6, <1>7

(* What the loop waits with is less than a unit, an Escape that stands     *)
(* alone apart.                                                            *)
LEMMA IacWaitsInside ==
  ASSUME Buffered, IacWaits,
         NEW u \in Units,
         \A j \in 1..Len(u.bytes) : j <= Len(buffer) => u.bytes[j] = buffer[j]
  PROVE  Len(u.bytes) > Len(buffer)
<1> DEFINE n == Len(u.bytes)
<1>1. /\ Len(buffer) \in Nat /\ Len(buffer) > 0 /\ buffer[1] = "iac" /\ IacLength = 0
  BY EmptySeq DEF IacWaits, Buffered
<1>2. n \in Nat /\ n >= 1 /\ Understood(u)
  BY UnitRight
<1>3. u.bytes[1] = "iac"
  BY <1>1, <1>2
<1>4. SUFFICES ASSUME n <= Len(buffer) PROVE FALSE
  BY <1>1, <1>2
<1>5. \A j \in 1..n : u.bytes[j] = buffer[j]
  BY <1>1, <1>2, <1>4
<1>6. CASE n = 2 /\ u.bytes[2] \notin {"sb", "do"}
  <2>1. Len(buffer) >= 2 /\ buffer[2] \notin {"sb", "do"}
    BY <1>4, <1>5, <1>6
  <2>2. IacLength = 2
    BY <1>1, <2>1 DEF IacLength
  <2>3. QED
    BY <1>1, <2>2
<1>7. CASE n = 3 /\ u.bytes[2] = "do"
  <2>1. Len(buffer) >= 3 /\ buffer[2] = "do"
    BY <1>4, <1>5, <1>7
  <2>2. IacLength = 3
    BY <1>1, <2>1 DEF IacLength
  <2>3. QED
    BY <1>1, <2>2
<1>8. CASE n >= 4 /\ u.bytes[2] = "sb" /\ u.bytes[n - 1] = "iac" /\ u.bytes[n] = "se"
  <2>1. Len(buffer) >= 4 /\ buffer[2] = "sb" /\ buffer[n - 1] = "iac" /\ buffer[n] = "se"
    <3>1. 2 \in 1..n /\ n - 1 \in 1..n /\ n \in 1..n
      BY <1>2, <1>8
    <3>2. QED
      BY <1>1, <1>2, <1>4, <1>5, <1>8, <3>1
  <2>2. IacLength = IF SubEnds # {} THEN Least(SubEnds) + 1
                    ELSE IF Len(buffer) > MaxTelnet THEN 1 ELSE 0
    BY <1>1, <2>1 DEF IacLength
  <2>3. SubEnds # {} => Least(SubEnds) \in 3..(Len(buffer) - 1)
    BY EndsRight
  <2>4. SubEnds = {} /\ Len(buffer) <= MaxTelnet
    BY <1>1, <2>2, <2>3, InputAssumption
  <2>5. n - 1 \in 3..Min2(Len(buffer) - 1, MaxTelnet + 1)
    BY <1>1, <1>2, <1>4, <1>8, <2>4, InputAssumption DEF Min2
  <2>6. n - 1 \in SubEnds
    <3>1. (n - 1) + 1 = n
      BY <1>2
    <3>2. QED
      BY <2>1, <2>5, <3>1 DEF SubEnds
  <2>7. QED
    BY <2>4, <2>6
<1>9. QED
  BY <1>2, <1>3, <1>6, <1>7, <1>8 DEF Understood

LEMMA EscapeWaitsInside ==
  ASSUME Buffered, Keys \in Seq(Key), NEW T, Pending(T), EscapeWaits,
         NEW u \in Units, UnitAt(Cat(T, wire), 0, u),
         \A j \in 1..Len(u.bytes) : j <= Len(buffer) => u.bytes[j] = buffer[j]
  PROVE  \/ Len(u.bytes) > Len(buffer)
         \/ Len(buffer) = 1 /\ Len(u.bytes) = 1 /\ u.key = "ESC"
<1> DEFINE n == Len(u.bytes)
<1>1. /\ buffer \in Seq(Byte) /\ wire \in Seq(Item)
      /\ buffer # <<>> /\ buffer[1] = "esc"
      /\ Holds(T, buffer, wire, Keys, Meant)
  BY DEF Buffered, EscapeWaits, IsCsi, PendingEscape, Pending
<1>2. Len(buffer) \in Nat /\ Len(buffer) > 0 /\ n \in Nat
  BY <1>1, EmptySeq, UnitRight
<1>3. \/ n = 1 /\ u.key = "ESC" /\ (Len(buffer) > 1 => buffer[2] # "[")
      \/ n >= 3 /\ u.bytes[n] \in CsiFinal
  BY <1>1, EscapeBegins
<1>4. CASE Len(buffer) = 1
  BY <1>2, <1>3, <1>4
<1>5. CASE Len(buffer) > 1 /\ buffer[2] = "[" /\ CsiEnds = {}
  <2>1. n >= 3 /\ u.bytes[n] \in CsiFinal
    BY <1>3, <1>5
  <2>2. ASSUME n <= Len(buffer) PROVE FALSE
    <3>1. n \in 3..Len(buffer) /\ u.bytes[n] = buffer[n]
      BY <1>2, <2>1, <2>2
    <3>2. n \in CsiEnds
      BY <2>1, <3>1 DEF CsiEnds
    <3>3. QED
      BY <1>5, <3>2
  <2>3. QED
    BY <1>2, <2>2
<1>6. QED
  BY <1>4, <1>5 DEF EscapeWaits, IsCsi

-------------------------------------------------------------------------------
(* Types.                                                                  *)

LEMMA KeysTyped ==
  ASSUME keys \in Seq(Key), ready \in Seq(Key)
  PROVE  Keys \in Seq(Key)
<1>1. keys \o ready \in Seq(Key)
  BY ConcatProperties
<1>2. QED
  BY <1>1, WithoutInSeq DEF Keys

LEMMA GiveTyped ==
  ASSUME InputTypeOK, NEW b, Give(b)
  PROVE  keys' \in Seq(Key) /\ ready' \in Seq(Key)
<1>1. keys \in Seq(Key) /\ ready \in Seq(Key)
  BY DEF InputTypeOK
<1>2. CASE ready # <<>>
  <2>1. Head(ready) \in Key /\ Tail(ready) \in Seq(Key)
    BY <1>1, <1>2, HeadTailProperties
  <2>2. keys' = Append(keys, Head(ready)) /\ ready' = Tail(ready)
    BY <1>2 DEF Give
  <2>3. QED
    BY <1>1, <2>1, <2>2, AppendProperties
<1>3. CASE ready = <<>>
  <2>1. ready' = ready /\ keys' \in {keys, Append(keys, "ESC")}
    BY <1>3 DEF Give
  <2>2. "ESC" \in Key
    BY DEF Key
  <2>3. QED
    BY <1>1, <2>1, <2>2, AppendProperties
<1>4. QED
  BY <1>2, <1>3

(* What a read of n bytes does. *)
LEMMA ReceiveReads ==
  ASSUME Buffered, NEW n \in 1..Len(wire), Receive(n)
  PROVE  \E G \in Seq(Item) :
           /\ Len(G) = n
           /\ wire = Cat(G, wire')
           /\ buffer' = Cat(buffer, [i \in 1..n |-> G[i].byte])
           /\ meant' = Cat(meant, Without(KeysOf(G), "none"))
<1> DEFINE G == SubSeq(wire, 1, n)
<1>1. wire \in Seq(Item) /\ Len(wire) \in Nat
  BY LenProperties DEF Buffered
<1>2. G \in Seq(Item) /\ Len(G) = n
  <2>1. \A i \in 1..n : wire[i] \in Item
    BY <1>1, ElementOfSeq
  <2>2. G \in Seq(Item) /\ Len(G) = IF 1 <= n THEN n - 1 + 1 ELSE 0
    BY <1>1, <2>1, SubSeqProperties
  <2>3. QED
    BY <1>1, <2>2
<1>3. wire = Cat(G, SubSeq(wire, n + 1, Len(wire)))
  <2>1. 1 \in 1..Len(wire) + 1 /\ n \in 1 - 1 .. Len(wire) /\ Len(wire) \in n..Len(wire)
    BY <1>1
  <2>2. SubSeq(wire, 1, n) \o SubSeq(wire, n + 1, Len(wire)) = SubSeq(wire, 1, Len(wire))
    BY <1>1, <2>1, ConcatAdjacentSubSeq
  <2>3. QED
    BY <1>1, <2>2, SubSeqFull DEF Cat
<1>4. /\ wire' = SubSeq(wire, n + 1, Len(wire))
      /\ buffer' = buffer \o [i \in 1..n |-> G[i].byte]
      /\ meant' = meant \o Without([i \in 1..n |-> G[i].key], "none")
  BY DEF Receive
<1>5. KeysOf(G) = [i \in 1..n |-> G[i].key]
  BY <1>2 DEF KeysOf
<1> HIDE DEF G
<1>6. QED
  BY <1>2, <1>3, <1>4, <1>5 DEF Cat

LEMMA ReceiveTyped ==
  ASSUME InputTypeOK, NEW n \in 1..Len(wire), Receive(n)
  PROVE  meant' \in Seq(Key)
<1>1. Buffered /\ meant \in Seq(Key)
  BY DEF InputTypeOK, Buffered, Item
<1>2. PICK G \in Seq(Item) : meant' = Cat(meant, Without(KeysOf(G), "none"))
  BY <1>1, ReceiveReads
<1>3. Without(KeysOf(G), "none") \in Seq(ItemKey \ {"none"})
  BY KeysOfRight, WithoutDrops
<1>4. ItemKey \ {"none"} = Key
  BY DEF ItemKey, Key
<1>5. QED
  BY <1>1, <1>2, <1>3, <1>4, CatRight

LEMMA InitTyped == InputInit => InputTypeOK
<1> SUFFICES ASSUME InputInit PROVE InputTypeOK
  OBVIOUS
<1>1. <<>> \in Seq([byte : Byte, first : BOOLEAN, key : Key \union {"none"}])
      /\ <<>> \in Seq(Byte) /\ <<>> \in Seq(Key)
  BY EmptySeq
<1>2. QED
  BY <1>1, InputAssumption DEF InputInit, InputTypeOK

LEMMA NextTyped == InputTypeOK /\ [InputNext]_inputVars => InputTypeOK'
<1> SUFFICES ASSUME InputTypeOK, [InputNext]_inputVars PROVE InputTypeOK'
  OBVIOUS
<1> DEFINE Rest == /\ units \in 0..MaxUnits
                   /\ linked \in BOOLEAN
                   /\ pc \in {"idle", "parse", "second", "again", "gone"}
                   /\ ready \in Seq(Key) /\ keys \in Seq(Key) /\ meant \in Seq(Key)
                   /\ odd \subseteq {"split", "foreign", "crowded"}
<1>1. Buffered /\ Rest
  BY DEF InputTypeOK, Buffered, Item
<1>2. Buffered'
  BY <1>1, NextBuffered
<1>3. \A k \in Key : Append(ready, k) \in Seq(Key) /\ Append(keys, k) \in Seq(Key)
  BY <1>1, AppendProperties
<1>4. CASE \E u \in Units : Send(u)
  <2>1. PICK u \in Units : Send(u)
    BY <1>4
  <2>2. units + 1 \in 0..MaxUnits
    BY <1>1, <2>1, InputAssumption DEF Send
  <2>3. Rest'
    BY <1>1, <2>1, <2>2 DEF Send, decoder
  <2>4. QED
    BY <1>2, <2>3 DEF InputTypeOK, Buffered, Item
<1>5. CASE Plain \/ StripIac \/ LoneEscape \/ LongEscape \/ Arrow
  <2>1. ready' = ready \/ \E k \in Key : ready' = Append(ready, k)
    <3>1. {"ENTER", "ESC", "UP"} \subseteq Key /\ Printable \subseteq Key
      BY DEF Key, Printable
    <3>2. CASE Plain
      BY <3>1, <3>2 DEF Plain
    <3>3. CASE StripIac
      BY <3>3 DEF StripIac
    <3>4. CASE LoneEscape \/ LongEscape \/ Arrow
      BY <3>1, <3>4 DEF LoneEscape, LongEscape, Arrow
    <3>5. QED
      BY <1>5, <3>2, <3>3, <3>4
  <2>2. /\ UNCHANGED <<units, linked, pc, keys, meant>>
        /\ odd' \subseteq odd \union {"foreign", "crowded"}
    BY <1>5 DEF Plain, StripIac, LoneEscape, LongEscape, Arrow, Continue
  <2>3. Rest'
    BY <1>1, <1>3, <2>1, <2>2
  <2>4. QED
    BY <1>2, <2>3 DEF InputTypeOK, Buffered, Item
<1>6. CASE ParseEnds \/ UnknownEscape \/ ReadyKey
  <2>1. keys' \in Seq(Key) /\ ready' \in Seq(Key)
    BY <1>6, GiveTyped DEF ParseEnds, UnknownEscape, ReadyKey
  <2>2. /\ UNCHANGED <<units, linked, meant>>
        /\ pc' \in {pc, "idle"}
        /\ odd' \subseteq odd \union {"foreign", "split"}
    BY <1>6 DEF ParseEnds, UnknownEscape, ReadyKey, Split
  <2>3. Rest'
    BY <1>1, <2>1, <2>2
  <2>4. QED
    BY <1>2, <2>3 DEF InputTypeOK, Buffered, Item
<1>7. CASE ReadBytes \/ ReadMore
  <2>1. PICK n \in 1..Min2(MaxBytes, Len(wire)) : Receive(n)
    BY <1>7 DEF ReadBytes, ReadMore
  <2>2. n \in 1..Len(wire)
    BY <1>1, <2>1, LenProperties, InputAssumption DEF Min2, Buffered
  <2>3. meant' \in Seq(Key)
    BY <2>1, <2>2, ReceiveTyped
  <2>4. UNCHANGED <<units, linked, ready, keys, odd>> /\ pc' \in {"parse", "again"}
    BY <1>7 DEF ReadBytes, ReadMore
  <2>5. Rest'
    BY <1>1, <2>3, <2>4
  <2>6. QED
    BY <1>2, <2>5 DEF InputTypeOK, Buffered, Item
<1>8. CASE FirstNothing \/ ReadEnd \/ HangUp \/ SecondNothing
  <2>1. /\ UNCHANGED <<units, ready, meant>>
        /\ linked' \in {linked, FALSE}
        /\ pc' \in {pc, "idle", "second", "gone"}
        /\ keys' \in {keys, Append(keys, "ESC")}
        /\ odd' \subseteq odd \union {"split"}
    BY <1>8 DEF FirstNothing, ReadEnd, HangUp, SecondNothing, Split, decoder
  <2>2. "ESC" \in Key
    BY DEF Key
  <2>3. Rest'
    BY <1>1, <1>3, <2>1, <2>2
  <2>4. QED
    BY <1>2, <2>3 DEF InputTypeOK, Buffered, Item
<1>9. CASE UNCHANGED inputVars
  BY <1>9 DEF inputVars, decoder, InputTypeOK
<1>10. QED
  BY <1>4, <1>5, <1>6, <1>7, <1>8, <1>9 DEF InputNext, Decode, ReadKey

(* The decoder and the reading have the types of InputTypeOK: only keys of *)
(* the table are handed to the runtime.                                    *)
THEOREM InputTypeCorrect == InputSpec => []InputTypeOK
  BY InitTyped, NextTyped, PTL DEF InputSpec

-------------------------------------------------------------------------------
(* The keys decoded.                                                       *)

LEMMA KeyDecoded ==
  ASSUME keys \in Seq(Key), ready \in Seq(Key), NEW k \in Key,
         keys' = keys, ready' = Append(ready, k)
  PROVE  Keys' = Cat(Keys, Tells(k))
<1>1. keys' \o ready' = Snoc(Cat(keys, ready), k)
  <2>1. Snoc(Cat(keys, ready), k) = Cat(keys, Snoc(ready, k))
    BY CatSnoc
  <2>2. QED
    BY <2>1 DEF Cat, Snoc
<1>2. Keys' = Without(Snoc(Cat(keys, ready), k), "ENTER")
  BY <1>1 DEF Keys
<1>3. Cat(keys, ready) \in Seq(Key) /\ Keys = Without(Cat(keys, ready), "ENTER")
  BY CatRight DEF Keys, Cat
<1>4. Keys' = IF k = "ENTER" THEN Keys ELSE Snoc(Keys, k)
  BY <1>2, <1>3, WithoutSnoc
<1>5. Keys \in Seq(Key) /\ k # "none"
  BY KeysTyped DEF Key
<1>6. Snoc(Keys, k) = Cat(Keys, <<k>>) /\ Cat(Keys, <<>>) = Keys
  BY <1>5, AppendIsConcat, CatRight DEF Snoc, Cat
<1>7. QED
  BY <1>4, <1>5, <1>6 DEF Tells

LEMMA KeyFlushed ==
  ASSUME keys \in Seq(Key), ready = <<>>,
         ready' = ready, keys' = Append(keys, "ESC")
  PROVE  Keys' = Cat(Keys, Tells("ESC"))
<1>1. /\ keys' \o ready' = Snoc(keys, "ESC") /\ keys \o ready = keys
      /\ "ESC" \in Key
  <2>1. "ESC" \in Key
    BY DEF Key
  <2>2. Append(keys, "ESC") \in Seq(Key)
    BY <2>1, AppendProperties
  <2>3. QED
    BY <2>1, <2>2, ConcatEmptySeq DEF Snoc
<1>2. Keys' = Without(Snoc(keys, "ESC"), "ENTER") /\ Keys = Without(keys, "ENTER")
  BY <1>1 DEF Keys
<1>3. Keys' = Snoc(Keys, "ESC")
  BY <1>1, <1>2, WithoutSnoc
<1>4. Keys \in Seq(Key)
  BY EmptySeq, KeysTyped
<1>5. Snoc(Keys, "ESC") = Cat(Keys, <<"ESC">>)
  BY <1>1, <1>4, AppendIsConcat DEF Snoc, Cat
<1>6. QED
  BY <1>3, <1>5 DEF Tells

LEMMA KeyHanded ==
  ASSUME keys \in Seq(Key), ready \in Seq(Key), ready # <<>>,
         keys' = Append(keys, Head(ready)), ready' = Tail(ready)
  PROVE  Keys' = Keys
<1> DEFINE h == Head(ready)
           t == Tail(ready)
           H == <<h>>
<1>1. Len(ready) \in Nat /\ Len(ready) >= 1
  BY EmptySeq
<1>2. h \in Key /\ t \in Seq(Key) /\ ready = Cat(H, t)
  <2>1. 1 \in 1..Len(ready) /\ Len(ready) \in 1..Len(ready)
    BY <1>1
  <2>2. SubSeq(ready, 1, Len(ready)) = <<ready[1]>> \o SubSeq(ready, 1 + 1, Len(ready))
    BY <2>1, SubSeqRecursiveFirst
  <2>3. SubSeq(ready, 1, Len(ready)) = ready
    BY SubSeqFull
  <2>4. t = SubSeq(ready, 2, Len(ready)) /\ h = ready[1]
    BY TailIsSubSeq
  <2>5. QED
    BY <2>2, <2>3, <2>4, HeadTailProperties DEF Cat
<1>3. H \in Seq(Key)
  BY <1>2
<1>4. keys' = Cat(keys, H)
  BY <1>2, AppendIsConcat DEF Cat
<1>5. Cat(Cat(keys, H), t) = Cat(keys, Cat(H, t))
  <2>1. keys \in Seq(Key) /\ H \in Seq(Key) /\ t \in Seq(Key)
    BY <1>2, <1>3
  <2> HIDE DEF h, t, H
  <2>2. QED
    BY <2>1, CatCat
<1>6. keys' \o ready' = keys \o ready
  BY <1>2, <1>4, <1>5 DEF Cat
<1>7. QED
  BY <1>6 DEF Keys

-------------------------------------------------------------------------------
(* The loop of _parse().                                                   *)

(* A unit leaves the buffer and its key, if it has one, is decoded. *)
LEMMA UnitDecoded ==
  ASSUME InputTypeOK, NEW T, Pending(T), NEW u \in Units, UnitAt(Cat(T, wire), 0, u),
         Len(u.bytes) <= Len(buffer), wire' = wire, meant' = meant,
         buffer' = After(Len(u.bytes)), Keys' = Cat(Keys, Tells(u.key))
  PROVE  \E R : Pending(R)'
<1>1. wire \in Seq(Item) /\ buffer \in Seq(Byte) /\ Keys \in Seq(Key)
  BY KeysTyped DEF InputTypeOK, Item
<1>2. Holds(T, buffer, wire, Keys, Meant)
  BY DEF Pending
<1> DEFINE R == SubSeq(T, Len(u.bytes) + 1, Len(T))
<1>3. Holds(R, After(Len(u.bytes)), wire, Cat(Keys, Tells(u.key)), Meant)
  BY <1>1, <1>2, UnitTaken DEF After
<1>4. Meant' = Meant
  BY DEF Meant
<1> HIDE DEF R
<1>5. Holds(R, buffer', wire', Keys', Meant')
  BY <1>3, <1>4
<1>6. Pending(R)'
  BY <1>5 DEF Pending, Holds
<1>7. QED
  BY <1>6

(* The unit the buffer begins with. *)
LEMMA FirstUnit ==
  ASSUME InputTypeOK, NEW T, Pending(T), buffer # <<>>
  PROVE  /\ Buffered /\ Keys \in Seq(Key) /\ Len(buffer) \in Nat /\ Len(buffer) >= 1
         /\ \E u \in Units :
              /\ UnitAt(Cat(T, wire), 0, u) /\ Understood(u)
              /\ Len(u.bytes) \in Nat /\ Len(u.bytes) >= 1
              /\ \A j \in 1..Len(u.bytes) : j <= Len(buffer) => u.bytes[j] = buffer[j]
              /\ u.bytes[1] = buffer[1]
<1>1. /\ wire \in Seq(Item) /\ buffer \in Seq(Byte) /\ Keys \in Seq(Key)
  BY KeysTyped DEF InputTypeOK, Item
<1>2. Buffered /\ Len(buffer) \in Nat /\ Len(buffer) >= 1
  BY <1>1, EmptySeq DEF Buffered
<1>3. PICK u \in Units :
        /\ UnitAt(Cat(T, wire), 0, u)
        /\ \A j \in 1..Len(u.bytes) : j <= Len(buffer) => u.bytes[j] = buffer[j]
  BY <1>1, BeginsWithUnit DEF Pending
<1>4. Understood(u) /\ Len(u.bytes) \in Nat /\ Len(u.bytes) >= 1
  BY UnitRight
<1>5. u.bytes[1] = buffer[1]
  BY <1>2, <1>3, <1>4
<1>6. QED
  BY <1>1, <1>2, <1>3, <1>4, <1>5

LEMMA PlainDecodes ==
  ASSUME InputTypeOK, NEW T, Pending(T), Plain
  PROVE  \E R : Pending(R)'
<1>1. buffer # <<>> /\ buffer[1] \notin {"iac", "esc"}
  BY DEF Plain
<1>2. Len(buffer) \in Nat /\ Len(buffer) >= 1
  BY <1>1, FirstUnit
<1>3. PICK u \in Units :
        UnitAt(Cat(T, wire), 0, u) /\ Understood(u) /\ u.bytes[1] = buffer[1]
  BY <1>1, FirstUnit
<1>4. /\ Len(u.bytes) = 1
      /\ \/ buffer[1] = "cr" /\ u.key = "ENTER"
         \/ buffer[1] \in {"A", "q", "1"} /\ u.key = buffer[1]
  BY <1>1, <1>3 DEF Understood
<1>5. u.key \in Key /\ ready' = Append(ready, u.key)
  BY <1>4 DEF Plain, Printable, Key
<1>6. /\ keys' = keys /\ wire' = wire /\ meant' = meant
      /\ buffer' = After(Len(u.bytes))
  BY <1>4 DEF Plain, Continue
<1>7. Keys' = Cat(Keys, Tells(u.key))
  BY <1>5, <1>6, KeyDecoded DEF InputTypeOK
<1>8. Len(u.bytes) <= Len(buffer)
  BY <1>2, <1>4
<1>9. QED
  BY <1>3, <1>6, <1>7, <1>8, UnitDecoded

(* A negotiation: as many bytes are deleted as it has. *)
LEMMA IacLengthRight ==
  ASSUME Buffered, Len(buffer) >= 1, buffer[1] = "iac", IacLength > 1,
         NEW u \in Units, u.bytes[1] = buffer[1],
         \A j \in 1..Len(u.bytes) : j <= Len(buffer) => u.bytes[j] = buffer[j]
  PROVE  /\ u.key = "none"
         /\ Len(u.bytes) = IacLength /\ Len(u.bytes) <= Len(buffer)
<1> DEFINE n == Len(u.bytes)
           B == Len(buffer)
<1>1. B \in Nat /\ n \in Nat /\ n >= 1 /\ Understood(u) /\ u.bytes[1] = "iac"
  BY LenProperties, UnitRight DEF Buffered
<1>2. B >= 2
  BY <1>1 DEF IacLength
<1>3. CASE n = 2 /\ u.bytes[2] \notin {"sb", "do"} /\ u.key = "none"
  <2>1. buffer[2] = u.bytes[2]
    BY <1>2, <1>3
  <2>2. IacLength = 2
    BY <1>1, <1>2, <1>3, <2>1 DEF IacLength
  <2>3. QED
    BY <1>2, <1>3, <2>2
<1>4. CASE n = 3 /\ u.bytes[2] = "do" /\ u.key = "none"
  <2>1. buffer[2] = "do"
    BY <1>2, <1>4
  <2>2. IacLength = IF B < 3 THEN 0 ELSE 3
    BY <1>1, <1>2, <2>1 DEF IacLength
  <2>3. QED
    BY <1>1, <1>4, <2>2
<1>5. CASE /\ n >= 4 /\ u.bytes[2] = "sb"
           /\ u.bytes[n - 1] = "iac" /\ u.bytes[n] = "se"
           /\ \A i \in 3..n-2 : ~ (u.bytes[i] = "iac" /\ u.bytes[i + 1] = "se")
           /\ u.key = "none"
  <2>1. buffer[2] = "sb"
    BY <1>2, <1>5
  <2>2. IacLength = IF SubEnds # {} THEN Least(SubEnds) + 1
                    ELSE IF B > MaxTelnet THEN 1 ELSE 0
    BY <1>1, <1>2, <2>1 DEF IacLength
  <2>3. SubEnds # {} /\ IacLength = Least(SubEnds) + 1
    BY <2>2
  <2> DEFINE l == Least(SubEnds)
  <2>4. SubEnds \in SUBSET Nat
    BY DEF SubEnds
  <2>5. l \in SubEnds /\ (\A y \in SubEnds : l <= y)
    BY <2>3, <2>4, LeastRight
  <2>6. /\ l \in 3..Min2(B - 1, MaxTelnet + 1)
        /\ buffer[l] = "iac" /\ buffer[l + 1] = "se"
    BY <2>5 DEF SubEnds
  <2>7. l \in Nat /\ l >= 3 /\ l <= B - 1 /\ l <= MaxTelnet + 1
    BY <1>1, <2>6, InputAssumption DEF Min2
  <2>8. IacLength = l + 1
    BY <2>3
  <2> HIDE DEF l
  <2>9. ASSUME l < n - 1 PROVE FALSE
    <3>1. /\ l \in 3..n-2 /\ l \in 1..n /\ l + 1 \in 1..n
          /\ l <= B /\ l + 1 <= B
      BY <1>1, <2>7, <2>9
    <3>2. u.bytes[l] = "iac" /\ u.bytes[l + 1] = "se"
      BY <2>6, <3>1
    <3>3. QED
      BY <1>5, <3>1, <3>2
  <2>10. ASSUME l > n - 1 PROVE FALSE
    <3>1. /\ n - 1 \in 1..n /\ n \in 1..n /\ n - 1 <= B /\ n <= B
          /\ n - 1 \in 3..Min2(B - 1, MaxTelnet + 1) /\ (n - 1) + 1 = n
      BY <1>1, <1>5, <2>7, <2>10, InputAssumption DEF Min2
    <3>2. buffer[n - 1] = "iac" /\ buffer[n] = "se"
      BY <1>5, <3>1
    <3>3. n - 1 \in SubEnds
      BY <3>1, <3>2 DEF SubEnds
    <3>4. QED
      BY <1>1, <2>5, <2>7, <2>10, <3>3
  <2>11. QED
    BY <1>1, <1>5, <2>7, <2>8, <2>9, <2>10
<1>6. QED
  BY <1>1, <1>3, <1>4, <1>5 DEF Understood

LEMMA NoKeyDecoded ==
  ASSUME keys \in Seq(Key), ready \in Seq(Key), keys' = keys, ready' = ready
  PROVE  Keys' = Cat(Keys, Tells("none"))
<1>1. Keys' = Keys /\ Keys \in Seq(Key)
  BY KeysTyped DEF Keys
<1>2. QED
  BY <1>1, CatRight DEF Tells

LEMMA StripIacDecodes ==
  ASSUME InputTypeOK, NEW T, Pending(T), StripIac, odd' = {}
  PROVE  \E R : Pending(R)'
<1>1. /\ buffer # <<>> /\ buffer[1] = "iac" /\ IacLength > 0
      /\ buffer' = After(IacLength) /\ ready' = ready
      /\ keys' = keys /\ wire' = wire /\ meant' = meant
  BY DEF StripIac, Continue
<1>2. IacLength # 1
  BY DEF StripIac
<1>3. Buffered /\ Len(buffer) >= 1 /\ Len(buffer) \in Nat
  BY <1>1, FirstUnit
<1>4. PICK u \in Units :
        /\ UnitAt(Cat(T, wire), 0, u)
        /\ \A j \in 1..Len(u.bytes) : j <= Len(buffer) => u.bytes[j] = buffer[j]
        /\ u.bytes[1] = buffer[1]
  BY <1>1, FirstUnit
<1>5. IacLength > 1
  <2>1. SubEnds # {} => Least(SubEnds) \in 3..(Len(buffer) - 1)
    BY <1>3, EndsRight
  <2>2. IacLength \in Int
    BY <1>3, <2>1 DEF IacLength
  <2>3. QED
    BY <1>1, <1>2, <2>2
<1>6. u.key = "none" /\ Len(u.bytes) = IacLength /\ Len(u.bytes) <= Len(buffer)
  BY <1>1, <1>3, <1>4, <1>5, IacLengthRight
<1>7. Keys' = Cat(Keys, Tells(u.key))
  BY <1>1, <1>6, NoKeyDecoded DEF InputTypeOK
<1>8. QED
  BY <1>1, <1>4, <1>6, <1>7, UnitDecoded

(* What is left of the buffer behind an Escape and one more byte. *)
LEMMA AfterTwo ==
  ASSUME Buffered, Len(buffer) > 1
  PROVE  /\ After(1) \in Seq(Byte) /\ Len(After(1)) = Len(buffer) - 1
         /\ After(1)[1] = buffer[2]
         /\ SubSeq(After(1), 2, Len(After(1))) = After(2)
<1> DEFINE a == After(1)
           B == Len(buffer)
<1>1. B \in Nat /\ buffer \in Seq(Byte)
  BY LenProperties DEF Buffered
<1>2. 1 \in 1..B /\ 2 \in 1..B
  BY <1>1
<1>3. /\ SubSeq(buffer, 1 + 1, B) \in Seq(Byte) /\ Len(SubSeq(buffer, 1 + 1, B)) = B - 1
      /\ \A i \in 1..(B - 1) : SubSeq(buffer, 1 + 1, B)[i] = buffer[1 + i]
  BY <1>1, <1>2, TwoParts
<1>4. /\ SubSeq(buffer, 2 + 1, B) \in Seq(Byte) /\ Len(SubSeq(buffer, 2 + 1, B)) = B - 2
      /\ \A i \in 1..(B - 2) : SubSeq(buffer, 2 + 1, B)[i] = buffer[2 + i]
  BY <1>1, <1>2, TwoParts
<1>5. a \in Seq(Byte) /\ Len(a) = B - 1 /\ \A i \in 1..(B - 1) : a[i] = buffer[1 + i]
  BY <1>3 DEF After
<1>6. /\ After(2) \in Seq(Byte) /\ Len(After(2)) = B - 2
      /\ \A i \in 1..(B - 2) : After(2)[i] = buffer[2 + i]
  BY <1>4 DEF After
<1> HIDE DEF a
<1>7. 1 \in 1..Len(a)
  BY <1>1, <1>5
<1>8. /\ SubSeq(a, 1 + 1, Len(a)) \in Seq(Byte) /\ Len(SubSeq(a, 1 + 1, Len(a))) = Len(a) - 1
      /\ \A i \in 1..(Len(a) - 1) : SubSeq(a, 1 + 1, Len(a))[i] = a[1 + i]
  BY <1>5, <1>7, TwoParts
<1> DEFINE c == SubSeq(a, 2, Len(a))
           d == After(2)
<1>9. /\ c \in Seq(Byte) /\ Len(c) = B - 2
      /\ \A i \in 1..(B - 2) : c[i] = a[1 + i]
  <2>1. 1 + 1 = 2 /\ Len(a) - 1 = B - 2
    BY <1>1, <1>5
  <2>2. QED
    BY <1>8, <2>1
<1>10. d \in Seq(Byte) /\ Len(d) = B - 2 /\ \A i \in 1..(B - 2) : d[i] = buffer[2 + i]
  BY <1>6
<1> HIDE DEF c, d
<1>11. ASSUME NEW i \in 1..(B - 2) PROVE c[i] = d[i]
  <2>1. 1 + i \in 1..(B - 1) /\ 1 + (1 + i) = 2 + i
    BY <1>1
  <2>2. QED
    BY <1>5, <1>9, <1>10, <2>1
<1>12. c = d
  BY <1>9, <1>10, <1>11, SeqEqual
<1>13. a[1] = buffer[2]
  <2>1. 1 \in 1..(B - 1) /\ 1 + 1 = 2
    BY <1>1
  <2>2. QED
    BY <1>5, <2>1
<1>14. QED
  BY <1>5, <1>12, <1>13 DEF a, c, d

(* The Escape at the head of the buffer. *)
LEMMA EscapeFirst ==
  ASSUME InputTypeOK, NEW T, Pending(T), buffer # <<>>, buffer[1] = "esc",
         NEW u \in Units, UnitAt(Cat(T, wire), 0, u),
         \A j \in 1..Len(u.bytes) : j <= Len(buffer) => u.bytes[j] = buffer[j]
  PROVE  \/ /\ Len(u.bytes) = 1 /\ u.key = "ESC"
            /\ Len(buffer) > 1 => buffer[2] # "["
         \/ /\ Len(u.bytes) >= 3 /\ u.bytes[Len(u.bytes)] \in CsiFinal
            /\ \A i \in 3..Len(u.bytes) - 1 : u.bytes[i] \notin CsiFinal
            /\ u.key = IF Len(u.bytes) = 3 /\ u.bytes[3] = "A" THEN "UP" ELSE "none"
            /\ Len(buffer) > 1 => buffer[2] = "["
<1>1. wire \in Seq(Item) /\ buffer \in Seq(Byte) /\ Keys \in Seq(Key)
  BY KeysTyped DEF InputTypeOK, Item
<1>2. Holds(T, buffer, wire, Keys, Meant)
  BY DEF Pending
<1>3. QED
  BY <1>1, <1>2, EscapeBegins

LEMMA LoneEscapeDecodes ==
  ASSUME InputTypeOK, NEW T, Pending(T), LoneEscape
  PROVE  \E R : Pending(R)'
<1>1. /\ buffer # <<>> /\ buffer[1] = "esc" /\ Len(buffer) > 1 /\ buffer[2] # "["
      /\ buffer' = After(IF buffer[2] = "cr" THEN 2 ELSE 1)
      /\ ready' = Append(ready, "ESC")
      /\ keys' = keys /\ wire' = wire /\ meant' = meant
  BY DEF LoneEscape, PendingEscape, Continue
<1>2. Buffered /\ Keys \in Seq(Key) /\ Len(buffer) \in Nat
  BY <1>1, FirstUnit
<1>3. PICK u \in Units :
        /\ UnitAt(Cat(T, wire), 0, u)
        /\ \A j \in 1..Len(u.bytes) : j <= Len(buffer) => u.bytes[j] = buffer[j]
  BY <1>1, FirstUnit
<1>4. Len(u.bytes) = 1 /\ u.key = "ESC"
  BY <1>1, <1>3, EscapeFirst
<1>5. Keys' = Cat(Keys, Tells("ESC"))
  <2>1. "ESC" \in Key
    BY DEF Key
  <2>2. QED
    BY <1>1, <2>1, KeyDecoded DEF InputTypeOK
<1>6. CASE buffer[2] # "cr"
  <2>1. buffer' = After(Len(u.bytes)) /\ Len(u.bytes) <= Len(buffer)
    BY <1>1, <1>2, <1>4, <1>6
  <2>2. QED
    BY <1>1, <1>3, <1>4, <1>5, <2>1, UnitDecoded
<1>7. CASE buffer[2] = "cr"
  <2> DEFINE a == After(1)
             k == Cat(Keys, Tells("ESC"))
             R == SubSeq(T, 2, Len(T))
  <2>1. /\ a \in Seq(Byte) /\ Len(a) = Len(buffer) - 1 /\ a[1] = "cr"
        /\ SubSeq(a, 2, Len(a)) = After(2)
    BY <1>1, <1>2, <1>7, AfterTwo
  <2>2. wire \in Seq(Item) /\ buffer \in Seq(Byte)
    BY <1>2 DEF Buffered
  <2>3. Holds(R, a, wire, k, Meant)
    <3>1. Holds(T, buffer, wire, Keys, Meant) /\ Len(u.bytes) <= Len(buffer)
      BY <1>1, <1>2, <1>4 DEF Pending
    <3>2. Holds(SubSeq(T, Len(u.bytes) + 1, Len(T)), SubSeq(buffer, Len(u.bytes) + 1, Len(buffer)),
                wire, Cat(Keys, Tells(u.key)), Meant)
      BY <1>2, <1>3, <2>2, <3>1, UnitTaken
    <3>3. QED
      BY <1>4, <3>2 DEF After
  <2>4. k \in Seq(Key)
    <3>1. <<"ESC">> \in Seq(Key) /\ Tells("ESC") = <<"ESC">>
      BY DEF Key, Tells
    <3>2. QED
      BY <1>2, <3>1, CatRight
  <2> HIDE DEF a, k, R
  <2>5. a # <<>> /\ Len(a) \in Nat /\ Len(a) >= 1
    BY <1>1, <1>2, <2>1, EmptySeq
  <2>6. PICK v \in Units :
          /\ UnitAt(Cat(R, wire), 0, v)
          /\ \A j \in 1..Len(v.bytes) : j <= Len(a) => v.bytes[j] = a[j]
    BY <2>1, <2>2, <2>3, <2>5, BeginsWithUnit
  <2>7. v.bytes[1] = "cr"
    <3>1. Len(v.bytes) \in Nat /\ Len(v.bytes) >= 1
      BY UnitRight
    <3>2. QED
      BY <2>1, <2>5, <2>6, <3>1
  <2>8. Len(v.bytes) = 1 /\ v.key = "ENTER"
    <3>1. Understood(v)
      BY UnitRight
    <3>2. QED
      BY <2>7, <3>1 DEF Understood
  <2> DEFINE Q == SubSeq(R, Len(v.bytes) + 1, Len(R))
  <2>9. Holds(Q, SubSeq(a, Len(v.bytes) + 1, Len(a)), wire, Cat(k, Tells(v.key)), Meant)
    BY <2>1, <2>2, <2>3, <2>4, <2>5, <2>6, <2>8, UnitTaken
  <2> HIDE DEF Q
  <2>10. SubSeq(a, Len(v.bytes) + 1, Len(a)) = After(2)
    BY <2>1, <2>8
  <2>11. Cat(k, Tells(v.key)) = k
    BY <2>4, <2>8, CatRight DEF Tells
  <2>12. Holds(Q, buffer', wire', Keys', Meant')
    <3>1. buffer' = After(2) /\ Meant' = Meant /\ Keys' = k
      BY <1>1, <1>5, <1>7 DEF Meant, k
    <3>2. QED
      BY <1>1, <2>9, <2>10, <2>11, <3>1
  <2>13. Pending(Q)'
    BY <2>12 DEF Pending, Holds
  <2>14. QED
    BY <2>13
<1>8. QED
  BY <1>6, <1>7

LEMMA ArrowDecodes ==
  ASSUME InputTypeOK, NEW T, Pending(T), Arrow
  PROVE  \E R : Pending(R)'
<1>1. /\ buffer # <<>> /\ buffer[1] = "esc" /\ Len(buffer) > 1 /\ buffer[2] = "["
      /\ CsiEnds # {}
      /\ SubSeq(buffer, 1, Least(CsiEnds)) = <<"esc", "[", "A">>
      /\ buffer' = After(3) /\ ready' = Append(ready, "UP")
      /\ keys' = keys /\ wire' = wire /\ meant' = meant
  BY DEF Arrow, IsCsi, PendingEscape, Continue
<1>2. Buffered /\ Len(buffer) \in Nat
  BY <1>1, FirstUnit
<1>3. PICK u \in Units :
        /\ UnitAt(Cat(T, wire), 0, u)
        /\ \A j \in 1..Len(u.bytes) : j <= Len(buffer) => u.bytes[j] = buffer[j]
  BY <1>1, FirstUnit
<1> DEFINE n == Len(u.bytes)
           l == Least(CsiEnds)
<1>4. /\ n >= 3
      /\ \A i \in 3..n - 1 : u.bytes[i] \notin CsiFinal
      /\ u.key = IF n = 3 /\ u.bytes[3] = "A" THEN "UP" ELSE "none"
  <2>1. Len(buffer) > 1 /\ buffer[2] = "["
    BY <1>1
  <2>2. QED
    BY <1>1, <1>3, <2>1, EscapeFirst
<1>5. l \in 3..Len(buffer)
  BY <1>1, <1>2, EndsRight
<1>6. buffer[3] = "A"
  <2>1. \A i \in 1..l : buffer[i] \in Byte
    BY <1>2, <1>5, ElementOfSeq DEF Buffered
  <2>2. \A i \in 1..(l - 1 + 1) : SubSeq(buffer, 1, l)[i] = buffer[1 + i - 1]
    BY <1>2, <1>5, <2>1, SubSeqProperties DEF Buffered
  <2>3. 3 \in 1..(l - 1 + 1) /\ 1 + 3 - 1 = 3
    BY <1>2, <1>5
  <2> DEFINE s == SubSeq(buffer, 1, l)
  <2>4. s = <<"esc", "[", "A">>
    BY <1>1
  <2>5. s[3] = buffer[3]
    <3>1. \A i \in 1..(l - 1 + 1) : s[i] = buffer[1 + i - 1]
      BY <2>2
    <3> HIDE DEF s
    <3>2. QED
      BY <2>3, <3>1
  <2> HIDE DEF s
  <2>6. QED
    BY <2>4, <2>5
<1>7. n \in Nat
  BY UnitRight
<1>8. u.bytes[3] = "A"
  BY <1>2, <1>3, <1>4, <1>5, <1>6, <1>7
<1>9. n = 3 /\ u.key = "UP"
  <2>1. "A" \in CsiFinal
    BY DEF CsiFinal
  <2>2. ~ (n > 3)
    BY <1>4, <1>7, <1>8, <2>1
  <2>3. n >= 3
    BY <1>4
  <2>4. n = 3
    <3> HIDE DEF n
    <3>1. QED
      BY <1>7, <2>2, <2>3
  <2>5. QED
    BY <1>4, <1>8, <2>4
<1>10. Keys' = Cat(Keys, Tells("UP"))
  <2>1. "UP" \in Key
    BY DEF Key
  <2>2. QED
    BY <1>1, <2>1, KeyDecoded DEF InputTypeOK
<1>11. QED
  <2>1. buffer' = After(n) /\ n <= Len(buffer)
    BY <1>1, <1>2, <1>5, <1>9
  <2>2. QED
    BY <1>1, <1>3, <1>9, <1>10, <2>1, UnitDecoded

-------------------------------------------------------------------------------
(* Between two runs of the loop.                                           *)

(* The loop of _parse() is over. *)
Settled == buffer = <<>> \/ IacWaits \/ EscapeWaits

LEMMA SettledStays == Settled /\ buffer' = buffer => Settled'
<1> SUFFICES ASSUME Settled, buffer' = buffer PROVE Settled'
  OBVIOUS
<1>1. SubEnds' = SubEnds /\ CsiEnds' = CsiEnds
  BY DEF SubEnds, CsiEnds
<1>2. IacLength' = IacLength
  BY <1>1 DEF IacLength
<1>3. IacWaits' = IacWaits /\ EscapeWaits' = EscapeWaits
  BY <1>1, <1>2 DEF IacWaits, EscapeWaits, IsCsi, PendingEscape
<1>4. QED
  BY <1>3 DEF Settled

LEMMA FlushDecodes ==
  ASSUME InputTypeOK, NEW T, Pending(T), EscapeWaits, ~MidUnit,
         ready = <<>>, ready' = ready, keys' = Append(keys, "ESC"),
         buffer' = <<>>, wire' = wire, meant' = meant
  PROVE  \E R : Pending(R)'
<1>1. buffer # <<>>
  BY DEF EscapeWaits, IsCsi, PendingEscape
<1>2. Buffered /\ Keys \in Seq(Key) /\ Len(buffer) \in Nat
  BY <1>1, FirstUnit
<1>3. PICK u \in Units :
        /\ UnitAt(Cat(T, wire), 0, u)
        /\ \A j \in 1..Len(u.bytes) : j <= Len(buffer) => u.bytes[j] = buffer[j]
  BY <1>1, FirstUnit
<1>4. ASSUME Len(u.bytes) > Len(buffer) PROVE FALSE
  <2>1. /\ wire \in Seq(Item) /\ buffer \in Seq(Byte)
        /\ Holds(T, buffer, wire, Keys, Meant)
    BY <1>2 DEF Buffered, Pending
  <2>2. wire # <<>> /\ ~ wire[1].first
    BY <1>1, <1>3, <1>4, <2>1, InsideUnit
  <2>3. QED
    BY <2>2 DEF MidUnit
<1>5. Len(buffer) = 1 /\ Len(u.bytes) = 1 /\ u.key = "ESC"
  BY <1>2, <1>3, <1>4, EscapeWaitsInside
<1>6. buffer' = After(Len(u.bytes))
  <2>1. 1 \in 0..Len(buffer)
    BY <1>5
  <2>2. After(1) \in Seq(Byte) /\ Len(After(1)) = 0
    BY <1>2, <1>5, <2>1, AfterRight
  <2>3. After(1) = <<>>
    BY <2>2, EmptySeq
  <2>4. QED
    BY <1>5, <2>3
<1>7. Keys' = Cat(Keys, Tells(u.key))
  BY <1>5, KeyFlushed DEF InputTypeOK
<1>8. Len(u.bytes) <= Len(buffer)
  BY <1>5
<1>9. QED
  BY <1>3, <1>6, <1>7, <1>8, UnitDecoded

(* Nothing is told by nothing. *)
LEMMA ToldEmpty == \A T \in Seq(Item) : Len(T) = 0 => Told(T) = <<>>
<1> SUFFICES ASSUME NEW T \in Seq(Item), Len(T) = 0 PROVE Told(T) = <<>>
  OBVIOUS
<1>1. \A i \in 1..Len(T) : T[i].key = "none"
  OBVIOUS
<1>2. QED
  BY <1>1, ToldNothing

(* Nothing that is pending changes. *)
LEMMA PendingStays ==
  ASSUME NEW T, Pending(T), buffer' = buffer, wire' = wire, meant' = meant,
         Keys' = Keys
  PROVE  Pending(T)'
BY DEF Pending, Holds, Meant

LEMMA GiveDecodes ==
  ASSUME InputTypeOK, NEW T, Pending(T), Settled, Give(buffer),
         pc = "again" /\ ready = <<>> /\ PendingEscape => ~MidUnit,
         wire' = wire, meant' = meant
  PROVE  (\E R : Pending(R)') /\ Settled'
<1>1. keys \in Seq(Key) /\ ready \in Seq(Key)
  BY DEF InputTypeOK
<1>2. CASE ready # <<>>
  <2>1. keys' = Append(keys, Head(ready)) /\ ready' = Tail(ready) /\ buffer' = buffer
    BY <1>2 DEF Give
  <2>2. Keys' = Keys
    BY <1>1, <1>2, <2>1, KeyHanded
  <2>3. QED
    BY <2>1, <2>2, PendingStays, SettledStays
<1>3. CASE ready = <<>> /\ pc = "again" /\ buffer # <<>> /\ buffer[1] = "esc"
  <2>1. keys' = Append(keys, "ESC") /\ ready' = ready /\ buffer' = <<>>
    BY <1>3 DEF Give
  <2>2. EscapeWaits /\ ~MidUnit
    BY <1>3 DEF Settled, IacWaits, PendingEscape
  <2>3. \E R : Pending(R)'
    BY <1>3, <2>1, <2>2, FlushDecodes
  <2>4. Settled'
    BY <2>1 DEF Settled
  <2>5. QED
    BY <2>3, <2>4
<1>4. CASE ready = <<>> /\ ~ (pc = "again" /\ buffer # <<>> /\ buffer[1] = "esc")
  <2>1. keys' = keys /\ ready' = ready /\ buffer' = buffer
    BY <1>4 DEF Give
  <2>2. Keys' = Keys
    BY <2>1 DEF Keys
  <2>3. QED
    BY <2>1, <2>2, PendingStays, SettledStays
<1>5. QED
  BY <1>2, <1>3, <1>4

(* What is read was to come. *)
LEMMA ReadDecodes ==
  ASSUME InputTypeOK, NEW T, Pending(T), NEW n \in 1..Len(wire), Receive(n),
         ready' = ready, keys' = keys
  PROVE  \E R : Pending(R)'
<1>1. /\ Buffered /\ meant \in Seq(Key) /\ Keys \in Seq(Key)
      /\ buffer \in Seq(Byte) /\ wire \in Seq(Item)
  BY KeysTyped DEF InputTypeOK, Buffered, Item
<1>2. /\ T \in Seq(Item) /\ Len(T) = Len(buffer)
      /\ \A i \in 1..Len(buffer) : T[i].byte = buffer[i]
      /\ Whole(Cat(T, wire))
      /\ Cat(Keys, Told(T)) = Meant
  BY DEF Pending, Holds
<1>3. PICK G \in Seq(Item) :
        /\ Len(G) = n
        /\ wire = Cat(G, wire')
        /\ buffer' = Cat(buffer, [i \in 1..n |-> G[i].byte])
        /\ meant' = Cat(meant, Without(KeysOf(G), "none"))
  BY <1>1, ReceiveReads
<1>4. Buffered'
  BY <1>1, ReceiveRight
<1>5. wire' \in Seq(Item)
  BY <1>4 DEF Buffered
<1> DEFINE R == Cat(T, G)
           c == [i \in 1..n |-> G[i].byte]
           W == Without(KeysOf(G), "none")
<1>6. R \in Seq(Item) /\ Len(T) \in Nat /\ n \in Nat
  <2>1. T \in Seq(Item) /\ Len(T) \in Nat
    BY <1>2, LenProperties
  <2>2. QED
    BY <2>1, <1>3, CatRight
<1>7. Len(R) = Len(T) + n /\ (\A i \in 1..Len(T) : R[i] = T[i])
  <2>1. T \in Seq(Item)
    BY <1>2
  <2>2. Len(R) = Len(T) + Len(G) /\ (\A i \in 1..Len(T) : R[i] = T[i])
    BY <2>1, CatElements
  <2>3. QED
    BY <1>3, <2>2
<1>8. \A i \in 1..n : R[Len(T) + i] = G[i]
  <2>1. T \in Seq(Item)
    BY <1>2
  <2>2. \A i \in 1..Len(G) : R[Len(T) + i] = G[i]
    BY <2>1, CatElements
  <2>3. QED
    BY <1>3, <2>2
<1>9. c \in Seq(Byte) /\ Len(c) = n /\ \A i \in 1..n : c[i] = G[i].byte
  <2>1. \A i \in 1..n : G[i].byte \in Byte
    <3>1. \A i \in 1..Len(G) : G[i] \in Item
      BY ElementOfSeq
    <3>2. QED
      BY <1>3, <3>1 DEF Item
  <2>2. QED
    BY <1>6, <2>1
<1> HIDE DEF R, c
<1>10. Len(buffer') = Len(buffer) + n /\ (\A i \in 1..Len(buffer) : buffer'[i] = buffer[i])
  <2>1. Len(Cat(buffer, c)) = Len(buffer) + Len(c)
        /\ (\A i \in 1..Len(buffer) : Cat(buffer, c)[i] = buffer[i])
    <3>1. buffer \in Seq(Byte) /\ c \in Seq(Byte)
      BY <1>1, <1>9
    <3>2. Len(Cat(buffer, c)) = Len(buffer) + Len(c)
      BY <3>1, CatElements
    <3>3. \A i \in 1..Len(buffer) : Cat(buffer, c)[i] = buffer[i]
      BY <3>1, CatElements
    <3>4. QED
      BY <3>2, <3>3
  <2>2. buffer' = Cat(buffer, c)
    BY <1>3 DEF c
  <2>3. QED
    BY <1>9, <2>1, <2>2
<1>11. \A i \in 1..n : buffer'[Len(buffer) + i] = c[i]
  <2>1. \A i \in 1..Len(c) : Cat(buffer, c)[Len(buffer) + i] = c[i]
    <3>1. buffer \in Seq(Byte) /\ c \in Seq(Byte)
      BY <1>1, <1>9
    <3>2. QED
      BY <3>1, CatElements
  <2>2. buffer' = Cat(buffer, c)
    BY <1>3 DEF c
  <2>3. QED
    BY <1>9, <2>1, <2>2
<1>12. ASSUME NEW i \in 1..Len(buffer')
       PROVE  R[i].byte = buffer'[i]
  <2>1. CASE i <= Len(T)
    <3>1. i \in 1..Len(T) /\ i \in 1..Len(buffer)
      BY <1>2, <1>6, <2>1
    <3>2. R[i] = T[i] /\ T[i].byte = buffer[i] /\ buffer'[i] = buffer[i]
      BY <1>2, <1>7, <1>10, <3>1
    <3>3. QED
      BY <3>2
  <2>2. CASE i > Len(T)
    <3>1. PICK j \in 1..n : i = Len(T) + j
      <4>1. i - Len(T) \in 1..n /\ i = Len(T) + (i - Len(T))
        BY <1>2, <1>6, <1>10, <2>2
      <4>2. QED
        BY <4>1
    <3>2. R[i] = G[j]
      BY <1>8, <3>1
    <3>3. buffer'[i] = c[j]
      BY <1>2, <1>11, <3>1
    <3>4. QED
      BY <1>9, <3>2, <3>3
  <2>3. QED
    BY <1>2, <1>6, <1>10, <2>1, <2>2
<1>13. Cat(R, wire') = Cat(T, wire)
  <2>1. Cat(Cat(T, G), wire') = Cat(T, Cat(G, wire'))
    BY <1>2, <1>5, CatCat
  <2>2. QED
    BY <1>3, <2>1 DEF R
<1>14. W \in Seq(Key)
  <2>1. W \in Seq(ItemKey \ {"none"})
    BY KeysOfRight, WithoutDrops
  <2>2. ItemKey \ {"none"} = Key
    BY DEF ItemKey, Key
  <2>3. QED
    BY <2>1, <2>2
<1>15. Meant' = Cat(Meant, Told(G))
  <2>1. Meant' = Without(Cat(meant, W), "ENTER")
    BY <1>3 DEF Meant
  <2>2. Told(G) = Without(W, "ENTER")
    BY DEF Told
  <2> HIDE DEF W
  <2>3. Without(Cat(meant, W), "ENTER") = Cat(Without(meant, "ENTER"), Without(W, "ENTER"))
    BY <1>1, <1>14, WithoutCat
  <2>4. QED
    BY <2>1, <2>2, <2>3 DEF Meant
<1>16. Cat(Keys, Told(R)) = Meant'
  <2>1. Told(R) = Cat(Told(T), Told(G)) /\ Told(T) \in Seq(ItemKey) /\ Told(G) \in Seq(ItemKey)
    <3>1. T \in Seq(Item)
      BY <1>2
    <3>2. QED
      BY <3>1, ToldCat DEF R
  <2>2. Keys \in Seq(ItemKey)
    <3>1. Key \subseteq ItemKey
      BY DEF ItemKey
    <3>2. QED
      BY <1>1, <3>1, SeqMonotonic
  <2>3. Cat(Cat(Keys, Told(T)), Told(G)) = Cat(Keys, Cat(Told(T), Told(G)))
    BY <2>1, <2>2, CatCat
  <2>4. QED
    BY <1>2, <1>15, <2>1, <2>3
<1>17. Keys' = Keys
  BY DEF Keys
<1>18. Len(R) = Len(buffer')
  BY <1>2, <1>7, <1>10
<1> HIDE DEF W
<1>19. Holds(R, buffer', wire', Keys', Meant')
  BY <1>2, <1>6, <1>12, <1>13, <1>16, <1>17, <1>18 DEF Holds
<1>20. Pending(R)'
  BY <1>19 DEF Pending, Holds
<1>21. QED
  BY <1>20

(* What is sent comes in whole units. *)
LEMMA SendDecodes ==
  ASSUME InputTypeOK, NEW T, Pending(T), NEW u \in Units, Send(u)
  PROVE  Pending(T)'
<1>1. /\ wire' = wire \o Sent(u) /\ buffer' = buffer /\ Keys' = Keys /\ Meant' = Meant
  BY DEF Send, decoder, Keys, Meant
<1>2. wire \in Seq(Item) /\ T \in Seq(Item) /\ Whole(Cat(T, wire))
  BY DEF InputTypeOK, Item, Pending, Holds
<1>3. Cat(T, wire) \in Seq(Item) /\ Sent(u) \in Seq(Item)
  BY <1>2, CatRight, SentUnit
<1>4. Whole(Cat(Cat(T, wire), Sent(u)))
  <2> DEFINE st == Cat(T, wire)
  <2>1. st \in Seq(Item) /\ Whole(st)
    BY <1>2, <1>3
  <2> HIDE DEF st
  <2>2. Whole(Cat(st, Sent(u)))
    BY <2>1, WholeSent
  <2>3. QED
    BY <2>2 DEF st
<1>5. Cat(Cat(T, wire), Sent(u)) = Cat(T, wire')
  <2>1. Cat(Cat(T, wire), Sent(u)) = Cat(T, Cat(wire, Sent(u)))
    BY <1>2, <1>3, CatCat
  <2>2. wire' = Cat(wire, Sent(u))
    BY <1>1 DEF Cat
  <2>3. QED
    BY <2>1, <2>2
<1>6. Whole(Cat(T, wire'))
  BY <1>4, <1>5
<1>7. QED
  BY <1>1, <1>6 DEF Pending, Holds

(* What holds as long as nothing odd has happened. *)
Decoding ==
  odd = {} =>
    /\ \E T : Pending(T)
    /\ ~Parsing => Settled
    /\ pc = "second" => PendingEscape /\ ready = <<>>

LEMMA InitDecoding == InputInit => Decoding
<1> SUFFICES ASSUME InputInit PROVE Decoding
  OBVIOUS
<1>1. /\ wire = <<>> /\ buffer = <<>> /\ keys = <<>> /\ ready = <<>> /\ meant = <<>>
      /\ pc = "idle"
  BY DEF InputInit
<1>2. <<>> \in Seq(Item) /\ Len(<<>>) = 0 /\ <<>> \in Seq(Key)
  BY EmptySeq
<1>3. Keys = <<>> /\ Meant = <<>>
  <2>1. keys \o ready = <<>>
    BY <1>1
  <2>2. QED
    BY <1>1, <2>1, WithoutEmpty DEF Keys, Meant
<1>4. Told(<<>>) = <<>>
  BY <1>2, ToldEmpty
<1>5. Cat(<<>>, <<>>) = <<>>
  BY <1>2, CatRight
<1>6. Whole(<<>>)
  BY <1>2 DEF Whole
<1>7. Holds(<<>>, <<>>, <<>>, <<>>, <<>>)
  BY <1>2, <1>4, <1>5, <1>6 DEF Holds
<1>8. Pending(<<>>)
  BY <1>1, <1>3, <1>7 DEF Pending
<1>9. QED
  BY <1>1, <1>8 DEF Decoding, Settled

LEMMA NextDecoding ==
  InputTypeOK /\ Decoding /\ [InputNext]_inputVars => Decoding'
<1> SUFFICES ASSUME InputTypeOK, Decoding, [InputNext]_inputVars, odd' = {}
             PROVE  /\ \E T : Pending(T)'
                    /\ ~Parsing' => Settled'
                    /\ pc' = "second" => PendingEscape' /\ ready' = <<>>
  BY DEF Decoding
<1>1. odd = {}
  <2>1. odd \subseteq odd'
    BY DEF InputNext, Decode, ReadKey, Send, HangUp, Plain, StripIac, LoneEscape,
           LongEscape, Arrow, ParseEnds, UnknownEscape, ReadyKey, ReadBytes,
           FirstNothing, ReadMore, SecondNothing, ReadEnd, Split, inputVars
  <2>2. QED
    BY <2>1
<1>2. PICK T : Pending(T)
  BY <1>1 DEF Decoding
<1>3. /\ ~Parsing => Settled
      /\ pc = "second" => PendingEscape /\ ready = <<>>
  BY <1>1 DEF Decoding
<1>4. ASSUME NEW u \in Units, Send(u)
      PROVE  /\ \E R : Pending(R)'
             /\ ~Parsing' => Settled'
             /\ pc' = "second" => PendingEscape' /\ ready' = <<>>
  <2>1. Pending(T)'
    BY <1>2, <1>4, SendDecodes
  <2>2. pc' = pc /\ buffer' = buffer /\ ready' = ready /\ ~Parsing
    BY <1>4 DEF Send, decoder, BeforeRead, Parsing
  <2>3. QED
    BY <1>3, <2>1, <2>2, SettledStays DEF PendingEscape
<1>5. CASE Plain \/ StripIac \/ LoneEscape \/ Arrow
  <2>1. \E R : Pending(R)'
    BY <1>2, <1>5, PlainDecodes, StripIacDecodes, LoneEscapeDecodes, ArrowDecodes
  <2>2. pc' = pc /\ pc \in {"parse", "again"}
    BY <1>5 DEF Plain, StripIac, LoneEscape, Arrow, Parsing, Continue
  <2>3. QED
    BY <2>1, <2>2 DEF Parsing
<1>6. CASE LongEscape \/ UnknownEscape
  <2>1. odd' # {}
    BY <1>6 DEF LongEscape, UnknownEscape
  <2>2. QED
    BY <2>1
<1>7. CASE ParseEnds \/ ReadyKey
  <2>1. /\ Settled /\ Give(buffer) /\ wire' = wire /\ meant' = meant /\ pc' = "idle"
        /\ pc = "again" /\ ready = <<>> /\ PendingEscape => ~MidUnit
    <3>1. CASE ParseEnds
      BY <1>1, <3>1 DEF ParseEnds, Settled, Split
    <3>2. CASE ReadyKey
      BY <1>3, <3>2 DEF ReadyKey, Parsing
    <3>3. QED
      BY <1>7, <3>1, <3>2
  <2>2. (\E R : Pending(R)') /\ Settled'
    BY <1>2, <2>1, GiveDecodes
  <2>3. QED
    BY <2>1, <2>2
<1>8. CASE ReadBytes \/ ReadMore
  <2>1. PICK n \in 1..Min2(MaxBytes, Len(wire)) : Receive(n)
    BY <1>8 DEF ReadBytes, ReadMore
  <2>2. n \in 1..Len(wire)
    BY <2>1, LenProperties, InputAssumption DEF Min2, InputTypeOK
  <2>3. ready' = ready /\ keys' = keys /\ pc' \in {"parse", "again"}
    BY <1>8 DEF ReadBytes, ReadMore
  <2>4. \E R : Pending(R)'
    BY <1>2, <2>1, <2>2, <2>3, ReadDecodes
  <2>5. QED
    BY <2>3, <2>4 DEF Parsing
<1>9. CASE SecondNothing
  <2>1. /\ pc = "second" /\ pc' = "idle" /\ buffer' = <<>> /\ keys' = Append(keys, "ESC")
        /\ odd' = Split /\ wire' = wire /\ ready' = ready /\ meant' = meant
    BY <1>9 DEF SecondNothing
  <2>2. PendingEscape /\ ready = <<>> /\ Settled
    BY <1>3, <2>1 DEF Parsing
  <2>3. EscapeWaits /\ ~MidUnit
    BY <2>1, <2>2 DEF Settled, IacWaits, PendingEscape, Split
  <2>4. \E R : Pending(R)'
    BY <1>2, <2>1, <2>2, <2>3, FlushDecodes
  <2>5. Settled'
    BY <2>1 DEF Settled
  <2>6. QED
    BY <2>1, <2>4, <2>5
<1>10. CASE FirstNothing \/ ReadEnd \/ HangUp \/ UNCHANGED inputVars
  <2>1. /\ buffer' = buffer /\ wire' = wire /\ meant' = meant
        /\ ready' = ready /\ keys' = keys
    BY <1>10 DEF FirstNothing, ReadEnd, HangUp, inputVars, decoder
  <2>2. Keys' = Keys
    BY <2>1 DEF Keys
  <2>3. Pending(T)'
    BY <1>2, <2>1, <2>2, PendingStays
  <2>4. /\ Parsing' \/ ~Parsing
        /\ pc' = "second" => PendingEscape /\ ready = <<>>
    BY <1>3, <1>10 DEF FirstNothing, ReadEnd, HangUp, inputVars, Parsing, BeforeRead
  <2>5. QED
    BY <1>3, <2>1, <2>3, <2>4, SettledStays DEF PendingEscape
<1>11. QED
  BY <1>4, <1>5, <1>6, <1>7, <1>8, <1>9, <1>10 DEF InputNext, Decode, ReadKey

LEMMA DecodingIsFaithful == InputTypeOK /\ Decoding => Faithful
<1> SUFFICES ASSUME InputTypeOK, Decoding, pc = "idle", odd = {}
             PROVE  Decoded
  BY DEF Faithful
<1>1. PICK T : Pending(T)
  BY DEF Decoding
<1>2. Settled
  BY DEF Decoding, Parsing
<1>3. /\ T \in Seq(Item) /\ Len(T) = Len(buffer) /\ Cat(Keys, Told(T)) = Meant
      /\ Holds(T, buffer, wire, Keys, Meant)
  BY <1>1 DEF Pending, Holds
<1>4. wire \in Seq(Item) /\ buffer \in Seq(Byte) /\ Keys \in Seq(Key)
  BY KeysTyped DEF InputTypeOK, Item
<1>5. ASSUME Told(T) = <<>> PROVE Keys = Meant
  BY <1>3, <1>4, <1>5, CatRight
<1>6. CASE buffer = <<>>
  <2>1. Len(T) = 0
    BY <1>3, <1>6
  <2>2. Told(T) = <<>>
    BY <1>3, <2>1, ToldEmpty
  <2>3. QED
    BY <1>5, <2>2 DEF Decoded
<1>7. CASE buffer # <<>>
  <2>1. PICK u \in Units :
          /\ UnitAt(Cat(T, wire), 0, u)
          /\ \A j \in 1..Len(u.bytes) : j <= Len(buffer) => u.bytes[j] = buffer[j]
    BY <1>1, <1>7, FirstUnit
  <2>2. Buffered
    BY <1>1, <1>7, FirstUnit
  <2>3. CASE Len(u.bytes) > Len(buffer)
    <3>1. Told(T) = <<>>
      BY <1>3, <1>4, <1>7, <2>1, <2>3, InsideUnit
    <3>2. QED
      BY <1>5, <3>1 DEF Decoded
  <2>4. CASE /\ EscapeWaits
             /\ Len(buffer) = 1 /\ Len(u.bytes) = 1 /\ u.key = "ESC"
    <3> DEFINE R == SubSeq(T, Len(u.bytes) + 1, Len(T))
    <3>1. Told(T) = Cat(Tells("ESC"), Told(R))
      <4>1. Len(u.bytes) <= Len(T)
        BY <1>3, <2>4
      <4>2. Told(T) = Cat(Tells(u.key), Told(R))
        BY <1>3, <1>4, <2>1, <4>1, UnitToldFirst
      <4>3. QED
        BY <2>4, <4>2
    <3>2. R = <<>>
      <4>1. 2 \in Int /\ 1 \in Int /\ 1 < 2
        OBVIOUS
      <4>2. SubSeq(T, 2, 1) = <<>>
        BY <4>1, SubSeqEmpty
      <4>3. QED
        BY <1>3, <2>4, <4>2
    <3> HIDE DEF R
    <3>3. Told(R) = <<>>
      <4>1. R \in Seq(Item) /\ Len(R) = 0
        BY <3>2, EmptySeq
      <4>2. QED
        BY <4>1, ToldEmpty
    <3>4. "ESC" \in Key /\ Tells("ESC") = <<"ESC">> /\ <<"ESC">> \in Seq(Key)
      BY DEF Key, Tells
    <3>5. Told(T) = <<"ESC">>
      BY <3>1, <3>3, <3>4, CatRight
    <3>6. Append(Keys, "ESC") = Meant
      <4>1. Append(Keys, "ESC") = Cat(Keys, <<"ESC">>)
        BY <1>4, <3>4, AppendIsConcat DEF Cat
      <4>2. QED
        BY <1>3, <3>5, <4>1
    <3>7. QED
      BY <2>4, <3>6 DEF Decoded, EscapeWaits, IsCsi
  <2>5. CASE IacWaits
    BY <2>1, <2>2, <2>3, <2>5, IacWaitsInside
  <2>6. CASE EscapeWaits
    BY <1>1, <1>4, <2>1, <2>2, <2>3, <2>4, <2>6, EscapeWaitsInside
  <2>7. QED
    BY <1>2, <1>7, <2>5, <2>6 DEF Settled
<1>8. QED
  BY <1>6, <1>7

(* However reads cut the stream, between two calls of read_key() the keys  *)
(* decoded are those meant by the units received, in their order, an       *)
(* Escape that may still become an arrow apart.                            *)
THEOREM KeysAreFaithful == InputSpec => []Faithful
<1>1. InputInit => InputTypeOK /\ Decoding
  BY InitTyped, InitDecoding
<1>2. InputTypeOK /\ Decoding /\ [InputNext]_inputVars => (InputTypeOK /\ Decoding)'
  BY NextTyped, NextDecoding
<1>3. QED
  BY <1>1, <1>2, DecodingIsFaithful, PTL DEF InputSpec

-------------------------------------------------------------------------------
(* The loop of _parse() ends.                                              *)

LEMMA TurnShortens ==
  Buffered /\ [InputNext]_inputVars
    => [Parsing /\ Parsing' => Len(buffer') < Len(buffer)]_inputVars
<1> SUFFICES ASSUME Buffered, InputNext, Parsing, Parsing'
             PROVE  Len(buffer') < Len(buffer)
  OBVIOUS
<1>1. Len(buffer) \in Nat /\ Len(<<>>) = 0 /\ (buffer # <<>> => Len(buffer) >= 1)
  BY EmptySeq, LenProperties DEF Buffered
<1>2. SUFFICES ASSUME \/ buffer' = <<>> /\ buffer # <<>>
                      \/ \E n \in 1..Len(buffer) : buffer' = After(n)
               PROVE  Len(buffer') < Len(buffer)
  <2>1. CASE Plain
    BY <1>1, <1>2, <2>1 DEF Plain
  <2>2. CASE StripIac
    <3>1. IacLength \in 1..Len(buffer)
      BY <1>1, <2>2, EndsRight DEF StripIac, IacLength
    <3>2. QED
      BY <1>2, <2>2, <3>1 DEF StripIac
  <2>3. CASE LoneEscape
    BY <1>1, <1>2, <2>3 DEF LoneEscape
  <2>4. CASE LongEscape
    <3>1. CsiEnds # {} => Least(CsiEnds) \in 1..Len(buffer)
      BY <1>1, EndsRight
    <3>2. QED
      BY <1>2, <2>4, <3>1 DEF LongEscape, IsCsi, PendingEscape
  <2>5. CASE Arrow
    <3>1. 3 \in 1..Len(buffer)
      BY <1>1, <2>5, EndsRight DEF Arrow
    <3>2. QED
      BY <1>2, <2>5, <3>1 DEF Arrow
  <2>6. CASE \/ \E u \in Units : Send(u)
             \/ HangUp \/ ReadKey \/ ParseEnds \/ UnknownEscape
    BY <2>6 DEF Send, HangUp, BeforeRead, ReadKey, ReadyKey, ReadBytes, FirstNothing,
                ReadMore, SecondNothing, ReadEnd, ParseEnds, UnknownEscape, Parsing
  <2>7. QED
    BY <2>1, <2>2, <2>3, <2>4, <2>5, <2>6 DEF InputNext, Decode
<1>3. CASE buffer' = <<>> /\ buffer # <<>>
  BY <1>1, <1>3
<1>4. CASE \E n \in 1..Len(buffer) : buffer' = After(n)
  <2>1. PICK n \in 1..Len(buffer) : buffer' = After(n)
    BY <1>4
  <2>2. n \in 0..Len(buffer)
    BY <1>1
  <2>3. Len(After(n)) = Len(buffer) - n
    BY <2>2, AfterRight
  <2>4. QED
    BY <1>1, <2>1, <2>3
<1>5. QED
  BY <1>2, <1>3, <1>4

(* Each turn of the loop of _parse() takes a byte from the buffer at       *)
(* least, so that it ends for whatever the terminal sends: read_key() is   *)
(* not caught in it.                                                       *)
THEOREM LoopEnds ==
  InputSpec => [][Parsing /\ Parsing' => Len(buffer') < Len(buffer)]_inputVars
<1>1. InputInit => Buffered
  BY InitBuffered
<1>2. QED
  BY <1>1, NextBuffered, TurnShortens, PTL DEF InputSpec

===============================================================================
