----------------------------- MODULE DoorSession ------------------------------
(***************************************************************************)
(* One session of the BBS door: _door() of cli.py starts the source, runs  *)
(* run_interactive() of runtime.py over a DescriptorSocketTransport, turns *)
(* its outcome into an exit code, and releases what it holds.              *)
(*                                                                         *)
(* The process is single-threaded and `at` is where it is.  The calls that *)
(* block (the source's poll, a write, a read of the keyboard) let time     *)
(* pass, up to the bounds named below; the rest takes no time.  What the   *)
(* source, the socket and the caller do is a choice: a call succeeds or    *)
(* fails in each way the code tells apart.                                 *)
(*                                                                         *)
(* The engine is RadarEngine.tla and read_key() TransportInput.tla: of the *)
(* first only the blocking step matters here, of the second whether an     *)
(* Escape is pending.  The view (range, sorting, labels, selection, ground *)
(* traffic) changes only what is drawn and is left out, and with it the    *)
(* keys for it, which are "other"; so are the debug log and the warnings.  *)
(***************************************************************************)
EXTENDS Integers

CONSTANTS
  None,
  SessionSeconds,  (* session_seconds, the time the dropfile grants.       *)
  Margin,          (* max(5, time_warning)                                 *)
  IdleTimeout,     (* idle_timeout                                         *)
  MaxPoll,         (* Longest a poll of the source blocks.                 *)
  MaxWrite,        (* Longest a write to the socket blocks.                *)
  MaxRead,         (* Longest read_key() blocks.                           *)
  MaxTime          (* Bound: the clock stops here.                         *)

ASSUME SessionAssumption ==
  /\ SessionSeconds \in Nat /\ Margin \in Nat /\ IdleTimeout \in Nat
  /\ MaxPoll \in Nat /\ MaxWrite \in Nat /\ MaxRead \in Nat /\ MaxTime \in Nat
  /\ None \notin Nat
  /\ None \notin {"SourceError", "OSError", "Exception"}

VARIABLES
  now,        (* monotonic(); the session starts at 0.                     *)
  spent,      (* Time spent in the call that blocks.                       *)
  at,         (* Where the process is.                                     *)
  connected,  (* transport.connected                                       *)
  source,     (* "none", "open" or "closed"                                *)
  socket,     (* The duplicated descriptor: "none", "open" or "closed".    *)
  paused,     (* paused                                                    *)
  help,       (* help_overlay                                              *)
  pending,    (* The decoder holds the beginning of an escape sequence.    *)
  lastInput,  (* last_input                                                *)
  reason,     (* reason                                                    *)
  raised,     (* The exception that leaves run_interactive(), or None.     *)
  exit,       (* The exit code, or None.                                   *)
  screen,     (* History: the caller's terminal, "plain" or "radar".       *)
  lost,       (* History: the connection was lost or a write failed.       *)
  quitKey,    (* History: q was read while no help was shown.              *)
  escaped,    (* History: the connection ended right behind an Escape.     *)
  keyAt       (* History: when read_key() last returned a key.             *)

link    == <<connected, socket>>
view    == <<paused, help, pending>>
outcome == <<reason, raised, exit>>
history == <<screen, lost, quitKey, escaped, keyAt>>
vars    == <<now, spent, at, link, source, view, lastInput, outcome, history>>

Init ==
  /\ now = 0
  /\ spent = 0
  /\ at = "start"
  /\ connected = FALSE
  /\ source = "none"
  /\ socket = "none"
  /\ paused = FALSE
  /\ help = FALSE
  /\ pending = FALSE
  /\ lastInput = 0
  /\ reason = "quit"
  /\ raised = None
  /\ exit = None
  /\ screen = "plain"
  /\ lost = FALSE
  /\ quitKey = FALSE
  /\ escaped = FALSE
  /\ keyAt = 0

(* Where the process goes next; a call that blocks begins anew. *)
GoTo(place) == at' = place /\ spent' = 0 /\ UNCHANGED now

Longest ==
  [place \in {"startup", "step", "setup", "draw", "shutdown", "read"} |->
     CASE place \in {"startup", "step"} -> MaxPoll
       [] place \in {"setup", "draw", "shutdown"} -> MaxWrite
       [] place = "read" -> MaxRead]

Tick ==
  /\ at \in DOMAIN Longest
  /\ spent < Longest[at]
  /\ now < MaxTime
  /\ now' = now + 1
  /\ spent' = spent + 1
  /\ UNCHANGED <<at, link, source, view, lastInput, outcome, history>>

-------------------------------------------------------------------------------
(* _door() up to the session.                                              *)

(* The dropfile or the options are refused: nothing is open yet.  A        *)
(* descriptor that is not a socket is among the 10s.                       *)
Refused ==
  /\ at = "start"
  /\ exit' \in {2, 10, 11, 12, 13}
  /\ GoTo("ended")
  /\ UNCHANGED <<link, source, view, lastInput, reason, raised, history>>

Accepted ==
  /\ at = "start"
  /\ connected' = TRUE
  /\ socket' = "open"
  /\ GoTo("build")
  /\ UNCHANGED <<source, view, lastInput, outcome, history>>

(* An exception of _door() itself, a SourceError or another. *)
Raise(error) ==
  /\ raised' = error
  /\ GoTo("exit")
  /\ UNCHANGED <<reason, exit>>

Build ==
  /\ at = "build"
  /\ \/ /\ source' = "open"
        /\ GoTo("startup")
        /\ UNCHANGED outcome
     \/ /\ \E error \in {"SourceError", "Exception"} : Raise(error)
        /\ UNCHANGED source
  /\ UNCHANGED <<link, view, lastInput, history>>

(* source.poll() once, before the session. *)
StartupPoll ==
  /\ at = "startup"
  /\ \/ GoTo("engine") /\ UNCHANGED outcome
     \/ \E error \in {"SourceError", "Exception"} : Raise(error)
  /\ UNCHANGED <<link, source, view, lastInput, history>>

(* _make_engine() closes the source if it fails. *)
MakeEngine ==
  /\ at = "engine"
  /\ \/ GoTo("setup") /\ UNCHANGED <<source, outcome>>
     \/ Raise("Exception") /\ source' = "closed"
  /\ UNCHANGED <<link, view, lastInput, history>>

-------------------------------------------------------------------------------
(* Writing.  A lost connection is an outcome of its own; a write that      *)
(* times out or fails in another way leaves the session as an OSError,     *)
(* with the transport still connected or not.                              *)

Finish(why) == reason' = why /\ raised' = None /\ UNCHANGED exit

Fail(error) == reason' = "internal_error" /\ raised' = error /\ UNCHANGED exit

WriteLost ==
  /\ Finish("disconnect")
  /\ connected' = FALSE
  /\ lost' = TRUE

WriteFails ==
  /\ Fail("OSError")
  /\ connected' \in BOOLEAN
  /\ lost' = TRUE

Setup ==
  /\ at = "setup"
  /\ screen' = "radar"
  /\ \/ GoTo("loop") /\ UNCHANGED <<connected, outcome, lost>>
     \/ GoTo("final") /\ (WriteLost \/ WriteFails)
  /\ UNCHANGED <<socket, source, view, lastInput, quitKey, escaped, keyAt>>

-------------------------------------------------------------------------------
(* The loop of run_interactive().                                          *)

Cutoff == SessionSeconds - Margin

(* Mistake: the limit is only looked at with the source. *)
ExpiredUnlessPaused == now >= Cutoff /\ ~paused

Expired == now >= Cutoff

Idle == now - lastInput >= IdleTimeout

LoopLeft ==
  /\ at = "loop"
  /\ ~connected
  /\ GoTo("final")
  /\ UNCHANGED <<link, source, view, lastInput, outcome, history>>

TimeExpires ==
  /\ at = "loop"
  /\ connected
  /\ Expired
  /\ Finish("time_expired")
  /\ GoTo("final")
  /\ UNCHANGED <<link, source, view, lastInput, history>>

IdleExpires ==
  /\ at = "loop"
  /\ connected
  /\ ~Expired
  /\ Idle
  /\ Finish("idle_timeout")
  /\ GoTo("final")
  /\ UNCHANGED <<link, source, view, lastInput, history>>

Iterate ==
  /\ at = "loop"
  /\ connected
  /\ ~Expired
  /\ ~Idle
  /\ GoTo(IF paused THEN "draw" ELSE "step")
  /\ UNCHANGED <<link, source, view, lastInput, outcome, history>>

(* engine.step(): the poller catches what the source raises. *)
Step ==
  /\ at = "step"
  /\ GoTo("draw")
  /\ UNCHANGED <<link, source, view, lastInput, outcome, history>>

(* A frame is rendered and its difference written; a frame that is too     *)
(* large raises before the write.                                          *)
Draw ==
  /\ at = "draw"
  /\ \/ GoTo("read") /\ UNCHANGED <<connected, outcome, lost>>
     \/ GoTo("final") /\ (WriteLost \/ WriteFails)
     \/ GoTo("final") /\ Fail("Exception") /\ UNCHANGED <<connected, lost>>
  /\ UNCHANGED <<socket, source, view, lastInput, screen, quitKey, escaped, keyAt>>

(* Mistake: the time of the input is taken before the test for None. *)
ReadNothingRenews ==
  /\ at = "read"
  /\ lastInput' = now
  /\ pending' \in BOOLEAN
  /\ GoTo("loop")
  /\ UNCHANGED <<link, source, paused, help, outcome, history>>

(* read_key() returns None: nothing came, or bytes that are no key (yet).  *)
ReadNothing ==
  /\ at = "read"
  /\ pending' \in BOOLEAN
  /\ GoTo("loop")
  /\ UNCHANGED <<link, source, paused, help, lastInput, outcome, history>>

KeyRead ==
  /\ at = "read"
  /\ lastInput' = now
  /\ keyAt' = now

(* q quits, unless the help is shown: then it has no action. *)
QuitKey ==
  /\ KeyRead
  /\ ~help
  /\ Finish("quit")
  /\ quitKey' = TRUE
  /\ pending' \in BOOLEAN
  /\ GoTo("final")
  /\ UNCHANGED <<link, source, paused, help, screen, lost, escaped>>

(* The other keys: p, the two help keys, Escape, and those of the view. *)
OtherKey ==
  /\ KeyRead
  /\ \/ paused' = ~paused /\ UNCHANGED help
     \/ help' = ~help /\ UNCHANGED paused
     \/ help' = FALSE /\ UNCHANGED paused
     \/ UNCHANGED <<paused, help>>
  /\ pending' \in BOOLEAN
  /\ GoTo("loop")
  /\ UNCHANGED <<link, source, outcome, screen, lost, quitKey, escaped>>

(* The end of the connection, or a broken one, met by a first read. *)
ReadLost ==
  /\ at = "read"
  /\ connected' = FALSE
  /\ lost' = TRUE
  /\ Finish("disconnect")
  /\ GoTo("final")
  /\ UNCHANGED <<socket, source, view, lastInput, screen, quitKey, escaped, keyAt>>

(* The end is met by the second read, behind a pending Escape: read_key()  *)
(* returns the Escape as a key, and the loop is left at its condition with *)
(* the reason it began with, "quit".                                       *)
EscapeAtEnd ==
  /\ KeyRead
  /\ pending
  /\ pending' = FALSE
  /\ connected' = FALSE
  /\ lost' = TRUE
  /\ escaped' = TRUE
  /\ help' = FALSE
  /\ GoTo("loop")
  /\ UNCHANGED <<socket, source, paused, outcome, screen, quitKey>>

(* Any other failure of the socket leaves as InputTransportError. *)
ReadFails ==
  /\ at = "read"
  /\ lost' = TRUE
  /\ Fail("Exception")
  /\ GoTo("final")
  /\ UNCHANGED <<link, source, view, lastInput, screen, quitKey, escaped, keyAt>>

-------------------------------------------------------------------------------
(* The finally clauses and the exit code.                                  *)

(* Mistake: the terminal is restored only after a normal end. *)
RestoresNormally == connected /\ raised = None

Restores == connected

Final ==
  /\ at = "final"
  /\ GoTo(IF Restores THEN "shutdown" ELSE "exit")
  /\ UNCHANGED <<link, source, view, lastInput, outcome, history>>

(* Mistake: a failure here is caught and forgotten. *)
ShutdownForgets ==
  /\ at = "shutdown"
  /\ \/ screen' = "plain" /\ UNCHANGED <<connected, lost>>
     \/ /\ connected' \in BOOLEAN
        /\ lost' = TRUE
        /\ UNCHANGED screen
  /\ GoTo("exit")
  /\ UNCHANGED <<socket, source, view, lastInput, outcome, quitKey, escaped, keyAt>>

(* A failure here is caught, whatever it is. *)
Shutdown ==
  /\ at = "shutdown"
  /\ \/ screen' = "plain" /\ UNCHANGED <<connected, reason, lost>>
     \/ /\ connected' \in BOOLEAN
        /\ lost' = TRUE
        /\ reason' = "disconnect"
        /\ UNCHANGED screen
  /\ GoTo("exit")
  /\ UNCHANGED <<socket, source, view, lastInput, raised, exit, quitKey, escaped, keyAt>>

ExitCode ==
  CASE raised = "SourceError" -> 13
    [] raised = "OSError"     -> 14
    [] raised = "Exception"   -> 17
    [] raised = None          ->
         CASE reason = "quit"         -> 0
           [] reason = "disconnect"   -> 14
           [] reason = "time_expired" -> 15
           [] reason = "idle_timeout" -> 16

(* Mistake: the transport does not learn that it is closed. *)
ExitStillConnected ==
  /\ at = "exit"
  /\ exit' = ExitCode
  /\ source' = IF source = "open" THEN "closed" ELSE source
  /\ socket' = "closed"
  /\ UNCHANGED connected
  /\ GoTo("ended")
  /\ UNCHANGED <<view, lastInput, reason, raised, history>>

Exit ==
  /\ at = "exit"
  /\ exit' = ExitCode
  /\ source' = IF source = "open" THEN "closed" ELSE source
  /\ socket' = "closed"
  /\ connected' = FALSE
  /\ GoTo("ended")
  /\ UNCHANGED <<view, lastInput, reason, raised, history>>

Process ==
  \/ Refused \/ Accepted \/ Build \/ StartupPoll \/ MakeEngine \/ Setup
  \/ LoopLeft \/ TimeExpires \/ IdleExpires \/ Iterate \/ Step \/ Draw
  \/ ReadNothing \/ QuitKey \/ OtherKey \/ ReadLost \/ EscapeAtEnd \/ ReadFails
  \/ Final \/ Shutdown \/ Exit

Next == Process \/ Tick

Spec == Init /\ [][Next]_vars

(* Calls return within their bounds, and an iteration of the loop takes    *)
(* some time now and then: a caller cannot press keys without end in no    *)
(* time.  Of the poll of a URL this is a premise: its timeouts are those   *)
(* of single reads (see Sources.tla).                                      *)
FairSpec == Spec /\ WF_vars(Process) /\ SF_vars(Tick)

-------------------------------------------------------------------------------
(* Properties.                                                             *)

Places == {"start", "build", "engine", "loop", "final", "exit", "ended"}
            \union DOMAIN Longest

Flags ==
  /\ connected \in BOOLEAN /\ paused \in BOOLEAN /\ help \in BOOLEAN
  /\ pending \in BOOLEAN /\ lost \in BOOLEAN /\ quitKey \in BOOLEAN
  /\ escaped \in BOOLEAN

Times ==
  /\ now \in 0..MaxTime /\ spent \in 0..now
  /\ lastInput \in 0..now /\ keyAt \in 0..now

Outcomes ==
  /\ reason \in {"quit", "disconnect", "time_expired", "idle_timeout",
                 "internal_error"}
  /\ raised \in {None, "SourceError", "OSError", "Exception"}
  /\ exit \in {None, 0, 2, 10, 11, 12, 13, 14, 15, 16, 17}

(* Type invariant; a transport that says it is connected has its socket. *)
TypeOK ==
  /\ at \in Places
  /\ Flags
  /\ Times
  /\ Outcomes
  /\ source \in {"none", "open", "closed"}
  /\ socket \in {"none", "open", "closed"}
  /\ screen \in {"plain", "radar"}
  /\ connected => socket = "open"

(* The margin covers an iteration and the shutdown, and the time granted   *)
(* covers the startup.                                                     *)
CallsFit ==
  /\ MaxPoll + MaxWrite + MaxRead + MaxWrite <= Margin
  /\ MaxPoll + MaxWrite + MaxWrite <= SessionSeconds

(* docs/mystic-door.md:48-49: "the door stops conservatively before the    *)
(* supplied limit".  It does if no call blocks for longer than the margin  *)
(* allows: whatever the caller and the source do, the terminal is restored *)
(* and the process gone when the time the dropfile grants is over.         *)
StopsInTime == CallsFit => now <= SessionSeconds

(* A caller who is gone does not keep the door: whatever the source does,  *)
(* paused or not, the session is over one iteration of the loop and one    *)
(* shutdown after the idle limit has passed since the last key.  What is   *)
(* read but is no key does not count.                                      *)
IdleCallerLeaves ==
  now - keyAt <= IdleTimeout + MaxPoll + MaxWrite + MaxRead + MaxWrite

(* The exit code of a session.  docs/mystic-door.md:104-106 has 0 for a    *)
(* normal quit, 14 for a disconnect, 15 and 16 for the two limits.  The    *)
(* code keeps to that but for one way out, which is named here: when the   *)
(* connection ends right behind an Escape, the exit is 0, without q and    *)
(* although the connection is lost.  Otherwise 0 is q and a shutdown that  *)
(* succeeded, 14 is a lost connection or a write that failed, unless       *)
(* something unexpected was raised (17), and a limit is told only if the   *)
(* caller was there to the end.                                            *)
ExitTellsWhy ==
  at = "ended" /\ socket = "closed" =>
    /\ exit = 0 <=> escaped \/ (quitKey /\ ~lost)
    /\ exit = 14 <=> lost /\ ~escaped /\ raised # "Exception"
    /\ exit \in {15, 16} => ~lost

(* The caller gets the cursor back, unless the connection or a write       *)
(* failed.                                                                 *)
ScreenRestored == at = "ended" /\ ~lost => screen = "plain"

(* A process that is about to end holds neither source nor socket. *)
Released == at = "ended" => source # "open" /\ socket # "open"

(* However the session ends, also by an exception of the renderer or of    *)
(* the keyboard, at whatever step of the start or of the session, the      *)
(* screen is restored and nothing stays open.                              *)
CleanedUp == ScreenRestored /\ Released

(* Every session ends, also one whose caller keeps pressing keys, or has   *)
(* paused it, or whose source takes MaxPoll in every poll.                 *)
Ends == <>(at = "ended")

===============================================================================
