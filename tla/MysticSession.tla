----------------------------- MODULE MysticSession ----------------------------
(***************************************************************************)
(* One session of the Mystic front end: main() of ansiradar.mpy builds a   *)
(* source and an engine (build_mystic_engine of mystic.py) and runs        *)
(* run_mystic() over the API of the bulletin board.                        *)
(*                                                                         *)
(* The loop is not the one of the door.  It takes at most one key per      *)
(* frame, and it lets the engine step only when its own `last_poll` is an  *)
(* interval old, so that two gates stand before the source: this one, and  *)
(* the schedule of the poller (SourcePoller.tla, here on the same clock).  *)
(*                                                                         *)
(* `at` is where the process is.  Calls that block let time pass, up to    *)
(* the bounds named below; one of them is the way from the loop's reading  *)
(* of the clock to the poller's.  Keys wait in the queue of the bulletin   *)
(* board.  The view (range, labels, sorting, selection, ground traffic)    *)
(* changes only what is drawn and is left out, as are flush(), which       *)
(* changes nothing here, the log, and the diagnostic stages of the build.  *)
(***************************************************************************)
EXTENDS Integers, Sequences

CONSTANTS
  None, PollInterval, InitialBackoff, MaxBackoff, Recording, MaxTime,
  MaxSnapshots,
  MaxPoll,    (* Longest a poll of the source blocks.                      *)
  MaxGap,     (* Longest time between the two readings of the clock.       *)
  MaxWrite,   (* Longest a write to the bulletin board blocks.             *)
  IdleSleep,  (* idle_sleep                                                *)
  MaxKeys     (* Bound: keys pressed.                                      *)

ASSUME SessionAssumption ==
  /\ PollInterval \in Nat \ {0}
  /\ InitialBackoff \in Nat \ {0}
  /\ MaxBackoff \in Nat
  /\ InitialBackoff <= MaxBackoff
  /\ MaxTime \in Nat
  /\ MaxSnapshots \in Nat
  /\ None \notin Nat
  /\ MaxPoll \in Nat /\ MaxGap \in Nat /\ MaxWrite \in Nat
  /\ IdleSleep \in Nat /\ MaxKeys \in Nat

VARIABLES
  (* The poller and its source. *)
  kind, now, pc, lastPoll, lastSuccess, backoff, nextPoll, data, failing,
  exhausted, position, closed, fails, forced,
  (* The session. *)
  at,       (* Where the process is.                                       *)
  spent,    (* Time spent in the call that blocks.                         *)
  gate,     (* last_poll                                                   *)
  paused,   (* state.paused                                                *)
  help,     (* state.help_overlay                                          *)
  queue,    (* Keys the caller pressed that were not read yet.             *)
  typed,    (* Number of keys pressed.                                     *)
  restore,  (* config.restore_on_exit                                      *)
  raised,   (* An exception is on its way out.                             *)
  source,   (* "none", "open" or "closed"                                  *)
  screen,   (* History: the caller's terminal, "plain" or "radar".         *)
  broken,   (* History: a write failed.                                    *)
  resumed   (* History: when the session was last unpaused.                *)

P == INSTANCE SourcePoller

pollerVars == <<kind, pc, lastPoll, lastSuccess, backoff, nextPoll, data,
                failing, exhausted, position, closed, fails, forced>>
loop  == <<gate, paused, help, restore, resumed>>
keys  == <<queue, typed>>
ends  == <<raised, source, screen, broken>>
vars  == <<pollerVars, now, at, spent, loop, keys, ends>>

Init ==
  /\ P!Init
  /\ at = "start"
  /\ spent = 0
  /\ gate = -PollInterval
  /\ paused = FALSE
  /\ help = FALSE
  /\ queue = <<>>
  /\ typed = 0
  /\ restore \in BOOLEAN
  /\ raised = FALSE
  /\ source = "none"
  /\ screen = "plain"
  /\ broken = FALSE
  /\ resumed = 0

(* Where the process goes next; a call that blocks begins anew. *)
GoTo(place) == at' = place /\ spent' = 0

Idle == UNCHANGED <<pollerVars, now>>

Longest ==
  [startup |-> MaxPoll, step |-> MaxGap, poll |-> MaxPoll,
   draw |-> MaxWrite, sleep |-> IdleSleep]

Tick ==
  /\ at \in DOMAIN Longest
  /\ spent < Longest[at]
  /\ P!Tick
  /\ spent' = spent + 1
  /\ UNCHANGED <<at, loop, keys, ends>>

-------------------------------------------------------------------------------
(* build_mystic_engine().                                                  *)

BuildSource ==
  /\ at = "start"
  /\ source' = "open"
  /\ GoTo("startup")
  /\ Idle
  /\ UNCHANGED <<loop, keys, raised, screen, broken>>

SourceRefused ==
  /\ at = "start"
  /\ raised' = TRUE
  /\ GoTo("report")
  /\ Idle
  /\ UNCHANGED <<loop, keys, source, screen, broken>>

StartupPolled ==
  /\ at = "startup"
  /\ P!Seed
  /\ GoTo("clear")
  /\ UNCHANGED <<loop, keys, ends>>

StartupFails ==
  /\ at = "startup"
  /\ raised' = TRUE
  /\ source' = "closed"
  /\ GoTo("report")
  /\ Idle
  /\ UNCHANGED <<loop, keys, screen, broken>>

-------------------------------------------------------------------------------
(* The keyboard.                                                           *)

(* What the caller may press, as the bulletin board hands it out: "ctrl"   *)
(* is the integer of a character that is no text, "1" stands for the keys  *)
(* of the view and for those without an action.                            *)
Raw == {"q", "p", "r", "h", "esc", "1", "ctrl"}

(* map_key() *)
MapKey(raw) == CASE raw = "esc" -> "ESC"
                 [] raw = "ctrl" -> ""
                 [] OTHER -> raw

(* The caller may press keys as long as there is a session. *)
Press(raw) ==
  /\ at # "ended"
  /\ typed < MaxKeys
  /\ typed' = typed + 1
  /\ queue' = Append(queue, raw)
  /\ Idle
  /\ UNCHANGED <<at, spent, loop, ends>>

(* Mistake: the key is taken by a call that waits for another one. *)
KeyWaitsForTwo == Len(queue) > 1

KeyWaits == queue # <<>>

NoKey ==
  /\ at = "key"
  /\ ~KeyWaits
  /\ GoTo("gate")
  /\ Idle
  /\ UNCHANGED <<loop, keys, ends>>

(* The key read_key() returns, when run_mystic() is at it. *)
Takes(k) ==
  /\ at = "key"
  /\ KeyWaits
  /\ MapKey(Head(queue)) = k
  /\ queue' = Tail(queue)
  /\ UNCHANGED <<typed, now>>

Goes == UNCHANGED <<gate, restore>> /\ GoTo("gate") /\ UNCHANGED ends

TakeQuit ==
  /\ Takes("q")
  /\ GoTo("restore")
  /\ UNCHANGED <<pollerVars, loop, ends>>

TakePause ==
  /\ Takes("p")
  /\ paused' = ~paused
  /\ resumed' = IF paused THEN now ELSE resumed
  /\ UNCHANGED <<pollerVars, help>>
  /\ Goes

TakeHelp ==
  /\ Takes("h")
  /\ help' = ~help
  /\ UNCHANGED <<pollerVars, paused, resumed>>
  /\ Goes

TakeEscape ==
  /\ Takes("ESC")
  /\ help' = FALSE
  /\ UNCHANGED <<pollerVars, paused, resumed>>
  /\ Goes

TakeRefresh ==
  /\ Takes("r")
  /\ P!ForcePoll
  /\ UNCHANGED <<help, paused, resumed>>
  /\ Goes

TakeOther ==
  /\ Takes("1")
  /\ UNCHANGED <<pollerVars, help, paused, resumed>>
  /\ Goes

(* The empty key is `in "1234"` and then not in the table of ranges.       *)
TakeNothing ==
  /\ Takes("")
  /\ raised' = TRUE
  /\ GoTo("restore")
  /\ UNCHANGED <<pollerVars, loop, source, screen, broken>>

(* The bulletin board has no getkey(), or it raises. *)
GetKeyFails ==
  /\ at = "key"
  /\ raised' = TRUE
  /\ GoTo("restore")
  /\ Idle
  /\ UNCHANGED <<loop, keys, source, screen, broken>>

TakeKey == TakeQuit \/ TakePause \/ TakeHelp \/ TakeEscape \/ TakeRefresh
           \/ TakeOther \/ TakeNothing

-------------------------------------------------------------------------------
(* The source.                                                             *)

GateIsOpen == ~paused /\ now - gate >= PollInterval

GateOpens ==
  /\ at = "gate"
  /\ GateIsOpen
  /\ gate' = now
  /\ GoTo("step")
  /\ Idle
  /\ UNCHANGED <<paused, help, restore, resumed, keys, ends>>

(* Mistake: last_poll is set although nothing was polled. *)
GateStaysShutAnew ==
  /\ at = "gate"
  /\ ~GateIsOpen
  /\ gate' = now
  /\ GoTo("draw")
  /\ Idle
  /\ UNCHANGED <<paused, help, restore, resumed, keys, ends>>

GateStaysShut ==
  /\ at = "gate"
  /\ ~GateIsOpen
  /\ GoTo("draw")
  /\ Idle
  /\ UNCHANGED <<loop, keys, ends>>

(* The poller's own test; beyond the bound of snapshots nothing is due. *)
PollIsDue == P!TimeIsUp /\ P!SourceDue /\ data < MaxSnapshots

StepPolls ==
  /\ at = "step"
  /\ P!StepBegins
  /\ GoTo("poll")
  /\ UNCHANGED <<loop, keys, ends>>

StepSkips ==
  /\ at = "step"
  /\ ~PollIsDue
  /\ GoTo("draw")
  /\ Idle
  /\ UNCHANGED <<loop, keys, ends>>

PollEnds ==
  /\ at = "poll"
  /\ P!PollReturns \/ P!PollRaises
  /\ GoTo("draw")
  /\ UNCHANGED <<loop, keys, ends>>

-------------------------------------------------------------------------------
(* The screen.                                                             *)

Clear ==
  /\ at = "clear"
  /\ screen' = "radar"
  /\ GoTo("key")
  /\ Idle
  /\ UNCHANGED <<loop, keys, raised, source, broken>>

Draw ==
  /\ at = "draw"
  /\ GoTo("sleep")
  /\ Idle
  /\ UNCHANGED <<loop, keys, ends>>

Sleep ==
  /\ at = "sleep"
  /\ GoTo("key")
  /\ Idle
  /\ UNCHANGED <<loop, keys, ends>>

(* A write raises; some of it may have reached the caller.                 *)
WriteFails ==
  /\ at \in {"clear", "draw"}
  /\ screen' \in {screen, "radar"}
  /\ broken' = TRUE
  /\ raised' = TRUE
  /\ GoTo("restore")
  /\ Idle
  /\ UNCHANGED <<loop, keys, source>>

-------------------------------------------------------------------------------
(* The finally clause, and the report of the wrapper.                      *)

(* Mistake: the terminal is restored only after a normal quit. *)
RestoresQuitOnly == restore /\ ~raised

Restores == restore

RestoreScreen ==
  /\ at = "restore"
  /\ screen' = IF Restores THEN "plain" ELSE screen
  /\ GoTo("close")
  /\ Idle
  /\ UNCHANGED <<loop, keys, raised, source, broken>>

RestoreFails ==
  /\ at = "restore"
  /\ Restores
  /\ broken' = TRUE
  /\ GoTo("close")
  /\ Idle
  /\ UNCHANGED <<loop, keys, raised, source, screen>>

CloseEngine ==
  /\ at = "close"
  /\ P!Close
  /\ source' = "closed"
  /\ GoTo(IF raised THEN "report" ELSE "ended")
  /\ UNCHANGED <<loop, keys, raised, screen, broken>>

(* The wrapper swallows the exception and leaves a message, or tries to.   *)
Report ==
  /\ at = "report"
  /\ raised' = FALSE
  /\ GoTo("ended")
  /\ Idle
  /\ UNCHANGED <<loop, keys, source, screen, broken>>

Process ==
  \/ BuildSource \/ SourceRefused \/ StartupPolled \/ StartupFails
  \/ NoKey \/ TakeKey \/ GetKeyFails
  \/ GateOpens \/ GateStaysShut \/ StepPolls \/ StepSkips \/ PollEnds
  \/ Clear \/ Draw \/ Sleep \/ WriteFails
  \/ RestoreScreen \/ RestoreFails \/ CloseEngine \/ Report

Next == Process \/ Tick \/ \E raw \in Raw : Press(raw)

Spec == Init /\ [][Next]_vars

(* Every call returns within its bound, which of the poll of a URL is a    *)
(* premise (see Sources.tla); nothing is assumed of the caller.            *)
FairSpec == Spec /\ WF_vars(Process)

-------------------------------------------------------------------------------
(* Properties.                                                             *)

Loop == {"key", "gate", "step", "poll", "draw", "sleep"}

(* When the poller wants to poll next, and how much later it is polled at  *)
(* most: the loop asks it once in an interval, and an iteration blocks.    *)
Wanted == LET due == lastPoll + P!Delay IN IF due > resumed THEN due ELSE resumed

Slack == PollInterval + MaxGap + MaxWrite + IdleSleep

(* The two gates do not starve the source: however their phases lie to     *)
(* each other, a live source that is due in a session that is not paused   *)
(* is polled within one interval and one iteration, if a poll itself does  *)
(* not take longer than an interval.  Beyond the bound of snapshots it is  *)
(* polled no more.                                                         *)
PolledInTime ==
  MaxPoll <= PollInterval /\ data < MaxSnapshots =>
    (at \in Loop \ {"poll"} /\ kind = "live" /\ ~paused =>
       now < Wanted + Slack)

(* docs/mystic-embedded-python.md, "Logging and Errors": whatever happens, *)
(* the script returns to Mystic with its source closed and, if it is to    *)
(* restore the terminal and its writes do not fail, with the cursor back.  *)
CleanedUp ==
  at = "ended" =>
    /\ source # "open"
    /\ restore /\ ~broken => screen = "plain"

(* docs/mystic-embedded-python.md, "Controls": "`Q` quits immediately on   *)
(* the first press", also while the help is shown, the session is paused   *)
(* or the source hangs: no second key is waited for.                       *)
QuitEnds == (\E i \in DOMAIN queue : queue[i] = "q") ~> at = "ended"

(* docs/mystic-embedded-python.md, "Controls": "`R` refreshes the source." *)
(* Then no frame is drawn between the key and the poll it asks for.        *)
RefreshPolls == at = "draw" /\ kind = "live" /\ ~paused => ~forced

===============================================================================
