----------------------------- MODULE LocalSession -----------------------------
(***************************************************************************)
(* `radar` on the local terminal: _radar() of cli.py, the context manager  *)
(* TerminalSession around it, and what run_interactive() writes through    *)
(* LocalTTYTransport, with the signals SIGINT and SIGTERM at any moment.   *)
(*                                                                         *)
(* `at` is the next thing the process does.  A signal is handled between   *)
(* two of them or inside one that writes, where the handler's own write is *)
(* refused by the buffer (RuntimeError); the interrupted bytes stay in it  *)
(* and go out before anything else.  Where an exception leads from a place *)
(* is Landing.  close() has four steps and runs for __exit__() (base is    *)
(* None) or for the handler (base is the place it interrupted, "exit" for  *)
(* the close() of __exit__()).                                             *)
(*                                                                         *)
(* Standard output is a terminal; that it hangs up, which SIGHUP answers,  *)
(* is left out, and so is what is drawn.                                   *)
(***************************************************************************)
EXTENDS Naturals

CONSTANTS
  None,
  MaxSignals   (* Bound on the signals that arrive.                        *)

VARIABLES
  alternate,  (* --no-alt-screen was not given.                            *)
  tty,        (* Standard input is a terminal.                             *)
  at, base,   (* See above.                                                *)
  attrs,      (* _attrs holds the terminal's mode.                         *)
  ours,       (* The signals whose handler is _signal().                   *)
  connected,  (* transport.connected                                       *)
  busy,       (* The handler runs inside a write.                          *)
  exc,        (* The exception on its way, or "killed", or None.           *)
  alt,        (* Terminal: the alternate screen is shown...                *)
  hidden,     (* ... the cursor is hidden...                               *)
  cbreak,     (* ... the input is in cbreak mode...                        *)
  cleared,    (* ... the primary screen has been cleared.                  *)
  signals,    (* History: how many signals came.                           *)
  odd         (* History: what keeps the terminal from being restored.     *)

options  == <<alternate, tty>>
process  == <<attrs, ours, connected>>
terminal == <<alt, hidden, cbreak, cleared>>
history  == <<signals, odd>>
vars     == <<options, at, base, process, busy, exc, terminal, history>>

Signals  == {"INT", "TERM"}
Entering == {"alt", "cbreak", "int", "term"}
Inside   == {"setup", "draw", "read"}
Closing  == {"attrs", "leave", "unint", "unterm"}
Places   == Entering \union Inside \union Closing
              \union {"start", "final", "release", "ended"}

ASSUME SessionAssumption == MaxSignals \in Nat /\ None \notin Places \union {"exit"}

Init ==
  /\ alternate \in BOOLEAN /\ tty \in BOOLEAN
  /\ at = "start" /\ base = None
  /\ attrs = FALSE
  /\ ours = {}
  /\ connected = TRUE
  /\ busy = FALSE
  /\ exc = None
  /\ alt = FALSE /\ hidden = FALSE /\ cbreak = FALSE /\ cleared = FALSE
  /\ signals = 0
  /\ odd = {}

GoTo(place) == at' = place /\ UNCHANGED <<base, busy>>

-------------------------------------------------------------------------------
(* What the writes do to the terminal.  A write that clears does so on the *)
(* screen that is shown.                                                   *)

Clears == cleared' = (cleared \/ ~alt)

Put(place) ==
  /\ UNCHANGED cbreak
  /\ CASE place = "alt"   -> alt' = TRUE /\ hidden' = TRUE /\ UNCHANGED cleared
       [] place = "leave" -> alt' = FALSE /\ hidden' = FALSE /\ UNCHANGED cleared
       [] place = "setup" -> hidden' = TRUE /\ Clears /\ UNCHANGED alt
       [] place = "final" -> hidden' = FALSE /\ Clears /\ UNCHANGED alt
       [] place = "draw"  -> UNCHANGED <<alt, hidden, cleared>>

Writes(place) ==
  \/ place \in {"setup", "draw"}
  \/ place \in {"alt", "leave"} /\ alternate
  \/ place = "final" /\ connected

PutIfAny(place) == IF Writes(place) THEN Put(place) ELSE UNCHANGED terminal

-------------------------------------------------------------------------------
(* Exceptions and signals.                                                 *)

(* The place the program is at, whatever a handler does on top of it. *)
Place == IF at \notin Closing THEN at ELSE IF base = None THEN "exit" ELSE base

(* _make_engine() is outside of the try statement; __enter__() that fails  *)
(* is not followed by __exit__(); the finally clause of run_interactive()  *)
(* is.                                                                     *)
Landing(place) ==
  CASE place \in {"start", "release"}   -> "ended"
    [] place \in Entering \union {"exit"} -> "release"
    [] place \in Inside                 -> "final"
    [] place = "final"                  -> "attrs"

Raise(e) ==
  /\ exc' = e
  /\ at' = Landing(Place)
  /\ base' = None
  /\ busy' = FALSE

(* "early": __enter__() has not installed the handler yet.  "behind": the  *)
(* close() of the handler runs below run_interactive(), whose last write   *)
(* is still to come.  "late": that write is due and is not made.           *)
Oddity(sig, inWrite) ==
  CASE Place \in Entering /\ sig \notin ours -> {"early"}
    [] Place \in Inside /\ sig \in ours      -> {"behind"}
    [] at = "final" /\ ~inWrite              -> {"late"}
    [] OTHER                                 -> {}

Interrupt(sig, inWrite) ==
  /\ \/ /\ sig \in ours
        /\ at' = "attrs" /\ base' = Place /\ busy' = (busy \/ inWrite)
        /\ UNCHANGED exc
     \/ sig \notin ours /\ sig = "INT" /\ Raise("KeyboardInterrupt")
     \/ /\ sig \notin ours /\ sig = "TERM"
        /\ exc' = "killed" /\ at' = "ended"
        /\ UNCHANGED <<base, busy>>
  /\ signals' = signals + 1
  /\ odd' = odd \union Oddity(sig, inWrite)
  /\ UNCHANGED <<options, process>>

Signal(sig) ==
  /\ at # "ended" /\ signals < MaxSignals
  /\ Interrupt(sig, FALSE)
  /\ UNCHANGED terminal

(* The bytes that are written go out all the same, unless the process is   *)
(* killed.                                                                 *)
SignalInWrite(sig) ==
  /\ at # "ended" /\ signals < MaxSignals
  /\ Writes(at) /\ ~busy
  /\ Interrupt(sig, TRUE)
  /\ Put(at)

-------------------------------------------------------------------------------
(* __enter__().                                                            *)

Start ==
  /\ at = "start"
  /\ \/ GoTo("alt") /\ UNCHANGED exc
     \/ Raise("Error")
  /\ UNCHANGED <<options, process, terminal, history>>

EnterAlt ==
  /\ at = "alt"
  /\ PutIfAny("alt")
  /\ GoTo("cbreak")
  /\ UNCHANGED <<options, process, exc, history>>

EnterCbreak ==
  /\ at = "cbreak"
  /\ attrs' = tty
  /\ cbreak' = tty
  /\ GoTo("int")
  /\ UNCHANGED <<options, ours, connected, exc, alt, hidden, cleared, history>>

Handle(place, sig, next) ==
  /\ at = place
  /\ ours' = ours \union {sig}
  /\ GoTo(next)
  /\ UNCHANGED <<options, attrs, connected, exc, terminal, history>>

EnterHandlers == Handle("int", "INT", "term") \/ Handle("term", "TERM", "setup")

-------------------------------------------------------------------------------
(* run_interactive().                                                      *)

Setup ==
  /\ at = "setup"
  /\ Put("setup")
  /\ GoTo("draw")
  /\ UNCHANGED <<options, process, exc, history>>

(* The engine steps and the frame is drawn, or one of them raises. *)
Draw ==
  /\ at = "draw"
  /\ \/ GoTo("read") /\ UNCHANGED exc
     \/ Raise("Error")
  /\ UNCHANGED <<options, process, terminal, history>>

(* A key other than q, none, or q. *)
Read ==
  /\ at = "read"
  /\ GoTo("draw") \/ GoTo("final")
  /\ UNCHANGED <<options, process, exc, terminal, history>>

(* Input that is redirected may end. *)
ReadEnd ==
  /\ at = "read" /\ ~tty
  /\ connected' = FALSE
  /\ odd' = odd \union {"eof"}
  /\ GoTo("final")
  /\ UNCHANGED <<options, attrs, ours, exc, terminal, signals>>

(* Mistake: only a session that ended normally is set right. *)
FinalUnlessRaised ==
  /\ at = "final"
  /\ IF exc = None THEN PutIfAny("final") ELSE UNCHANGED terminal
  /\ GoTo("attrs")
  /\ UNCHANGED <<options, process, exc, history>>

Final ==
  /\ at = "final"
  /\ PutIfAny("final")
  /\ GoTo("attrs")
  /\ UNCHANGED <<options, process, exc, history>>

-------------------------------------------------------------------------------
(* close(), and what follows it.                                           *)

(* Mistake: the mode is forgotten before it is set. *)
CloseAttrsForgets ==
  /\ at = "attrs"
  /\ cbreak' = cbreak
  /\ attrs' = FALSE
  /\ GoTo("leave")
  /\ UNCHANGED <<options, ours, connected, exc, alt, hidden, cleared, history>>

CloseAttrs ==
  /\ at = "attrs"
  /\ cbreak' = (cbreak /\ ~attrs)
  /\ attrs' = FALSE
  /\ GoTo("leave")
  /\ UNCHANGED <<options, ours, connected, exc, alt, hidden, cleared, history>>

CloseLeave ==
  /\ at = "leave"
  /\ IF Writes("leave") /\ busy
       THEN Raise("Error") /\ UNCHANGED terminal
       ELSE PutIfAny("leave") /\ GoTo("unint") /\ UNCHANGED exc
  /\ UNCHANGED <<options, process, history>>

CloseFirst ==
  /\ at = "unint"
  /\ ours' = ours \ {"INT"}
  /\ GoTo("unterm")
  /\ UNCHANGED <<options, attrs, connected, exc, terminal, history>>

(* _signal() raises when close() is done. *)
CloseSecond ==
  /\ at = "unterm"
  /\ ours' = ours \ {"TERM"}
  /\ IF base = None THEN GoTo("release") /\ UNCHANGED exc
     ELSE Raise("KeyboardInterrupt")
  /\ UNCHANGED <<options, attrs, connected, terminal, history>>

(* Mistake: the command takes an interrupt for a normal end. *)
ReleaseSwallows ==
  /\ at = "release"
  /\ exc' = IF exc = "KeyboardInterrupt" THEN None ELSE exc
  /\ GoTo("ended")
  /\ UNCHANGED <<options, process, terminal, history>>

(* engine.close(), and main() returns or lets the exception go. *)
Release ==
  /\ at = "release"
  /\ GoTo("ended")
  /\ UNCHANGED <<options, process, exc, terminal, history>>

Process ==
  \/ Start \/ EnterAlt \/ EnterCbreak \/ EnterHandlers
  \/ Setup \/ Draw \/ Read \/ ReadEnd \/ Final
  \/ CloseAttrs \/ CloseLeave \/ CloseFirst \/ CloseSecond \/ Release

Next == Process \/ \E sig \in Signals : Signal(sig) \/ SignalInWrite(sig)

Spec == Init /\ [][Next]_vars

(* Every call returns: those that block have a timeout or write to a       *)
(* terminal that takes the bytes.                                          *)
FairSpec == Spec /\ WF_vars(Process)

-------------------------------------------------------------------------------
(* Properties.                                                             *)

(* Type invariant of the process, the terminal and the history; the mode   *)
(* is remembered exactly as long as it is changed.                         *)
TypeOK ==
  /\ alternate \in BOOLEAN /\ tty \in BOOLEAN
  /\ at \in Places
  /\ base \in {None, "start", "final", "exit", "release"} \union Entering \union Inside
  /\ attrs \in BOOLEAN /\ connected \in BOOLEAN /\ busy \in BOOLEAN
  /\ ours \subseteq Signals
  /\ exc \in {None, "Error", "KeyboardInterrupt", "killed"}
  /\ alt \in BOOLEAN /\ hidden \in BOOLEAN
  /\ cbreak \in BOOLEAN /\ cleared \in BOOLEAN
  /\ cbreak = attrs
  /\ signals \in 0..MaxSignals
  /\ odd \subseteq {"early", "eof", "late", "behind"}

(* The terminal gets its own screen and its input mode back, unless a      *)
(* signal came before __enter__() had its handler: then __exit__() does    *)
(* not run.                                                                *)
ModeRestored == at = "ended" /\ "early" \notin odd => ~alt /\ ~cbreak

(* The cursor is back too, unless a signal came as early as that.  Without *)
(* the alternate screen only the last write of run_interactive() shows it  *)
(* again; there is none after the end of the input, and a signal between   *)
(* the loop and this write prevents it.                                    *)
CursorShown ==
  at = "ended" /\ hidden =>
    "early" \in odd \/ (~alternate /\ odd \intersect {"eof", "late"} # {})

(* With the alternate screen, what stood on the primary one is lost only   *)
(* when the handler of a signal has closed the session below               *)
(* run_interactive(), whose last write then clears the primary screen.     *)
PrimaryKept == alternate /\ cleared => "behind" \in odd

(* The terminal is restored but in the cases named above: a signal before  *)
(* the handlers are installed (screen, input mode and cursor stay as they  *)
(* were set), the end of the input or a signal just before the last write  *)
(* without the alternate screen (the cursor stays hidden), and the primary *)
(* screen that is cleared behind a signal.  The first three are less than  *)
(* docs/terminal-compatibility.md:9-10 promises.  In all other runs, with  *)
(* any number of signals inside each other, in the middle of a write or of *)
(* close() itself, the promise is kept.                                    *)
Restored == ModeRestored /\ CursorShown /\ PrimaryKept

(* A signal ends the program, and the program tells: the exception of the  *)
(* handler is not swallowed anywhere on its way.                           *)
SignalEnds == signals > 0 ~> at = "ended" /\ exc # None

(* docs/terminal-compatibility.md:9-10: "restores cursor and input mode on *)
(* normal exit".                                                           *)
CursorRestored == at = "ended" /\ exc = None => ~hidden

===============================================================================
