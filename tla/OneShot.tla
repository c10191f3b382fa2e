-------------------------------- MODULE OneShot -------------------------------
(***************************************************************************)
(* The command `radar --once [--record FILE]` (cli.py): poll a source once *)
(* (Sources.tla), record the snapshot (Recorder.tla), print it.  It may be *)
(* killed at any moment and run again on the same file, and in between     *)
(* other programs use the recorder themselves, in append mode too.         *)
(***************************************************************************)
EXTENDS Integers, Sequences

CONSTANTS Record, Long, Bad, None, MaxWrites, MaxRedirects

ASSUME OneShotAssumption ==
  /\ Long \subseteq Record /\ Bad \notin Record
  /\ MaxWrites \in Nat /\ MaxRedirects \in Nat
  /\ None \notin Record /\ None # "ok"

VARIABLES
  (* The source. *)
  kind, step, hop, client, big, got,
  (* The recording. *)
  exists, lines, tail, handle, buf, start, sent, odd,
  (* The command. *)
  phase,   (* What runs: nothing, a poll, the recording or the printing.   *)
  asked,   (* --record was given.                                          *)
  exit     (* The exit code, named; None while it runs.                    *)

S == INSTANCE Sources
R == INSTANCE Recorder

sourceVars == <<kind, step, hop, client, big, got>>
recordVars == <<exists, lines, tail, handle, buf, start, sent, odd>>
vars == <<sourceVars, recordVars, phase, asked, exit>>

Init ==
  /\ S!Init
  /\ R!Init
  /\ phase = "idle"
  /\ asked = FALSE
  /\ exit = None

(* main(): the exit code of a failed poll. *)
ExitOf(failure) ==
  CASE failure = "unavailable" -> "unavailable"
    [] failure = "invalid"     -> "invalid"
    [] failure = "unsupported" -> "unsupported"
    [] OTHER                   -> "traceback"

Exits(code) == phase' = "ended" /\ exit' = code /\ UNCHANGED asked

Goes(p) == phase' = p /\ UNCHANGED <<asked, exit>>

(* The command starts, unless the bound on writes is reached; the source   *)
(* may be refused at once.                                                 *)
Invoke ==
  /\ phase = "idle" /\ handle = "none" /\ Len(sent) < MaxWrites
  /\ asked' \in BOOLEAN
  /\ \/ S!PollBegins /\ phase' = "poll" /\ UNCHANGED exit
     \/ phase' = "ended" /\ exit' = "unsupported" /\ UNCHANGED sourceVars
  /\ UNCHANGED recordVars

Polls ==
  /\ phase = "poll"
  /\ S!Polling
  /\ UNCHANGED <<recordVars, phase, asked, exit>>

PollEnds ==
  /\ phase = "poll"
  /\ S!Close
  /\ IF got \in Record THEN Goes(IF asked THEN "record" ELSE "print")
     ELSE Exits(ExitOf(got))
  /\ UNCHANGED recordVars

(* _record_one(): the file is taken only if it is new or empty... *)
Records ==
  /\ \/ phase = "record" /\ R!OpenNew /\ Goes("opened")
     \/ phase = "opened" /\ R!Write(got) /\ Goes("written")
     \/ phase = "written" /\ (R!Flushing \/ R!Close) /\ Goes("written")
  /\ UNCHANGED sourceVars

(* ... otherwise, or when it cannot be opened, the command fails. *)
RecordRefused ==
  /\ phase = "record"
  /\ Exits("unavailable")
  /\ UNCHANGED <<sourceVars, recordVars>>

(* Mistake: what write() raised is not passed on. *)
RecordEndsQuietly ==
  /\ phase = "written" /\ handle = "none"
  /\ Goes("print")
  /\ UNCHANGED <<sourceVars, recordVars>>

RecordEnds ==
  /\ phase = "written" /\ handle = "none"
  /\ IF sent[Len(sent)].returned THEN Goes("print") ELSE Exits("unavailable")
  /\ UNCHANGED <<sourceVars, recordVars>>

(* The frame is printed, unless standard output is gone. *)
Prints ==
  /\ phase = "print"
  /\ \E code \in {"ok", "traceback"} : Exits(code)
  /\ UNCHANGED <<sourceVars, recordVars>>

Killed ==
  /\ phase \notin {"idle", "ended"}
  /\ Exits("killed")
  /\ IF handle = "none" THEN UNCHANGED recordVars ELSE R!Lose
  /\ step' = "idle" /\ client' = FALSE
  /\ UNCHANGED <<kind, hop, big, got>>

(* The process is gone, and with it all but the file. *)
Gone ==
  /\ phase = "ended"
  /\ phase' = "idle" /\ asked' = FALSE /\ exit' = None
  /\ kind' = None /\ step' = "idle" /\ hop' = 0 /\ client' = FALSE
  /\ big' = FALSE /\ got' = None
  /\ UNCHANGED recordVars

(* Another program uses the recorder. *)
Others ==
  /\ phase = "idle"
  /\ R!Next
  /\ UNCHANGED <<sourceVars, phase, asked, exit>>

Command ==
  Polls \/ PollEnds \/ Records \/ RecordRefused \/ RecordEnds \/ Prints

Next == Invoke \/ Command \/ Killed \/ Gone \/ Others

Spec == Init /\ [][Next]_vars

(* A command goes on, but for an answer that has begun: the timeouts are   *)
(* those of single reads, so the server may keep it coming for ever.       *)
FairSpec == Spec /\ WF_vars(step # "answer" /\ Command)

-------------------------------------------------------------------------------
(* Properties.                                                             *)

(* Type invariant of the command, its source and its recording. *)
TypeOK ==
  /\ R!TypeOK
  /\ kind \in {None, "url", "file"} /\ step \in S!Steps
  /\ hop \in 0..MaxRedirects /\ client \in BOOLEAN /\ big \in BOOLEAN
  /\ got \in {None} \union S!Failures \union Record
  /\ phase \in {"idle", "poll", "record", "opened", "written", "print",
              "ended"}
  /\ asked \in BOOLEAN
  /\ exit \in {None, "ok", "unavailable", "invalid", "unsupported",
               "traceback", "killed"}

ReadableUnlessOdd == R!ReadableUnlessOdd
AcknowledgedKept == R!AcknowledgedKept
ImplementsLog == R!ImplementsLog

(* What is printed was recorded first: with --record, a command that gets  *)
(* as far as its output has left a closed file with exactly its snapshot,  *)
(* so exit code 0 means that the recording is there.                       *)
RecordedFirst ==
  phase = "print" \/ exit = "ok" =>
    /\ got \in Record
    /\ asked => /\ lines = <<got>> /\ tail.is = "empty"
                /\ handle = "none"

(* No HTTP client outlives the poll, however the poll ends. *)
NoClientLeft == client => phase = "poll"

(* A command ends, however often it is redirected, unless its server never *)
(* ends one of its answers: neither its size nor its time is limited.      *)
CommandEnds == phase # "idle" ~> phase = "ended" \/ [](step = "answer")

===============================================================================
