-------------------------------- MODULE Recorder ------------------------------
(***************************************************************************)
(* A recording and its ReplayRecorder (replay/__init__.py): a file of      *)
(* lines that is appended to, by writes that may stop anywhere in a line   *)
(* (a full disk, a killed process), and read back as a whole or not at all.*)
(*                                                                         *)
(* The text of a line is three stages long: 0 nothing, 1 part of its JSON, *)
(* 2 all of it, 3 the newline too.  `tail` is the last line, the one that  *)
(* has no newline.  Blank lines, which both readers skip, are left out.    *)
(***************************************************************************)
EXTENDS Integers, Sequences

CONSTANTS
  (* OneShotAssumption of OneShot.tla is what is assumed of them.          *)
  Record,     (* Snapshots that can be recorded.                           *)
  Long,       (* Those whose line is longer than MAX_LINE_BYTES.           *)
  Bad,        (* A line that is not a record.                              *)
  MaxWrites   (* Bound on the calls of write().                            *)

VARIABLES
  exists,   (* The file exists.                                            *)
  lines,    (* Its complete lines.                                         *)
  tail,     (* What comes behind them.                                     *)
  handle,   (* "none", "idle", "writing" or "closing".                     *)
  buf,      (* Lines in the handle's buffer, each from its stage on.       *)
  start,    (* History: what could be read at first.                       *)
  sent,     (* History: the calls of write(), and whether they returned.   *)
  odd       (* History: what may have spoilt the file.                     *)

file    == <<exists, lines, tail>>
history == <<start, sent, odd>>
vars    == <<file, handle, buf, history>>

Empty == [is |-> "empty", rec |-> Bad]
Spoilt == [is |-> "bad", rec |-> Bad]
Part(r, stage) == [is |-> IF stage = 2 THEN "whole" ELSE "part", rec |-> r]

-------------------------------------------------------------------------------
(* Reading.                                                                *)

(* parse_replay_line() takes every line: what append mode asks for. *)
Valid ==
  /\ \A i \in DOMAIN lines : lines[i] # Bad
  /\ tail.is \in {"empty", "whole"}

(* ReplaySource also asks that no line is too long. *)
Fits(line) == line \in Record \ Long

Loadable ==
  /\ \A i \in DOMAIN lines : Fits(lines[i])
  /\ tail.is = "empty" \/ (tail.is = "whole" /\ Fits(tail.rec))

(* The records ReplaySource then has. *)
Content == lines \o (IF tail.is = "whole" THEN <<tail.rec>> ELSE <<>>)

-------------------------------------------------------------------------------
(* Writing.                                                                *)

(* The text put behind the tail does not continue it. *)
Joined(t) == tail.is = "bad" \/ (t.from = 0 /\ tail.is # "empty")

PutPart(t, stage) ==
  /\ tail' = IF stage = t.from THEN tail
             ELSE IF Joined(t) THEN Spoilt
             ELSE Part(t.rec, stage)
  /\ UNCHANGED <<exists, lines>>

(* Mistake: the newline is left out. *)
PutUnended(t) ==
  /\ tail' = IF Joined(t) THEN Spoilt ELSE Part(t.rec, 2)
  /\ UNCHANGED <<exists, lines>>

PutAll(t) ==
  /\ lines' = Append(lines, IF Joined(t) THEN Bad ELSE t.rec)
  /\ tail' = Empty
  /\ UNCHANGED exists

(* A file nobody recorded to, or one that was there before. *)
Init ==
  /\ \/ exists = FALSE /\ lines = <<>> /\ tail = Empty
     \/ /\ exists = TRUE
        /\ lines \in {<<>>, <<Bad>>} \union {<<r>> : r \in Record}
        /\ tail \in {Empty, Spoilt} \union {Part(r, 2) : r \in Record}
  /\ handle = "none"
  /\ buf = <<>>
  /\ start = IF Loadable THEN Content ELSE <<>>
  /\ sent = <<>>
  /\ odd = IF Loadable THEN {} ELSE {"foreign"}

(* Mistake: the file is opened for writing, not for appending. *)
OpenNewTruncates ==
  /\ handle = "none"
  /\ exists' = TRUE
  /\ lines' = <<>>
  /\ tail' = Empty
  /\ handle' = "idle"
  /\ UNCHANGED <<buf, history>>

(* ReplayRecorder(path): the file is missing or empty. *)
OpenNew ==
  /\ handle = "none"
  /\ lines = <<>> /\ tail.is = "empty"
  /\ exists' = TRUE
  /\ handle' = "idle"
  /\ UNCHANGED <<lines, tail, buf, history>>

(* ReplayRecorder(path, append=True): every line is one of a recording.    *)
(* The last one may be without its newline.                                *)
OpenAppend ==
  /\ handle = "none"
  /\ exists /\ Valid
  /\ handle' = "idle"
  /\ odd' = IF tail.is = "whole" THEN odd \union {"unended"} ELSE odd
  /\ UNCHANGED <<file, buf, start, sent>>

Write(r) ==
  /\ handle = "idle"
  /\ Len(sent) < MaxWrites
  /\ handle' = "writing"
  /\ buf' = Append(buf, [rec |-> r, from |-> 0])
  /\ sent' = Append(sent, [rec |-> r, returned |-> FALSE])
  /\ UNCHANGED <<file, start, odd>>

(* flush(), and the flush of close(): the oldest line reaches the file. *)
Drain ==
  /\ handle \in {"writing", "closing"}
  /\ buf # <<>>
  /\ PutAll(Head(buf))
  /\ buf' = Tail(buf)
  /\ UNCHANGED <<handle, history>>

WriteReturns ==
  /\ handle = "writing"
  /\ buf = <<>>
  /\ handle' = "idle"
  /\ sent' = [sent EXCEPT ![Len(sent)].returned = TRUE]
  /\ UNCHANGED <<file, buf, start, odd>>

(* What is left in the buffer when flush() fails: the lines not yet        *)
(* written, or nothing.                                                    *)
Left(stage) == {<<[Head(buf) EXCEPT !.from = stage]>> \o Tail(buf), <<>>}

(* Mistake: write() swallows the error, as close() does. *)
WriteFailsQuietly ==
  /\ handle = "writing" /\ buf # <<>>
  /\ PutPart(Head(buf), Head(buf).from)
  /\ buf' = <<>>
  /\ handle' = "idle"
  /\ sent' = [sent EXCEPT ![Len(sent)].returned = TRUE]
  /\ UNCHANGED <<start, odd>>

(* The disk is full or the write is interrupted, at any stage of a line. *)
WriteFails ==
  /\ handle = "writing" /\ buf # <<>>
  /\ \E stage \in Head(buf).from..2 :
       PutPart(Head(buf), stage) /\ buf' \in Left(stage)
  /\ handle' = "idle"
  /\ odd' = odd \union {"failed"}
  /\ UNCHANGED <<start, sent>>

Close ==
  /\ handle = "idle"
  /\ handle' = "closing"
  /\ UNCHANGED <<file, buf, history>>

Closed ==
  /\ handle = "closing" /\ buf = <<>>
  /\ handle' = "none"
  /\ UNCHANGED <<file, buf, history>>

(* The process dies, or the flush of close() fails (which close() does not *)
(* tell): what is still in the buffer is lost.                             *)
Lose ==
  /\ handle # "none"
  /\ IF buf = <<>> \/ handle = "idle"
       THEN UNCHANGED file
       ELSE \E stage \in Head(buf).from..2 : PutPart(Head(buf), stage)
  /\ buf' = <<>>
  /\ handle' = "none"
  /\ odd' = IF buf = <<>> THEN odd ELSE odd \union {"failed"}
  /\ UNCHANGED <<start, sent>>

CloseFails == handle = "closing" /\ buf # <<>> /\ Lose

Flushing == Drain \/ WriteReturns \/ WriteFails \/ Closed \/ CloseFails

Next ==
  \/ OpenNew \/ OpenAppend
  \/ \E r \in Record : Write(r)
  \/ Close
  \/ Flushing
  \/ Lose

Spec == Init /\ [][Next]_vars

-------------------------------------------------------------------------------
(* Properties.                                                             *)

(* Type invariant of the file, the handle and the history. *)
TypeOK ==
  /\ exists \in BOOLEAN
  /\ lines \in Seq(Record \union {Bad})
  /\ tail \in {Empty, Spoilt} \union [is : {"part", "whole"}, rec : Record]
  /\ handle \in {"none", "idle", "writing", "closing"}
  /\ buf \in Seq([rec : Record, from : 0..2])
  /\ start \in Seq(Record)
  /\ sent \in Seq([rec : Record, returned : BOOLEAN])
  /\ odd \subseteq {"foreign", "unended", "failed"}

(* A recording can be read back unless it holds a line that is too long,   *)
(* was no recording to begin with, was appended to behind a line without   *)
(* its newline, or a write to it failed or was cut off.                    *)
ReadableUnlessOdd ==
  odd = {} =>
    /\ Valid
    /\ Loadable \/ \E i \in DOMAIN Content : Content[i] \in Long

(* The records of some calls of write(), by their numbers. *)
Called(order) == [k \in DOMAIN order |-> sent[order[k]].rec]

(* Whatever failed: a recording that loads holds, behind what it held at   *)
(* first, every record whose write returned, once and in order, and        *)
(* nothing that was not written.                                           *)
AcknowledgedKept ==
  Loadable =>
    \E n \in 0..Len(sent) : \E order \in [1..n -> 1..Len(sent)] :
      /\ \A j, k \in 1..n : j < k => order[j] < order[k]
      /\ \A i \in 1..Len(sent) :
           sent[i].returned => \E k \in 1..n : order[k] = i
      /\ Content = start \o Called(order)

(* The recording is a log: seen through its complete lines it is only ever *)
(* added to, until a line that cannot be read ends it.                     *)
ReadableLines ==
  CHOOSE n \in 0..Len(lines) :
    /\ \A i \in 1..n : Fits(lines[i])
    /\ n < Len(lines) => ~Fits(lines[n + 1])

Log == INSTANCE RecordLog WITH
         log <- SubSeq(lines, 1, ReadableLines),
         sealed <- ReadableLines < Len(lines)

ImplementsLog == Log!Spec

===============================================================================
