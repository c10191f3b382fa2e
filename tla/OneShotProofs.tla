---------------------------- MODULE OneShotProofs -----------------------------
(***************************************************************************)
(* Proofs about OneShot.tla: what a command has printed was recorded       *)
(* first, no HTTP client is left open, a recording stays readable, it is a *)
(* log, and what was acknowledged is kept in it.                           *)
(***************************************************************************)
EXTENDS OneShot, SequenceTheorems, WellFoundedInduction, TLAPS

(* Where the command is, and what that says of the file's handle. *)
Where ==
  /\ phase \in {"idle", "poll", "record", "opened", "written", "print", "ended"}
  /\ phase \in {"poll", "record", "print", "ended"} => handle = "none"
  /\ phase \in {"record", "opened", "written"} => got \in Record /\ asked
  /\ phase = "print" => got \in Record
  /\ phase # "ended" => exit = None
  /\ exit = "ok" => got \in Record

LEMMA InitWhere == Init => Where
  BY OneShotAssumption DEF Init, Where

LEMMA NextWhere == Where /\ [Next]_vars => Where'
<1> SUFFICES ASSUME Where, [Next]_vars PROVE Where'
  OBVIOUS
<1> USE OneShotAssumption DEF Where, recordVars, sourceVars
<1>1. CASE Invoke
  BY <1>1 DEF Invoke
<1>2. CASE Polls
  BY <1>2 DEF Polls
<1>3. CASE PollEnds
  <2>1. ExitOf(got) # "ok"
    BY DEF ExitOf
  <2>2. got' = got
    BY <1>3 DEF PollEnds, S!Close
  <2>3. QED
    BY <1>3, <2>1, <2>2 DEF PollEnds, Goes, Exits
<1>4. CASE Records
  BY <1>4 DEF Records, Goes
<1>5. CASE RecordRefused
  BY <1>5 DEF RecordRefused, Exits
<1>6. CASE RecordEnds
  BY <1>6 DEF RecordEnds, Exits, Goes
<1>7. CASE Prints
  BY <1>7 DEF Prints, Exits
<1>8. CASE Killed
  BY <1>8 DEF Killed, Exits, R!Lose
<1>9. CASE Gone
  BY <1>9 DEF Gone
<1>10. CASE Others
  BY <1>10 DEF Others
<1>11. CASE UNCHANGED vars
  BY <1>11 DEF vars
<1>12. QED
  BY <1>1, <1>2, <1>3, <1>4, <1>5, <1>6, <1>7, <1>8, <1>9, <1>10, <1>11
     DEF Next, Command

-------------------------------------------------------------------------------
(* Seen from the recording, every step is one of the recorder's.           *)

LEMMA NextRecorder == Where /\ [Next]_vars => [R!Next]_(R!vars)
<1> SUFFICES ASSUME Where, [Next]_vars PROVE [R!Next]_(R!vars)
  OBVIOUS
<1> USE DEF recordVars, R!vars, R!file, R!history, R!Next
<1>1. CASE Invoke
  BY <1>1 DEF Invoke
<1>2. CASE Polls
  BY <1>2 DEF Polls
<1>3. CASE PollEnds
  BY <1>3 DEF PollEnds
<1>4. CASE Records
  BY <1>4 DEF Records, Where
<1>5. CASE RecordRefused
  BY <1>5 DEF RecordRefused
<1>6. CASE RecordEnds
  BY <1>6 DEF RecordEnds
<1>7. CASE Prints
  BY <1>7 DEF Prints
<1>8. CASE Killed
  BY <1>8 DEF Killed
<1>9. CASE Gone
  BY <1>9 DEF Gone
<1>10. CASE Others
  BY <1>10 DEF Others
<1>11. CASE UNCHANGED vars
  BY <1>11 DEF vars
<1>12. QED
  BY <1>1, <1>2, <1>3, <1>4, <1>5, <1>6, <1>7, <1>8, <1>9, <1>10, <1>11
     DEF Next, Command

-------------------------------------------------------------------------------
(* The client.                                                             *)

LEMMA NextClient == NoClientLeft /\ [Next]_vars => NoClientLeft'
<1> SUFFICES ASSUME NoClientLeft, [Next]_vars PROVE NoClientLeft'
  OBVIOUS
<1> USE DEF NoClientLeft, sourceVars
<1>1. CASE Invoke
  BY <1>1 DEF Invoke
<1>2. CASE Polls
  BY <1>2 DEF Polls
<1>3. CASE PollEnds
  BY <1>3 DEF PollEnds, S!Close
<1>4. CASE Records
  BY <1>4 DEF Records
<1>5. CASE RecordRefused
  BY <1>5 DEF RecordRefused
<1>6. CASE RecordEnds
  BY <1>6 DEF RecordEnds
<1>7. CASE Prints
  BY <1>7 DEF Prints
<1>8. CASE Killed
  BY <1>8 DEF Killed
<1>9. CASE Gone
  BY <1>9 DEF Gone
<1>10. CASE Others
  BY <1>10 DEF Others
<1>11. CASE UNCHANGED vars
  BY <1>11 DEF vars
<1>12. QED
  BY <1>1, <1>2, <1>3, <1>4, <1>5, <1>6, <1>7, <1>8, <1>9, <1>10, <1>11
     DEF Next, Command

(* No HTTP client outlives the poll, whatever the server answers and       *)
(* whenever the command is killed.                                         *)
THEOREM ClientIsClosed == Spec => []NoClientLeft
<1>1. Init => NoClientLeft
  BY DEF Init, S!Init, NoClientLeft
<1>2. QED
  BY <1>1, NextClient, PTL DEF Spec

-------------------------------------------------------------------------------
(* Types.                                                                  *)

Chunk == [rec : Record, from : 0..2]
Call  == [rec : Record, returned : BOOLEAN]
Tails == {R!Empty, R!Spoilt} \union [is : {"part", "whole"}, rec : Record]

(* R!TypeOK with its sets named. *)
Typed ==
  /\ exists \in BOOLEAN
  /\ lines \in Seq(Record \union {Bad})
  /\ tail \in Tails
  /\ handle \in {"none", "idle", "writing", "closing"}
  /\ buf \in Seq(Chunk)
  /\ start \in Seq(Record)
  /\ sent \in Seq(Call)
  /\ odd \subseteq {"foreign", "unended", "failed"}

LEMMA TypedIsTypeOK == Typed <=> R!TypeOK
  BY DEF Typed, R!TypeOK, Chunk, Call, Tails

LEMMA PutPartType ==
  ASSUME NEW t \in Chunk, NEW stage \in t.from..2, tail \in Tails,
         R!PutPart(t, stage)
  PROVE  exists' = exists /\ lines' = lines /\ tail' \in Tails
BY DEF Chunk, Tails, R!PutPart, R!Part

LEMMA FirstChunk ==
  ASSUME buf \in Seq(Chunk), buf # <<>>
  PROVE  Head(buf) \in Chunk /\ Tail(buf) \in Seq(Chunk)
BY HeadTailProperties

LEMMA NextTyped == Typed /\ [R!Next]_(R!vars) => Typed'
<1> SUFFICES ASSUME Typed, [R!Next]_(R!vars) PROVE Typed'
  OBVIOUS
<1> USE OneShotAssumption DEF Typed, R!file, R!history
<1>1. CASE R!OpenNew
  BY <1>1 DEF R!OpenNew
<1>2. CASE R!OpenAppend
  BY <1>2 DEF R!OpenAppend
<1>3. CASE \E r \in Record : R!Write(r)
  <2>1. PICK r \in Record : R!Write(r)
    BY <1>3
  <2>2. /\ [rec |-> r, from |-> 0] \in Chunk
        /\ [rec |-> r, returned |-> FALSE] \in Call
    BY DEF Chunk, Call
  <2>3. QED
    BY <2>1, <2>2 DEF R!Write
<1>4. CASE R!Drain
  <2>1. Head(buf).rec \in Record
    BY <1>4, FirstChunk DEF R!Drain, Chunk
  <2>2. lines' \in Seq(Record \union {Bad}) /\ tail' = R!Empty /\ exists' = exists
    BY <1>4, <2>1 DEF R!Drain, R!PutAll
  <2>3. buf' \in Seq(Chunk)
    BY <1>4, FirstChunk DEF R!Drain
  <2>4. QED
    BY <1>4, <2>2, <2>3 DEF R!Drain, Tails
<1>5. CASE R!WriteReturns
  <2>1. sent' = [sent EXCEPT ![Len(sent)] = [@ EXCEPT !.returned = TRUE]]
    BY <1>5 DEF R!WriteReturns
  <2>2. CASE Len(sent) \in 1..Len(sent)
    <3>1. sent[Len(sent)] \in Call
      BY <2>2, ElementOfSeq
    <3>2. [sent[Len(sent)] EXCEPT !.returned = TRUE] \in Call
      BY <3>1 DEF Call
    <3>3. sent' \in Seq(Call)
      BY <2>1, <2>2, <3>2, ExceptSeq
    <3>4. QED
      BY <1>5, <3>3 DEF R!WriteReturns
  <2>3. CASE Len(sent) \notin 1..Len(sent)
    <3>1. DOMAIN sent = 1..Len(sent) /\ sent \in [1..Len(sent) -> Call]
      BY LenProperties
    <3>2. sent' = sent
      BY <2>1, <2>3, <3>1
    <3>3. QED
      BY <1>5, <3>2 DEF R!WriteReturns
  <2>4. QED
    BY <2>2, <2>3
<1>6. CASE R!WriteFails
  <2>1. PICK stage \in Head(buf).from..2 :
          R!PutPart(Head(buf), stage) /\ buf' \in R!Left(stage)
    BY <1>6 DEF R!WriteFails
  <2>2. Head(buf) \in Chunk /\ Tail(buf) \in Seq(Chunk)
    BY <1>6, FirstChunk DEF R!WriteFails
  <2>3. [Head(buf) EXCEPT !.from = stage] \in Chunk
    BY <2>2 DEF Chunk
  <2>4. <<[Head(buf) EXCEPT !.from = stage]>> \in Seq(Chunk)
    BY <2>3
  <2>5. buf' \in Seq(Chunk)
    <3>1. <<[Head(buf) EXCEPT !.from = stage]>> \o Tail(buf) \in Seq(Chunk)
      BY <2>2, <2>4, ConcatProperties
    <3>2. QED
      BY <2>1, <3>1, EmptySeq DEF R!Left
  <2>6. QED
    BY <1>6, <2>1, <2>2, <2>5, PutPartType DEF R!WriteFails
<1>7. CASE R!Close
  BY <1>7 DEF R!Close
<1>8. CASE R!Closed
  BY <1>8 DEF R!Closed
<1>9. CASE R!Lose
  <2>1. /\ buf' = <<>> /\ handle' = "none" /\ start' = start /\ sent' = sent
        /\ odd' \subseteq {"foreign", "unended", "failed"}
    BY <1>9 DEF R!Lose
  <2>2. exists' = exists /\ lines' = lines /\ tail' \in Tails
    <3>1. CASE buf = <<>> \/ handle = "idle"
      BY <1>9, <3>1 DEF R!Lose
    <3>2. CASE ~(buf = <<>> \/ handle = "idle")
      <4>1. PICK stage \in Head(buf).from..2 : R!PutPart(Head(buf), stage)
        BY <1>9, <3>2 DEF R!Lose
      <4>2. QED
        BY <3>2, <4>1, FirstChunk, PutPartType
    <3>3. QED
      BY <3>1, <3>2
  <2>3. QED
    BY <2>1, <2>2, EmptySeq
<1>10. CASE UNCHANGED R!vars
  BY <1>10 DEF R!vars
<1>11. QED
  BY <1>1, <1>2, <1>3, <1>4, <1>5, <1>6, <1>7, <1>8, <1>9, <1>10
     DEF R!Next, R!Flushing, R!CloseFails

LEMMA InitTyped == R!Init => Typed
<1> SUFFICES ASSUME R!Init PROVE Typed
  OBVIOUS
<1> USE OneShotAssumption
<1>1. lines \in Seq(Record \union {Bad})
  <2>1. <<>> \in Seq(Record \union {Bad}) /\ <<Bad>> \in Seq(Record \union {Bad})
    OBVIOUS
  <2>2. \A r \in Record : <<r>> \in Seq(Record \union {Bad})
    OBVIOUS
  <2>3. QED
    BY <2>1, <2>2 DEF R!Init
<1>2. tail \in Tails
  <2>1. \A r \in Record : R!Part(r, 2) \in Tails
    BY DEF R!Part, Tails
  <2>2. QED
    BY <2>1 DEF R!Init, Tails
<1>3. start \in Seq(Record)
  <2>1. CASE ~R!Loadable
    BY <2>1, EmptySeq DEF R!Init
  <2>2. CASE R!Loadable
    <3>1. lines \in Seq(Record)
      <4>1. \A i \in 1..Len(lines) : lines[i] \in Record
        BY <2>2, <1>1 DEF R!Loadable, R!Fits
      <4>2. QED
        BY <1>1, <4>1
    <3>2. tail.is = "whole" => tail.rec \in Record
      BY <2>2 DEF R!Loadable, R!Fits, R!Empty
    <3>3. R!Content \in Seq(Record)
      BY <3>1, <3>2, ConcatProperties, EmptySeq DEF R!Content
    <3>4. QED
      BY <2>2, <3>3 DEF R!Init
  <2>3. QED
    BY <2>1, <2>2
<1>4. QED
  BY <1>1, <1>2, <1>3, EmptySeq DEF Typed, R!Init

-------------------------------------------------------------------------------
(* The story of a recording that the command writes: nothing is in the     *)
(* file when it is opened, then the line is in the buffer or in the file,  *)
(* and once write() has returned it is in the file, whole.                 *)

Holds(r) == lines = <<r>> /\ tail.is = "empty" /\ buf = <<>>

InBuffer(r) ==
  lines = <<>> /\ tail.is = "empty" /\ buf = <<[rec |-> r, from |-> 0]>>

Written ==
  /\ Len(sent) > 0
  /\ sent[Len(sent)].returned => Holds(got) /\ handle # "writing"
  /\ handle = "writing" => Holds(got) \/ InBuffer(got)

Story ==
  /\ handle = "none" => buf = <<>>
  /\ phase = "opened" =>
       handle = "idle" /\ lines = <<>> /\ tail.is = "empty" /\ buf = <<>>
  /\ phase = "written" => Written
  /\ phase = "print" \/ exit = "ok" => (asked => Holds(got) /\ handle = "none")

LEMMA InitStory == Init => Story
  BY OneShotAssumption DEF Init, R!Init, Story

LEMMA NextWritten ==
  ASSUME Typed, Where, Story, Written, phase = "written",
         R!Flushing \/ R!Close, got' = got
  PROVE  Written' /\ (handle' = "none" => buf' = <<>>)
<1> USE DEF Written
<1>1. CASE R!Drain
  <2>1. CASE handle = "writing"
    <3>1. InBuffer(got) /\ ~sent[Len(sent)].returned
      BY <1>1, <2>1 DEF R!Drain, Holds
    <3>2. Head(buf) = [rec |-> got, from |-> 0] /\ Tail(buf) = <<>>
      BY <3>1 DEF InBuffer
    <3>3. lines' = <<got>> /\ tail' = R!Empty /\ buf' = <<>>
      BY <1>1, <3>1, <3>2 DEF R!Drain, R!PutAll, R!Joined, InBuffer
    <3>4. QED
      BY <1>1, <2>1, <3>1, <3>3 DEF R!Drain, Holds, R!Empty, R!history
  <2>2. CASE handle = "closing"
    <3>1. ~sent[Len(sent)].returned
      BY <1>1, <2>2 DEF R!Drain, Holds
    <3>2. QED
      BY <1>1, <2>2, <3>1 DEF R!Drain, R!history
  <2>3. QED
    BY <1>1, <2>1, <2>2 DEF R!Drain
<1>2. CASE R!WriteReturns
  <2>1. Holds(got)
    BY <1>2 DEF R!WriteReturns, InBuffer
  <2>2. Len(sent') = Len(sent)
    BY <1>2, LenProperties DEF R!WriteReturns, Typed
  <2>3. QED
    BY <1>2, <2>1, <2>2 DEF R!WriteReturns, R!file, Holds
<1>3. CASE R!WriteFails
  <2>1. ~sent[Len(sent)].returned
    BY <1>3 DEF R!WriteFails
  <2>2. QED
    BY <1>3, <2>1 DEF R!WriteFails
<1>4. CASE R!Closed
  BY <1>4 DEF R!Closed, R!file, R!history, Holds
<1>5. CASE R!CloseFails
  <2>1. ~sent[Len(sent)].returned
    BY <1>5 DEF R!CloseFails, Holds
  <2>2. QED
    BY <1>5, <2>1 DEF R!CloseFails, R!Lose
<1>6. CASE R!Close
  BY <1>6 DEF R!Close, R!file, R!history, Holds
<1>7. QED
  BY <1>1, <1>2, <1>3, <1>4, <1>5, <1>6 DEF R!Flushing

LEMMA NextStory == Typed /\ Where /\ Story /\ [Next]_vars => Story'
<1> SUFFICES ASSUME Typed, Where, Story, [Next]_vars PROVE Story'
  OBVIOUS
<1> USE OneShotAssumption DEF recordVars, sourceVars
<1>1. CASE Invoke
  BY <1>1 DEF Invoke, Story, Where
<1>2. CASE Polls
  BY <1>2 DEF Polls, Story, Where
<1>3. CASE PollEnds
  <2>1. ExitOf(got) # "ok"
    BY DEF ExitOf
  <2>2. QED
    BY <1>3, <2>1 DEF PollEnds, S!Close, Goes, Exits, Story, Where, Holds
<1>4. CASE Records
  <2>0. got' = got
    BY <1>4 DEF Records
  <2>1. CASE phase = "record" /\ R!OpenNew /\ Goes("opened")
    BY <2>1 DEF Goes, R!OpenNew, R!history, Story, Where
  <2>2. CASE phase = "opened" /\ R!Write(got) /\ Goes("written")
    <3>1. /\ sent' = Append(sent, [rec |-> got, returned |-> FALSE])
          /\ buf' = <<[rec |-> got, from |-> 0]>>
      BY <2>2 DEF R!Write, Story
    <3>2. Len(sent') > 0 /\ ~sent'[Len(sent')].returned
      BY <3>1 DEF Typed
    <3>3. QED
      BY <2>0, <2>2, <3>1, <3>2
         DEF Goes, R!Write, R!file, Story, Where, Written, InBuffer, Holds
  <2>3. CASE phase = "written" /\ (R!Flushing \/ R!Close) /\ Goes("written")
    <3>1. Written' /\ (handle' = "none" => buf' = <<>>)
      BY <2>0, <2>3, NextWritten DEF Story
    <3>2. QED
      BY <2>3, <3>1 DEF Goes, Story, Where
  <2>4. QED
    BY <1>4, <2>1, <2>2, <2>3 DEF Records
<1>5. CASE RecordRefused
  BY <1>5 DEF RecordRefused, Exits, Story, Where
<1>6. CASE RecordEnds
  BY <1>6 DEF RecordEnds, Exits, Goes, Story, Where, Written, Holds
<1>7. CASE Prints
  BY <1>7 DEF Prints, Exits, Story, Where, Holds
<1>8. CASE Killed
  BY <1>8 DEF Killed, Exits, R!Lose, Story, Where
<1>9. CASE Gone
  BY <1>9 DEF Gone, Story, Where
<1>10. CASE Others
  <2>1. handle' = "none" => buf' = <<>>
    BY <1>10 DEF Others, Story, R!Next, R!OpenNew, R!OpenAppend, R!Write,
       R!Close, R!Flushing, R!Drain, R!WriteReturns, R!WriteFails, R!Closed,
       R!CloseFails, R!Lose
  <2>2. QED
    BY <1>10, <2>1 DEF Others, Story, Where
<1>11. CASE UNCHANGED vars
  BY <1>11 DEF vars, Story, Where, Written, Holds, InBuffer
<1>12. QED
  BY <1>1, <1>2, <1>3, <1>4, <1>5, <1>6, <1>7, <1>8, <1>9, <1>10, <1>11
     DEF Next, Command

(* With --record, what is printed, and so what exit code 0 stands for, is  *)
(* in the closed file and nothing else is, whatever failed or was killed   *)
(* before and however often other programs used the recorder.              *)
THEOREM PrintedIsRecorded == Spec => []RecordedFirst
<1>1. Init => Typed
  BY InitTyped DEF Init
<1>2. Where /\ Story => RecordedFirst
  BY DEF Where, Story, Holds, RecordedFirst
<1>3. QED
  BY <1>1, <1>2, InitWhere, NextWhere, NextRecorder, NextTyped, InitStory,
     NextStory, PTL DEF Spec

-------------------------------------------------------------------------------
(* The types of the command and its source.                                *)

SourceTyped ==
  /\ kind \in {None, "url", "file"}
  /\ step \in S!Steps
  /\ hop \in 0..MaxRedirects
  /\ client \in BOOLEAN
  /\ big \in BOOLEAN
  /\ got \in {None} \union S!Failures \union Record

CommandTyped ==
  /\ phase \in {"idle", "poll", "record", "opened", "written", "print", "ended"}
  /\ asked \in BOOLEAN
  /\ exit \in {None, "ok", "unavailable", "invalid", "unsupported",
               "traceback", "killed"}

(* A poll that has not begun, or one that has. *)
LEMMA FreshTyped ==
  ASSUME kind' \in {None, "url", "file"}, step' \in S!Steps,
         client' \in BOOLEAN, big' = FALSE, hop' = 0, got' = None
  PROVE  SourceTyped'
<1>1. 0 \in 0..MaxRedirects
  BY OneShotAssumption
<1>2. hop' \in 0..MaxRedirects
  BY <1>1
<1>3. got' \in {None} \union S!Failures \union Record
  OBVIOUS
<1>4. QED
  BY <1>2, <1>3 DEF SourceTyped, S!Steps, S!Failures

LEMMA PollTyped ==
  ASSUME SourceTyped, S!PollBegins \/ S!Polling \/ S!Close
  PROVE  SourceTyped'
<1> USE OneShotAssumption DEF SourceTyped, S!Steps, S!Failures
<1>1. CASE S!PollBegins
  <2>1. kind' \in {None, "url", "file"} /\ step' \in S!Steps /\ hop' = 0
    BY <1>1 DEF S!PollBegins
  <2>2. client' \in BOOLEAN
    BY <1>1 DEF S!PollBegins
  <2>3. got' = None /\ big' = FALSE
    BY <1>1 DEF S!PollBegins
  <2>4. QED
    BY <2>1, <2>2, <2>3, FreshTyped
<1>2. CASE S!Answers \/ S!BodyArrives
  <2>1. big' \in BOOLEAN /\ step' \in S!Steps
    BY <1>2 DEF S!Answers, S!BodyArrives
  <2>2. UNCHANGED <<kind, hop, client, got>>
    BY <1>2 DEF S!Answers, S!BodyArrives
  <2>3. QED
    BY <2>1, <2>2
<1>3. CASE S!Redirected
  <2>1. CASE hop < MaxRedirects
    <3>1. hop' \in 0..MaxRedirects
      BY <1>3, <2>1 DEF S!Redirected
    <3>2. step' \in S!Steps /\ UNCHANGED <<kind, client, big, got>>
      BY <1>3, <2>1 DEF S!Redirected, S!Asks
    <3>3. QED
      BY <3>1, <3>2
  <2>2. CASE ~(hop < MaxRedirects)
    BY <1>3, <2>2 DEF S!Redirected, S!End
  <2>3. QED
    BY <2>1, <2>2
<1>4. CASE S!GetFails \/ S!BodyRead \/ S!FileStat \/ S!FileRead \/ S!Parse
  BY <1>4 DEF S!GetFails, S!BodyRead, S!FileStat, S!FileRead, S!Parse,
     S!End, S!Continue
<1>5. CASE S!Close
  BY <1>5 DEF S!Close
<1>6. QED
  BY <1>1, <1>2, <1>3, <1>4, <1>5 DEF S!Polling

LEMMA NextSourceTyped == SourceTyped /\ [Next]_vars => SourceTyped'
<1> SUFFICES ASSUME SourceTyped, [Next]_vars PROVE SourceTyped'
  OBVIOUS
<1>1. CASE S!PollBegins \/ S!Polling \/ S!Close
  BY <1>1, PollTyped
<1>2. CASE UNCHANGED sourceVars
  BY <1>2 DEF SourceTyped, sourceVars
<1>3. CASE Killed
  BY <1>3 DEF Killed, SourceTyped, S!Steps
<1>4. CASE Gone
  <2>1. kind' \in {None, "url", "file"} /\ step' \in S!Steps /\ hop' = 0
    BY <1>4 DEF Gone, S!Steps
  <2>2. client' \in BOOLEAN
    BY <1>4 DEF Gone
  <2>3. got' = None /\ big' = FALSE
    BY <1>4 DEF Gone
  <2>4. QED
    BY <2>1, <2>2, <2>3, FreshTyped
<1>5. QED
  BY <1>1, <1>2, <1>3, <1>4 DEF Next, Command, Invoke, Polls, PollEnds, Records,
     RecordRefused, RecordEnds, Prints, Others, vars

LEMMA NextCommandTyped == CommandTyped /\ [Next]_vars => CommandTyped'
<1> SUFFICES ASSUME CommandTyped, [Next]_vars PROVE CommandTyped'
  OBVIOUS
<1> USE DEF CommandTyped, Exits, Goes
<1>1. CASE Invoke
  BY <1>1 DEF Invoke
<1>2. CASE PollEnds
  <2>1. ExitOf(got) \in {"unavailable", "invalid", "unsupported", "traceback"}
    BY DEF ExitOf
  <2>2. QED
    BY <1>2, <2>1 DEF PollEnds
<1>3. CASE Records
  BY <1>3 DEF Records
<1>4. CASE RecordRefused \/ RecordEnds \/ Prints
  BY <1>4 DEF RecordRefused, RecordEnds, Prints
<1>5. CASE Killed
  BY <1>5 DEF Killed
<1>6. CASE Gone
  BY <1>6 DEF Gone
<1>7. CASE Polls \/ Others \/ UNCHANGED vars
  BY <1>7 DEF Polls, Others, vars
<1>8. QED
  BY <1>1, <1>2, <1>3, <1>4, <1>5, <1>6, <1>7 DEF Next, Command

(* Type correctness of the command, its source and its recording. *)
THEOREM TypeCorrect == Spec => []TypeOK
<1>1. Init => Typed /\ SourceTyped /\ CommandTyped
  <2>1. Init => Typed
    BY InitTyped DEF Init
  <2>2. Init => CommandTyped
    BY DEF Init, CommandTyped
  <2>3. Init => kind \in {None, "url", "file"} /\ step \in S!Steps
    BY DEF Init, S!Init, S!Steps
  <2>4. Init => client \in BOOLEAN /\ big \in BOOLEAN
    BY DEF Init, S!Init
  <2>5. Init => hop \in 0..MaxRedirects
    <3>1. 0 \in 0..MaxRedirects
      BY OneShotAssumption
    <3>2. QED
      BY <3>1 DEF Init, S!Init
  <2>6. Init => got \in {None} \union S!Failures \union Record
    BY DEF Init, S!Init
  <2>7. QED
    BY <2>1, <2>2, <2>3, <2>4, <2>5, <2>6 DEF SourceTyped
<1>2. Typed /\ SourceTyped /\ CommandTyped => TypeOK
  BY TypedIsTypeOK DEF SourceTyped, CommandTyped, TypeOK
<1>3. QED
  BY <1>1, <1>2, InitWhere, NextWhere, NextRecorder, NextTyped,
     NextSourceTyped, NextCommandTyped, PTL DEF Spec

-------------------------------------------------------------------------------
(* A file to which nothing odd has happened.                               *)

Sound ==
  /\ \A i \in 1..Len(lines) : lines[i] \in Record
  /\ tail.is = "empty" \/ (tail.is = "whole" /\ handle = "none")
  /\ handle = "none" => buf = <<>>
  /\ \A i \in 1..Len(buf) : buf[i].from = 0

SoundUnlessOdd == odd = {} => Sound

LEMMA InitSound == R!Init => SoundUnlessOdd
  BY DEF R!Init, R!Loadable, R!Fits, SoundUnlessOdd, Sound, R!Empty

LEMMA NextSound ==
  Typed /\ SoundUnlessOdd /\ [R!Next]_(R!vars) => SoundUnlessOdd'
<1> SUFFICES ASSUME Typed, SoundUnlessOdd, [R!Next]_(R!vars), odd' = {}
             PROVE  Sound'
  BY DEF SoundUnlessOdd
<1> USE DEF Sound, R!file, R!history
<1>1. CASE R!OpenNew
  BY <1>1 DEF R!OpenNew, SoundUnlessOdd
<1>2. CASE R!OpenAppend
  BY <1>2 DEF R!OpenAppend, SoundUnlessOdd
<1>3. CASE \E r \in Record : R!Write(r)
  <2>1. PICK r \in Record : R!Write(r)
    BY <1>3
  <2>2. buf' = Append(buf, [rec |-> r, from |-> 0]) /\ Sound
    BY <2>1 DEF R!Write, SoundUnlessOdd
  <2>3. \A i \in 1..Len(buf') : buf'[i].from = 0
    BY <2>2 DEF Typed
  <2>4. QED
    BY <2>1, <2>2, <2>3 DEF R!Write
<1>4. CASE R!Drain
  <2>1. Sound /\ buf # <<>> /\ Len(buf) \in Nat /\ Len(buf) > 0
    BY <1>4, LenProperties, EmptySeq DEF R!Drain, SoundUnlessOdd, Typed
  <2>2. Head(buf).from = 0 /\ Head(buf).rec \in Record
    BY <2>1, FirstChunk DEF Typed, Chunk
  <2>3. ~R!Joined(Head(buf))
    BY <1>4, <2>1, <2>2 DEF R!Joined, R!Drain
  <2>4. lines' = Append(lines, Head(buf).rec) /\ tail' = R!Empty
    BY <1>4, <2>3 DEF R!Drain, R!PutAll
  <2>5. \A i \in 1..Len(lines') : lines'[i] \in Record
    BY <2>1, <2>2, <2>4 DEF Typed
  <2>6. \A i \in 1..Len(Tail(buf)) : Tail(buf)[i].from = 0
    <3>1. Len(Tail(buf)) = Len(buf) - 1
          /\ \A i \in 1..Len(Tail(buf)) : Tail(buf)[i] = buf[i + 1]
      BY <2>1, HeadTailProperties DEF Typed
    <3>2. QED
      BY <2>1, <3>1
  <2>7. QED
    BY <1>4, <2>4, <2>5, <2>6 DEF R!Drain, R!Empty
<1>5. CASE R!WriteReturns
  BY <1>5 DEF R!WriteReturns, SoundUnlessOdd
<1>6. CASE R!WriteFails
  BY <1>6 DEF R!WriteFails
<1>7. CASE R!Close
  BY <1>7 DEF R!Close, SoundUnlessOdd
<1>8. CASE R!Closed
  BY <1>8 DEF R!Closed, SoundUnlessOdd
<1>9. CASE R!Lose
  BY <1>9 DEF R!Lose, SoundUnlessOdd
<1>10. CASE UNCHANGED R!vars
  BY <1>10 DEF R!vars, SoundUnlessOdd
<1>11. QED
  BY <1>1, <1>2, <1>3, <1>4, <1>5, <1>6, <1>7, <1>8, <1>9, <1>10
     DEF R!Next, R!Flushing, R!CloseFails

LEMMA SoundIsReadable == Typed /\ SoundUnlessOdd => ReadableUnlessOdd
<1> SUFFICES ASSUME Typed, Sound
             PROVE  R!Valid /\ (R!Loadable \/ \E i \in DOMAIN R!Content : R!Content[i] \in Long)
  BY DEF SoundUnlessOdd, ReadableUnlessOdd, R!ReadableUnlessOdd
<1>1. Len(lines) \in Nat /\ DOMAIN lines = 1..Len(lines)
  BY LenProperties DEF Typed
<1>2. R!Valid
  BY <1>1, OneShotAssumption DEF R!Valid, Sound
<1>3. tail.is = "whole" => tail.rec \in Record
  BY DEF Typed, Tails, R!Empty, R!Spoilt
<1>4. CASE tail.is = "whole"
  <2>1. R!Content = lines \o <<tail.rec>>
    BY <1>4 DEF R!Content
  <2>2. /\ Len(R!Content) = Len(lines) + 1
        /\ DOMAIN R!Content = 1..Len(lines) + 1
        /\ \A i \in 1..Len(lines) : R!Content[i] = lines[i]
        /\ R!Content[Len(lines) + 1] = tail.rec
    BY <1>1, <1>3, <1>4, <2>1 DEF Typed
  <2>3. QED
    BY <1>1, <1>2, <1>3, <1>4, <2>2 DEF Sound, R!Loadable, R!Fits
<1>5. CASE tail.is = "empty"
  <2>1. R!Content = lines
    BY <1>5, ConcatEmptySeq DEF R!Content, Typed
  <2>2. QED
    BY <1>1, <1>2, <1>5, <2>1 DEF Sound, R!Loadable, R!Fits
<1>6. QED
  BY <1>4, <1>5 DEF Sound

(* A recording that was one to begin with can be read back or appended to  *)
(* at any time, as long as no line is too long, none was appended behind   *)
(* an unended one, and no write failed.                                    *)
THEOREM StaysReadable == Spec => []ReadableUnlessOdd
<1>1. Init => Typed /\ SoundUnlessOdd
  BY InitTyped, InitSound DEF Init
<1>2. QED
  BY <1>1, SoundIsReadable, InitWhere, NextWhere, NextRecorder, NextTyped,
     NextSound, PTL DEF Spec

-------------------------------------------------------------------------------
(* The recording implements the log.                                       *)

Less == OpToRel(<, Nat)

(* The relation the library proves well-founded is < on Nat. *)
LEMMA LessDef == \A m, n \in Nat : <<m, n>> \in Less <=> m < n
BY DEF Less, OpToRel

LEMMA LessWF == IsWellFoundedOn(Less, Nat)
BY NatLessThanWellFounded DEF Less

(* The number n of lines of s before the first that cannot be read. *)
ReadableOf(s, n) ==
  /\ n \in 0..Len(s)
  /\ \A i \in 1..n : R!Fits(s[i])
  /\ n < Len(s) => ~R!Fits(s[n + 1])

Readable(n) == ReadableOf(lines, n)

(* There is one: the first line that cannot be read is the least number of *)
(* the set of their numbers. *)
LEMMA ReadableExists ==
  ASSUME Typed
  PROVE  \E n : Readable(n)
<1>1. Len(lines) \in Nat
  BY LenProperties DEF Typed
<1> DEFINE U == {i \in 1..Len(lines) : ~R!Fits(lines[i])}
<1>2. CASE U = {}
  <2>1. Readable(Len(lines))
    BY <1>1, <1>2 DEF Readable, ReadableOf
  <2>2. QED
    BY <2>1
<1>3. CASE U # {}
  <2>1. PICK x \in U : \A y \in U : ~ (<<y, x>> \in Less)
    <3>1. U \subseteq Nat
      OBVIOUS
    <3> HIDE DEF U
    <3>2. QED
      BY <1>3, <3>1, WFMin, LessWF
  <2>2. x \in 1..Len(lines) /\ ~R!Fits(lines[x]) /\ (x - 1) + 1 = x
    BY <1>1
  <2>3. ASSUME NEW i \in 1..(x - 1) PROVE R!Fits(lines[i])
    <3>1. i \in Nat /\ x \in Nat /\ i < x /\ i \in 1..Len(lines)
      BY <1>1, <2>2
    <3>2. i \notin U
      BY <2>1, <3>1, LessDef
    <3>3. QED
      BY <3>1, <3>2
  <2>4. Readable(x - 1)
    BY <1>1, <2>2, <2>3 DEF Readable, ReadableOf
  <2>5. QED
    BY <2>4
<1>4. QED
  BY <1>2, <1>3

(* ReadableLines is that number. *)
ReadableRight == Readable(R!ReadableLines)

LEMMA ReadableLinesRight == Typed => ReadableRight
<1> SUFFICES ASSUME Typed PROVE Readable(R!ReadableLines)
  BY DEF ReadableRight
<1>1. PICK n : Readable(n)
  BY ReadableExists
<1>2. QED
  BY <1>1 DEF Readable, ReadableOf, R!ReadableLines

(* The complete lines are only added to, one at a time. *)
LEMMA LinesGrow ==
  ASSUME Typed, [R!Next]_(R!vars)
  PROVE  lines' = lines \/ \E x \in Record \union {Bad} : lines' = Append(lines, x)
<1>1. CASE R!Drain
  <2>1. Head(buf).rec \in Record
    BY <1>1, FirstChunk DEF R!Drain, Typed, Chunk
  <2>2. QED
    BY <1>1, <2>1 DEF R!Drain, R!PutAll
<1>2. CASE ~R!Drain
  BY <1>2 DEF R!Next, R!Flushing, R!OpenNew, R!OpenAppend, R!Write, R!WriteReturns,
     R!WriteFails, R!Close, R!Closed, R!CloseFails, R!Lose, R!PutPart, R!file, R!vars
<1>3. QED
  BY <1>1, <1>2

(* The beginning of a sequence to which something is appended. *)
LEMMA SubSeqOfAppend ==
  ASSUME NEW T, NEW s \in Seq(T), NEW x \in T, NEW n \in 0..Len(s)
  PROVE  SubSeq(Append(s, x), 1, n) = SubSeq(s, 1, n)
<1>1. /\ Len(s) \in Nat
      /\ \A i \in 1..n : s[i] \in T /\ Append(s, x)[i] = s[i]
  BY AppendProperties, LenProperties, ElementOfSeq
<1>2. /\ SubSeq(s, 1, n) \in Seq(T) /\ Len(SubSeq(s, 1, n)) = n
      /\ \A i \in 1..n : SubSeq(s, 1, n)[i] = s[i]
  BY <1>1, SubSeqProperties
<1>3. /\ SubSeq(Append(s, x), 1, n) \in Seq(T) /\ Len(SubSeq(Append(s, x), 1, n)) = n
      /\ \A i \in 1..n : SubSeq(Append(s, x), 1, n)[i] = Append(s, x)[i]
  BY <1>1, SubSeqProperties
<1>4. QED
  BY <1>1, <1>2, <1>3, SeqEqual

(* An appended line is readable only if all before it are. *)
LEMMA ReadableOfAppend ==
  ASSUME NEW s \in Seq(Record \union {Bad}), NEW x \in Record \union {Bad},
         NEW n, NEW m, ReadableOf(s, n), ReadableOf(Append(s, x), m)
  PROVE  m = IF n = Len(s) /\ R!Fits(x) THEN n + 1 ELSE n
<1>1. /\ Len(s) \in Nat
      /\ Len(Append(s, x)) = Len(s) + 1
      /\ \A i \in 1..Len(s) : Append(s, x)[i] = s[i]
      /\ Append(s, x)[Len(s) + 1] = x
  OBVIOUS
<1>2. /\ n \in 0..Len(s)
      /\ \A i \in 1..n : R!Fits(s[i])
      /\ n < Len(s) => ~R!Fits(s[n + 1])
  BY DEF ReadableOf
<1>3. /\ m \in 0..(Len(s) + 1)
      /\ \A i \in 1..m : R!Fits(Append(s, x)[i])
      /\ m < Len(s) + 1 => ~R!Fits(Append(s, x)[m + 1])
  BY <1>1 DEF ReadableOf
<1>4. CASE n < Len(s)
  <2>1. ~R!Fits(Append(s, x)[n + 1])
    BY <1>1, <1>2, <1>4
  <2>2. ~(n + 1 <= m)
    BY <1>1, <1>2, <1>3, <2>1
  <2>3. m < n => ~R!Fits(s[m + 1])
    BY <1>1, <1>2, <1>3
  <2>4. ~(m < n)
    BY <1>1, <1>2, <1>3, <2>3
  <2>5. QED
    BY <1>1, <1>2, <1>3, <1>4, <2>2, <2>4
<1>5. CASE n = Len(s)
  <2>1. m < n => ~R!Fits(s[m + 1])
    BY <1>1, <1>2, <1>3
  <2>2. ~(m < n)
    BY <1>1, <1>2, <1>3, <2>1
  <2>3. m = n \/ m = n + 1
    BY <1>1, <1>2, <1>3, <1>5, <2>2
  <2>4. QED
    BY <1>1, <1>3, <1>5, <2>3
<1>6. QED
  BY <1>1, <1>2, <1>4, <1>5

(* Seen through its readable lines, a step of the recorder is one of the   *)
(* log or none.                                                            *)
LEMMA NextLog ==
  Typed /\ Typed' /\ [R!Next]_(R!vars)
    => [(\E r \in Record : R!Log!Add(r)) \/ R!Log!Seal]_<<SubSeq(lines, 1, R!ReadableLines), R!ReadableLines < Len(lines)>>
<1> SUFFICES ASSUME Typed, Typed', [R!Next]_(R!vars)
             PROVE  [(\E r \in Record : R!Log!Add(r)) \/ R!Log!Seal]_<<SubSeq(lines, 1, R!ReadableLines), R!ReadableLines < Len(lines)>>
  OBVIOUS
<1> DEFINE n == R!ReadableLines
           log == SubSeq(lines, 1, n)
           sealed == n < Len(lines)
<1>1. ReadableRight /\ ReadableRight'
  BY ReadableLinesRight, PTL
<1>2. ReadableOf(lines, n) /\ ReadableOf(lines', n')
  BY <1>1 DEF ReadableRight, Readable, ReadableOf, R!Fits
<1>3. n \in 0..Len(lines) /\ \A i \in 1..n : R!Fits(lines[i])
  BY <1>2 DEF ReadableOf
<1>4. /\ lines \in Seq(Record \union {Bad}) /\ lines' \in Seq(Record \union {Bad})
      /\ Len(lines) \in Nat /\ Len(lines') \in Nat
  BY DEF Typed
<1>5. CASE lines' = lines
  BY <1>5 DEF R!ReadableLines
<1>6. ASSUME NEW x \in Record \union {Bad}, lines' = Append(lines, x)
      PROVE  [(\E r \in Record : R!Log!Add(r)) \/ R!Log!Seal]_<<log, sealed>>
  <2>1. Len(lines') = Len(lines) + 1
    BY <1>4, <1>6
  <2>2. n' = IF n = Len(lines) /\ R!Fits(x) THEN n + 1 ELSE n
    <3> HIDE DEF n
    <3>1. ReadableOf(Append(lines, x), n')
      BY <1>2, <1>6
    <3>2. QED
      BY <1>2, <1>4, <3>1, ReadableOfAppend
  <2>3. CASE n < Len(lines)
    <3>1. n' = n
      BY <1>3, <1>4, <2>2, <2>3
    <3>2. log' = log
      BY <1>3, <1>4, <1>6, <3>1, SubSeqOfAppend
    <3>3. sealed /\ sealed'
      BY <1>3, <1>4, <2>1, <2>3, <3>1
    <3>4. QED
      BY <3>2, <3>3
  <2>4. CASE n = Len(lines) /\ ~R!Fits(x)
    <3>1. n' = n
      BY <2>2, <2>4
    <3>2. log' = log
      BY <1>3, <1>4, <1>6, <3>1, SubSeqOfAppend
    <3>3. ~sealed /\ sealed'
      BY <1>4, <2>1, <2>4, <3>1
    <3>4. R!Log!Seal
      BY <3>2, <3>3 DEF R!Log!Seal
    <3>5. QED
      BY <3>4
  <2>5. CASE n = Len(lines) /\ R!Fits(x)
    <3>1. n' = Len(lines')
      BY <2>1, <2>2, <2>5
    <3>2. log = lines /\ log' = lines'
      BY <1>4, <2>5, <3>1, SubSeqFull
    <3>3. ~sealed /\ ~sealed'
      BY <1>4, <2>5, <3>1
    <3>4. x \in Record
      BY <2>5 DEF R!Fits
    <3>5. log' = Append(log, x)
      BY <1>6, <3>2
    <3>6. sealed' = sealed
      BY <3>3
    <3>7. R!Log!Add(x)
      BY <3>3, <3>5, <3>6, Zenon DEF R!Log!Add
    <3>8. QED
      BY <3>4, <3>7
  <2>6. n = Len(lines) \/ n < Len(lines)
    BY <1>3, <1>4
  <2>7. QED
    BY <2>3, <2>4, <2>5, <2>6, Zenon
<1>7. QED
  BY <1>5, <1>6, LinesGrow

LEMMA InitLog == Typed => R!Log!Init
<1> SUFFICES ASSUME Typed PROVE R!Log!Init
  OBVIOUS
<1> DEFINE n == R!ReadableLines
<1>1. n \in 0..Len(lines) /\ \A i \in 1..n : R!Fits(lines[i])
  BY ReadableLinesRight DEF ReadableRight, Readable, ReadableOf
<1> HIDE DEF n
<1>2. SubSeq(lines, 1, n) \in Seq(Record)
  BY <1>1, SubSeqProperties DEF R!Fits
<1>3. (n < Len(lines)) \in BOOLEAN
  OBVIOUS
<1>4. QED
  BY <1>2, <1>3 DEF R!Log!Init, n

(* Whatever fails, whatever program writes and whenever it is killed, what *)
(* can be read of the recording before the first unreadable line only      *)
(* grows, record by record, and never again after that line is there.      *)
THEOREM RecordingIsLog == Spec => ImplementsLog
<1>1. Init => Typed
  BY InitTyped DEF Init
<1>2. QED
  BY <1>1, InitWhere, NextWhere, NextRecorder, NextTyped, InitLog, NextLog,
     PTL DEF Spec, ImplementsLog, R!ImplementsLog, R!Log!Spec

-------------------------------------------------------------------------------
(* Nothing that was acknowledged is lost.  The stream is what the file     *)
(* holds and the buffer is to add to it.  While the file can still be read *)
(* (or will be, once the line begun is ended), the stream is what was in   *)
(* the file at first and then the records of some calls, in their order.   *)

(* The buffer continues the line begun in the file. *)
Continued == buf # <<>> /\ buf[1].from > 0

Chain ==
  /\ \A i \in 2..Len(buf) : buf[i].from = 0
  /\ Continued => tail.is = "bad" \/ tail = R!Part(buf[1].rec, buf[1].from)
  /\ handle = "none" => buf = <<>>

Clean ==
  /\ \A i \in 1..Len(lines) : R!Fits(lines[i])
  /\ \/ tail.is = "empty"
     \/ tail.is = "whole" /\ R!Fits(tail.rec)
     \/ tail.is = "part" /\ Continued

(* A whole line that the buffer does not hold as well. *)
Extra == IF tail.is = "whole" /\ ~Continued THEN 1 ELSE 0

Length == Len(lines) + Extra + Len(buf)

Stream ==
  [i \in 1..Length |->
     IF i <= Len(lines) THEN lines[i]
     ELSE IF i <= Len(lines) + Extra THEN tail.rec
     ELSE buf[i - (Len(lines) + Extra)].rec]

(* How much of the stream the file holds. *)
Stored == Len(lines) + (IF tail.is = "whole" THEN 1 ELSE 0)

(* A stream s of which m are stored consists of first and of the records   *)
(* of the calls in c that f numbers: all that returned are stored.         *)
Tracked(s, l, m, c, first, n, f) ==
  /\ f \in [1..n -> 1..Len(c)]
  /\ \A j, k \in 1..n : j < k => f[j] < f[k]
  /\ \A k \in 1..n : k <= f[k]
  /\ l = Len(first) + n
  /\ \A i \in 1..Len(first) : s[i] = first[i]
  /\ \A k \in 1..n : s[Len(first) + k] = c[f[k]].rec
  /\ Len(first) <= m
  /\ \A i \in 1..Len(c) :
       c[i].returned => \E k \in 1..n : f[k] = i /\ Len(first) + k <= m

(* The call that runs is the last of the stream. *)
Latest(n, f) == handle = "writing" => n > 0 /\ f[n] = Len(sent)

Kept ==
  Clean => \E n \in Nat : \E f :
             Tracked(Stream, Length, Stored, sent, start, n, f) /\ Latest(n, f)

(* A stream s of length l, m of which are stored, becomes t, k and p. *)
Shortened(s, l, m, t, k, p) ==
  k <= l /\ m <= p /\ p <= k /\ \A i \in 1..k : t[i] = s[i]

(* The end of a stream may be lost, but nothing that is stored. *)
LEMMA StreamShortened ==
  ASSUME NEW s, NEW l \in Nat, NEW m \in Nat, NEW c \in Seq(Call),
         NEW first \in Seq(Record), NEW n \in Nat, NEW f,
         Tracked(s, l, m, c, first, n, f),
         NEW t, NEW k \in Nat, NEW p \in Nat, Shortened(s, l, m, t, k, p)
  PROVE  \E g : Tracked(t, k, p, c, first, k - Len(first), g)
                /\ k - Len(first) \in Nat
                /\ (k = l => g = f)
<1> USE DEF Shortened
<1> DEFINE q == k - Len(first)
           g == [i \in 1..q |-> f[i]]
<1>1. Len(first) \in Nat /\ Len(c) \in Nat /\ q \in Nat /\ q <= n /\ n = l - Len(first)
  BY DEF Tracked
<1>2. \A i \in 1..q : i \in 1..n /\ g[i] = f[i]
  BY <1>1
<1>3. g \in [1..q -> 1..Len(c)]
  BY <1>2 DEF Tracked
<1>4. k = l => g = f
  BY <1>1 DEF Tracked
<1> HIDE DEF g
<1>5. /\ \A i, j \in 1..q : i < j => g[i] < g[j]
      /\ \A i \in 1..q : i <= g[i]
  BY <1>1, <1>2 DEF Tracked
<1>6. \A i \in 1..Len(first) : t[i] = first[i]
  BY <1>1 DEF Tracked
<1>7. ASSUME NEW i \in 1..q PROVE t[Len(first) + i] = c[g[i]].rec
  <2>1. Len(first) + i \in 1..k /\ i \in 1..n
    BY <1>1
  <2>2. QED
    BY <1>2, <2>1 DEF Tracked
<1>8. ASSUME NEW i \in 1..Len(c), c[i].returned
      PROVE  \E j \in 1..q : g[j] = i /\ Len(first) + j <= p
  <2>1. PICK j \in 1..n : f[j] = i /\ Len(first) + j <= m
    BY <1>8 DEF Tracked
  <2>2. j \in 1..q /\ Len(first) + j <= p
    BY <1>1, <2>1
  <2>3. QED
    BY <1>2, <2>1, <2>2
<1>9. Tracked(t, k, p, c, first, q, g)
  BY <1>1, <1>3, <1>5, <1>6, <1>7, <1>8 DEF Tracked
<1>10. QED
  BY <1>1, <1>4, <1>9

(* The record r is added to a stream s of length l, which becomes t. *)
Extended(s, l, t, r) == (\A i \in 1..l : t[i] = s[i]) /\ t[l + 1] = r

(* A call of write() is added to the calls and to the stream. *)
LEMMA StreamExtended ==
  ASSUME NEW s, NEW l \in Nat, NEW m \in Nat, NEW c \in Seq(Call),
         NEW first \in Seq(Record), NEW n \in Nat, NEW f,
         Tracked(s, l, m, c, first, n, f),
         NEW t, NEW r \in Record, Extended(s, l, t, r)
  PROVE  \E g : /\ Tracked(t, l + 1, m, Append(c, [rec |-> r, returned |-> FALSE]),
                           first, n + 1, g)
                /\ g[n + 1] = Len(c) + 1
<1> USE DEF Extended
<1> DEFINE call == [rec |-> r, returned |-> FALSE]
           d == Append(c, call)
           g == [i \in 1..(n + 1) |-> IF i = n + 1 THEN Len(c) + 1 ELSE f[i]]
<1>1. Len(first) \in Nat /\ Len(c) \in Nat /\ l = Len(first) + n
  BY DEF Tracked
<1>2. /\ Len(d) = Len(c) + 1
      /\ \A i \in 1..Len(c) : d[i] = c[i]
      /\ d[Len(c) + 1] = call
  <2>1. call \in Call
    BY DEF Call
  <2> HIDE DEF call
  <2>2. QED
    BY <2>1
<1>3. g[n + 1] = Len(c) + 1 /\ \A i \in 1..n : g[i] = f[i] /\ f[i] \in 1..Len(c)
  BY DEF Tracked
<1>4. g \in [1..(n + 1) -> 1..(Len(c) + 1)]
  <2>1. ASSUME NEW i \in 1..n PROVE f[i] \in 1..(Len(c) + 1)
    <3>1. f[i] \in 1..Len(c)
      BY DEF Tracked
    <3>2. QED
      BY <1>1, <3>1
  <2>2. Len(c) + 1 \in 1..(Len(c) + 1)
    BY <1>1
  <2>3. \A i \in 1..(n + 1) : i = n + 1 \/ i \in 1..n
    OBVIOUS
  <2>4. QED
    BY <2>1, <2>2, <2>3
<1> HIDE DEF g, d
<1>5. \A k \in 1..(n + 1) : k = n + 1 \/ k \in 1..n
  OBVIOUS
<1>6. \A j, k \in 1..(n + 1) : j < k => g[j] < g[k]
  <2>1. SUFFICES ASSUME NEW j \in 1..(n + 1), NEW k \in 1..(n + 1), j < k
                 PROVE  g[j] < g[k]
    OBVIOUS
  <2>2. j \in 1..n
    BY <2>1
  <2>3. CASE k = n + 1
    BY <1>1, <1>3, <2>2, <2>3
  <2>4. CASE k \in 1..n
    BY <1>3, <2>1, <2>2, <2>4 DEF Tracked
  <2>5. QED
    BY <1>5, <2>3, <2>4
<1>7. \A k \in 1..(n + 1) : k <= g[k]
  <2>1. n <= Len(c)
    <3>1. CASE n = 0
      BY <1>1, <3>1
    <3>2. CASE n > 0
      <4>1. n \in 1..n /\ n <= f[n] /\ f[n] \in 1..Len(c)
        BY <1>3, <3>2 DEF Tracked
      <4>2. QED
        BY <1>1, <4>1
    <3>3. QED
      BY <3>1, <3>2
  <2>2. \A k \in 1..n : k <= g[k]
    BY <1>3 DEF Tracked
  <2>3. n + 1 <= g[n + 1]
    BY <1>1, <1>3, <2>1
  <2>4. QED
    BY <1>5, <2>2, <2>3
<1>8. \A i \in 1..Len(first) : t[i] = first[i]
  <2>1. \A i \in 1..Len(first) : i \in 1..l
    BY <1>1
  <2>2. QED
    BY <2>1 DEF Tracked
<1>9. ASSUME NEW k \in 1..(n + 1) PROVE t[Len(first) + k] = d[g[k]].rec
  <2>1. CASE k = n + 1
    BY <1>1, <1>2, <1>3, <2>1
  <2>2. CASE k \in 1..n
    <3>1. Len(first) + k \in 1..l
      BY <1>1, <2>2
    <3>2. t[Len(first) + k] = c[f[k]].rec
      BY <2>2, <3>1 DEF Tracked
    <3>3. QED
      BY <1>2, <1>3, <2>2, <3>2
  <2>3. QED
    BY <1>5, <2>1, <2>2
<1>10. ASSUME NEW i \in 1..(Len(c) + 1), d[i].returned
       PROVE  \E k \in 1..(n + 1) : g[k] = i /\ Len(first) + k <= m
  <2>1. i \in 1..Len(c)
    BY <1>1, <1>2, <1>10
  <2>2. PICK k \in 1..n : f[k] = i /\ Len(first) + k <= m
    BY <1>2, <1>10, <2>1 DEF Tracked
  <2>3. QED
    BY <1>3, <2>2
<1>11. Tracked(t, l + 1, m, d, first, n + 1, g)
  BY <1>1, <1>2, <1>4, <1>6, <1>7, <1>8, <1>9, <1>10 DEF Tracked
<1>12. QED
  BY <1>3, <1>11 DEF d

(* The last call returns when all of the stream is stored. *)
LEMMA StreamReturned ==
  ASSUME NEW s, NEW l \in Nat, NEW m \in Nat, NEW c \in Seq(Call),
         NEW first \in Seq(Record), NEW n \in Nat, NEW f,
         Tracked(s, l, m, c, first, n, f), n > 0, f[n] = Len(c), l <= m
  PROVE  Tracked(s, l, m, [c EXCEPT ![Len(c)].returned = TRUE], first, n, f)
<1> DEFINE d == [c EXCEPT ![Len(c)].returned = TRUE]
<1>1. /\ Len(c) \in Nat /\ n \in 1..n /\ Len(c) \in 1..Len(c)
      /\ Len(first) + n <= m /\ l = Len(first) + n
  BY DEF Tracked
<1>2. Len(d) = Len(c)
  BY <1>1
<1>3. \A i \in 1..Len(c) : /\ d[i].rec = c[i].rec
                           /\ i # Len(c) => d[i] = c[i]
  <2>1. DOMAIN c = 1..Len(c) /\ \A i \in 1..Len(c) : c[i] \in Call
    OBVIOUS
  <2>2. QED
    BY <2>1 DEF Call
<1> HIDE DEF d
<1>4. ASSUME NEW i \in 1..Len(d), d[i].returned
      PROVE  \E k \in 1..n : f[k] = i /\ Len(first) + k <= m
  <2>1. CASE i = Len(c)
    BY <1>1, <2>1
  <2>2. CASE i # Len(c)
    BY <1>2, <1>3, <1>4, <2>2 DEF Tracked
  <2>3. QED
    BY <2>1, <2>2
<1>5. \A k \in 1..n : f[k] \in 1..Len(c)
  BY DEF Tracked
<1>6. \A k \in 1..n : s[Len(first) + k] = d[f[k]].rec
  BY <1>3, <1>5 DEF Tracked
<1>7. Tracked(s, l, m, d, first, n, f)
  BY <1>2, <1>4, <1>6 DEF Tracked
<1>8. QED
  BY <1>7 DEF d

-------------------------------------------------------------------------------
(* How the steps of the recorder change the stream.                        *)

StreamParts ==
  /\ Len(lines) \in Nat /\ Len(buf) \in Nat
  /\ Extra \in {0, 1} /\ Length \in Nat /\ Stored \in Nat
  /\ \A i \in 1..Len(lines) : Stream[i] = lines[i]
  /\ Extra = 1 => Stream[Len(lines) + 1] = tail.rec
  /\ \A j \in 1..Len(buf) : Stream[Len(lines) + Extra + j] = buf[j].rec

LEMMA StreamMade == Typed => StreamParts
<1> SUFFICES ASSUME Typed PROVE StreamParts
  OBVIOUS
<1>1. Len(lines) \in Nat /\ Len(buf) \in Nat /\ Extra \in {0, 1}
  BY DEF Typed, Extra
<1>2. Length \in Nat /\ Stored \in Nat
  BY <1>1 DEF Length, Stored
<1>3. \A i \in 1..Len(lines) : Stream[i] = lines[i]
  BY <1>1 DEF Stream, Length
<1>4. Extra = 1 => Stream[Len(lines) + 1] = tail.rec
  BY <1>1 DEF Stream, Length
<1>5. \A j \in 1..Len(buf) : Stream[Len(lines) + Extra + j] = buf[j].rec
  <2>1. SUFFICES ASSUME NEW j \in 1..Len(buf)
                 PROVE  Stream[Len(lines) + Extra + j] = buf[j].rec
    OBVIOUS
  <2>2. /\ Len(lines) + Extra + j \in 1..Length
        /\ ~(Len(lines) + Extra + j <= Len(lines))
        /\ ~(Len(lines) + Extra + j <= Len(lines) + Extra)
        /\ (Len(lines) + Extra + j) - (Len(lines) + Extra) = j
    BY <1>1 DEF Length
  <2>3. QED
    BY <2>2 DEF Stream
<1>6. QED
  BY <1>1, <1>2, <1>3, <1>4, <1>5 DEF StreamParts

(* A step that adds nothing to the stream and loses nothing that is stored. *)
Shortens == Shortened(Stream, Length, Stored, Stream', Length', Stored')

(* The buffer's first line, when it can be ended in the file. *)
LEMMA FirstLine ==
  ASSUME Typed, Chain, buf # <<>>, ~R!Joined(Head(buf))
  PROVE  /\ Head(buf) = buf[1] /\ buf[1] \in Chunk /\ Len(buf) > 0
         /\ Extra = 0
         /\ buf[1].from = 0 => tail.is = "empty"
         /\ buf[1].from = 1 => tail.is = "part" /\ Continued
         /\ buf[1].from = 2 => tail.is = "whole" /\ tail.rec = buf[1].rec
         /\ tail.is = "whole" => buf[1].from = 2
<1>1. Head(buf) = buf[1] /\ buf[1] \in Chunk /\ Len(buf) > 0
  BY DEF Typed
<1>2. buf[1].from \in 0..2
  BY <1>1 DEF Chunk
<1>3. tail.is # "bad" /\ (buf[1].from = 0 => tail.is = "empty")
  BY <1>1 DEF R!Joined
<1>4. CASE buf[1].from = 0
  BY <1>1, <1>3, <1>4 DEF Extra
<1>5. CASE buf[1].from \in {1, 2}
  <2>1. Continued
    BY <1>5 DEF Continued
  <2>2. tail = R!Part(buf[1].rec, buf[1].from)
    BY <1>3, <2>1 DEF Chain
  <2>3. QED
    BY <1>1, <1>5, <2>1, <2>2 DEF R!Part, Extra
<1>6. QED
  BY <1>2, <1>4, <1>5

(* The buffer is kept, or it is dropped. *)
LEMMA FileUnchanged ==
  ASSUME Typed, Typed', Chain, Clean', lines' = lines, tail' = tail,
         buf' = buf \/ buf' = <<>>
  PROVE  Clean /\ Shortens /\ (buf' = buf => Length' = Length)
<1>1. StreamParts /\ StreamParts'
  BY StreamMade, PTL
<1>2. CASE buf' = buf
  <2>1. Clean
    BY <1>2 DEF Clean, Continued, R!Fits
  <2>2. Stream' = Stream /\ Length' = Length /\ Stored' = Stored
    BY <1>2 DEF Stream, Length, Stored, Extra, Continued
  <2>3. Stored <= Length
    <3>1. CASE tail.is = "whole" /\ Continued
      BY <1>1, <3>1 DEF StreamParts, Stored, Length, Extra, Continued, Typed
    <3>2. CASE ~(tail.is = "whole" /\ Continued)
      BY <1>1, <3>2 DEF StreamParts, Stored, Length, Extra
    <3>3. QED
      BY <3>1, <3>2
  <2>4. QED
    BY <1>1, <2>1, <2>2, <2>3 DEF Shortens, Shortened, StreamParts
<1>3. CASE buf' = <<>> /\ buf # <<>>
  <2>1. ~Continued' /\ Len(buf') = 0
    BY <1>3 DEF Continued
  <2>2. /\ \A i \in 1..Len(lines) : R!Fits(lines[i])
        /\ tail.is = "empty" \/ (tail.is = "whole" /\ R!Fits(tail.rec))
    BY <2>1 DEF Clean, R!Fits
  <2>3. Clean
    BY <2>2 DEF Clean
  <2>4. /\ Extra' = (IF tail.is = "whole" THEN 1 ELSE 0)
        /\ Length' = Len(lines) + Extra'
        /\ Stored' = Len(lines) + Extra'
        /\ Stored = Len(lines) + Extra'
    BY <1>1, <2>1 DEF Extra, Length, Stored, StreamParts
  <2>5. Len(buf) > 0
    BY <1>3 DEF Typed
  <2>6. Length' <= Length /\ (tail.is = "whole" => Length >= Len(lines) + 1)
    BY <1>1, <2>4, <2>5 DEF Length, Extra, StreamParts
  <2>7. tail.is = "whole" => Stream[Len(lines) + 1] = tail.rec
    <3>1. SUFFICES ASSUME tail.is = "whole" PROVE Stream[Len(lines) + 1] = tail.rec
      OBVIOUS
    <3>2. CASE ~Continued
      BY <1>1, <3>1, <3>2 DEF StreamParts, Extra
    <3>3. CASE Continued
      <4>1. tail = R!Part(buf[1].rec, buf[1].from) /\ Extra = 0
        BY <3>1, <3>3 DEF Chain, Extra
      <4>2. tail.rec = buf[1].rec
        BY <4>1 DEF R!Part
      <4>3. Len(lines) + Extra + 1 = Len(lines) + 1 /\ 1 \in 1..Len(buf)
        BY <1>1, <2>5, <4>1 DEF StreamParts
      <4>4. QED
        BY <1>1, <4>2, <4>3 DEF StreamParts
    <3>4. QED
      BY <3>2, <3>3
  <2>8. ASSUME NEW i \in 1..Length' PROVE Stream'[i] = Stream[i]
    <3>1. CASE i \in 1..Len(lines)
      BY <1>1, <3>1 DEF StreamParts
    <3>2. CASE i = Len(lines) + 1 /\ tail.is = "whole"
      <4>1. Extra' = 1
        BY <2>4, <3>2
      <4>2. QED
        BY <1>1, <2>7, <3>2, <4>1 DEF StreamParts
    <3>3. QED
      BY <1>1, <2>4, <3>1, <3>2 DEF StreamParts
  <2>9. Stored <= Stored' /\ Stored' <= Length'
    BY <1>1, <2>4 DEF StreamParts
  <2>10. QED
    BY <1>3, <2>3, <2>6, <2>8, <2>9 DEF Shortens, Shortened
<1>4. QED
  BY <1>2, <1>3

(* The first line of the buffer is taken further, and kept or dropped. *)
LEMMA LineContinued ==
  ASSUME Typed, Typed', Chain, Clean', buf # <<>>,
         NEW stage \in 1..2, stage > Head(buf).from, lines' = lines,
         ~R!Joined(Head(buf)), tail' = R!Part(Head(buf).rec, stage),
         \/ buf' = <<[Head(buf) EXCEPT !.from = stage]>> \o Tail(buf)
         \/ buf' = <<>>
  PROVE  Clean /\ Shortens
<1>1. StreamParts /\ StreamParts'
  BY StreamMade, PTL
<1>2. /\ Head(buf) = buf[1] /\ buf[1] \in Chunk /\ Len(buf) > 0
      /\ Extra = 0
      /\ tail.is = "empty" \/ (tail.is = "part" /\ Continued)
  BY FirstLine DEF Chunk
<1>3. Clean
  BY <1>2 DEF Clean, R!Fits
<1>4. Stored = Len(lines) /\ Length = Len(lines) + Len(buf)
  BY <1>1, <1>2 DEF Stored, Length, StreamParts
<1>5. /\ tail'.rec = buf[1].rec
      /\ stage = 1 => tail'.is = "part"
      /\ stage = 2 => tail'.is = "whole"
  BY <1>2 DEF R!Part
<1>6. Stream[Len(lines) + 1] = buf[1].rec
  <2>1. 1 \in 1..Len(buf) /\ Len(lines) + Extra + 1 = Len(lines) + 1
    BY <1>1, <1>2 DEF StreamParts
  <2>2. QED
    BY <1>1, <2>1 DEF StreamParts
<1>7. CASE buf' = <<[Head(buf) EXCEPT !.from = stage]>> \o Tail(buf)
  <2>1. /\ Len(buf') = Len(buf)
        /\ buf'[1] = [buf[1] EXCEPT !.from = stage]
        /\ \A j \in 2..Len(buf) : buf'[j] = buf[j]
    <3>1. [buf[1] EXCEPT !.from = stage] \in Chunk
      BY <1>2 DEF Chunk
    <3>2. /\ Tail(buf) \in Seq(Chunk) /\ Len(Tail(buf)) = Len(buf) - 1
          /\ \A j \in 1..Len(Tail(buf)) : Tail(buf)[j] = buf[j + 1]
      BY HeadTailProperties DEF Typed
    <3> HIDE DEF Typed
    <3>3. /\ Len(buf') = Len(buf)
          /\ buf'[1] = [buf[1] EXCEPT !.from = stage]
          /\ \A j \in 2..Len(buf) : buf'[j] = Tail(buf)[j - 1]
      BY <1>1, <1>2, <1>7, <3>1, <3>2 DEF StreamParts
    <3>4. QED
      BY <1>1, <3>2, <3>3 DEF StreamParts
  <2>2. \A j \in 1..Len(buf) : buf'[j].rec = buf[j].rec
    <3>1. buf'[1].rec = buf[1].rec
      BY <1>2, <2>1 DEF Chunk
    <3>2. \A j \in 1..Len(buf) : j = 1 \/ j \in 2..Len(buf)
      BY <1>1 DEF StreamParts
    <3>3. QED
      BY <2>1, <3>1, <3>2
  <2>3. Continued'
    <3>1. buf'[1].from = stage
      BY <1>2, <2>1 DEF Chunk
    <3>2. buf' # <<>>
      BY <1>2, <2>1
    <3>3. QED
      BY <3>1, <3>2 DEF Continued
  <2>4. Extra' = 0 /\ Length' = Length
    BY <1>1, <1>4, <2>1, <2>3 DEF Extra, Length, StreamParts
  <2>5. Stored <= Stored' /\ Stored' <= Length'
    BY <1>1, <1>2, <1>4, <2>4 DEF Stored, StreamParts
  <2>6. ASSUME NEW i \in 1..Length' PROVE Stream'[i] = Stream[i]
    <3>1. CASE i \in 1..Len(lines)
      BY <1>1, <3>1 DEF StreamParts
    <3>2. CASE i \notin 1..Len(lines)
      <4>1. PICK j \in 1..Len(buf) : i = Len(lines) + Extra + j
        <5>1. i - Len(lines) \in 1..Len(buf) /\ i = Len(lines) + Extra + (i - Len(lines))
          BY <1>1, <1>2, <1>4, <2>4, <3>2 DEF StreamParts
        <5>2. QED
          BY <5>1
      <4>2. i = Len(lines') + Extra' + j /\ j \in 1..Len(buf')
        BY <1>1, <1>2, <2>1, <2>4, <4>1 DEF StreamParts
      <4>3. QED
        BY <1>1, <2>2, <4>1, <4>2 DEF StreamParts
    <3>3. QED
      BY <3>1, <3>2
  <2>7. QED
    BY <1>1, <1>3, <2>4, <2>5, <2>6 DEF Shortens, Shortened, StreamParts
<1>8. CASE buf' = <<>>
  <2>1. ~Continued' /\ Len(buf') = 0
    BY <1>8 DEF Continued
  <2>2. stage = 2
    BY <1>5, <2>1 DEF Clean
  <2>3. Extra' = 1 /\ Length' = Len(lines) + 1 /\ Stored' = Len(lines) + 1
    BY <1>1, <1>5, <2>1, <2>2 DEF Extra, Length, Stored, StreamParts
  <2>4. ASSUME NEW i \in 1..Length' PROVE Stream'[i] = Stream[i]
    <3>1. CASE i \in 1..Len(lines)
      BY <1>1, <3>1 DEF StreamParts
    <3>2. CASE i = Len(lines) + 1
      BY <1>1, <1>5, <1>6, <2>3, <3>2 DEF StreamParts
    <3>3. QED
      BY <1>1, <2>3, <3>1, <3>2 DEF StreamParts
  <2>5. QED
    BY <1>1, <1>2, <1>3, <1>4, <2>3, <2>4 DEF Shortens, Shortened, StreamParts
<1>9. QED
  BY <1>7, <1>8

(* The first line of the buffer is ended. *)
LEMMA LineEnded ==
  ASSUME Typed, Typed', Chain, Clean', R!Drain
  PROVE  Clean /\ Shortens /\ Length' = Length
<1>1. StreamParts /\ StreamParts'
  BY StreamMade, PTL
<1>2. buf # <<>> /\ buf' = Tail(buf) /\ tail' = R!Empty
  BY DEF R!Drain, R!PutAll
<1>3. lines' = Append(lines, IF R!Joined(Head(buf)) THEN Bad ELSE Head(buf).rec)
  BY DEF R!Drain, R!PutAll
<1>4. /\ Len(lines') = Len(lines) + 1
      /\ \A i \in 1..Len(lines) : lines'[i] = lines[i]
      /\ lines'[Len(lines) + 1] = IF R!Joined(Head(buf)) THEN Bad ELSE Head(buf).rec
  BY <1>1, <1>3 DEF Typed, StreamParts
<1>5. \A i \in 1..Len(lines') : R!Fits(lines'[i])
  BY DEF Clean, R!Fits
<1>6. ~R!Joined(Head(buf)) /\ R!Fits(Head(buf).rec)
  BY <1>1, <1>4, <1>5, OneShotAssumption DEF StreamParts, R!Fits
<1>7. /\ Head(buf) = buf[1] /\ buf[1] \in Chunk /\ Len(buf) > 0
      /\ Extra = 0
      /\ buf[1].from = 0 => tail.is = "empty"
      /\ buf[1].from = 1 => tail.is = "part" /\ Continued
      /\ buf[1].from = 2 => tail.is = "whole" /\ tail.rec = buf[1].rec
  BY <1>2, <1>6, FirstLine
<1>8. \A i \in 1..Len(lines) : R!Fits(lines[i])
  BY <1>1, <1>4, <1>5 DEF StreamParts
<1>9. Clean
  BY <1>6, <1>7, <1>8 DEF Clean, Chunk
<1>10. /\ Len(buf') = Len(buf) - 1
       /\ \A j \in 1..Len(buf') : buf'[j] = buf[j + 1]
  BY <1>2, HeadTailProperties DEF Typed
<1>11. tail'.is = "empty"
  BY <1>2 DEF R!Empty
<1>12. Extra' = 0 /\ Length' = Length /\ Stored' = Len(lines) + 1
  BY <1>1, <1>4, <1>7, <1>10, <1>11 DEF Extra, Length, Stored, StreamParts
<1>13. Stored <= Stored' /\ Stored' <= Length'
  BY <1>1, <1>7, <1>12 DEF Stored, Length, StreamParts
<1>14. ASSUME NEW i \in 1..Length' PROVE Stream'[i] = Stream[i]
  <2>1. CASE i \in 1..Len(lines)
    BY <1>1, <1>4, <2>1 DEF StreamParts
  <2>2. CASE i = Len(lines) + 1
    <3>1. 1 \in 1..Len(buf) /\ i = Len(lines) + Extra + 1 /\ i \in 1..Len(lines')
      BY <1>1, <1>4, <1>7, <2>2 DEF StreamParts
    <3>2. Stream[i] = buf[1].rec
      BY <1>1, <3>1 DEF StreamParts
    <3>3. Stream'[i] = lines'[i]
      BY <1>1, <3>1 DEF StreamParts
    <3>4. QED
      BY <1>4, <1>6, <1>7, <2>2, <3>2, <3>3
  <2>3. CASE i > Len(lines) + 1
    <3> DEFINE j == i - (Len(lines) + 1)
    <3>1. /\ j \in 1..Len(buf') /\ j + 1 \in 1..Len(buf)
          /\ i = Len(lines') + Extra' + j
          /\ i = Len(lines) + Extra + (j + 1)
      BY <1>1, <1>4, <1>7, <1>10, <1>12, <2>3 DEF StreamParts, Length
    <3> HIDE DEF j
    <3>2. Stream'[i] = buf'[j].rec /\ Stream[i] = buf[j + 1].rec
      BY <1>1, <3>1 DEF StreamParts
    <3>3. QED
      BY <1>10, <3>1, <3>2
  <2>4. QED
    BY <1>1, <1>12, <2>1, <2>2, <2>3 DEF StreamParts
<1>15. QED
  BY <1>1, <1>9, <1>12, <1>13, <1>14 DEF Shortens, Shortened, StreamParts

(* The first line of the buffer reaches some stage, and the buffer is kept *)
(* or dropped: WriteFails and Lose. *)
LEMMA LineCutOff ==
  ASSUME Typed, Typed', Chain, Clean', buf # <<>>,
         NEW stage \in Head(buf).from..2, R!PutPart(Head(buf), stage),
         buf' \in R!Left(stage) \/ buf' = <<>>
  PROVE  Clean /\ Shortens
<1>1. Head(buf) \in Chunk /\ lines' = lines
  BY FirstChunk DEF Typed, R!PutPart
<1>2. CASE stage = Head(buf).from
  <2>1. tail' = tail
    BY <1>2 DEF R!PutPart
  <2>2. [Head(buf) EXCEPT !.from = stage] = Head(buf)
    BY <1>1, <1>2 DEF Chunk
  <2>3. <<Head(buf)>> \o Tail(buf) = buf
    <3>1. /\ Tail(buf) \in Seq(Chunk) /\ Len(Tail(buf)) = Len(buf) - 1
          /\ \A j \in 1..Len(Tail(buf)) : Tail(buf)[j] = buf[j + 1]
          /\ Len(buf) \in Nat /\ Head(buf) = buf[1]
      BY HeadTailProperties, LenProperties DEF Typed
    <3>2. <<Head(buf)>> \in Seq(Chunk) /\ Len(<<Head(buf)>>) = 1 /\ <<Head(buf)>>[1] = Head(buf)
      BY <1>1
    <3>3. /\ <<Head(buf)>> \o Tail(buf) \in Seq(Chunk)
          /\ Len(<<Head(buf)>> \o Tail(buf)) = Len(buf)
          /\ \A j \in 1..Len(buf) :
               (<<Head(buf)>> \o Tail(buf))[j]
                 = IF j <= 1 THEN <<Head(buf)>>[j] ELSE Tail(buf)[j - 1]
      BY <3>1, <3>2, ConcatProperties
    <3>4. \A j \in 1..Len(buf) : (<<Head(buf)>> \o Tail(buf))[j] = buf[j]
      BY <3>1, <3>2, <3>3
    <3>5. QED
      BY <3>1, <3>3, <3>4, SeqEqual DEF Typed
  <2>4. buf' = buf \/ buf' = <<>>
    BY <2>2, <2>3 DEF R!Left
  <2>5. QED
    BY <1>1, <2>1, <2>4, FileUnchanged
<1>3. CASE stage # Head(buf).from
  <2>1. stage \in 1..2 /\ stage > Head(buf).from
    BY <1>1, <1>3 DEF Chunk
  <2>2. ~R!Joined(Head(buf))
    BY <1>3 DEF R!PutPart, R!Spoilt, Clean
  <2>3. tail' = R!Part(Head(buf).rec, stage)
    BY <1>3, <2>2 DEF R!PutPart
  <2>4. QED
    BY <1>1, <2>1, <2>2, <2>3, LineContinued DEF R!Left
<1>4. QED
  BY <1>2, <1>3

(* A call of write() adds its record to the stream. *)
LEMMA WriteExtends ==
  ASSUME Typed, Typed', Chain, Clean', NEW r \in Record, R!Write(r)
  PROVE  /\ Clean /\ Length' = Length + 1 /\ Stored' = Stored
         /\ \A i \in 1..Length : Stream'[i] = Stream[i]
         /\ Stream'[Length + 1] = r
<1>1. StreamParts /\ StreamParts'
  BY StreamMade, PTL
<1>2. /\ lines' = lines /\ tail' = tail
      /\ buf' = Append(buf, [rec |-> r, from |-> 0])
  BY DEF R!Write, R!file
<1>3. /\ Len(buf') = Len(buf) + 1
      /\ \A i \in 1..Len(buf) : buf'[i] = buf[i]
      /\ buf'[Len(buf) + 1] = [rec |-> r, from |-> 0]
  <2>1. [rec |-> r, from |-> 0] \in Chunk
    BY DEF Chunk
  <2>2. QED
    BY <1>2, <2>1, AppendProperties DEF Typed
<1>4. Continued' <=> Continued
  <2>1. CASE buf = <<>>
    <3>1. buf'[1].from = 0
      BY <1>3, <2>1
    <3>2. QED
      BY <2>1, <3>1 DEF Continued
  <2>2. CASE buf # <<>>
    <3>1. Len(buf) > 0
      BY <2>2, EmptySeq DEF Typed
    <3>2. buf'[1] = buf[1]
      BY <1>1, <1>3, <3>1 DEF StreamParts
    <3>3. Len(buf') # 0
      BY <1>1, <1>3 DEF StreamParts
    <3>4. buf' # <<>>
      BY <3>3
    <3>5. QED
      BY <2>2, <3>2, <3>4 DEF Continued
  <2>3. QED
    BY <2>1, <2>2
<1>5. Clean
  BY <1>2, <1>4 DEF Clean, R!Fits
<1>6. Extra' = Extra /\ Stored' = Stored /\ Length' = Length + 1
  <2>1. Extra' = Extra
    BY <1>2, <1>4 DEF Extra
  <2>2. Stored' = Stored
    BY <1>2 DEF Stored
  <2>3. Length' = Len(lines) + Extra + (Len(buf) + 1)
    BY <1>2, <1>3, <2>1 DEF Length
  <2>4. QED
    BY <1>1, <2>1, <2>2, <2>3 DEF Length, StreamParts
<1>7. ASSUME NEW i \in 1..Length PROVE Stream'[i] = Stream[i]
  <2>1. CASE i \in 1..Len(lines)
    BY <1>1, <1>2, <2>1 DEF StreamParts
  <2>2. CASE i = Len(lines) + 1 /\ Extra = 1
    BY <1>1, <1>2, <1>6, <2>2 DEF StreamParts
  <2>3. CASE i > Len(lines) + Extra
    <3> DEFINE j == i - (Len(lines) + Extra)
    <3>1. /\ j \in 1..Len(buf) /\ j \in 1..Len(buf')
          /\ i = Len(lines) + Extra + j
          /\ i = Len(lines') + Extra' + j
      BY <1>1, <1>2, <1>3, <1>6, <2>3 DEF StreamParts, Length
    <3> HIDE DEF j
    <3>2. QED
      BY <1>1, <1>3, <3>1 DEF StreamParts
  <2>4. \/ i \in 1..Len(lines)
        \/ i = Len(lines) + 1 /\ Extra = 1
        \/ i > Len(lines) + Extra
    <3>1. Len(lines) \in Nat /\ Extra \in {0, 1} /\ Length \in Nat
      BY <1>1 DEF StreamParts
    <3>2. QED
      BY <3>1
  <2>5. QED
    BY <2>1, <2>2, <2>3, <2>4
<1>8. Stream'[Length + 1] = r
  <2>1. /\ Length + 1 = Len(lines') + Extra' + (Len(buf) + 1)
        /\ Len(buf) + 1 \in 1..Len(buf')
    BY <1>1, <1>2, <1>3, <1>6 DEF StreamParts, Length
  <2>2. Stream'[Length + 1] = buf'[Len(buf) + 1].rec
    BY <1>1, <2>1 DEF StreamParts
  <2>3. QED
    BY <1>3, <2>2
<1>9. QED
  BY <1>5, <1>6, <1>7, <1>8

-------------------------------------------------------------------------------
(* The invariants.                                                         *)

LEMMA NextChain == Typed /\ Chain /\ [R!Next]_(R!vars) => Chain'
<1> SUFFICES ASSUME Typed, Chain, [R!Next]_(R!vars) PROVE Chain'
  OBVIOUS
<1>0. Len(buf) \in Nat
  BY DEF Typed
<1> USE DEF Chain, R!file, R!history
<1>1. CASE R!OpenNew \/ R!OpenAppend \/ R!Close \/ R!Closed \/ R!WriteReturns
           \/ UNCHANGED R!vars
  <2>1. UNCHANGED <<tail, buf>> /\ (handle' = "none" => buf = <<>>)
    BY <1>1 DEF R!OpenNew, R!OpenAppend, R!Close, R!Closed, R!WriteReturns, R!vars
  <2>2. QED
    BY <2>1 DEF Continued, R!Part
<1>2. CASE \E r \in Record : R!Write(r)
  <2>1. PICK r \in Record : R!Write(r)
    BY <1>2
  <2>2. /\ Len(buf') = Len(buf) + 1
        /\ \A i \in 1..Len(buf) : buf'[i] = buf[i]
        /\ buf'[Len(buf) + 1] = [rec |-> r, from |-> 0]
        /\ tail' = tail /\ handle' = "writing"
    <3>1. [rec |-> r, from |-> 0] \in Chunk
      BY DEF Chunk
    <3>2. buf' = Append(buf, [rec |-> r, from |-> 0]) /\ tail' = tail /\ handle' = "writing"
      BY <2>1 DEF R!Write
    <3>3. QED
      BY <3>1, <3>2, AppendProperties DEF Typed
  <2>3. ASSUME NEW i \in 2..Len(buf') PROVE buf'[i].from = 0
    <3>1. i = Len(buf) + 1 \/ i \in 2..Len(buf)
      BY <1>0, <2>2
    <3>2. QED
      BY <1>0, <2>2, <3>1
  <2>4. Continued' => Continued /\ buf'[1] = buf[1]
    <3>1. CASE Len(buf) = 0
      BY <2>2, <3>1 DEF Continued
    <3>2. CASE Len(buf) > 0
      <4>1. buf'[1] = buf[1] /\ buf # <<>>
        BY <1>0, <2>2, <3>2
      <4>2. QED
        BY <4>1 DEF Continued
    <3>3. QED
      BY <1>0, <3>1, <3>2
  <2>5. QED
    BY <2>2, <2>3, <2>4 DEF R!Part
<1>3. CASE R!Drain
  <2>1. /\ buf' = Tail(buf) /\ handle' # "none"
        /\ Len(Tail(buf)) = Len(buf) - 1
        /\ \A i \in 1..Len(Tail(buf)) : Tail(buf)[i] = buf[i + 1]
    BY <1>3, HeadTailProperties DEF R!Drain, Typed
  <2>2. \A i \in 1..Len(buf') : buf'[i].from = 0
    BY <1>0, <2>1
  <2>3. Continued' => 1 \in 1..Len(buf')
    <3>1. buf' \in Seq(Chunk)
      BY <1>3, <2>1, FirstChunk DEF R!Drain, Typed
    <3>2. buf' # <<>> => Len(buf') \in Nat \ {0}
      BY <3>1, EmptySeq
    <3>3. QED
      BY <3>2 DEF Continued
  <2>4. ~Continued'
    BY <2>2, <2>3 DEF Continued
  <2>5. QED
    BY <2>1, <2>2, <2>4
<1>4. CASE R!WriteFails
  <2>1. PICK stage \in Head(buf).from..2 :
          R!PutPart(Head(buf), stage) /\ buf' \in R!Left(stage)
    BY <1>4 DEF R!WriteFails
  <2>2. handle' = "idle" /\ buf # <<>>
    BY <1>4 DEF R!WriteFails
  <2>3. CASE buf' = <<>>
    <3>1. Len(buf') = 0 /\ ~Continued'
      BY <2>3 DEF Continued
    <3>2. QED
      BY <2>2, <3>1
  <2>4. CASE buf' = <<[Head(buf) EXCEPT !.from = stage]>> \o Tail(buf)
    <3>1. Head(buf) = buf[1] /\ buf[1] \in Chunk /\ Len(buf) > 0
      BY <2>2 DEF Typed
    <3>2. [Head(buf) EXCEPT !.from = stage] \in Chunk
      BY <3>1 DEF Chunk
    <3>3. /\ Tail(buf) \in Seq(Chunk) /\ Len(Tail(buf)) = Len(buf) - 1
          /\ \A j \in 1..Len(Tail(buf)) : Tail(buf)[j] = buf[j + 1]
      BY <2>2, HeadTailProperties DEF Typed
    <3>4. /\ Len(buf') = Len(buf)
          /\ buf'[1] = [Head(buf) EXCEPT !.from = stage]
          /\ \A j \in 2..Len(buf) : buf'[j] = Tail(buf)[j - 1]
      BY <1>0, <2>4, <3>1, <3>2, <3>3
    <3>5. buf'[1].rec = buf[1].rec /\ buf'[1].from = stage
      BY <3>1, <3>4 DEF Chunk
    <3>6. \A j \in 2..Len(buf') : buf'[j].from = 0
      BY <1>0, <3>3, <3>4
    <3>7. CASE stage = Head(buf).from
      <4>1. tail' = tail /\ buf'[1].from = buf[1].from
        BY <2>1, <3>1, <3>5, <3>7 DEF R!PutPart
      <4>2. Continued' => Continued
        BY <2>2, <4>1 DEF Continued
      <4>3. QED
        BY <2>2, <3>5, <3>6, <4>1, <4>2 DEF R!Part
    <3>8. CASE stage # Head(buf).from
      <4>1. tail' = R!Spoilt \/ tail' = R!Part(buf[1].rec, stage)
        BY <2>1, <3>1, <3>8 DEF R!PutPart
      <4>2. tail'.is = "bad" \/ tail' = R!Part(buf'[1].rec, buf'[1].from)
        BY <3>5, <4>1 DEF R!Spoilt
      <4>3. QED
        BY <2>2, <3>6, <4>2 DEF R!Part
    <3>9. QED
      BY <3>7, <3>8
  <2>5. QED
    BY <2>1, <2>3, <2>4 DEF R!Left
<1>5. CASE R!Lose
  <2>1. buf' = <<>>
    BY <1>5 DEF R!Lose
  <2>2. Len(buf') = 0 /\ ~Continued'
    BY <2>1 DEF Continued
  <2>3. QED
    BY <2>1, <2>2
<1>6. QED
  BY <1>1, <1>2, <1>3, <1>4, <1>5 DEF R!Next, R!Flushing, R!CloseFails

(* A step that only shortens the stream keeps what is tracked. *)
LEMMA ShortensKept ==
  ASSUME Typed, Typed', Kept, Clean, Shortens, UNCHANGED <<start, sent>>,
         handle' = "writing" => handle = "writing" /\ Length' = Length
  PROVE  Kept'
<1>1. StreamParts /\ StreamParts'
  BY StreamMade, PTL
<1>2. PICK n \in Nat : \E f :
        Tracked(Stream, Length, Stored, sent, start, n, f) /\ Latest(n, f)
  BY DEF Kept
<1>3. PICK f : Tracked(Stream, Length, Stored, sent, start, n, f) /\ Latest(n, f)
  BY <1>2
<1>4. /\ Length \in Nat /\ Length' \in Nat /\ Stored \in Nat /\ Stored' \in Nat
      /\ sent \in Seq(Call) /\ start \in Seq(Record) /\ Len(start) \in Nat
  BY <1>1 DEF StreamParts, Typed
<1> DEFINE q == Length' - Len(start)
<1>5. Shortened(Stream, Length, Stored, Stream', Length', Stored')
  BY DEF Shortens
<1>6. \E g : /\ Tracked(Stream', Length', Stored', sent, start, q, g)
            /\ q \in Nat
            /\ (Length' = Length => g = f)
  BY <1>3, <1>4, <1>5, StreamShortened
<1>7. PICK g : /\ Tracked(Stream', Length', Stored', sent, start, q, g)
               /\ q \in Nat
               /\ (Length' = Length => g = f)
  BY <1>6
<1>8. handle' = "writing" => q > 0 /\ g[q] = Len(sent)
  <2>1. SUFFICES ASSUME handle' = "writing" PROVE q > 0 /\ g[q] = Len(sent)
    OBVIOUS
  <2>2. Length = Len(start) + n
    BY <1>3 DEF Tracked
  <2>3. q = n
    BY <1>4, <2>1, <2>2
  <2>4. handle = "writing" /\ g = f
    BY <1>7, <2>1
  <2>5. QED
    BY <1>3, <2>3, <2>4 DEF Latest
<1> HIDE DEF q
<1>9. \E k \in Nat : \E h :
        /\ Tracked(Stream', Length', Stored', sent', start', k, h)
        /\ handle' = "writing" => k > 0 /\ h[k] = Len(sent')
  BY <1>7, <1>8
<1>10. QED
  BY <1>9 DEF Kept, Latest

LEMMA NextKept ==
  Typed /\ Typed' /\ Chain /\ Kept /\ [R!Next]_(R!vars) => Kept'
<1> SUFFICES ASSUME Typed, Typed', Chain, Kept, [R!Next]_(R!vars), Clean'
             PROVE  Kept'
  BY DEF Kept
<1>1. CASE \/ R!OpenNew \/ R!OpenAppend \/ R!Close \/ R!Closed
           \/ UNCHANGED R!vars
  <2>1. UNCHANGED <<lines, tail, buf, start, sent>>
    BY <1>1 DEF R!OpenNew, R!OpenAppend, R!Close, R!Closed, R!vars, R!file, R!history
  <2>2. handle' = "writing" => handle = "writing"
    BY <1>1 DEF R!OpenNew, R!OpenAppend, R!Close, R!Closed, R!vars
  <2>3. QED
    BY <2>1, <2>2, FileUnchanged, ShortensKept
<1>2. ASSUME NEW r \in Record, R!Write(r) PROVE Kept'
  <2>1. /\ Clean /\ Length' = Length + 1 /\ Stored' = Stored
        /\ \A i \in 1..Length : Stream'[i] = Stream[i]
        /\ Stream'[Length + 1] = r
    BY <1>2, WriteExtends
  <2>2. Extended(Stream, Length, Stream', r)
    BY <2>1 DEF Extended
  <2>3. /\ sent' = Append(sent, [rec |-> r, returned |-> FALSE])
        /\ start' = start
    BY <1>2 DEF R!Write
  <2>4. StreamParts
    BY StreamMade
  <2>5. /\ Length \in Nat /\ Stored \in Nat
        /\ sent \in Seq(Call) /\ start \in Seq(Record)
    BY <2>4 DEF StreamParts, Typed
  <2>6. PICK n \in Nat : \E f : Tracked(Stream, Length, Stored, sent, start, n, f)
    BY <2>1 DEF Kept
  <2>7. PICK f : Tracked(Stream, Length, Stored, sent, start, n, f)
    BY <2>6
  <2>8. \E g : /\ Tracked(Stream', Length + 1, Stored,
                          Append(sent, [rec |-> r, returned |-> FALSE]),
                          start, n + 1, g)
               /\ g[n + 1] = Len(sent) + 1
    BY <2>2, <2>5, <2>7, StreamExtended
  <2>9. Len(sent') = Len(sent) + 1
    <3>1. [rec |-> r, returned |-> FALSE] \in Call
      BY DEF Call
    <3>2. QED
      BY <2>3, <2>5, <3>1, AppendProperties
  <2>10. \E k \in Nat : \E g :
           /\ Tracked(Stream', Length', Stored', sent', start', k, g)
           /\ k > 0 /\ g[k] = Len(sent')
    <3>1. n + 1 \in Nat /\ n + 1 > 0
      OBVIOUS
    <3>2. QED
      BY <2>1, <2>3, <2>8, <2>9, <3>1
  <2>11. QED
    BY <2>10 DEF Kept, Latest
<1>3. CASE R!Drain
  <2>1. UNCHANGED <<handle, start, sent>>
    BY <1>3 DEF R!Drain, R!history
  <2>2. QED
    BY <1>3, <2>1, LineEnded, ShortensKept
<1>4. CASE R!WriteReturns
  <2>1. /\ UNCHANGED <<lines, tail, buf, start>> /\ buf = <<>>
        /\ handle = "writing" /\ handle' = "idle"
        /\ sent' = [sent EXCEPT ![Len(sent)].returned = TRUE]
    BY <1>4 DEF R!WriteReturns, R!file
  <2>2. Clean /\ Stream' = Stream /\ Length' = Length /\ Stored' = Stored
    BY <2>1 DEF Clean, Stream, Length, Stored, Extra, Continued, R!Fits
  <2>3. StreamParts
    BY StreamMade
  <2>4. /\ Length \in Nat /\ Stored \in Nat
        /\ sent \in Seq(Call) /\ start \in Seq(Record)
    BY <2>3 DEF StreamParts, Typed
  <2>5. Length <= Stored
    BY <2>1, <2>3 DEF Length, Stored, Extra, Continued, StreamParts
  <2>6. PICK n \in Nat : \E f :
          Tracked(Stream, Length, Stored, sent, start, n, f) /\ Latest(n, f)
    BY <2>2 DEF Kept
  <2>7. PICK f : /\ Tracked(Stream, Length, Stored, sent, start, n, f)
                 /\ n > 0 /\ f[n] = Len(sent)
    BY <2>1, <2>6 DEF Latest
  <2>8. Tracked(Stream, Length, Stored, [sent EXCEPT ![Len(sent)].returned = TRUE],
                start, n, f)
    BY <2>4, <2>5, <2>7, StreamReturned
  <2>9. Tracked(Stream', Length', Stored', sent', start', n, f)
    BY <2>1, <2>2, <2>8
  <2>10. QED
    BY <2>1, <2>9 DEF Kept, Latest
<1>5. CASE R!WriteFails
  <2>1. PICK stage \in Head(buf).from..2 :
          R!PutPart(Head(buf), stage) /\ buf' \in R!Left(stage)
    BY <1>5 DEF R!WriteFails
  <2>2. handle' = "idle" /\ UNCHANGED <<start, sent>> /\ buf # <<>>
    BY <1>5 DEF R!WriteFails
  <2>3. Clean /\ Shortens
    BY <2>1, <2>2, LineCutOff
  <2>4. QED
    BY <2>2, <2>3, ShortensKept
<1>6. CASE R!Lose
  <2>1. handle' = "none" /\ UNCHANGED <<start, sent>> /\ buf' = <<>>
    BY <1>6 DEF R!Lose
  <2>2. CASE buf = <<>> \/ handle = "idle"
    <3>1. UNCHANGED <<lines, tail>>
      BY <1>6, <2>2 DEF R!Lose, R!file
    <3>2. QED
      BY <2>1, <3>1, FileUnchanged, ShortensKept
  <2>3. CASE ~(buf = <<>> \/ handle = "idle")
    <3>1. PICK stage \in Head(buf).from..2 : R!PutPart(Head(buf), stage)
      BY <1>6, <2>3 DEF R!Lose
    <3>2. Clean /\ Shortens
      BY <2>1, <2>3, <3>1, LineCutOff
    <3>3. QED
      BY <2>1, <3>2, ShortensKept
  <2>4. QED
    BY <2>2, <2>3
<1>7. QED
  BY <1>1, <1>2, <1>3, <1>4, <1>5, <1>6 DEF R!Next, R!Flushing, R!CloseFails

LEMMA InitKept == Typed /\ R!Init => Chain /\ Kept
<1> SUFFICES ASSUME Typed, R!Init PROVE Chain /\ Kept
  OBVIOUS
<1>1. buf = <<>> /\ sent = <<>> /\ handle = "none" /\ Len(buf) = 0 /\ ~Continued
  BY DEF R!Init, Continued
<1>2. Chain
  BY <1>1 DEF Chain
<1>3. SUFFICES ASSUME Clean PROVE Kept
  BY <1>2 DEF Kept
<1>4. Len(lines) \in Nat /\ DOMAIN lines = 1..Len(lines)
  BY DEF Typed
<1>5. start = R!Content
  BY <1>1, <1>3, <1>4 DEF R!Init, R!Loadable, R!Fits, Clean
<1>6. /\ Length = Stored /\ Stored \in Nat
      /\ Extra = IF tail.is = "whole" THEN 1 ELSE 0
      /\ Stored = Len(lines) + Extra
  BY <1>1, <1>4 DEF Length, Stored, Extra
<1>7. StreamParts
  BY StreamMade
<1>8. /\ Len(start) = Stored
      /\ \A i \in 1..Len(start) : Stream[i] = start[i]
  <2>1. CASE tail.is = "whole"
    <3>1. tail.rec \in Record /\ start = lines \o <<tail.rec>>
      BY <1>3, <1>5, <2>1 DEF Clean, R!Fits, R!Content
    <3>2. /\ Len(start) = Len(lines) + 1
          /\ \A i \in 1..Len(lines) : start[i] = lines[i]
          /\ start[Len(lines) + 1] = tail.rec
      BY <1>4, <3>1 DEF Typed
    <3>3. \A i \in 1..Len(lines) + 1 : i \in 1..Len(lines) \/ i = Len(lines) + 1
      BY <1>4
    <3>4. QED
      BY <1>6, <1>7, <2>1, <3>2, <3>3 DEF StreamParts
  <2>2. CASE tail.is # "whole"
    <3>1. start = lines
      BY <1>5, <2>2, ConcatEmptySeq DEF R!Content, Typed
    <3>2. QED
      BY <1>4, <1>6, <1>7, <2>2, <3>1 DEF StreamParts
  <2>3. QED
    BY <2>1, <2>2
<1>9. Len(sent) = 0 /\ Len(start) = Len(start) + 0
  BY <1>1, <1>6, <1>8
<1>10. Tracked(Stream, Length, Stored, sent, start, 0, <<>>)
  BY <1>6, <1>8, <1>9 DEF Tracked
<1>11. Latest(0, <<>>)
  BY <1>1 DEF Latest
<1>12. QED
  BY <1>10, <1>11 DEF Kept

(* What is read back is the stored part of the stream. *)
LEMMA ContentStored ==
  ASSUME Typed, Chain, R!Loadable
  PROVE  /\ R!Content \in Seq(Record) /\ Len(R!Content) = Stored
         /\ \A i \in 1..Stored : R!Content[i] = Stream[i]
         /\ Stored <= Length
<1>1. StreamParts
  BY StreamMade
<1>2. Len(lines) \in Nat /\ DOMAIN lines = 1..Len(lines)
  BY DEF Typed
<1>3. lines \in Seq(Record)
  BY <1>2, SeqDef DEF R!Loadable, R!Fits, Typed
<1>4. CASE tail.is = "whole"
  <2>1. tail.rec \in Record /\ R!Content = lines \o <<tail.rec>>
    BY <1>4 DEF R!Loadable, R!Fits, R!Content
  <2>2. /\ R!Content \in Seq(Record)
        /\ Len(R!Content) = Len(lines) + 1
        /\ \A i \in 1..Len(lines) : R!Content[i] = lines[i]
        /\ R!Content[Len(lines) + 1] = tail.rec
    BY <1>3, <2>1
  <2>3. Stored = Len(lines) + 1
    BY <1>4 DEF Stored
  <2>4. Stream[Len(lines) + 1] = tail.rec /\ Stored <= Length
    <3>1. CASE ~Continued
      <4>1. Extra = 1
        BY <1>4, <3>1 DEF Extra
      <4>2. QED
        BY <1>1, <1>2, <2>3, <4>1 DEF StreamParts, Length
    <3>2. CASE Continued
      <4>1. tail = R!Part(buf[1].rec, buf[1].from) /\ Extra = 0
        BY <1>4, <3>2 DEF Chain, Extra
      <4>2. tail.rec = buf[1].rec
        BY <4>1 DEF R!Part
      <4>3. Len(buf) \in Nat /\ Len(buf) > 0
        BY <3>2, EmptySeq DEF Continued, Typed
      <4>4. Len(lines) + Extra + 1 = Len(lines) + 1 /\ 1 \in 1..Len(buf)
        BY <1>2, <4>1, <4>3
      <4>5. Stored <= Length
        BY <1>2, <2>3, <4>1, <4>3 DEF Length
      <4>6. QED
        BY <1>1, <4>2, <4>4, <4>5 DEF StreamParts
    <3>3. QED
      BY <3>1, <3>2
  <2>5. \A i \in 1..Stored : i \in 1..Len(lines) \/ i = Len(lines) + 1
    BY <1>2, <2>3
  <2>6. QED
    BY <1>1, <2>2, <2>3, <2>4, <2>5 DEF StreamParts
<1>5. CASE tail.is # "whole"
  <2>1. R!Content = lines
    BY <1>5, ConcatEmptySeq DEF R!Content, Typed
  <2>2. Stored = Len(lines) /\ Stored <= Length
    BY <1>1, <1>2, <1>5 DEF Stored, Length, StreamParts
  <2>3. QED
    BY <1>1, <1>3, <2>1, <2>2 DEF StreamParts
<1>6. QED
  BY <1>4, <1>5

LEMMA KeptIsAcknowledged == Typed /\ Chain /\ Kept => AcknowledgedKept
<1> SUFFICES ASSUME Typed, Chain, Kept, R!Loadable
             PROVE  \E n \in 0..Len(sent) : \E order \in [1..n -> 1..Len(sent)] :
                      /\ \A j, k \in 1..n : j < k => order[j] < order[k]
                      /\ \A i \in 1..Len(sent) :
                           sent[i].returned => \E k \in 1..n : order[k] = i
                      /\ R!Content = start \o R!Called(order)
  BY DEF AcknowledgedKept, R!AcknowledgedKept
<1>1. /\ R!Content \in Seq(Record) /\ Len(R!Content) = Stored
      /\ \A i \in 1..Stored : R!Content[i] = Stream[i]
      /\ Stored <= Length
  BY ContentStored
<1>2. StreamParts
  BY StreamMade
<1>3. /\ Length \in Nat /\ Stored \in Nat
      /\ sent \in Seq(Call) /\ start \in Seq(Record)
      /\ Len(sent) \in Nat /\ Len(start) \in Nat
  BY <1>2 DEF StreamParts, Typed
<1>4. Clean
  <2>1. DOMAIN lines = 1..Len(lines)
    BY DEF Typed
  <2>2. QED
    BY <2>1 DEF Clean, R!Loadable, R!Fits
<1>5. PICK m \in Nat : \E f : Tracked(Stream, Length, Stored, sent, start, m, f)
  BY <1>4 DEF Kept
<1>6. PICK f : Tracked(Stream, Length, Stored, sent, start, m, f)
  BY <1>5
<1>7. Shortened(Stream, Length, Stored, Stream, Stored, Stored)
  BY <1>1, <1>3 DEF Shortened
<1> DEFINE n == Stored - Len(start)
<1>8. PICK g : Tracked(Stream, Stored, Stored, sent, start, n, g) /\ n \in Nat
  <2>1. \E g : Tracked(Stream, Stored, Stored, sent, start, n, g) /\ n \in Nat
    BY <1>3, <1>6, <1>7, StreamShortened
  <2>2. QED
    BY <2>1
<1>9. Stored = Len(start) + n
  BY <1>3
<1> HIDE DEF n
<1>10. g \in [1..n -> 1..Len(sent)]
  BY <1>8 DEF Tracked
<1>11. n \in 0..Len(sent)
  <2>1. CASE n = 0
    BY <1>3, <2>1
  <2>2. CASE n > 0
    <3>1. n \in 1..n /\ n <= g[n] /\ g[n] \in 1..Len(sent)
      BY <1>8, <1>10, <2>2 DEF Tracked
    <3>2. QED
      BY <1>3, <1>8, <3>1
  <2>3. QED
    BY <1>8, <2>1, <2>2
<1>12. \A j, k \in 1..n : j < k => g[j] < g[k]
  BY <1>8 DEF Tracked
<1>13. \A i \in 1..Len(sent) : sent[i].returned => \E k \in 1..n : g[k] = i
  BY <1>8 DEF Tracked
<1>14. R!Content = start \o R!Called(g)
  <2> DEFINE made == R!Called(g)
  <2>1. made = [k \in 1..n |-> sent[g[k]].rec]
    BY <1>10 DEF R!Called
  <2>2. \A k \in 1..n : g[k] \in 1..Len(sent) /\ sent[g[k]] \in Call
    BY <1>3, <1>10, ElementOfSeq
  <2>3. \A k \in 1..n : sent[g[k]].rec \in Record
    BY <2>2 DEF Call
  <2> HIDE DEF made
  <2>4. /\ made \in Seq(Record) /\ Len(made) = n
        /\ \A k \in 1..n : made[k] = sent[g[k]].rec
    BY <1>8, <2>1, <2>3
  <2>5. /\ start \o made \in Seq(Record)
        /\ Len(start \o made) = Len(start) + n
        /\ \A i \in 1..(Len(start) + n) :
             (start \o made)[i]
               = IF i <= Len(start) THEN start[i] ELSE made[i - Len(start)]
    BY <1>3, <2>4, ConcatProperties
  <2>6. ASSUME NEW i \in 1..(Len(start) + n) PROVE R!Content[i] = (start \o made)[i]
    <3>1. CASE i <= Len(start)
      <4>1. i \in 1..Len(start) /\ i \in 1..Stored
        BY <1>3, <1>8, <1>9, <3>1
      <4>2. Stream[i] = start[i]
        BY <1>8, <4>1 DEF Tracked
      <4>3. QED
        BY <1>1, <2>5, <3>1, <4>1, <4>2
    <3>2. CASE i > Len(start)
      <4> DEFINE k == i - Len(start)
      <4>1. k \in 1..n /\ i = Len(start) + k /\ i \in 1..Stored /\ ~(i <= Len(start))
        BY <1>3, <1>8, <1>9, <3>2
      <4>2. (start \o made)[i] = made[k]
        BY <2>5, <4>1
      <4> HIDE DEF k
      <4>3. Stream[Len(start) + k] = sent[g[k]].rec
        BY <1>8, <4>1 DEF Tracked
      <4>4. QED
        BY <1>1, <2>4, <4>1, <4>2, <4>3
    <3>3. n \in Nat
      BY <1>8
    <3>4. QED
      <4>1. i <= Len(start) \/ i > Len(start)
        BY <1>3, <3>3
      <4>2. QED
        BY <3>1, <3>2, <4>1, Zenon
  <2>7. R!Content = start \o made
    BY <1>1, <1>9, <2>5, <2>6, SeqEqual
  <2>8. QED
    BY <2>7 DEF made
<1>15. QED
  BY <1>10, <1>11, <1>12, <1>13, <1>14

(* Whatever fails, whatever program writes and whenever it is killed: a    *)
(* recording that can be read back holds, behind what it held at first,    *)
(* every record whose write() returned, once and in order, and no other    *)
(* than those of calls.                                                    *)
THEOREM AcknowledgedIsKept == Spec => []AcknowledgedKept
<1>1. Init => Typed /\ Chain /\ Kept
  BY InitTyped, InitKept DEF Init
<1>2. QED
  BY <1>1, KeptIsAcknowledged, InitWhere, NextWhere, NextRecorder, NextTyped,
     NextChain, NextKept, PTL DEF Spec

===============================================================================
