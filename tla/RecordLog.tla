------------------------------- MODULE RecordLog ------------------------------
(***************************************************************************)
(* What a recording promises its reader: a log that is only ever added to  *)
(* at the end, until a line that cannot be read seals it.  Recorder.tla    *)
(* implements it.                                                          *)
(***************************************************************************)
EXTENDS Sequences

CONSTANT Record

VARIABLES
  log,      (* The records that can be read before the first bad line.     *)
  sealed    (* There is a bad line.                                        *)

Init == log \in Seq(Record) /\ sealed \in BOOLEAN

Add(r) == ~sealed /\ log' = Append(log, r) /\ UNCHANGED sealed

Seal == ~sealed /\ sealed' = TRUE /\ UNCHANGED log

Spec == Init /\ [][(\E r \in Record : Add(r)) \/ Seal]_<<log, sealed>>

===============================================================================
