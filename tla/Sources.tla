-------------------------------- MODULE Sources -------------------------------
(***************************************************************************)
(* One poll of a live source: UrlSource (sources/url.py), with the answers *)
(* of any HTTP server, or FileSource (sources/file.py), whose file another *)
(* program may replace at any moment.                                      *)
(*                                                                         *)
(* A poll ends with a snapshot or with the class of its failure: the       *)
(* SourceError it raises ("unavailable", "invalid", "unsupported",         *)
(* "toolarge"), or "crash" for an exception that is none.                  *)
(***************************************************************************)
EXTENDS Naturals

CONSTANTS
  Record,        (* The snapshots a document can hold.                     *)
  None,          (* No outcome.                                            *)
  MaxRedirects   (* _MAX_REDIRECTS                                         *)

VARIABLES
  kind,     (* "url", "file" or None.                                      *)
  step,     (* What the poll does next.                                    *)
  hop,      (* Redirects followed.                                         *)
  client,   (* An HTTP client is open.                                     *)
  big,      (* More than max_bytes of the answer have come.                *)
  got       (* How the last poll ended.                                    *)

vars == <<kind, step, hop, client, big, got>>

Steps == {"idle", "get", "answer", "stat", "read", "parse", "close"}
Failures == {"unavailable", "invalid", "unsupported", "toolarge", "crash"}

Init ==
  /\ kind = None
  /\ step = "idle"
  /\ hop = 0
  /\ client = FALSE
  /\ big = FALSE
  /\ got = None

PollBegins ==
  /\ step = "idle"
  /\ \/ kind' = "url" /\ step' = "get" /\ client' = TRUE
     \/ kind' = "file" /\ step' = "stat" /\ client' = FALSE
  /\ hop' = 0
  /\ big' = FALSE
  /\ got' = None

Continue(s) == step' = s /\ UNCHANGED <<kind, hop, client, big, got>>

End(o) == step' = "close" /\ got' = o /\ UNCHANGED <<kind, hop, client, big>>

(* client.get(): something of the answer is there... *)
Answers ==
  /\ step = "get"
  /\ step' = "answer" /\ big' = FALSE
  /\ UNCHANGED <<kind, hop, client, got>>

(* ... but the call reads on until the answer ends, however long that is   *)
(* and however much comes; a timeout is one of a single read.              *)
BodyArrives ==
  /\ step = "answer" /\ ~big
  /\ big' = TRUE
  /\ UNCHANGED <<kind, step, hop, client, got>>

Asks == step' = "get" /\ UNCHANGED <<kind, client, big, got>>

(* Mistake: the count starts again with the address that follows the last. *)
RedirectedForever ==
  /\ step = "answer"
  /\ hop' = (hop + 1) % (MaxRedirects + 1)
  /\ Asks

(* Mistake: one redirect more than there may be. *)
RedirectedOnceMore ==
  /\ step = "answer"
  /\ IF hop <= MaxRedirects THEN hop' = hop + 1 /\ Asks ELSE End("unavailable")

(* The server redirects.  The target is joined the wrong way round, so     *)
(* that the address asked next is the same one again.                      *)
Redirected ==
  /\ step = "answer"
  /\ IF hop < MaxRedirects THEN hop' = hop + 1 /\ Asks ELSE End("unavailable")

(* Timeouts, network errors, a redirect to nowhere and codes from 400 on   *)
(* are classified; a redirect to what is no address and a body that cannot *)
(* be decompressed are not.                                                *)
GetFails ==
  /\ step \in {"get", "answer"}
  /\ \E o \in {"unavailable", "crash"} : End(o)

(* The answer has ended, and only now its size is looked at. *)
BodyRead ==
  /\ step = "answer"
  /\ IF big THEN End("toolarge") ELSE Continue("parse") \/ End("invalid")

(* stat(): the file is there and not too large... *)
FileStat == step = "stat" /\ (Continue("read") \/ End("unavailable"))

(* ... but when it is read it may be another one, or gone. *)
FileRead ==
  /\ step = "read"
  /\ Continue("parse") \/ End("unavailable") \/ End("invalid")

(* A half-written document is no JSON, one without aircraft no schema; a   *)
(* number of more digits than int() takes is not classified.               *)
Parse ==
  /\ step = "parse"
  /\ \E o \in {"invalid", "unsupported", "crash"} \union Record : End(o)

(* The caller closes the source in any case. *)
Close ==
  /\ step = "close"
  /\ step' = "idle"
  /\ client' = FALSE
  /\ UNCHANGED <<kind, hop, big, got>>

Polling ==
  \/ Answers \/ BodyArrives \/ Redirected \/ GetFails \/ BodyRead
  \/ FileStat \/ FileRead \/ Parse

===============================================================================
