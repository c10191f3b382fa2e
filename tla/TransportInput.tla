---------------------------- MODULE TransportInput ----------------------------
(***************************************************************************)
(* KeyDecoder and read_key() of transport_input.py: bytes of the caller's  *)
(* terminal become keys.  A read returns any part of what was sent, so the *)
(* decoder keeps what it cannot decide yet; an Escape that nothing follows *)
(* is a key of its own after two reads that time out.                      *)
(*                                                                         *)
(* Data.  A byte is a member of a small set, one per class the code tells  *)
(* apart: "[", "A" and "q" are in 0x40..0x7E and so end a CSI sequence,    *)
(* "1" is any other printable byte, "sb", "se" and "do" (DO, DONT, WILL,   *)
(* WONT) are Telnet commands, which are not printable.  "A" is any of the  *)
(* four arrow letters.  The terminal sends whole Units, records of bytes   *)
(* and of the key they mean ("none" for a negotiation); reads cut them.    *)
(*                                                                         *)
(* The debug log is left out.  The SS3 arrows (ESC O A) of the table in    *)
(* _escape_key are not in the model: the third test of that function sends *)
(* them another way.                                                       *)
(***************************************************************************)
EXTENDS Integers, Sequences, FiniteSets

CONSTANTS
  Units,      (* What the terminal may send: [bytes, key].                 *)
  MaxEscape,  (* MAX_ESCAPE_BYTES                                          *)
  MaxTelnet,  (* MAX_TELNET_BYTES                                          *)
  MaxBytes,   (* Bound: bytes one read returns (64 in the code).           *)
  MaxUnits    (* Bound: units sent.                                        *)

Byte == {"esc", "[", "A", "q", "1", "cr", "iac", "sb", "se", "do"}
Key  == {"[", "A", "q", "1", "ENTER", "ESC", "UP"}

ASSUME InputAssumption ==
  /\ Units \subseteq [bytes : Seq(Byte) \ {<<>>}, key : Key \union {"none"}]
  /\ MaxEscape \in Nat \ {0, 1}
  /\ MaxTelnet \in Nat \ {0, 1}
  /\ MaxBytes \in Nat \ {0}
  /\ MaxUnits \in Nat

CsiFinal == {"[", "A", "q"}

(* What a terminal means by the bytes it sends at once: a key, an Escape,  *)
(* Enter, a CSI sequence, which ends at its first final byte and is a key  *)
(* if it is that of an arrow, or a Telnet negotiation.  A "[" alone is not *)
(* among them: typed right behind an Escape it begins an arrow.            *)
Understood(u) ==
  LET b == u.bytes
      n == Len(u.bytes)
      Is(key) == u.key = key
  IN
  \/ n = 1 /\ b[1] = "esc" /\ Is("ESC")
  \/ n = 1 /\ b[1] = "cr" /\ Is("ENTER")
  \/ n = 1 /\ b[1] \in {"A", "q", "1"} /\ Is(b[1])
  \/ /\ n >= 3 /\ b[1] = "esc" /\ b[2] = "["
     /\ b[n] \in CsiFinal /\ \A i \in 3..n-1 : b[i] \notin CsiFinal
     /\ Is(IF n = 3 /\ b[3] = "A" THEN "UP" ELSE "none")
  \/ n = 2 /\ b[1] = "iac" /\ b[2] \notin {"sb", "do"} /\ Is("none")
  \/ n = 3 /\ b[1] = "iac" /\ b[2] = "do" /\ Is("none")
  \/ /\ n >= 4 /\ b[1] = "iac" /\ b[2] = "sb"
     /\ b[n - 1] = "iac" /\ b[n] = "se"
     /\ \A i \in 3..n-2 : ~ (b[i] = "iac" /\ b[i + 1] = "se")
     /\ Is("none")

ASSUME UnitsAssumption == \A u \in Units : Understood(u)

VARIABLES
  wire,       (* Bytes sent and not read yet.                              *)
  units,      (* Number of units sent.                                     *)
  linked,     (* transport.is_connected()                                  *)
  pc,         (* Where read_key() is: "idle" between two calls, "parse",   *)
              (* "second" before its second read, "again" parsing that,    *)
              (* "gone" when it has met the end of the connection.         *)
  buffer,     (* _buffer                                                   *)
  ready,      (* _ready                                                    *)
  keys,       (* History: keys returned by read_key().                     *)
  meant,      (* History: keys meant by the units read to their end.       *)
  odd         (* History: what happened that may lose keys.                *)

decoder   == <<buffer, ready>>
inputVars == <<wire, units, linked, pc, decoder, keys, meant, odd>>

Min2(a, b) == IF a < b THEN a ELSE b

(* The sequence s without the elements k. *)
Without(s, k) ==
  LET kept[n \in 0..Len(s)] ==
        IF n = 0 THEN <<>>
        ELSE IF s[n] = k THEN kept[n - 1] ELSE Append(kept[n - 1], s[n])
  IN  kept[Len(s)]

InputInit ==
  /\ wire = <<>>
  /\ units = 0
  /\ linked = TRUE
  /\ pc = "idle"
  /\ buffer = <<>>
  /\ ready = <<>>
  /\ keys = <<>>
  /\ meant = <<>>
  /\ odd = {}

-------------------------------------------------------------------------------
(* The terminal and the transport.  The last byte of a unit carries its    *)
(* key, so that `meant` grows when it is read.  What is sent while the     *)
(* decoder is at work is not looked at before the next read, so nothing is *)
(* lost by letting the terminal act only when a read may follow.           *)

Sent(u) ==
  [i \in 1..Len(u.bytes) |->
     [byte  |-> u.bytes[i],
      first |-> i = 1,
      key   |-> IF i = Len(u.bytes) THEN u.key ELSE "none"]]

BeforeRead == pc \in {"idle", "second"}

Send(u) ==
  /\ BeforeRead
  /\ linked
  /\ units < MaxUnits
  /\ units' = units + 1
  /\ wire' = wire \o Sent(u)
  /\ UNCHANGED <<linked, pc, decoder, keys, meant, odd>>

MidUnit == wire # <<>> /\ ~wire[1].first

(* transport.read() returns the next n bytes and feed() buffers them. *)
Receive(n) ==
  LET got == SubSeq(wire, 1, n) IN
  /\ buffer' = buffer \o [i \in 1..n |-> got[i].byte]
  /\ meant' = meant \o Without([i \in 1..n |-> got[i].key], "none")
  /\ wire' = SubSeq(wire, n + 1, Len(wire))

-------------------------------------------------------------------------------
(* _parse(), one item of its loop at a time.                               *)

Parsing == pc \in {"parse", "again"}

After(n) == SubSeq(buffer, n + 1, Len(buffer))

Continue == UNCHANGED <<wire, units, linked, pc, keys, meant>>

(* Mistake: everything above the control characters is a key. *)
PrintableUnbounded == {"[", "A", "q", "1", "iac", "sb", "se", "do"}

Printable == {"[", "A", "q", "1"}

Plain ==
  /\ Parsing
  /\ buffer # <<>>
  /\ buffer[1] \notin {"iac", "esc"}
  /\ buffer' = After(1)
  /\ ready' = CASE buffer[1] = "cr" -> Append(ready, "ENTER")
              [] buffer[1] \in Printable -> Append(ready, buffer[1])
              [] OTHER -> ready
  /\ UNCHANGED odd
  /\ Continue

(* Where IAC SE is found in a subnegotiation. *)
SubEnds ==
  {i \in 3..Min2(Len(buffer) - 1, MaxTelnet + 1) :
     buffer[i] = "iac" /\ buffer[i + 1] = "se"}

Least(S) == CHOOSE i \in S : \A j \in S : i <= j

(* Mistake: options are not part of the command. *)
IacLengthNoOption ==
  CASE Len(buffer) < 2 -> 0
    [] Len(buffer) >= 2 /\ buffer[2] = "sb" ->
         IF SubEnds # {} THEN Least(SubEnds) + 1
         ELSE IF Len(buffer) > MaxTelnet THEN 1 ELSE 0
    [] OTHER -> 2

(* Mistake: an unfinished subnegotiation is waited for without a bound. *)
IacLengthUnbounded ==
  CASE Len(buffer) < 2 -> 0
    [] Len(buffer) >= 2 /\ buffer[2] = "sb" ->
         IF SubEnds # {} THEN Least(SubEnds) + 1 ELSE 0
    [] Len(buffer) >= 2 /\ buffer[2] = "do" ->
         IF Len(buffer) < 3 THEN 0 ELSE 3
    [] OTHER -> 2

(* Bytes _strip_iac deletes; 0 when it must wait for more.  An unfinished  *)
(* subnegotiation that is too long loses its IAC and is then read as keys. *)
IacLength ==
  CASE Len(buffer) < 2 -> 0
    [] Len(buffer) >= 2 /\ buffer[2] = "sb" ->
         IF SubEnds # {} THEN Least(SubEnds) + 1
         ELSE IF Len(buffer) > MaxTelnet THEN 1 ELSE 0
    [] Len(buffer) >= 2 /\ buffer[2] = "do" ->
         IF Len(buffer) < 3 THEN 0 ELSE 3
    [] OTHER -> 2

IacWaits == buffer # <<>> /\ buffer[1] = "iac" /\ IacLength = 0

StripIac ==
  /\ Parsing
  /\ buffer # <<>>
  /\ buffer[1] = "iac"
  /\ IacLength > 0
  /\ buffer' = After(IacLength)
  /\ odd' = IF IacLength = 1 THEN odd \union {"foreign"} ELSE odd
  /\ UNCHANGED ready
  /\ Continue

-------------------------------------------------------------------------------
(* _escape_key().                                                          *)

PendingEscape == buffer # <<>> /\ buffer[1] = "esc"

IsCsi == PendingEscape /\ Len(buffer) > 1 /\ buffer[2] = "["

CsiEnds == {i \in 3..Len(buffer) : buffer[i] \in CsiFinal}

(* Escape and another byte, which is swallowed if it is Enter. *)
LoneEscape ==
  /\ Parsing
  /\ PendingEscape
  /\ Len(buffer) > 1
  /\ buffer[2] # "["
  /\ buffer' = After(IF buffer[2] = "cr" THEN 2 ELSE 1)
  /\ ready' = Append(ready, "ESC")
  /\ UNCHANGED odd
  /\ Continue

(* The whole buffer is measured, not the sequence at its head. *)
LongEscape ==
  /\ Parsing
  /\ IsCsi
  /\ Len(buffer) > MaxEscape
  /\ buffer' = IF CsiEnds = {} THEN <<>> ELSE After(Least(CsiEnds))
  /\ ready' = Append(ready, "ESC")
  /\ odd' = odd \union {"crowded"}
  /\ Continue

Arrow ==
  /\ Parsing
  /\ IsCsi
  /\ Len(buffer) <= MaxEscape
  /\ CsiEnds # {}
  /\ SubSeq(buffer, 1, Least(CsiEnds)) = <<"esc", "[", "A">>
  /\ buffer' = After(3)
  /\ ready' = Append(ready, "UP")
  /\ UNCHANGED odd
  /\ Continue

EscapeWaits ==
  \/ PendingEscape /\ Len(buffer) = 1
  \/ IsCsi /\ Len(buffer) <= MaxEscape /\ CsiEnds = {}

-------------------------------------------------------------------------------
(* read_key().                                                             *)

(* What read_key() returns when the loop is over: a key, or what           *)
(* flush_escape() makes of the buffer b after a second read, or nothing.   *)
Give(b) ==
  IF ready # <<>>
  THEN /\ keys' = Append(keys, Head(ready))
       /\ ready' = Tail(ready)
       /\ buffer' = b
  ELSE IF pc = "again" /\ b # <<>> /\ b[1] = "esc"
  THEN /\ keys' = Append(keys, "ESC")
       /\ buffer' = <<>>
       /\ UNCHANGED ready
  ELSE /\ buffer' = b
       /\ UNCHANGED <<ready, keys>>

Split == IF MidUnit THEN odd \union {"split"} ELSE odd

ParseEnds ==
  /\ Parsing
  /\ buffer = <<>> \/ IacWaits \/ EscapeWaits
  /\ Give(buffer)
  /\ odd' = IF pc = "again" /\ ready = <<>> /\ PendingEscape THEN Split ELSE odd
  /\ pc' = "idle"
  /\ UNCHANGED <<wire, units, linked, meant>>

(* Any other sequence is dropped, and ends the loop although more bytes    *)
(* may be waiting behind it.                                               *)
UnknownEscape ==
  /\ Parsing
  /\ IsCsi
  /\ Len(buffer) <= MaxEscape
  /\ CsiEnds # {}
  /\ SubSeq(buffer, 1, Least(CsiEnds)) # <<"esc", "[", "A">>
  /\ Give(After(Least(CsiEnds)))
  /\ odd' = odd \union {"foreign"}
  /\ pc' = "idle"
  /\ UNCHANGED <<wire, units, linked, meant>>

(* A key is ready from an earlier read. *)
ReadyKey ==
  /\ pc = "idle"
  /\ ready # <<>>
  /\ Give(buffer)
  /\ UNCHANGED <<wire, units, linked, pc, meant, odd>>

ReadBytes ==
  /\ pc = "idle"
  /\ ready = <<>>
  /\ linked
  /\ \E n \in 1..Min2(MaxBytes, Len(wire)) : Receive(n)
  /\ pc' = "parse"
  /\ UNCHANGED <<units, linked, ready, keys, odd>>

(* The read times out while an Escape is pending; without one read_key()   *)
(* returns and nothing has changed.                                        *)
FirstNothing ==
  /\ pc = "idle"
  /\ ready = <<>>
  /\ linked
  /\ PendingEscape
  /\ pc' = "second"
  /\ UNCHANGED <<wire, units, linked, decoder, keys, meant, odd>>

ReadMore ==
  /\ pc = "second"
  /\ linked
  /\ \E n \in 1..Min2(MaxBytes, Len(wire)) : Receive(n)
  /\ pc' = "again"
  /\ UNCHANGED <<units, linked, ready, keys, odd>>

(* Mistake: an Escape that stays alone is kept. *)
SecondNothingKept ==
  /\ pc = "second"
  /\ pc' = "idle"
  /\ UNCHANGED <<wire, units, linked, decoder, keys, meant, odd>>

(* The second read times out as well, or meets the end of the connection,  *)
(* which is not looked at: the pending Escape is returned.                 *)
SecondNothing ==
  /\ pc = "second"
  /\ pc' = "idle"
  /\ buffer' = <<>>
  /\ keys' = Append(keys, "ESC")
  /\ odd' = Split
  /\ UNCHANGED <<wire, units, linked, ready, meant>>

HangUp ==
  /\ BeforeRead
  /\ linked
  /\ linked' = FALSE
  /\ UNCHANGED <<wire, units, pc, decoder, keys, meant, odd>>

(* A first read after the end raises InputDisconnected. *)
ReadEnd ==
  /\ pc = "idle"
  /\ ready = <<>>
  /\ ~linked
  /\ pc' = "gone"
  /\ UNCHANGED <<wire, units, linked, decoder, keys, meant, odd>>

Decode == Plain \/ StripIac \/ LoneEscape \/ LongEscape \/ Arrow
          \/ ParseEnds \/ UnknownEscape

ReadKey == ReadyKey \/ ReadBytes \/ FirstNothing \/ ReadMore
           \/ SecondNothing \/ ReadEnd

InputNext ==
  \/ \E u \in Units : Send(u)
  \/ HangUp
  \/ Decode
  \/ ReadKey

InputSpec == InputInit /\ [][InputNext]_inputVars

(* The runtime calls read_key() again and again, and a read returns.       *)
FairInput == InputSpec /\ WF_inputVars(Decode \/ ReadKey)

-------------------------------------------------------------------------------
(* Properties.  Three things may lose, add or delay keys and are recorded  *)
(* in `odd`: "split", an Escape flushed in the middle of a unit (its bytes *)
(* came too far apart), "foreign", a CSI sequence the table does not hold  *)
(* or a subnegotiation over its bound, and "crowded", more than MaxEscape  *)
(* bytes in the buffer behind an Escape.                                   *)

(* Type invariant of the decoder and of the reading. *)
InputTypeOK ==
  /\ wire \in Seq([byte : Byte, first : BOOLEAN, key : Key \union {"none"}])
  /\ units \in 0..MaxUnits
  /\ linked \in BOOLEAN
  /\ pc \in {"idle", "parse", "second", "again", "gone"}
  /\ buffer \in Seq(Byte)
  /\ ready \in Seq(Key) /\ keys \in Seq(Key) /\ meant \in Seq(Key)
  /\ odd \subseteq {"split", "foreign", "crowded"}

(* Whatever is sent, the decoder keeps a bounded number of bytes from one  *)
(* call of read_key() to the next: sequences that never end do not fill    *)
(* the memory of the door.                                                 *)
BoundedBuffer ==
  pc \in {"idle", "second"} =>
    Len(buffer) <= IF MaxEscape > MaxTelnet THEN MaxEscape ELSE MaxTelnet

(* "Enter has no action": it is not counted (an Escape swallows it). *)
Keys == Without(keys \o ready, "ENTER")

Meant == Without(meant, "ENTER")

Decoded == Keys = Meant \/ (PendingEscape /\ Append(Keys, "ESC") = Meant)

(* However reads cut the stream, between two calls the keys decoded are    *)
(* those meant by the units received, in their order, an Escape that may   *)
(* still become an arrow apart: no negotiation byte is taken for a key     *)
(* (docs/keyboard-controls.md:9-11).                                       *)
Faithful == pc = "idle" /\ odd = {} => Decoded

(* tests/test_m4_door.py, test_read_key_preserves_every_key_from_one_read: *)
(* then keys are also preserved when one read returns many of them.        *)
EveryKeyOfARead == pc = "idle" /\ odd \subseteq {"crowded"} => Decoded

(* Every key pressed is handed to the runtime in the end; in particular an *)
(* Escape pressed alone is, although its byte begins every arrow.          *)
KeysArrive ==
  <>[](odd = {} /\ linked => Without(keys, "ENTER") = Meant /\ wire = <<>>)

===============================================================================
