--------------------------- MODULE MCTransportInput ---------------------------
(***************************************************************************)
(* Values for TLC: a key, a lone Escape, Enter, arrows, the two kinds of   *)
(* negotiation, and sequences the decoder does not know or that are longer *)
(* than its bounds, which are scaled down to the length of two arrows.     *)
(***************************************************************************)
EXTENDS TransportInput

Unit(bytes, key) == [bytes |-> bytes, key |-> key]

Pressed ==
  {Unit(<<"q">>, "q"), Unit(<<"cr">>, "ENTER"), Unit(<<"esc">>, "ESC"),
   Unit(<<"esc", "[", "A">>, "UP")}

Negotiations ==
  {Unit(<<"iac", "do", "1">>, "none"),
   Unit(<<"iac", "sb", "A", "iac", "se">>, "none")}

Foreign ==
  {Unit(<<"esc", "[", "q">>, "none"),
   Unit(<<"esc", "[", "1", "1", "1", "1", "1", "1", "q">>, "none"),
   Unit(<<"iac", "sb", "q", "q", "q", "q", "q", "q", "iac", "se">>, "none")}

MCUnits == Pressed \union Negotiations \union Foreign

MCPressed == Pressed

===============================================================================
