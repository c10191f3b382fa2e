------------------------------- MODULE RadarView ------------------------------
(***************************************************************************)
(* What a caller sees: the loop of run_interactive() (runtime.py) as far   *)
(* as it draws, render_radar() (render/radar.py) and the serializers of    *)
(* render/ansi.py with ScreenBuffer.diff().                                *)
(*                                                                         *)
(* Every frame draws a list that the engine made anew: any aircraft in any *)
(* order (sorting is by keys that may change from frame to frame), each at *)
(* a cell of the plot or at none (out of range, on the border or on the    *)
(* receiver's cell).  The range, the labels, the rings and the texts are   *)
(* left out; a row of the list is the aircraft it names.                   *)
(***************************************************************************)
EXTENDS Naturals, SequencesExt

CONSTANTS
  Aircraft,
  Emergency,   (* Those in an emergency...                                 *)
  SaysNone,    (* ... and those whose emergency is the text "none".        *)
  Ground,      (* Those on the ground.                                     *)
  Plot,        (* The cells of the plot.                                   *)
  Rows,        (* Number of rows of the list that fit.                     *)
  Covered,     (* The cells the help box draws over.                       *)
  None

Cells == Plot \union 1..Rows

(* A cell of the screen: what it shows, and its style. *)
Glyphs == [is : Aircraft \union {"blank", "help", "emergency", "ground", "aircraft"},
           inverse : BOOLEAN,
           red : BOOLEAN]

Buffers == [Cells -> Glyphs]

ASSUME ViewAssumption ==
  /\ IsFiniteSet(Aircraft)
  /\ Emergency \union SaysNone \union Ground \subseteq Aircraft
  /\ Emergency \intersect SaysNone = {}
  /\ Rows \in Nat
  /\ Covered \subseteq Plot \union 1..Rows
  /\ None \notin Aircraft \union Plot \union Buffers

VARIABLES
  color,      (* config.color                                              *)
  at,         (* "frame" or "key".                                         *)
  items,      (* items                                                     *)
  where,      (* The cell of each aircraft, or None.                       *)
  index,      (* selection_index                                           *)
  selected,   (* selected                                                  *)
  ground,     (* show_ground                                               *)
  help,       (* help_overlay                                              *)
  current,    (* current, the buffer drawn last, or None.                  *)
  screen      (* The caller's screen, or None.                             *)

vars == <<color, at, items, where, index, selected, ground, help, current, screen>>

Init ==
  /\ color \in BOOLEAN
  /\ at = "frame"
  /\ items = <<>>
  /\ where = [a \in Aircraft |-> None]
  /\ index = 0
  /\ selected = None
  /\ ground = TRUE
  /\ help = FALSE
  /\ current = None
  /\ screen = None

-------------------------------------------------------------------------------
(* render_radar().                                                         *)

Shown(a) == where[a] # None /\ (ground \/ a \notin Ground)

(* Any text of an emergency counts, "none" too. *)
Alarmed(a) == a \in Emergency \union SaysNone

(* Mistake: the last aircraft of a cell is drawn. *)
OverLast(previous, a) == a

(* Which of two aircraft at one cell is drawn. *)
Over(previous, a) ==
  IF previous # None /\ previous # selected /\ Alarmed(previous) /\ ~Alarmed(a)
    THEN previous ELSE a

Plotted(cell) ==
  LET drawn[k \in 0..Len(items)] ==
        IF k = 0 THEN None
        ELSE IF Shown(items[k]) /\ where[items[k]] = cell
          THEN Over(drawn[k - 1], items[k])
        ELSE drawn[k - 1]
  IN  drawn[Len(items)]

Blank == [is |-> "blank", inverse |-> FALSE, red |-> FALSE]

Symbol(a) ==
  [is |-> IF a \in Emergency THEN "emergency"
          ELSE IF a \in Ground THEN "ground" ELSE "aircraft",
   inverse |-> a = selected,
   red |-> Alarmed(a)]

PlotCell(cell) ==
  LET a == Plotted(cell) IN IF a = None THEN Blank ELSE Symbol(a)

Row(k) ==
  IF k <= Len(items) THEN [is |-> items[k], inverse |-> FALSE, red |-> FALSE]
  ELSE Blank

(* The buffer, with the help drawn over it. *)
Rendered ==
  [c \in Cells |->
     IF help /\ c \in Covered THEN [Blank EXCEPT !.is = "help"]
     ELSE IF c \in Plot THEN PlotCell(c)
     ELSE Row(c)]

(* Without color a cell is its character. *)
Styled(cell) == IF color THEN cell ELSE [Blank EXCEPT !.is = cell.is]

(* Mistake: only the characters are compared. *)
ChangedChars(buffer, c) == buffer[c].is # current[c].is

Changed(buffer, c) == buffer[c] # current[c]

(* serialize_diff() and the write: all cells the first time, then those    *)
(* that changed.                                                           *)
Write ==
  screen' = [c \in Cells |->
               IF current = None \/ Changed(current', c) THEN Styled(current'[c])
               ELSE screen[c]]

-------------------------------------------------------------------------------
(* The loop.                                                               *)

(* Mistake: an aircraft that has left the list stays selected. *)
SelectedOfGone(list) == IF index < Len(list) THEN list[index + 1] ELSE selected

(* The aircraft at the index, if there is one; otherwise the last selected *)
(* as long as it is listed.                                                *)
SelectedOf(list) ==
  IF index < Len(list) THEN list[index + 1]
  ELSE IF selected \in ToSet(list) THEN selected
  ELSE None

(* The engine's list changes between two frames: aircraft come, move, go   *)
(* and change places.                                                      *)
NewList ==
  \E S \in SUBSET Aircraft :
    /\ items' \in SetToSeqs(S)
    /\ \E place \in [S -> Plot \union {None}] :
         where' = [a \in Aircraft |-> IF a \in S THEN place[a] ELSE None]

Frame ==
  /\ at = "frame"
  /\ NewList
  /\ selected' = SelectedOf(items')
  /\ at' = "key"
  /\ UNCHANGED <<color, index, ground, help>>
  /\ current' = Rendered'
  /\ Write

Key(newIndex, newGround, newHelp) ==
  /\ at = "key"
  /\ at' = "frame"
  /\ index' = newIndex /\ ground' = newGround /\ help' = newHelp
  /\ UNCHANGED <<color, items, where, selected, current, screen>>

Least(m, n) == IF m < n THEN m ELSE n

(* Mistake: one further than the last. *)
DownPast == Least(index + 1, Len(items))

(* min(selection_index + 1, max(0, len(items) - 1)) *)
Down == Least(index + 1, IF items = <<>> THEN 0 ELSE Len(items) - 1)

DownKey == Key(Down, ground, help)
UpKey == Key(IF index = 0 THEN 0 ELSE index - 1, ground, help)
GroundKey == Key(index, ~ground, help)
HelpKey == Key(index, ground, ~help)
EscapeKey == Key(index, ground, FALSE)

(* None, and the keys that change what is left out. *)
OtherKey == Key(index, ground, help)

Next == Frame \/ DownKey \/ UpKey \/ GroundKey \/ HelpKey \/ EscapeKey \/ OtherKey

Spec == Init /\ [][Next]_vars

-------------------------------------------------------------------------------
(* Properties.                                                             *)

(* Type invariant; the index is one that some list can have.               *)
TypeOK ==
  /\ color \in BOOLEAN /\ ground \in BOOLEAN /\ help \in BOOLEAN
  /\ at \in {"frame", "key"}
  /\ items \in Seq(Aircraft) /\ IsInjective(items)
  /\ where \in [Aircraft -> Plot \union {None}]
  /\ index \in Nat /\ (index = 0 \/ index < Cardinality(Aircraft))
  /\ selected \in Aircraft \union {None}
  /\ {current, screen} \subseteq Buffers \union {None}
  /\ current = None <=> screen = None

Alone(a) == \A b \in ToSet(items) : Shown(b) /\ where[b] = where[a] => b = a

Uncovered(cell) == ~(help /\ cell \in Covered)

(* What the caller sees is the frame just drawn, although only the cells   *)
(* that changed are written, whatever came, went or was covered since.     *)
ScreenIsFrame ==
  at = "key" => \A c \in Cells : screen[c] = Styled(Rendered[c])

(* The selected aircraft is in the list, also after the list has shrunk    *)
(* under the index.  With color it alone is highlighted, and it is, if it  *)
(* is drawn at all and shares its cell with no other.                      *)
SelectionShown ==
  at = "key" =>
    /\ selected \in ToSet(items) \union {None}
    /\ \A c \in Plot : screen[c].inverse => selected # None /\ where[selected] = c
    /\ color /\ selected # None /\ Shown(selected) /\ Alone(selected)
         /\ Uncovered(where[selected])
         => screen[where[selected]].inverse

(* An aircraft in an emergency is not hidden by one that is in none.  It   *)
(* is if the other says "none", which counts as an emergency, or if it is  *)
(* the selected one, which the code exempts.                               *)
AlarmOnTop ==
  at = "key" =>
    \A e \in ToSet(items) \intersect Emergency :
      Shown(e) /\ Uncovered(where[e]) =>
        \/ screen[where[e]].is = "emergency"
        \/ \E a \in ToSet(items) :
             /\ Shown(a) /\ where[a] = where[e]
             /\ a \in SaysNone \/ (a = selected /\ a \in Emergency)

===============================================================================
