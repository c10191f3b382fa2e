---------------------------- MODULE RadarViewProofs ---------------------------
(***************************************************************************)
(* Proofs about RadarView.tla for any number of aircraft, cells and rows:  *)
(* writing the cells that changed is enough, whatever is drawn in them;    *)
(* what the cells of the plot show, by induction on the list of aircraft;  *)
(* the types; and, from these, that the selection is shown and that an     *)
(* emergency is not hidden.                                                *)
(***************************************************************************)
EXTENDS RadarView, FiniteSetTheorems, TLAPS

(* While the program waits for a key, nothing has changed since the frame  *)
(* was drawn.                                                              *)
Drawn == at = "key" => current = Rendered

(* The buffer drawn last is on the screen. *)
Buffered ==
  at = "key" \/ current # None => screen = [c \in Cells |-> Styled(current[c])]

LEMMA InitView == Init => Drawn /\ Buffered
  BY DEF Init, Drawn, Buffered

LEMMA NextView == Drawn /\ Buffered /\ [Next]_vars => Drawn' /\ Buffered'
<1> SUFFICES ASSUME Drawn, Buffered, [Next]_vars
             PROVE  Drawn' /\ Buffered'
  OBVIOUS
<1>1. CASE Frame
  <2>1. Drawn'
    BY <1>1 DEF Frame, Drawn
  <2>2. \A c : Styled(current[c])' = Styled(current'[c])
    BY <1>1 DEF Frame, Styled, Blank
  <2>3. \A c \in Cells :
          screen'[c] = Styled(current'[c])
    <3>1. SUFFICES ASSUME NEW c \in Cells
                   PROVE  screen'[c] = Styled(current'[c])
      OBVIOUS
    <3>2. CASE current = None \/ Changed(current', c)
      BY <1>1, <3>2 DEF Frame, Write
    <3>3. CASE current # None /\ current'[c] = current[c]
      BY <1>1, <3>3 DEF Frame, Write, Changed, Buffered
    <3>4. QED
      BY <3>2, <3>3 DEF Changed
  <2>4. screen' = [c \in Cells |-> screen'[c]]
    BY <1>1 DEF Frame, Write
  <2>5. QED
    BY <2>1, <2>2, <2>3, <2>4 DEF Buffered, Cells
<1>2. ASSUME NEW i, NEW g, NEW h, Key(i, g, h)
      PROVE  Drawn' /\ Buffered'
  BY <1>2 DEF Key, Drawn, Buffered, Styled, Blank, Cells
<1>3. CASE UNCHANGED vars
  <2>1. Rendered' = Rendered
    BY <1>3 DEF vars, Rendered, Cells, Blank, PlotCell, Plotted, Shown, Over, Alarmed,
       Symbol, Row
  <2>2. QED
    BY <1>3, <2>1 DEF vars, Drawn, Buffered, Styled, Blank, Cells
<1>4. QED
  BY <1>1, <1>2, <1>3 DEF Next, DownKey, UpKey, GroundKey, HelpKey, EscapeKey, OtherKey

(* The caller's screen is the frame just drawn, for any number of cells    *)
(* and aircraft and whatever was drawn before.                             *)
THEOREM ScreenShowsFrame == Spec => []ScreenIsFrame
<1>1. Drawn /\ Buffered => ScreenIsFrame
  BY DEF Drawn, Buffered, ScreenIsFrame
<1>2. QED
  BY <1>1, InitView, NextView, PTL DEF Spec

-------------------------------------------------------------------------------
(* What is drawn at one cell: an induction on the list of aircraft.        *)

Less == OpToRel(<, Nat)
(* The relation the library proves well-founded is < on Nat. *)
LEMMA LessDef == \A m, n \in Nat : <<m, n>> \in Less <=> m < n
BY DEF Less, OpToRel

LEMMA LessWF == IsWellFoundedOn(Less, Nat)
BY NatLessThanWellFounded DEF Less

(* A set of numbers that has 0 and every successor has them all: of its   *)
(* complement take the least member.                                       *)
LEMMA SetInduction ==
  ASSUME NEW T, 0 \in T, \A n \in Nat : n \in T => n + 1 \in T
  PROVE  Nat \subseteq T
<1> DEFINE U == Nat \ T
<1>1. SUFFICES ASSUME U # {} PROVE FALSE
  OBVIOUS
<1>2. PICK x \in U : \A y \in U : ~ (<<y, x>> \in Less)
  <2> HIDE DEF U
  <2>1. U \subseteq Nat
    BY DEF U
  <2>2. QED
  BY <1>1, <2>1, WFMin, LessWF
<1>3. x # 0 /\ x \in Nat
  OBVIOUS
<1>4. x - 1 \in Nat /\ x - 1 < x
  BY <1>3
<1>5. x - 1 \notin U
  BY <1>2, <1>3, <1>4, LessDef
<1>6. x - 1 \in T
  BY <1>4, <1>5
<1>7. QED
  BY <1>3, <1>4, <1>6

(* One more aircraft drawn over what is at the cell. *)
DrawOver(cell, previous, a) ==
  IF Shown(a) /\ where[a] = cell THEN Over(previous, a) ELSE previous

(* g is what the cell shows after each of the first n aircraft. *)
Drawing(cell, n, g) ==
  /\ DOMAIN g = 0..n
  /\ g[0] = None
  /\ \A k \in 1..n : g[k] = DrawOver(cell, g[k - 1], items[k])

LEMMA OneMoreDrawn ==
  ASSUME NEW cell, NEW n \in Nat, NEW g, Drawing(cell, n, g)
  PROVE  \E h : Drawing(cell, n + 1, h)
<1> DEFINE h == [k \in 0..(n + 1) |->
                   IF k = n + 1 THEN DrawOver(cell, g[n], items[n + 1]) ELSE g[k]]
<1>1. /\ h[n + 1] = DrawOver(cell, g[n], items[n + 1])
      /\ \A k \in 0..n : h[k] = g[k]
      /\ DOMAIN h = 0..(n + 1)
  OBVIOUS
<1> HIDE DEF h
<1>2. ASSUME NEW k \in 1..(n + 1)
      PROVE  h[k] = DrawOver(cell, h[k - 1], items[k])
  <2>1. CASE k = n + 1
    <3>1. h[k - 1] = g[n]
      BY <1>1, <2>1
    <3>2. QED
      BY <1>1, <2>1, <3>1
  <2>2. CASE k \in 1..n
    <3>1. k \in 0..n /\ k - 1 \in 0..n
      BY <2>2
    <3>2. h[k] = g[k] /\ h[k - 1] = g[k - 1]
      BY <1>1, <3>1
    <3>3. QED
      BY <2>2, <3>2 DEF Drawing
  <2>3. QED
    BY <2>1, <2>2
<1>3. h[0] = None
  BY <1>1 DEF Drawing
<1>4. QED
  BY <1>1, <1>2, <1>3 DEF Drawing

LEMMA DrawingExists == \A cell : \A n \in Nat : \E g : Drawing(cell, n, g)
<1> SUFFICES ASSUME NEW cell
             PROVE  \A n \in Nat : \E g : Drawing(cell, n, g)
  OBVIOUS
<1> DEFINE T == {n \in Nat : \E g : Drawing(cell, n, g)}
<1>1. 0 \in T
  <2>1. Drawing(cell, 0, [k \in 0..0 |-> None])
    BY DEF Drawing
  <2>2. QED
    BY <2>1
<1>2. \A n \in Nat : n \in T => n + 1 \in T
  BY OneMoreDrawn
<1>3. Nat \subseteq T
  <2> HIDE DEF T
  <2>1. QED
    BY <1>1, <1>2, SetInduction
<1>4. QED
  BY <1>3

(* What a cell shows is the end of such a drawing. *)
LEMMA PlottedIsDrawn ==
  ASSUME items \in Seq(Aircraft), NEW cell
  PROVE  \E g : Drawing(cell, Len(items), g) /\ Plotted(cell) = g[Len(items)]
<1> DEFINE Equation(f) ==
             f = [k \in 0..Len(items) |->
                    IF k = 0 THEN None
                    ELSE IF Shown(items[k]) /\ where[items[k]] = cell
                      THEN Over(f[k - 1], items[k])
                    ELSE f[k - 1]]
           drawn == CHOOSE f : Equation(f)
<1>1. PICK g : Drawing(cell, Len(items), g)
  BY DrawingExists
<1>2. Equation([k \in 0..Len(items) |-> g[k]])
  BY <1>1 DEF Drawing, DrawOver
<1>3. Equation(drawn)
  BY <1>2
<1>4. Plotted(cell) = drawn[Len(items)]
  BY DEF Plotted
<1> HIDE DEF drawn
<1>5. Drawing(cell, Len(items), drawn)
  BY <1>3 DEF Drawing, DrawOver
<1>6. QED
  BY <1>4, <1>5

(* What a list, a place and a selection are. *)
ListOK ==
  /\ items \in Seq(Aircraft)
  /\ where \in [Aircraft -> Plot \union {None}]
  /\ selected \in Aircraft \union {None}

At(cell, a) == Shown(a) /\ where[a] = cell

(* Who may hide an emergency at the cell. *)
Hides(cell, a) == At(cell, a) /\ (a \in SaysNone \/ (a = selected /\ a \in Emergency))

(* What holds of the aircraft x drawn at the cell when the first k of the  *)
(* list have been drawn: it is one of those at the cell, there is one if   *)
(* any of them is there, and it is in an emergency if one of them is,      *)
(* unless one of the list may hide it.                                     *)
DrawnRight(cell, k, x) ==
  /\ x = None \/ \E j \in 1..k : x = items[j] /\ At(cell, items[j])
  /\ \A j \in 1..k : At(cell, items[j]) => x # None
  /\ \A j \in 1..k :
       At(cell, items[j]) /\ items[j] \in Emergency
         => x \in Emergency \/ \E i \in 1..Len(items) : Hides(cell, items[i])

LEMMA DrawOverRight ==
  ASSUME ListOK, NEW cell, NEW k \in Nat, k + 1 \in 1..Len(items), NEW x,
         DrawnRight(cell, k, x)
  PROVE  DrawnRight(cell, k + 1, DrawOver(cell, x, items[k + 1]))
<1> DEFINE a == items[k + 1]
           y == DrawOver(cell, x, a)
<1>1. /\ a \in Aircraft /\ a # None
      /\ 1..(k + 1) = (1..k) \union {k + 1}
      /\ 1..k \subseteq 1..Len(items)
  BY ViewAssumption DEF ListOK
<1>2. CASE ~At(cell, a)
  <2>1. y = x
    BY <1>2 DEF DrawOver, At
  <2>2. QED
    BY <1>1, <1>2, <2>1 DEF DrawnRight
<1>3. CASE At(cell, a)
  <2>1. y = Over(x, a)
    BY <1>3 DEF DrawOver, At
  <2>2. y = a \/ (y = x /\ x # None)
    BY <2>1 DEF Over
  <2>3. y # None
    BY <1>1, <2>2
  <2>4. \E j \in 1..(k + 1) : y = items[j] /\ At(cell, items[j])
    BY <1>1, <1>3, <2>2 DEF DrawnRight
  <2>5. ASSUME NEW j \in 1..(k + 1), At(cell, items[j]), items[j] \in Emergency
        PROVE  y \in Emergency \/ \E i \in 1..Len(items) : Hides(cell, items[i])
    <3>1. CASE a \in SaysNone
      BY <1>3, <3>1 DEF Hides
    <3>2. CASE a \in Emergency /\ y = a
      BY <3>2
    <3>3. CASE y = x
      <4>1. CASE j \in 1..k
        BY <2>5, <3>3, <4>1 DEF DrawnRight
      <4>2. CASE j = k + 1
        <5>1. Alarmed(a)
          BY <2>5, <4>2 DEF Alarmed
        <5>2. y = a
          BY <2>1, <5>1 DEF Over
        <5>3. QED
          BY <2>5, <4>2, <5>2
      <4>3. QED
        BY <1>1, <4>1, <4>2
    <3>4. CASE a \notin SaysNone /\ a \notin Emergency /\ y = a /\ y # x
      <4>1. ~Alarmed(a)
        BY <3>4 DEF Alarmed
      <4>2. x = None \/ x = selected \/ ~Alarmed(x)
        BY <2>1, <3>4, <4>1 DEF Over
      <4>3. j # k + 1 /\ j \in 1..k
        BY <1>1, <2>5, <3>4
      <4>4. x # None
        BY <2>5, <4>3 DEF DrawnRight
      <4>5. x \in Emergency \/ \E i \in 1..Len(items) : Hides(cell, items[i])
        BY <2>5, <4>3 DEF DrawnRight
      <4>6. CASE x \in Emergency
        <5>1. x = selected
          BY <4>2, <4>4, <4>6 DEF Alarmed
        <5>2. PICK i \in 1..k : x = items[i] /\ At(cell, items[i])
          BY <4>4 DEF DrawnRight
        <5>3. Hides(cell, items[i])
          BY <4>6, <5>1, <5>2 DEF Hides
        <5>4. QED
          BY <1>1, <5>3
      <4>7. QED
        BY <4>5, <4>6
    <3>5. QED
      BY <2>2, <3>1, <3>2, <3>3, <3>4
  <2>6. QED
    BY <2>3, <2>4, <2>5 DEF DrawnRight
<1>4. QED
  BY <1>2, <1>3

(* So it is when the whole list has been drawn. *)
PlotRight == \A cell : DrawnRight(cell, Len(items), Plotted(cell))

LEMMA PlottedRight == ListOK => PlotRight
<1> SUFFICES ASSUME ListOK, NEW cell
             PROVE  DrawnRight(cell, Len(items), Plotted(cell))
  BY DEF PlotRight
<1>1. Len(items) \in Nat
  BY DEF ListOK
<1>2. PICK g : Drawing(cell, Len(items), g) /\ Plotted(cell) = g[Len(items)]
  BY PlottedIsDrawn DEF ListOK
<1> DEFINE T == {k \in Nat : k <= Len(items) => DrawnRight(cell, k, g[k])}
<1>3. 0 \in T
  BY <1>2 DEF Drawing, DrawnRight
<1>4. ASSUME NEW k \in Nat, k \in T
      PROVE  k + 1 \in T
  <2>1. SUFFICES ASSUME k + 1 <= Len(items)
                 PROVE  DrawnRight(cell, k + 1, g[k + 1])
    OBVIOUS
  <2>2. DrawnRight(cell, k, g[k])
    BY <1>1, <1>4, <2>1
  <2>3. k + 1 \in 1..Len(items) /\ (k + 1) - 1 = k
    BY <1>1, <2>1
  <2>4. g[k + 1] = DrawOver(cell, g[k], items[k + 1])
    BY <1>2, <2>3 DEF Drawing
  <2>5. QED
    BY <2>2, <2>3, <2>4, DrawOverRight
<1>5. Nat \subseteq T
  <2> HIDE DEF T
  <2>1. QED
    BY <1>3, <1>4, SetInduction
<1>6. QED
  BY <1>1, <1>2, <1>5

-------------------------------------------------------------------------------
(* Types.                                                                  *)

RenderedOK == Rendered \in Buffers

LEMMA RenderedTyped == ListOK => RenderedOK
<1> SUFFICES ASSUME ListOK PROVE Rendered \in Buffers
  BY DEF RenderedOK
<1>1. Blank \in Glyphs /\ [Blank EXCEPT !.is = "help"] \in Glyphs
  BY DEF Blank, Glyphs
<1>2. ASSUME NEW c PROVE PlotCell(c) \in Glyphs
  BY <1>1 DEF PlotCell, Symbol, Alarmed, Glyphs
<1>3. ASSUME NEW k \in 1..Rows PROVE Row(k) \in Glyphs
  <2>1. k <= Len(items) => items[k] \in Aircraft
    BY ViewAssumption DEF ListOK
  <2>2. QED
    BY <1>1, <2>1 DEF Row, Glyphs
<1>4. QED
  BY <1>1, <1>2, <1>3 DEF Rendered, Cells, Buffers

LEMMA StyledTyped ==
  ASSUME NEW cell \in Glyphs
  PROVE  Styled(cell) \in Glyphs
BY DEF Styled, Blank, Glyphs

(* The lists a frame may draw. *)
LEMMA ListTyped ==
  ASSUME NEW S \in SUBSET Aircraft, NEW list \in SetToSeqs(S)
  PROVE  /\ list \in Seq(Aircraft)
         /\ IsInjective(list)
         /\ Len(list) \in Nat
         /\ Len(list) <= Cardinality(Aircraft)
<1>1. /\ Cardinality(S) \in Nat
      /\ Cardinality(S) <= Cardinality(Aircraft)
  BY FS_Subset, FS_CardinalityType, ViewAssumption
<1>2. list \in [1..Cardinality(S) -> S] /\ IsInjective(list)
  BY DEF SetToSeqs, IsInjective
<1>3. list \in Seq(Aircraft) /\ Len(list) = Cardinality(S)
  BY <1>1, <1>2
<1>4. QED
  BY <1>1, <1>2, <1>3

(* The selection is listed. *)
Listed == at = "key" => selected \in ToSet(items) \union {None}

TypeInv ==
  /\ TypeOK
  /\ Len(items) <= Cardinality(Aircraft)
  /\ Listed

LEMMA InitType == Init => TypeInv
<1> SUFFICES ASSUME Init PROVE TypeInv
  OBVIOUS
<1>1. items \in Seq(Aircraft) /\ IsInjective(items)
  BY DEF Init, IsInjective
<1>2. Len(items) <= Cardinality(Aircraft)
  BY ViewAssumption, FS_CardinalityType DEF Init
<1>3. QED
  BY <1>1, <1>2 DEF Init, TypeInv, TypeOK, Listed

LEMMA FrameType == TypeInv /\ Frame => TypeInv'
<1> SUFFICES ASSUME TypeInv, Frame PROVE TypeInv'
  OBVIOUS
<1>1. PICK S \in SUBSET Aircraft :
        /\ items' \in SetToSeqs(S)
        /\ \E place \in [S -> Plot \union {None}] :
             where' = [a \in Aircraft |-> IF a \in S THEN place[a] ELSE None]
  BY DEF Frame, NewList
<1>2. /\ items' \in Seq(Aircraft) /\ IsInjective(items')
      /\ Len(items') <= Cardinality(Aircraft)
  BY <1>1, ListTyped
<1>3. where' \in [Aircraft -> Plot \union {None}]
  BY <1>1
<1>4. selected' \in ToSet(items') \union {None}
  <2>1. index < Len(items') => items'[index + 1] \in ToSet(items')
    <3>1. index \in Nat
      BY DEF TypeInv, TypeOK
    <3>2. QED
      BY <1>2, <3>1 DEF ToSet
  <2>2. QED
    BY <2>1 DEF Frame, SelectedOf
<1>5. ToSet(items') \subseteq Aircraft
  BY <1>2 DEF ToSet
<1>6. ListOK'
  BY <1>2, <1>3, <1>4, <1>5 DEF ListOK
<1>7. current' \in Buffers
  <2>1. RenderedOK'
    BY <1>6, RenderedTyped, PTL
  <2>2. QED
    BY <2>1 DEF Frame, RenderedOK
<1>8. screen' \in Buffers
  <2>1. ASSUME NEW c \in Cells
        PROVE  screen'[c] \in Glyphs
    <3>1. CASE current = None \/ Changed(current', c)
      <4>1. current'[c] \in Glyphs
        BY <1>7 DEF Buffers
      <4>2. screen'[c] = Styled(current'[c])
        BY <3>1 DEF Frame, Write
      <4>3. QED
        BY <4>1, <4>2, StyledTyped
    <3>2. CASE current # None /\ ~Changed(current', c)
      <4>1. screen \in Buffers
        BY <3>2 DEF TypeInv, TypeOK
      <4>2. screen'[c] = screen[c]
        BY <3>2 DEF Frame, Write
      <4>3. QED
        BY <4>1, <4>2 DEF Buffers
    <3>3. QED
      BY <3>1, <3>2
  <2>2. screen' = [c \in Cells |-> screen'[c]]
    BY DEF Frame, Write
  <2>3. QED
    BY <2>1, <2>2 DEF Buffers
<1>9. current' # None /\ screen' # None
  BY <1>7, <1>8, ViewAssumption
<1>10. /\ index' \in Nat
       /\ color' \in BOOLEAN /\ ground' \in BOOLEAN /\ help' \in BOOLEAN
       /\ index' = 0 \/ index' < Cardinality(Aircraft)
       /\ at' = "key"
  BY DEF Frame, TypeInv, TypeOK
<1>11. QED
  BY <1>2, <1>3, <1>4, <1>5, <1>7, <1>8, <1>9, <1>10 DEF TypeInv, TypeOK, Listed

(* The keys leave a possible index. *)
LEMMA IndexBounded ==
  ASSUME TypeInv
  PROVE  /\ Down \in Nat
         /\ Down = 0 \/ Down < Cardinality(Aircraft)
         /\ index # 0 => index - 1 \in Nat /\ index - 1 < Cardinality(Aircraft)
<1>1. Cardinality(Aircraft) \in Nat /\ index \in Nat
  BY ViewAssumption, FS_CardinalityType DEF TypeInv, TypeOK
<1>2. index # 0 => index - 1 \in Nat /\ index - 1 < Cardinality(Aircraft)
  BY <1>1 DEF TypeInv, TypeOK
<1>3. CASE items = <<>>
  BY <1>1, <1>2, <1>3 DEF Down, Least
<1>4. CASE items # <<>>
  <2>1. Len(items) \in Nat \ {0}
    BY <1>4 DEF TypeInv, TypeOK
  <2>2. Down = Least(index + 1, Len(items) - 1)
    BY <1>4 DEF Down
  <2>3. QED
    BY <1>1, <1>2, <2>1, <2>2 DEF Least, TypeInv
<1>5. QED
  BY <1>3, <1>4

LEMMA KeyType ==
  ASSUME TypeInv, NEW i \in Nat, i = 0 \/ i < Cardinality(Aircraft),
         NEW g \in BOOLEAN, NEW h \in BOOLEAN, Key(i, g, h)
  PROVE  TypeInv'
<1>1. /\ at' = "frame" /\ index' = i /\ ground' = g /\ help' = h
      /\ UNCHANGED <<color, items, where, selected, current, screen>>
  BY DEF Key
<1>2. QED
  BY <1>1 DEF TypeInv, TypeOK, Listed

LEMMA NextType == TypeInv /\ [Next]_vars => TypeInv'
<1> SUFFICES ASSUME TypeInv, [Next]_vars PROVE TypeInv'
  OBVIOUS
<1>1. /\ index \in Nat /\ (index = 0 \/ index < Cardinality(Aircraft))
      /\ ground \in BOOLEAN /\ help \in BOOLEAN
  BY DEF TypeInv, TypeOK
<1>2. CASE Frame
  BY <1>2, FrameType
<1>3. CASE DownKey
  BY <1>1, <1>3, IndexBounded, KeyType DEF DownKey
<1>4. CASE UpKey
  <2>1. CASE index = 0
    BY <1>1, <1>4, <2>1, KeyType DEF UpKey
  <2>2. CASE index # 0
    BY <1>1, <1>4, <2>2, IndexBounded, KeyType DEF UpKey
  <2>3. QED
    BY <2>1, <2>2
<1>5. CASE GroundKey
  <2>1. (~ground) \in BOOLEAN
    OBVIOUS
  <2>2. QED
    BY <1>1, <1>5, <2>1, KeyType DEF GroundKey
<1>6. CASE HelpKey
  <2>1. (~help) \in BOOLEAN
    OBVIOUS
  <2>2. QED
    BY <1>1, <1>6, <2>1, KeyType DEF HelpKey
<1>7. CASE EscapeKey
  BY <1>1, <1>7, KeyType DEF EscapeKey
<1>8. CASE OtherKey
  BY <1>1, <1>8, KeyType DEF OtherKey
<1>9. CASE UNCHANGED vars
  BY <1>9 DEF vars, TypeInv, TypeOK, Listed
<1>10. QED
  BY <1>2, <1>3, <1>4, <1>5, <1>6, <1>7, <1>8, <1>9 DEF Next

(* The loop keeps its types; the index is always one some list can have,   *)
(* and a buffer has been drawn exactly when something is on the screen.    *)
THEOREM TypeCorrect == Spec => []TypeOK
<1>1. TypeInv => TypeOK
  BY DEF TypeInv
<1>2. QED
  BY <1>1, InitType, NextType, PTL DEF Spec

-------------------------------------------------------------------------------
(* What a caller sees of the selection and of emergencies.                 *)

(* A cell of the plot that the help does not cover, on the screen. *)
LEMMA ScreenCell ==
  ASSUME TypeInv, ScreenIsFrame, at = "key", NEW c \in Plot
  PROVE  screen[c] = Styled(IF help /\ c \in Covered THEN [Blank EXCEPT !.is = "help"]
                            ELSE PlotCell(c))
<1>1. c \in Cells
  BY DEF Cells
<1>2. QED
  BY <1>1 DEF ScreenIsFrame, Rendered

(* The selected aircraft is listed, alone highlighted, and highlighted if  *)
(* it is drawn alone at its cell.                                          *)
THEOREM SelectionIsShown == Spec => []SelectionShown
<1>1. TypeInv /\ ScreenIsFrame => SelectionShown
  <2> SUFFICES ASSUME TypeInv, ScreenIsFrame, at = "key"
               PROVE  SelectionShown
    BY DEF SelectionShown
  <2>1. PlotRight
    BY PlottedRight DEF TypeInv, TypeOK, ListOK
  <2>2. selected \in ToSet(items) \union {None}
    BY DEF TypeInv, Listed
  <2>3. ASSUME NEW c \in Plot, screen[c].inverse
        PROVE  selected # None /\ where[selected] = c
    <3> DEFINE shown == IF help /\ c \in Covered THEN [Blank EXCEPT !.is = "help"]
                        ELSE PlotCell(c)
    <3>1. screen[c] = Styled(shown)
      BY ScreenCell
    <3>2. screen[c] = shown
      BY <2>3, <3>1 DEF Styled, Blank
    <3>3. shown = Symbol(Plotted(c)) /\ Plotted(c) # None
      BY <2>3, <3>2 DEF Blank, PlotCell
    <3>4. Symbol(Plotted(c)).inverse = (Plotted(c) = selected)
      BY DEF Symbol
    <3>5. Plotted(c) = selected
      BY <2>3, <3>2, <3>3, <3>4
    <3>6. QED
      BY <2>1, <3>3, <3>5 DEF PlotRight, DrawnRight, At
  <2>4. ASSUME color, selected # None, Shown(selected), Alone(selected),
               Uncovered(where[selected])
        PROVE  screen[where[selected]].inverse
    <3> DEFINE c == where[selected]
    <3>1. c \in Plot
      BY <2>4 DEF Shown, TypeInv, TypeOK
    <3>2. PICK j \in 1..Len(items) : items[j] = selected
      BY <2>2, <2>4 DEF ToSet, TypeInv, TypeOK
    <3>3. Plotted(c) # None
      BY <2>1, <2>4, <3>2 DEF PlotRight, DrawnRight, At
    <3>4. PICK i \in 1..Len(items) : Plotted(c) = items[i] /\ At(c, items[i])
      BY <2>1, <3>3 DEF PlotRight, DrawnRight
    <3>5. items[i] \in ToSet(items)
      BY DEF ToSet, TypeInv, TypeOK
    <3>6. Plotted(c) = selected
      BY <2>4, <3>4, <3>5 DEF Alone, At
    <3>7. screen[c] = Symbol(selected)
      BY <2>4, <3>1, <3>3, <3>6, ScreenCell DEF Styled, PlotCell, Uncovered
    <3>8. Symbol(selected).inverse = (selected = selected)
      BY DEF Symbol
    <3>9. QED
      BY <3>7, <3>8
  <2>5. QED
    BY <2>2, <2>3, <2>4 DEF SelectionShown
<1>2. QED
  BY <1>1, InitType, NextType, ScreenShowsFrame, PTL DEF Spec

(* Whatever aircraft share its cell and in whatever order they are drawn,  *)
(* an emergency is visible, but for the two exceptions the code makes.     *)
THEOREM AlarmIsOnTop == Spec => []AlarmOnTop
<1>1. TypeInv /\ ScreenIsFrame => AlarmOnTop
  <2> SUFFICES ASSUME TypeInv, ScreenIsFrame, at = "key",
                      NEW e \in ToSet(items) \intersect Emergency,
                      Shown(e), Uncovered(where[e])
               PROVE  \/ screen[where[e]].is = "emergency"
                      \/ \E a \in ToSet(items) :
                           /\ Shown(a) /\ where[a] = where[e]
                           /\ a \in SaysNone \/ (a = selected /\ a \in Emergency)
    BY DEF AlarmOnTop
  <2> DEFINE c == where[e]
  <2>1. PlotRight
    BY PlottedRight DEF TypeInv, TypeOK, ListOK
  <2>2. e \in Aircraft /\ c \in Plot
    BY ViewAssumption DEF Shown, TypeInv, TypeOK
  <2>3. PICK j \in 1..Len(items) : items[j] = e
    BY DEF ToSet, TypeInv, TypeOK
  <2>4. Plotted(c) # None
    BY <2>1, <2>3 DEF PlotRight, DrawnRight, At
  <2>5. CASE Plotted(c) \in Emergency
    <3>1. PlotCell(c).is = "emergency"
      BY <2>4, <2>5 DEF PlotCell, Symbol
    <3>2. screen[c].is = "emergency"
      BY <2>2, <3>1, ScreenCell DEF Styled, Blank, Uncovered
    <3>3. QED
      BY <3>2
  <2>6. CASE Plotted(c) \notin Emergency
    <3>1. PICK i \in 1..Len(items) : Hides(c, items[i])
      BY <2>1, <2>3, <2>6 DEF PlotRight, DrawnRight, At
    <3>2. items[i] \in ToSet(items)
      BY DEF ToSet, TypeInv, TypeOK
    <3>3. QED
      BY <3>1, <3>2 DEF Hides, At
  <2>7. QED
    BY <2>5, <2>6
<1>2. QED
  BY <1>1, InitType, NextType, ScreenShowsFrame, PTL DEF Spec

===============================================================================
