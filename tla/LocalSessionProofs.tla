------------------------- MODULE LocalSessionProofs ---------------------------
(***************************************************************************)
(* Proofs about LocalSession.tla: the terminal is restored on every way    *)
(* out but the ones that Restored names, for any number of signals.        *)
(***************************************************************************)
EXTENDS LocalSession, TLAPS

(* Where the process is, and what that says of its handlers. *)
Where ==
  /\ base # None => at \in Closing \union {"ended"} /\ signals > 0
  /\ base = None => ~busy
  /\ at \in {"start", "alt", "cbreak", "int"} => ours = {}
  /\ at = "term" => ours = {"INT"}
  /\ at \in Inside => ours = Signals
  /\ base # "start"
  /\ base \in Entering => base = "term"
  /\ base \in Inside => "TERM" \in ours
  /\ ~connected => "eof" \in odd
  /\ alt => alternate

(* What the session has done to the terminal is undone. *)
Plain == ~alt /\ ~attrs /\ (alternate => ~hidden)

(* Where it is undone: behind the write of a close(), and so wherever a    *)
(* handler has been taken back, since that comes later.                    *)
Mode ==
  "early" \notin odd =>
    /\ at \in {"start", "unint", "unterm", "release", "ended"} => Plain
    /\ base = "release" => Plain
    /\ at = "leave" => ~attrs
    /\ at \notin Entering /\ base \notin Entering /\ ours # Signals => Plain
    /\ busy /\ base \in Entering \union {"exit"} => Plain

(* Without the alternate screen the cursor is hidden from setup to the     *)
(* last write.                                                             *)
Cursor ==
  ~alternate /\ odd \intersect {"early", "eof", "late"} = {} =>
    /\ at \in Entering \union {"start", "release", "ended"} => ~hidden
    /\ base \in Entering \union {"final", "exit", "release"} => ~hidden
    /\ at \in Closing /\ base = None => ~hidden

(* What is shown when the screen is cleared. *)
Primary ==
  /\ at \in Entering \union {"start"} \/ base \in Entering => ~cleared
  /\ "early" \in odd => (at \in {"release", "ended"} \/ base = "release") /\ ~cleared
  /\ alternate /\ cleared => "behind" \in odd
  /\ alternate /\ at \in Inside \union {"cbreak", "int", "term"} => alt
  /\ alternate /\ "behind" \notin odd =>
       /\ at = "final" => alt
       /\ base \notin Inside

LEMMA InitAll == Init => TypeOK /\ Where /\ Mode /\ Cursor /\ Primary
<1> SUFFICES ASSUME Init PROVE TypeOK /\ Where /\ Mode /\ Cursor /\ Primary
  OBVIOUS
<1>1. TypeOK
  <2>1. signals \in 0..MaxSignals
    BY SessionAssumption DEF Init
  <2>2. QED
    BY <2>1 DEF Init, TypeOK, Places, Signals
<1>2. Where
  BY SessionAssumption DEF Init, Where, Places, Entering, Inside, Closing
<1>3. Mode /\ Cursor /\ Primary
  BY SessionAssumption DEF Init, Mode, Plain, Cursor, Primary, Places, Entering,
     Inside, Closing
<1>4. QED
  BY <1>1, <1>2, <1>3

(* What the handler may interrupt, and where an exception leads from there. *)
LEMMA PlaceTyped ==
  ASSUME TypeOK, at # "ended"
  PROVE  Place \in {"start", "final", "exit", "release"} \union Entering \union Inside
  BY DEF TypeOK, Place, Places, Entering, Inside, Closing

LEMMA LandingTyped ==
  ASSUME NEW place \in {"start", "final", "exit", "release"} \union Entering \union Inside
  PROVE  Landing(place) \in {"ended", "release", "final", "attrs"}
  BY DEF Landing, Entering, Inside

LEMMA RaiseTyped ==
  ASSUME TypeOK, at # "ended", NEW e, Raise(e)
  PROVE  at' \in Places /\ base' = None /\ busy' = FALSE
  BY PlaceTyped, LandingTyped DEF Raise, Places, Closing

(* What a signal adds to the history. *)
LEMMA OddityIs ==
  ASSUME NEW sig, NEW inWrite
  PROVE  /\ Oddity(sig, inWrite) \subseteq {"early", "late", "behind"}
         /\ Place \in Entering /\ sig \notin ours => "early" \in Oddity(sig, inWrite)
         /\ ~(Place \in Entering /\ sig \notin ours) => "early" \notin Oddity(sig, inWrite)
         /\ Place \in Inside /\ sig \in ours => "behind" \in Oddity(sig, inWrite)
         /\ at = "final" /\ ~inWrite => "late" \in Oddity(sig, inWrite)
<1> DEFINE early == Place \in Entering /\ sig \notin ours
           behind == Place \in Inside /\ sig \in ours
           late == at = "final" /\ ~inWrite
<1>1. ~(early /\ behind)
  BY DEF Entering, Inside
<1>2. late => ~early /\ ~behind
  BY DEF Place, Closing, Entering, Inside
<1>3. Oddity(sig, inWrite) = CASE early -> {"early"} [] behind -> {"behind"}
                               [] late -> {"late"} [] OTHER -> {}
  BY DEF Oddity
<1>4. QED
  <2> HIDE DEF early, behind, late
  <2>1. early => Oddity(sig, inWrite) = {"early"}
    BY <1>1, <1>2, <1>3
  <2>2. behind => Oddity(sig, inWrite) = {"behind"}
    BY <1>1, <1>2, <1>3
  <2>3. late => Oddity(sig, inWrite) = {"late"}
    BY <1>1, <1>2, <1>3
  <2>4. ~early /\ ~behind /\ ~late => Oddity(sig, inWrite) = {}
    BY <1>3
  <2>5. QED
    BY <1>1, <1>2, <2>1, <2>2, <2>3, <2>4 DEF early, behind, late

(* What a write does to the screen. *)
LEMMA PutEffect ==
  ASSUME NEW place \in {"alt", "leave", "setup", "draw", "final"}, Put(place)
  PROVE  /\ cbreak' = cbreak
         /\ place = "alt" => alt' = TRUE
         /\ place = "leave" => alt' = FALSE /\ hidden' = FALSE
         /\ place \notin {"alt", "leave"} => alt' = alt
         /\ place \notin {"setup", "final"} => cleared' = cleared
  BY DEF Put, Clears

-------------------------------------------------------------------------------
LEMMA NextTyped == TypeOK /\ Where /\ [Next]_vars => TypeOK'
<1> SUFFICES ASSUME TypeOK, Where, [Next]_vars PROVE TypeOK'
  OBVIOUS
<1> USE SessionAssumption DEF TypeOK, Where, Signals, Places, Entering, Inside, Closing, GoTo, options, process, terminal, history
<1>1. CASE Start
  BY <1>1 DEF Start, Raise, Landing, Place, Places, Inside
<1>2. CASE EnterAlt
  BY <1>2 DEF EnterAlt, PutIfAny, Put, Writes
<1>3. CASE EnterCbreak
  BY <1>3 DEF EnterCbreak
<1>4. CASE EnterHandlers
  BY <1>4 DEF EnterHandlers, Handle
<1>5. CASE Setup
  BY <1>5 DEF Setup, Put, Clears
<1>6. CASE Draw
  BY <1>6 DEF Draw, Raise, Landing, Place
<1>7. CASE Read
  BY <1>7 DEF Read
<1>8. CASE ReadEnd
  BY <1>8 DEF ReadEnd
<1>9. CASE Final
  BY <1>9 DEF Final, PutIfAny, Put, Clears, Writes
<1>10. CASE CloseAttrs
  <2>1. cbreak' \in BOOLEAN /\ attrs' \in BOOLEAN /\ cbreak' = attrs'
    BY <1>10 DEF CloseAttrs
  <2>2. at' = "leave" /\ UNCHANGED <<options, base, busy, ours, connected, exc, alt,
                                    hidden, cleared, history>>
    BY <1>10 DEF CloseAttrs
  <2>3. QED
    BY <2>1, <2>2
<1>11. CASE CloseLeave
  <2>1. CASE Writes("leave") /\ busy
    BY <1>11, <2>1, RaiseTyped DEF CloseLeave, Raise
  <2>2. CASE ~(Writes("leave") /\ busy)
    <3>1. at' = "unint" /\ UNCHANGED <<options, base, busy, process, exc, cbreak,
                                      cleared, history>>
      BY <1>11, <2>2 DEF CloseLeave, PutIfAny, Put
    <3>2. alt' \in BOOLEAN /\ hidden' \in BOOLEAN
      BY <1>11, <2>2 DEF CloseLeave, PutIfAny, Put
    <3>3. QED
      BY <3>1, <3>2
  <2>3. QED
    BY <2>1, <2>2
<1>12. CASE CloseFirst
  BY <1>12 DEF CloseFirst
<1>13. CASE CloseSecond
  <2>1. CASE base = None
    BY <1>13, <2>1 DEF CloseSecond
  <2>2. CASE base # None
    BY <1>13, <2>2, RaiseTyped DEF CloseSecond, Raise
  <2>3. QED
    BY <2>1, <2>2
<1>14. CASE Release
  BY <1>14 DEF Release
<1>15. ASSUME NEW sig \in Signals, NEW inWrite \in BOOLEAN, Interrupt(sig, inWrite),
        at # "ended", signals < MaxSignals,
        IF inWrite THEN Writes(at) /\ ~busy /\ Put(at) ELSE UNCHANGED terminal
        PROVE  TypeOK'
  <2>1. alternate' = alternate /\ tty' = tty /\ attrs' = attrs /\ ours' = ours
          /\ connected' = connected /\ cbreak' = cbreak
    BY <1>15 DEF Interrupt, Put
  <2>2. alt' \in BOOLEAN /\ hidden' \in BOOLEAN /\ cleared' \in BOOLEAN
    BY <1>15 DEF Put, Writes, Clears
  <2>3. signals' \in 0..MaxSignals
    BY <1>15 DEF Interrupt
  <2>4. odd' \subseteq {"early", "eof", "late", "behind"}
    BY <1>15, OddityIs DEF Interrupt
  <2>5. at' \in Places /\ exc' \in {None, "Error", "KeyboardInterrupt", "killed"}
    <3>1. CASE sig \in ours
      BY <1>15, <3>1 DEF Interrupt
    <3>2. CASE sig \notin ours /\ sig = "INT"
      BY <1>15, <3>2, RaiseTyped DEF Interrupt, Raise
    <3>3. CASE sig \notin ours /\ sig = "TERM"
      BY <1>15, <3>3 DEF Interrupt
    <3>4. QED
      BY <3>1, <3>2, <3>3
  <2>6. base' \in {None, "start", "final", "exit", "release"} \union Entering \union Inside
    BY <1>15, PlaceTyped DEF Interrupt, Raise
  <2>7. busy' \in BOOLEAN
    BY <1>15 DEF Interrupt, Raise
  <2>8. QED
    BY <2>1, <2>2, <2>3, <2>4, <2>5, <2>6, <2>7
<1>16. CASE UNCHANGED vars
  BY <1>16 DEF vars
<1>17. QED
  BY <1>1, <1>2, <1>3, <1>4, <1>5, <1>6, <1>7, <1>8, <1>9, <1>10, <1>11, <1>12, <1>13, <1>14, <1>15, <1>16 DEF Next, Process, Signal, SignalInWrite

LEMMA NextWhere == TypeOK /\ Where /\ [Next]_vars => Where'
<1> SUFFICES ASSUME TypeOK, Where, [Next]_vars PROVE Where'
  OBVIOUS
<1> USE SessionAssumption DEF TypeOK, Where, Signals, Places, Entering, Inside, Closing, GoTo, options, process, terminal, history
<1>1. CASE Start
  BY <1>1 DEF Start, Raise, Landing, Place, Places, Inside
<1>2. CASE EnterAlt
  BY <1>2 DEF EnterAlt, PutIfAny, Put, Writes
<1>3. CASE EnterCbreak
  BY <1>3 DEF EnterCbreak
<1>4. CASE EnterHandlers
  <2>1. CASE Handle("int", "INT", "term")
    <3>1. ours' = {"INT"}
      BY <2>1 DEF Handle
    <3>2. QED
      BY <2>1, <3>1 DEF Handle
  <2>2. CASE Handle("term", "TERM", "setup")
    <3>1. ours' = {"INT", "TERM"}
      BY <2>2 DEF Handle
    <3>2. QED
      BY <2>2, <3>1 DEF Handle
  <2>3. QED
    BY <1>4, <2>1, <2>2 DEF EnterHandlers
<1>5. CASE Setup
  BY <1>5 DEF Setup, Put, Clears
<1>6. CASE Draw
  BY <1>6 DEF Draw, Raise, Landing, Place
<1>7. CASE Read
  BY <1>7 DEF Read
<1>8. CASE ReadEnd
  BY <1>8 DEF ReadEnd
<1>9. CASE Final
  BY <1>9 DEF Final, PutIfAny, Put, Clears, Writes
<1>10. CASE CloseAttrs
  BY <1>10 DEF CloseAttrs
<1>11. CASE CloseLeave
  BY <1>11 DEF CloseLeave, PutIfAny, Put, Writes, Raise, Landing, Place
<1>12. CASE CloseFirst
  BY <1>12 DEF CloseFirst
<1>13. CASE CloseSecond
  BY <1>13 DEF CloseSecond, Raise, Landing, Place
<1>14. CASE Release
  BY <1>14 DEF Release
<1>15. ASSUME NEW sig \in Signals, NEW inWrite \in BOOLEAN, Interrupt(sig, inWrite),
        at # "ended", signals < MaxSignals,
        IF inWrite THEN Writes(at) /\ ~busy /\ Put(at) ELSE UNCHANGED terminal
        PROVE  Where'
  <2>1. ours' = ours /\ connected' = connected /\ alternate' = alternate /\ signals' > 0
          /\ odd \subseteq odd'
    BY <1>15 DEF Interrupt
  <2>2. alt' => alternate
    BY <1>15, PutEffect DEF Writes
  <2>3. CASE sig \in ours
    BY <1>15, <2>1, <2>2, <2>3 DEF Interrupt, Place
  <2>4. CASE sig \notin ours /\ sig = "INT"
    BY <1>15, <2>1, <2>2, <2>4 DEF Interrupt, Raise, Landing, Place
  <2>5. CASE sig \notin ours /\ sig = "TERM"
    BY <1>15, <2>1, <2>2, <2>5 DEF Interrupt
  <2>6. QED
    BY <2>3, <2>4, <2>5
<1>16. CASE UNCHANGED vars
  BY <1>16 DEF vars
<1>17. QED
  BY <1>1, <1>2, <1>3, <1>4, <1>5, <1>6, <1>7, <1>8, <1>9, <1>10, <1>11, <1>12, <1>13, <1>14, <1>15, <1>16 DEF Next, Process, Signal, SignalInWrite

LEMMA NextMode == TypeOK /\ Where /\ Mode /\ [Next]_vars => Mode'
<1> SUFFICES ASSUME TypeOK, Where, Mode, [Next]_vars PROVE Mode'
  OBVIOUS
<1> USE SessionAssumption DEF TypeOK, Where, Mode, Plain, Signals, Places, Entering, Inside, Closing, GoTo, options, process, terminal, history
<1>1. CASE Start
  BY <1>1 DEF Start, Raise, Landing, Place, Places, Inside
<1>2. CASE EnterAlt
  BY <1>2 DEF EnterAlt, PutIfAny, Put, Writes
<1>3. CASE EnterCbreak
  BY <1>3 DEF EnterCbreak
<1>4. CASE EnterHandlers
  BY <1>4 DEF EnterHandlers, Handle
<1>5. CASE Setup
  BY <1>5 DEF Setup, Put, Clears
<1>6. CASE Draw
  BY <1>6 DEF Draw, Raise, Landing, Place
<1>7. CASE Read
  BY <1>7 DEF Read
<1>8. CASE ReadEnd
  BY <1>8 DEF ReadEnd
<1>9. CASE Final
  BY <1>9 DEF Final, PutIfAny, Put, Clears, Writes
<1>10. CASE CloseAttrs
  BY <1>10 DEF CloseAttrs
<1>11. CASE CloseLeave
  <2>1. CASE Writes("leave") /\ busy
    BY <1>11, <2>1, LandingTyped DEF CloseLeave, Raise, Landing, Place
  <2>2. CASE ~(Writes("leave") /\ busy)
    <3>1. at' = "unint" /\ UNCHANGED <<options, base, busy, ours, attrs, odd>>
      BY <1>11, <2>2 DEF CloseLeave, PutIfAny
    <3>2. CASE alternate
      <4>1. alt' = FALSE /\ hidden' = FALSE
        BY <1>11, <2>2, <3>2, PutEffect DEF CloseLeave, PutIfAny, Writes
      <4>2. QED
        BY <1>11, <3>1, <4>1 DEF CloseLeave
    <3>3. CASE ~alternate
      <4>1. alt' = alt /\ alt = FALSE
        BY <1>11, <2>2, <3>3 DEF CloseLeave, PutIfAny, Writes
      <4>2. QED
        BY <1>11, <3>1, <3>3, <4>1 DEF CloseLeave
    <3>4. QED
      BY <3>2, <3>3
  <2>3. QED
    BY <2>1, <2>2
<1>12. CASE CloseFirst
  BY <1>12 DEF CloseFirst
<1>13. CASE CloseSecond
  BY <1>13 DEF CloseSecond, Raise, Landing, Place
<1>14. CASE Release
  BY <1>14 DEF Release
<1>15. ASSUME NEW sig \in Signals, NEW inWrite \in BOOLEAN, Interrupt(sig, inWrite),
        at # "ended", signals < MaxSignals,
        IF inWrite THEN Writes(at) /\ ~busy /\ Put(at) ELSE UNCHANGED terminal
        PROVE  Mode'
  <2>1. ours' = ours /\ attrs' = attrs /\ alternate' = alternate
    BY <1>15 DEF Interrupt
  <2>2. "early" \notin odd' =>
          "early" \notin odd /\ (sig \in ours \/ Place \notin Entering)
    <3>1. odd' = odd \union Oddity(sig, inWrite)
      BY <1>15 DEF Interrupt
    <3>2. QED
      BY <3>1, OddityIs
  <2>3. inWrite => at \in {"alt", "leave", "setup", "draw", "final"}
    BY <1>15 DEF Writes
  <2>4. at \notin Entering \union Inside /\ Plain => Plain'
    BY <1>15, <2>1, <2>3, PutEffect DEF Put
  <2>5. inWrite /\ at = "leave" /\ "early" \notin odd => Plain'
    BY <1>15, <2>1, PutEffect
  <2>6. CASE sig \in ours
    BY <1>15, <2>1, <2>2, <2>3, <2>4, <2>5, <2>6 DEF Interrupt, Place
  <2>7. CASE sig \notin ours /\ sig = "INT"
    BY <1>15, <2>1, <2>2, <2>4, <2>7 DEF Interrupt, Raise, Landing, Place
  <2>8. CASE sig \notin ours /\ sig = "TERM"
    BY <1>15, <2>1, <2>2, <2>4, <2>8 DEF Interrupt, Place
  <2>9. QED
    BY <2>6, <2>7, <2>8
<1>16. CASE UNCHANGED vars
  BY <1>16 DEF vars
<1>17. QED
  BY <1>1, <1>2, <1>3, <1>4, <1>5, <1>6, <1>7, <1>8, <1>9, <1>10, <1>11, <1>12, <1>13, <1>14, <1>15, <1>16 DEF Next, Process, Signal, SignalInWrite

LEMMA NextCursor == TypeOK /\ Where /\ Cursor /\ [Next]_vars => Cursor'
<1> SUFFICES ASSUME TypeOK, Where, Cursor, [Next]_vars PROVE Cursor'
  OBVIOUS
<1> USE SessionAssumption DEF TypeOK, Where, Cursor, Signals, Places, Entering, Inside, Closing, GoTo, options, process, terminal, history
<1>1. CASE Start
  BY <1>1 DEF Start, Raise, Landing, Place, Places, Inside
<1>2. CASE EnterAlt
  BY <1>2 DEF EnterAlt, PutIfAny, Put, Writes
<1>3. CASE EnterCbreak
  BY <1>3 DEF EnterCbreak
<1>4. CASE EnterHandlers
  BY <1>4 DEF EnterHandlers, Handle
<1>5. CASE Setup
  BY <1>5 DEF Setup, Put, Clears
<1>6. CASE Draw
  BY <1>6 DEF Draw, Raise, Landing, Place
<1>7. CASE Read
  BY <1>7 DEF Read
<1>8. CASE ReadEnd
  BY <1>8 DEF ReadEnd
<1>9. CASE Final
  BY <1>9 DEF Final, PutIfAny, Put, Clears, Writes
<1>10. CASE CloseAttrs
  BY <1>10 DEF CloseAttrs
<1>11. CASE CloseLeave
  BY <1>11 DEF CloseLeave, PutIfAny, Put, Writes, Raise, Landing, Place
<1>12. CASE CloseFirst
  BY <1>12 DEF CloseFirst
<1>13. CASE CloseSecond
  BY <1>13 DEF CloseSecond, Raise, Landing, Place
<1>14. CASE Release
  BY <1>14 DEF Release
<1>15. ASSUME NEW sig \in Signals, NEW inWrite \in BOOLEAN, Interrupt(sig, inWrite),
        at # "ended", signals < MaxSignals,
        IF inWrite THEN Writes(at) /\ ~busy /\ Put(at) ELSE UNCHANGED terminal
        PROVE  Cursor'
  <2> DEFINE quiet == ~alternate /\ odd \intersect {"early", "eof", "late"} = {}
  <2>1. odd' = odd \union Oddity(sig, inWrite) /\ alternate' = alternate
    BY <1>15 DEF Interrupt
  <2>2. quiet' => /\ quiet
                  /\ sig \in ours \/ Place \notin Entering
                  /\ at = "final" => inWrite
    BY <2>1, OddityIs
  <2>3. CASE ~quiet'
    BY <2>3
  <2>4. CASE quiet' /\ inWrite
    <3>1. at \in {"setup", "draw", "final"}
      BY <1>15, <2>2, <2>4 DEF Writes
    <3>2. hidden' = IF at = "setup" THEN TRUE ELSE IF at = "final" THEN FALSE ELSE hidden
      BY <1>15, <2>4, <3>1 DEF Put
    <3>3. Place = at
      BY <3>1 DEF Place
    <3>4. CASE sig \in ours
      BY <1>15, <2>2, <2>4, <3>1, <3>2, <3>3, <3>4 DEF Interrupt
    <3>5. CASE sig \notin ours
      BY <1>15, <2>2, <2>4, <3>1, <3>2, <3>3, <3>5 DEF Interrupt, Raise, Landing
    <3>6. QED
      BY <3>4, <3>5
  <2>5. CASE quiet' /\ ~inWrite
    <3>1. hidden' = hidden /\ at # "final" /\ quiet
      BY <1>15, <2>2, <2>5
    <3>2. CASE sig \in ours
      BY <1>15, <2>2, <3>1, <3>2 DEF Interrupt, Place
    <3>3. CASE sig \notin ours /\ sig = "INT"
      BY <1>15, <2>2, <3>1, <3>3 DEF Interrupt, Raise, Landing, Place
    <3>4. CASE sig \notin ours /\ sig = "TERM"
      BY <1>15, <2>2, <3>1, <3>4 DEF Interrupt, Place
    <3>5. QED
      BY <3>2, <3>3, <3>4
  <2>6. QED
    BY <2>3, <2>4, <2>5
<1>16. CASE UNCHANGED vars
  BY <1>16 DEF vars
<1>17. QED
  BY <1>1, <1>2, <1>3, <1>4, <1>5, <1>6, <1>7, <1>8, <1>9, <1>10, <1>11, <1>12, <1>13, <1>14, <1>15, <1>16 DEF Next, Process, Signal, SignalInWrite

LEMMA NextPrimary == TypeOK /\ Where /\ Primary /\ [Next]_vars => Primary'
<1> SUFFICES ASSUME TypeOK, Where, Primary, [Next]_vars PROVE Primary'
  OBVIOUS
<1> USE SessionAssumption DEF TypeOK, Where, Primary, Signals, Places, Entering, Inside, Closing, GoTo, options, process, terminal, history
<1>1. CASE Start
  BY <1>1 DEF Start, Raise, Landing, Place, Places, Inside
<1>2. CASE EnterAlt
  BY <1>2 DEF EnterAlt, PutIfAny, Put, Writes
<1>3. CASE EnterCbreak
  BY <1>3 DEF EnterCbreak
<1>4. CASE EnterHandlers
  BY <1>4 DEF EnterHandlers, Handle
<1>5. CASE Setup
  BY <1>5 DEF Setup, Put, Clears
<1>6. CASE Draw
  BY <1>6 DEF Draw, Raise, Landing, Place
<1>7. CASE Read
  BY <1>7 DEF Read
<1>8. CASE ReadEnd
  BY <1>8 DEF ReadEnd
<1>9. CASE Final
  BY <1>9 DEF Final, PutIfAny, Put, Clears, Writes
<1>10. CASE CloseAttrs
  BY <1>10 DEF CloseAttrs
<1>11. CASE CloseLeave
  BY <1>11 DEF CloseLeave, PutIfAny, Put, Writes, Raise, Landing, Place
<1>12. CASE CloseFirst
  BY <1>12 DEF CloseFirst
<1>13. CASE CloseSecond
  BY <1>13 DEF CloseSecond, Raise, Landing, Place
<1>14. CASE Release
  BY <1>14 DEF Release
<1>15. ASSUME NEW sig \in Signals, NEW inWrite \in BOOLEAN, Interrupt(sig, inWrite),
        at # "ended", signals < MaxSignals,
        IF inWrite THEN Writes(at) /\ ~busy /\ Put(at) ELSE UNCHANGED terminal
        PROVE  Primary'
  <2>1. odd' = odd \union Oddity(sig, inWrite) /\ alternate' = alternate
    BY <1>15 DEF Interrupt
  <2>2. /\ "early" \in odd' <=> "early" \in odd \/ (Place \in Entering /\ sig \notin ours)
        /\ "behind" \in odd => "behind" \in odd'
        /\ Place \in Inside /\ sig \in ours => "behind" \in odd'
    BY <2>1, OddityIs
  <2>3. /\ cleared' => cleared \/ (at = "setup" /\ ~alt) \/ (at = "final" /\ ~alt)
        /\ at \notin {"setup", "final"} => cleared' = cleared
    BY <1>15 DEF Put, Writes, Clears
  <2>4. at \notin {"alt", "leave"} => alt' = alt
    BY <1>15, PutEffect DEF Writes
  <2>5. alternate' /\ cleared' => "behind" \in odd'
    BY <2>1, <2>2, <2>3
  <2>6. CASE sig \in ours
    <3>1. at' = "attrs" /\ base' = Place
      BY <1>15, <2>6 DEF Interrupt
    <3>2. Place \in Entering => at \in Entering \/ base \in Entering
      BY DEF Place
    <3>3. Place \in Entering => ~cleared'
      BY <2>3, <3>2 DEF Place
    <3>4. "early" \in odd => Place = "release" /\ ~cleared'
      BY <1>15, <2>3 DEF Place
    <3>5. QED
      BY <2>1, <2>2, <2>5, <2>6, <3>1, <3>3, <3>4
  <2>7. CASE sig \notin ours /\ sig = "INT"
    <3>1. at' = Landing(Place) /\ base' = None
      BY <1>15, <2>7 DEF Interrupt, Raise
    <3>2. at' = "final" => Place \in Inside
      BY <1>15, <3>1, PlaceTyped DEF Landing
    <3>3. QED
      BY <1>15, <2>1, <2>2, <2>3, <2>5, <2>7, <3>1, <3>2, PlaceTyped DEF Landing, Place
  <2>8. CASE sig \notin ours /\ sig = "TERM"
    <3>1. at' = "ended" /\ base' = base
      BY <1>15, <2>8 DEF Interrupt
    <3>2. QED
      BY <1>15, <2>1, <2>2, <2>3, <2>5, <2>8, <3>1 DEF Place
  <2>9. QED
    BY <2>6, <2>7, <2>8
<1>16. CASE UNCHANGED vars
  BY <1>16 DEF vars
<1>17. QED
  BY <1>1, <1>2, <1>3, <1>4, <1>5, <1>6, <1>7, <1>8, <1>9, <1>10, <1>11, <1>12, <1>13, <1>14, <1>15, <1>16 DEF Next, Process, Signal, SignalInWrite

-------------------------------------------------------------------------------
(* Type correctness; the input mode is remembered as long as it is changed. *)
THEOREM TypeCorrect == Spec => []TypeOK
<1>1. QED
  BY InitAll, NextTyped, NextWhere, PTL DEF Spec

(* With any number of signals at any moment, the terminal is as it was     *)
(* when the session has ended, but in the cases that Restored names: a     *)
(* signal before the handlers are installed, a cursor left hidden without  *)
(* the alternate screen, and a primary screen cleared behind a signal.     *)
THEOREM TerminalIsRestored == Spec => []Restored
<1>1. TypeOK /\ Where /\ Mode /\ Cursor /\ Primary => Restored
  BY DEF TypeOK, Where, Mode, Plain, Cursor, Primary, Restored, ModeRestored,
     CursorShown, PrimaryKept
<1>2. QED
  BY <1>1, InitAll, NextTyped, NextWhere, NextMode, NextCursor, NextPrimary, PTL
     DEF Spec

===============================================================================
