---------------------------- MODULE EditorProofs ----------------------------
(***************************************************************************)
(* The history of EditorMode's UndoStack, its selection and its drags, for *)
(* any lines, positions and stack limits and whatever the user does in     *)
(* the middle of a drag.                                                   *)
(***************************************************************************)
EXTENDS EditorMode, FiniteSetTheorems, SequenceTheorems,
        WellFoundedInduction, NaturalsInduction, TLAPS

Docs == [p1 : Ends, p2 : Ends, flags : SUBSET Lines, mSelectedLines : SUBSET Lines]
Coherent(d) == d \in Docs /\ d.flags = d.mSelectedLines

\* The commands that are created for a document d.
Selects(d) == {SelectOrDeselectLine(idx, TRUE) : idx \in Lines \ d.flags}
Deselects(d) == {SelectOrDeselectLine(idx, FALSE) : idx \in d.flags}
Clears(d)  == {[id |-> "ClearSelection", mOldSelection |-> d.mSelectedLines]}
PointMoves(d) ==
  IF d.mSelectedLines = {} THEN {}
  ELSE {MoveLinePoint(d, pos, isP1) : pos \in Pos, isP1 \in BOOLEAN}
LineMoves == {MoveSelection(delta) : delta \in Pos}
Recorded(d) ==
  Selects(d) \cup Deselects(d) \cup Clears(d) \cup PointMoves(d) \cup LineMoves

-----------------------------------------------------------------------------
(* One command: doing it and undoing it.                                   *)

LEMMA Modulo ==
  ASSUME NEW x \in Pos, NEW delta \in Pos
  PROVE  /\ (x + delta) % PosCount \in Pos
         /\ (((x + delta) % PosCount) + (-delta)) % PosCount = x
<1> USE EditorAssumption DEF Pos
<1>1. CASE x + delta < PosCount
  <2>1. (x + delta) % PosCount = x + delta
    BY <1>1
  <2>2. x % PosCount = x
    OBVIOUS
  <2>3. x + delta + (-delta) = x
    OBVIOUS
  <2> QED BY <1>1, <2>1, <2>2, <2>3
<1>2. CASE x + delta >= PosCount
  <2>1. (x + delta) % PosCount = x + delta - PosCount
    BY <1>2
  <2>2. x + delta - PosCount + (-delta) = x - PosCount
    OBVIOUS
  <2>3. (x - PosCount) % PosCount = x
    OBVIOUS
  <2> QED BY <1>2, <2>1, <2>2, <2>3
<1> QED BY <1>1, <1>2

LEMMA MovedBack ==
  ASSUME NEW points \in Ends, NEW lines \in SUBSET Lines, NEW delta \in Pos
  PROVE  /\ Moved(points, lines, delta) \in Ends
         /\ Moved(Moved(points, lines, delta), lines, -delta) = points
<1>1. \A l \in Lines : points[l] \in Pos
  BY DEF Ends
<1>2. Moved(points, lines, delta) \in Ends
  BY <1>1, Modulo DEF Moved, Ends
<1>3. \A l \in Lines :
        Moved(Moved(points, lines, delta), lines, -delta)[l] = points[l]
  BY <1>1, Modulo DEF Moved
<1>4. Moved(Moved(points, lines, delta), lines, -delta)
        \in [Lines -> {points[l] : l \in Lines}]
  BY <1>3 DEF Moved
<1> QED BY <1>2, <1>3, <1>4 DEF Ends

LEMMA FirstIsLine ==
  ASSUME NEW d, d.mSelectedLines \in SUBSET Lines, d.mSelectedLines # {}
  PROVE  First(d) \in d.mSelectedLines
<1> DEFINE S == d.mSelectedLines
           less == OpToRel(<, Nat)
<1>1. IsWellFoundedOn(less, Nat)
  BY NatLessThanWellFounded
<1>2. S \subseteq Nat /\ S # {}
  BY EditorAssumption
<1> HIDE DEF less
<1>3. PICK x \in S : \A y \in S : ~(<<y, x>> \in less)
  BY <1>1, <1>2, WFMin, Zenon
<1>4. \A y \in S : ~(y < x)
  BY <1>2, <1>3 DEF OpToRel, less
<1>5. \A y \in S : x <= y
  BY <1>2, <1>4
<1> QED BY <1>5 DEF First

\* A document with this selection.
Doc(p1, p2, selected) ==
  [p1 |-> p1, p2 |-> p2, flags |-> selected, mSelectedLines |-> selected]

LEMMA DocForm ==
  /\ \A d : Coherent(d) =>
       /\ d.p1 \in Ends /\ d.p2 \in Ends /\ d.mSelectedLines \in SUBSET Lines
       /\ d.flags = d.mSelectedLines
       /\ d = Doc(d.p1, d.p2, d.mSelectedLines)
  /\ \A a, b \in Ends, sel \in SUBSET Lines : Coherent(Doc(a, b, sel))
  BY DEF Coherent, Docs, Doc

LEMMA SelectCommand ==
  ASSUME NEW d, Coherent(d), NEW c \in Selects(d) \cup Deselects(d)
  PROVE  /\ Coherent(Redo(c, d)) /\ Done(c, d) = c
         /\ Undo(c, Redo(c, d)) = d
<1> DEFINE a == d.p1  b == d.p2  sel == d.mSelectedLines
<1>0. /\ a \in Ends /\ b \in Ends /\ sel \in SUBSET Lines /\ d.flags = sel
      /\ d = Doc(a, b, sel)
  BY DocForm
<1> HIDE DEF a, b, sel
<1>1. ASSUME NEW t, NEW idx
      PROVE  /\ Select(Doc(a, b, t), idx, TRUE) = Doc(a, b, t \cup {idx})
             /\ Select(Doc(a, b, t), idx, FALSE) = Doc(a, b, t \ {idx})
  BY DEF Select, Doc
<1>2. ASSUME NEW idx \in Lines \ sel, c = SelectOrDeselectLine(idx, TRUE)
      PROVE  /\ Coherent(Redo(c, d)) /\ Done(c, d) = c
             /\ Undo(c, Redo(c, d)) = d
  <2>1. c.id = "SelectOrDeselectLine" /\ c.mIdx = idx /\ c.mSelect = TRUE
    BY <1>2 DEF SelectOrDeselectLine
  <2>2. Redo(c, d) = Select(d, idx, TRUE)
    BY <2>1 DEF Redo
  <2>3. Undo(c, Redo(c, d)) = Select(Redo(c, d), idx, FALSE)
    BY <2>1 DEF Undo
  <2>4. Redo(c, d) = Doc(a, b, sel \cup {idx})
    BY <1>0, <1>1, <2>2
  <2>5. Undo(c, Redo(c, d)) = Doc(a, b, (sel \cup {idx}) \ {idx})
    BY <1>1, <2>3, <2>4
  <2>6. (sel \cup {idx}) \ {idx} = sel
    BY <1>2
  <2>7. Done(c, d) = c
    BY <2>1 DEF Done
  <2>8. Coherent(Doc(a, b, sel \cup {idx}))
    BY <1>0, <1>2, DocForm
  <2> QED BY <1>0, <2>4, <2>5, <2>6, <2>7, <2>8
<1>3. ASSUME NEW idx \in sel, c = SelectOrDeselectLine(idx, FALSE)
      PROVE  /\ Coherent(Redo(c, d)) /\ Done(c, d) = c
             /\ Undo(c, Redo(c, d)) = d
  <2>1. c.id = "SelectOrDeselectLine" /\ c.mIdx = idx /\ c.mSelect = FALSE
    BY <1>3 DEF SelectOrDeselectLine
  <2>2. Redo(c, d) = Select(d, idx, FALSE)
    BY <2>1 DEF Redo
  <2>3. Undo(c, Redo(c, d)) = Select(Redo(c, d), idx, TRUE)
    BY <2>1 DEF Undo
  <2>4. Redo(c, d) = Doc(a, b, sel \ {idx})
    BY <1>0, <1>1, <2>2
  <2>5. Undo(c, Redo(c, d)) = Doc(a, b, (sel \ {idx}) \cup {idx})
    BY <1>1, <2>3, <2>4
  <2>6. (sel \ {idx}) \cup {idx} = sel
    BY <1>3
  <2>7. Done(c, d) = c
    BY <2>1 DEF Done
  <2>8. Coherent(Doc(a, b, sel \ {idx}))
    BY <1>0, <1>3, DocForm
  <2> QED BY <1>0, <2>4, <2>5, <2>6, <2>7, <2>8
<1> QED BY <1>0, <1>2, <1>3 DEF Selects, Deselects

LEMMA ClearCommand ==
  ASSUME NEW d, Coherent(d), NEW c \in Clears(d)
  PROVE  /\ Coherent(Redo(c, d)) /\ Done(c, d) = c
         /\ Undo(c, Redo(c, d)) = d
         /\ Done(CommandClearSelection, d) = c
         /\ Redo(CommandClearSelection, d) = Redo(c, d)
         /\ Redo(c, d).mSelectedLines = {}
<1> DEFINE a == d.p1  b == d.p2  sel == d.mSelectedLines
<1>0. /\ a \in Ends /\ b \in Ends /\ sel \in SUBSET Lines /\ d.flags = sel
      /\ d = Doc(a, b, sel)
  BY DocForm
<1>1. c = [id |-> "ClearSelection", mOldSelection |-> sel]
  BY DEF Clears
<1> HIDE DEF a, b, sel
<1>2. c.id = "ClearSelection" /\ c.mOldSelection = sel
  BY <1>1
<1>3. ClearSelection(Doc(a, b, sel)) = Doc(a, b, {})
  <2>1. ClearSelection(Doc(a, b, sel))
          = [Doc(a, b, sel) EXCEPT !.flags = {}, !.mSelectedLines = {}]
    BY DEF ClearSelection, Doc
  <2> QED BY <2>1 DEF Doc
<1>4. Redo(c, d) = Doc(a, b, {}) /\ Redo(CommandClearSelection, d) = Doc(a, b, {})
  BY <1>0, <1>2, <1>3 DEF Redo, CommandClearSelection
<1>5. Undo(c, Doc(a, b, {})) = Doc(a, b, sel)
  BY <1>2 DEF Undo, Doc
<1>6. Doc(a, b, sel).mSelectedLines = sel /\ Doc(a, b, {}).mSelectedLines = {}
  BY DEF Doc
<1>7. Done(c, d) = c
  BY <1>0, <1>1, <1>6 DEF Done
<1>8. Done(CommandClearSelection, d) = c
  BY <1>0, <1>1, <1>6 DEF Done, CommandClearSelection
<1>9. Coherent(Doc(a, b, {}))
  BY <1>0, DocForm
<1> QED BY <1>0, <1>4, <1>5, <1>6, <1>7, <1>8, <1>9

LEMMA PointCommand ==
  ASSUME NEW d, Coherent(d), NEW c \in PointMoves(d)
  PROVE  /\ Coherent(Redo(c, d)) /\ Done(c, d) = c
         /\ Redo(c, d).mSelectedLines = d.mSelectedLines
         /\ Undo(c, Redo(c, d)) = d
<1> DEFINE a == d.p1  b == d.p2  sel == d.mSelectedLines  f == First(d)
           With(x, q) == [x EXCEPT ![f] = q]
<1>0. /\ a \in Ends /\ b \in Ends /\ sel \in SUBSET Lines
      /\ d = Doc(a, b, sel)
  BY DocForm
<1>1. PICK pos \in Pos, isP1 \in BOOLEAN : c = MoveLinePoint(d, pos, isP1)
  BY DEF PointMoves
<1>2. f \in sel /\ f \in Lines
  BY <1>0, FirstIsLine DEF PointMoves
<1>3. \A e : e.mSelectedLines = sel => First(e) = f
  BY DEF First
<1> HIDE DEF a, b, sel, f
<1>4. \A x, y : Doc(x, y, sel).mSelectedLines = sel /\ First(Doc(x, y, sel)) = f
  BY <1>3 DEF Doc
<1>5. ASSUME NEW x, NEW y, NEW q
      PROVE  SetPoint(Doc(x, y, sel), TRUE, q) = Doc(With(x, q), y, sel)
  BY <1>4 DEF SetPoint, Doc
<1>6. ASSUME NEW x, NEW y, NEW q
       PROVE  SetPoint(Doc(x, y, sel), FALSE, q) = Doc(x, With(y, q), sel)
  BY <1>4 DEF SetPoint, Doc
<1>7. ASSUME NEW x \in Ends, NEW q \in Pos
      PROVE  With(With(x, q), x[f]) = x
  BY <1>2, <1>7 DEF Ends
<1>8. /\ With(a, pos) \in Ends /\ With(b, pos) \in Ends
  BY <1>0, <1>1 DEF Ends
<1>9. Point(d, TRUE) = a[f] /\ Point(d, FALSE) = b[f]
  BY DEF Point, a, b, f
<1> HIDE DEF With
<1>10. CASE isP1 = TRUE
  <2>1. /\ c.id = "MoveLinePoint" /\ c.mApplyToP1 = TRUE /\ c.mNewPos = pos
        /\ c.mOldPos = a[f]
    BY <1>1, <1>9, <1>10 DEF MoveLinePoint
  <2>2. Redo(c, d) = SetPoint(d, TRUE, pos)
    BY <2>1 DEF Redo
  <2>3. Undo(c, Redo(c, d)) = SetPoint(Redo(c, d), TRUE, a[f])
    BY <2>1 DEF Undo
  <2>4. Redo(c, d) = Doc(With(a, pos), b, sel)
    BY <1>0, <1>5, <2>2
  <2>5. Undo(c, Redo(c, d))
          = Doc(With(With(a, pos), a[f]), b, sel)
    <3>1. SetPoint(Doc(With(a, pos), b, sel), TRUE, a[f])
            = Doc(With(With(a, pos), a[f]), b, sel)
      BY <1>5
    <3> QED BY <2>3, <2>4, <3>1
  <2>6. Done(c, d) = c
    BY <2>1 DEF Done
  <2>7. Coherent(Redo(c, d))
    BY <1>0, <1>8, <2>4, DocForm
  <2> QED BY <1>0, <1>4, <1>7, <2>4, <2>5, <2>6, <2>7 DEF sel
<1>11. CASE isP1 = FALSE
  <2>1. /\ c.id = "MoveLinePoint" /\ c.mApplyToP1 = FALSE /\ c.mNewPos = pos
        /\ c.mOldPos = b[f]
    BY <1>1, <1>9, <1>11 DEF MoveLinePoint
  <2>2. Redo(c, d) = SetPoint(d, FALSE, pos)
    BY <2>1 DEF Redo
  <2>3. Undo(c, Redo(c, d)) = SetPoint(Redo(c, d), FALSE, b[f])
    BY <2>1 DEF Undo
  <2>4. Redo(c, d) = Doc(a, With(b, pos), sel)
    <3>1. SetPoint(Doc(a, b, sel), FALSE, pos) = Doc(a, With(b, pos), sel)
      BY <1>6, Zenon
    <3> QED BY <1>0, <2>2, <3>1
  <2>5. Undo(c, Redo(c, d))
          = Doc(a, With(With(b, pos), b[f]), sel)
    <3>1. SetPoint(Doc(a, With(b, pos), sel), FALSE, b[f])
            = Doc(a, With(With(b, pos), b[f]), sel)
      BY <1>6, Zenon
    <3> QED BY <2>3, <2>4, <3>1
  <2>6. Done(c, d) = c
    BY <2>1 DEF Done
  <2>7. Coherent(Redo(c, d))
    BY <1>0, <1>8, <2>4, DocForm
  <2> QED BY <1>0, <1>4, <1>7, <2>4, <2>5, <2>6, <2>7 DEF sel
<1> QED BY <1>10, <1>11

LEMMA LineCommand ==
  ASSUME NEW d, Coherent(d), NEW c \in LineMoves
  PROVE  /\ Coherent(Redo(c, d)) /\ Done(c, d) = c
         /\ Redo(c, d).mSelectedLines = d.mSelectedLines
         /\ Undo(c, Redo(c, d)) = d
<1> DEFINE a == d.p1  b == d.p2  sel == d.mSelectedLines
<1>0. /\ a \in Ends /\ b \in Ends /\ sel \in SUBSET Lines
      /\ d = Doc(a, b, sel)
  BY DocForm
<1> HIDE DEF a, b, sel
<1>1. PICK delta \in Pos : c = MoveSelection(delta)
  BY DEF LineMoves
<1>2. c.id = "MoveSelection" /\ c.mDelta = delta
  BY <1>1 DEF MoveSelection
<1>3. ASSUME NEW x, NEW y, NEW k
      PROVE  Shift(Doc(x, y, sel), k) = Doc(Moved(x, sel, k), Moved(y, sel, k), sel)
  <2>1. Shift(Doc(x, y, sel), k)
          = [Doc(x, y, sel) EXCEPT !.p1 = Moved(x, sel, k), !.p2 = Moved(y, sel, k)]
    BY DEF Shift, Doc
  <2> QED BY <2>1 DEF Doc
<1>4. Redo(c, d) = Shift(d, delta)
  BY <1>2 DEF Redo
<1>5. Undo(c, Redo(c, d)) = Shift(Redo(c, d), -delta)
  BY <1>2 DEF Undo
<1>6. Redo(c, d) = Doc(Moved(a, sel, delta), Moved(b, sel, delta), sel)
  BY <1>0, <1>3, <1>4
<1>7. Undo(c, Redo(c, d)) = d
  BY <1>0, <1>3, <1>5, <1>6, MovedBack
<1>8. Coherent(Redo(c, d))
  BY <1>0, <1>6, MovedBack, DocForm
<1>9. Done(c, d) = c
  BY <1>2 DEF Done
<1>10. Doc(Moved(a, sel, delta), Moved(b, sel, delta), sel).mSelectedLines = sel
  BY DEF Doc
<1> QED BY <1>6, <1>7, <1>8, <1>9, <1>10 DEF sel

\* Undo reverts what Redo did, from the document the command was created for.
LEMMA Reversible ==
  ASSUME NEW d, Coherent(d), NEW c \in Recorded(d)
  PROVE  /\ Coherent(Redo(c, d)) /\ Done(c, d) = c
         /\ Undo(c, Redo(c, d)) = d
  BY SelectCommand, ClearCommand, PointCommand, LineCommand DEF Recorded

-----------------------------------------------------------------------------
(* What a command does to the selection, whatever document it is done for.  *)

Commands ==
  {SelectOrDeselectLine(idx, select) : idx \in Lines, select \in BOOLEAN}
    \cup {[id |-> "ClearSelection", mOldSelection |-> s] : s \in SUBSET Lines}
    \cup {[id |-> "MoveLinePoint", mOldPos |-> x, mNewPos |-> y, mApplyToP1 |-> isP1] :
            x \in Pos, y \in Pos, isP1 \in BOOLEAN}
    \cup LineMoves

\* The selection after the command has been done to s, and before it was.
After(c, s) ==
  CASE c.id = "SelectOrDeselectLine" -> IF c.mSelect THEN s \cup {c.mIdx} ELSE s \ {c.mIdx}
    [] c.id = "ClearSelection"       -> {}
    [] OTHER                         -> s
Before(c, s) ==
  CASE c.id = "SelectOrDeselectLine" -> IF c.mSelect THEN s \ {c.mIdx} ELSE s \cup {c.mIdx}
    [] c.id = "ClearSelection"       -> s \cup c.mOldSelection
    [] OTHER                         -> s

\* The command was created for a document with the selection s.
Fits(c, s) ==
  /\ c.id = "SelectOrDeselectLine" => \/ c.mSelect = TRUE /\ c.mIdx \notin s
                                      \/ c.mSelect = FALSE /\ c.mIdx \in s
  /\ c.id = "ClearSelection" => c.mOldSelection = s
  /\ c.id = "MoveLinePoint"  => s # {}

LEMMA InCommands ==
  /\ \A idx \in Lines, select \in BOOLEAN : SelectOrDeselectLine(idx, select) \in Commands
  /\ \A delta \in Pos : MoveSelection(delta) \in Commands
  BY DEF Commands, LineMoves

LEMMA CommandForms ==
  ASSUME NEW c \in Commands
  PROVE  \/ \E idx \in Lines, select \in BOOLEAN : c = SelectOrDeselectLine(idx, select)
         \/ \E s \in SUBSET Lines : c = [id |-> "ClearSelection", mOldSelection |-> s]
         \/ \E x \in Pos, y \in Pos, isP1 \in BOOLEAN :
              c = [id |-> "MoveLinePoint", mOldPos |-> x, mNewPos |-> y, mApplyToP1 |-> isP1]
         \/ \E delta \in Pos : c = MoveSelection(delta)
  BY DEF Commands, LineMoves

LEMMA ClearForm ==
  ASSUME NEW c \in Commands, c.id = "ClearSelection"
  PROVE  \E s \in SUBSET Lines : c = [id |-> "ClearSelection", mOldSelection |-> s]
  BY CommandForms DEF SelectOrDeselectLine, MoveSelection

\* Undoing a command gives back the selection there was.
LEMMA Turn ==
  ASSUME NEW c \in Commands, NEW s \in SUBSET Lines, Fits(c, s)
  PROVE  /\ Before(c, After(c, s)) = s /\ After(c, s) \in SUBSET Lines
         /\ c.id = "MoveLinePoint" => After(c, s) # {}
<1>1. ASSUME NEW idx \in Lines, NEW select \in BOOLEAN, c = SelectOrDeselectLine(idx, select)
      PROVE  /\ Before(c, After(c, s)) = s /\ After(c, s) \in SUBSET Lines
             /\ c.id = "MoveLinePoint" => After(c, s) # {}
  <2>1. c.id = "SelectOrDeselectLine" /\ c.mIdx = idx /\ c.mSelect = select
    BY <1>1 DEF SelectOrDeselectLine
  <2>2. CASE select = TRUE
    <3>1. After(c, s) = s \cup {idx} /\ idx \notin s
      BY <2>1, <2>2 DEF After, Fits
    <3>2. Before(c, After(c, s)) = (s \cup {idx}) \ {idx}
      BY <2>1, <2>2, <3>1 DEF Before
    <3> QED BY <1>1, <2>1, <3>1, <3>2
  <2>3. CASE select = FALSE
    <3>1. After(c, s) = s \ {idx} /\ idx \in s
      BY <2>1, <2>3 DEF After, Fits
    <3>2. Before(c, After(c, s)) = (s \ {idx}) \cup {idx}
      BY <2>1, <2>3, <3>1 DEF Before
    <3> QED BY <1>1, <2>1, <3>1, <3>2
  <2> QED BY <2>2, <2>3
<1>2. ASSUME NEW t \in SUBSET Lines, c = [id |-> "ClearSelection", mOldSelection |-> t]
      PROVE  /\ Before(c, After(c, s)) = s /\ After(c, s) \in SUBSET Lines
             /\ c.id = "MoveLinePoint" => After(c, s) # {}
  <2>1. c.id = "ClearSelection" /\ c.mOldSelection = s
    BY <1>2 DEF Fits
  <2>2. After(c, s) = {} /\ Before(c, {}) = {} \cup s
    BY <2>1 DEF After, Before
  <2> QED BY <2>1, <2>2
<1>3. ASSUME c.id = "MoveLinePoint" \/ c.id = "MoveSelection"
      PROVE  /\ Before(c, After(c, s)) = s /\ After(c, s) \in SUBSET Lines
             /\ c.id = "MoveLinePoint" => After(c, s) # {}
  <2>1. After(c, s) = s /\ Before(c, s) = s
    BY <1>3 DEF After, Before
  <2> QED BY <2>1 DEF Fits
<1> QED BY <1>1, <1>2, <1>3, CommandForms DEF MoveSelection

LEMMA DocFields ==
  ASSUME NEW d \in Docs
  PROVE  /\ d.p1 \in Ends /\ d.p2 \in Ends
         /\ d.flags \in SUBSET Lines /\ d.mSelectedLines \in SUBSET Lines
         /\ \A t \in SUBSET Lines, u \in SUBSET Lines :
              [d EXCEPT !.flags = t, !.mSelectedLines = u] \in Docs
         /\ \A a \in Ends, b \in Ends : [d EXCEPT !.p1 = a, !.p2 = b] \in Docs
  BY DEF Docs

\* A command done to any document, and undone.
Does(c, d) ==
  /\ Redo(c, d) \in Docs /\ Redo(c, d).mSelectedLines = After(c, d.mSelectedLines)
  /\ Coherent(d) => Coherent(Redo(c, d))
  /\ Undo(c, d) \in Docs /\ Undo(c, d).mSelectedLines = Before(c, d.mSelectedLines)
  /\ Coherent(d) => Coherent(Undo(c, d))

LEMMA SelectDoes ==
  ASSUME NEW d \in Docs, NEW idx \in Lines, NEW select \in BOOLEAN
  PROVE  Does(SelectOrDeselectLine(idx, select), d)
<1> DEFINE c == SelectOrDeselectLine(idx, select)
           f == d.flags
           s == d.mSelectedLines
           On  == [d EXCEPT !.flags = f \cup {idx}, !.mSelectedLines = s \cup {idx}]
           Off == [d EXCEPT !.flags = f \ {idx}, !.mSelectedLines = s \ {idx}]
<1>1. c.id = "SelectOrDeselectLine" /\ c.mIdx = idx /\ c.mSelect = select
  BY DEF SelectOrDeselectLine
<1>2. /\ On \in Docs /\ On.mSelectedLines = s \cup {idx} /\ On.flags = f \cup {idx}
      /\ Off \in Docs /\ Off.mSelectedLines = s \ {idx} /\ Off.flags = f \ {idx}
  BY DEF Docs
<1>3. Coherent(d) => Coherent(On) /\ Coherent(Off)
  BY <1>2 DEF Coherent
<1>4. CASE select = TRUE
  <2>1. Redo(c, d) = On /\ Undo(c, d) = Off
    BY <1>1, <1>4 DEF Redo, Undo, Select
  <2>2. After(c, s) = s \cup {idx} /\ Before(c, s) = s \ {idx}
    BY <1>1, <1>4 DEF After, Before
  <2> HIDE DEF c, On, Off
  <2>3. Does(c, d)
    BY <1>2, <1>3, <2>1, <2>2 DEF Does
  <2> QED BY <2>3 DEF c
<1>5. CASE select = FALSE
  <2>1. Redo(c, d) = Off /\ Undo(c, d) = On
    BY <1>1, <1>5 DEF Redo, Undo, Select
  <2>2. After(c, s) = s \ {idx} /\ Before(c, s) = s \cup {idx}
    BY <1>1, <1>5 DEF After, Before
  <2> HIDE DEF c, On, Off
  <2>3. Does(c, d)
    BY <1>2, <1>3, <2>1, <2>2 DEF Does
  <2> QED BY <2>3 DEF c
<1> QED BY <1>4, <1>5

LEMMA ClearDoes ==
  ASSUME NEW d \in Docs, NEW t \in SUBSET Lines, NEW c,
         c = [id |-> "ClearSelection", mOldSelection |-> t]
  PROVE  Does(c, d)
<1> DEFINE f == d.flags
           s == d.mSelectedLines
           On  == [d EXCEPT !.flags = f \cup t, !.mSelectedLines = s \cup t]
           Off == [d EXCEPT !.flags = f \ s, !.mSelectedLines = {}]
<1>1. c.id = "ClearSelection" /\ c.mOldSelection = t
  OBVIOUS
<1>2. /\ On \in Docs /\ On.mSelectedLines = s \cup t /\ On.flags = f \cup t
      /\ Off \in Docs /\ Off.mSelectedLines = {} /\ Off.flags = f \ s
  BY DEF Docs
<1>3. Coherent(d) => Coherent(On) /\ Coherent(Off)
  BY <1>2 DEF Coherent
<1>4. Redo(c, d) = Off /\ Undo(c, d) = On
  BY <1>1 DEF Redo, Undo, ClearSelection
<1>5. After(c, s) = {} /\ Before(c, s) = s \cup t
  BY <1>1 DEF After, Before
<1> HIDE DEF On, Off
<1> QED BY <1>2, <1>3, <1>4, <1>5 DEF Does

LEMMA PointDoes ==
  ASSUME NEW d \in Docs, d.mSelectedLines # {},
         NEW x \in Pos, NEW y \in Pos, NEW isP1 \in BOOLEAN, NEW c,
         c = [id |-> "MoveLinePoint", mOldPos |-> x, mNewPos |-> y, mApplyToP1 |-> isP1]
  PROVE  Does(c, d)
<1> DEFINE s == d.mSelectedLines
<1>1. /\ c.id = "MoveLinePoint" /\ c.mOldPos = x /\ c.mNewPos = y /\ c.mApplyToP1 = isP1
  OBVIOUS
<1>2. First(d) \in Lines
  BY FirstIsLine DEF Docs
<1>3. ASSUME NEW q \in Pos
      PROVE  /\ SetPoint(d, isP1, q) \in Docs
             /\ SetPoint(d, isP1, q).mSelectedLines = s
             /\ SetPoint(d, isP1, q).flags = d.flags
  <2> DEFINE k == First(d)
             a == [d.p1 EXCEPT ![k] = q]
             b == [d.p2 EXCEPT ![k] = q]
  <2> HIDE DEF k
  <2>1. a \in Ends /\ b \in Ends
    BY <1>2 DEF Docs, Ends, k
  <2>2. SetPoint(d, isP1, q) = IF isP1 THEN [d EXCEPT !.p1 = a] ELSE [d EXCEPT !.p2 = b]
    BY DEF SetPoint, k
  <2> HIDE DEF a, b
  <2>3. /\ [d EXCEPT !.p1 = a] \in Docs /\ [d EXCEPT !.p2 = b] \in Docs
        /\ [d EXCEPT !.p1 = a].mSelectedLines = s /\ [d EXCEPT !.p2 = b].mSelectedLines = s
        /\ [d EXCEPT !.p1 = a].flags = d.flags /\ [d EXCEPT !.p2 = b].flags = d.flags
    BY <2>1 DEF Docs
  <2> QED BY <2>2, <2>3
<1>4. Redo(c, d) = SetPoint(d, isP1, y) /\ Undo(c, d) = SetPoint(d, isP1, x)
  BY <1>1 DEF Redo, Undo
<1>5. After(c, s) = s /\ Before(c, s) = s
  BY <1>1 DEF After, Before
<1>6. /\ Redo(c, d) \in Docs /\ Redo(c, d).mSelectedLines = s /\ Redo(c, d).flags = d.flags
      /\ Undo(c, d) \in Docs /\ Undo(c, d).mSelectedLines = s /\ Undo(c, d).flags = d.flags
  BY <1>3, <1>4
<1> QED BY <1>5, <1>6 DEF Does, Coherent

LEMMA LineDoes ==
  ASSUME NEW d \in Docs, NEW delta \in Pos
  PROVE  Does(MoveSelection(delta), d)
<1> DEFINE c == MoveSelection(delta)
           s == d.mSelectedLines
<1>1. c.id = "MoveSelection" /\ c.mDelta = delta
  BY DEF MoveSelection
<1>2. ASSUME NEW points \in Ends
      PROVE  Moved(points, s, delta) \in Ends /\ Moved(points, s, -delta) \in Ends
  <2>1. \A l \in Lines : /\ points[l] \in Pos
                         /\ (points[l] + delta) % PosCount \in Pos
                         /\ (points[l] + (-delta)) % PosCount \in Pos
    BY EditorAssumption DEF Ends, Pos
  <2> QED BY <2>1 DEF Moved, Ends
<1>3. ASSUME NEW k, Moved(d.p1, s, k) \in Ends, Moved(d.p2, s, k) \in Ends
      PROVE  /\ Shift(d, k) \in Docs /\ Shift(d, k).mSelectedLines = s
             /\ Shift(d, k).flags = d.flags
  <2> DEFINE a == Moved(d.p1, s, k)
             b == Moved(d.p2, s, k)
  <2>1. Shift(d, k) = [d EXCEPT !.p1 = a, !.p2 = b]
    BY DEF Shift
  <2>2. a \in Ends /\ b \in Ends
    BY <1>3
  <2> HIDE DEF a, b
  <2> QED BY <2>1, <2>2 DEF Docs
<1>4. Redo(c, d) = Shift(d, delta) /\ Undo(c, d) = Shift(d, -delta)
  BY <1>1 DEF Redo, Undo
<1>5. After(c, s) = s /\ Before(c, s) = s
  BY <1>1 DEF After, Before
<1>7. d.p1 \in Ends /\ d.p2 \in Ends
  BY DEF Docs
<1>6. /\ Redo(c, d) \in Docs /\ Redo(c, d).mSelectedLines = s /\ Redo(c, d).flags = d.flags
      /\ Undo(c, d) \in Docs /\ Undo(c, d).mSelectedLines = s /\ Undo(c, d).flags = d.flags
  BY <1>2, <1>3, <1>4, <1>7
<1> HIDE DEF c
<1>8. Does(c, d)
  BY <1>5, <1>6 DEF Does, Coherent
<1> QED BY <1>8 DEF c

LEMMA CommandDoes ==
  ASSUME NEW d \in Docs, NEW c \in Commands, Finds(c, d)
  PROVE  Does(c, d) /\ Done(c, d) \in Commands
<1>1. Does(c, d)
  <2>1. c.id = "MoveLinePoint" => d.mSelectedLines # {}
    BY DEF Finds
  <2> QED BY <2>1, CommandForms, SelectDoes, ClearDoes, PointDoes, LineDoes
<1>2. Done(c, d) \in Commands
  <2>1. CASE c.id = "ClearSelection"
    <3>1. PICK s \in SUBSET Lines : c = [id |-> "ClearSelection", mOldSelection |-> s]
      BY <2>1, ClearForm
    <3>2. Done(c, d) = [id |-> "ClearSelection", mOldSelection |-> d.mSelectedLines]
      BY <3>1 DEF Done
    <3>3. d.mSelectedLines \in SUBSET Lines
      BY DEF Docs
    <3> QED BY <3>2, <3>3 DEF Commands
  <2>2. CASE c.id # "ClearSelection"
    BY <2>2 DEF Done
  <2> QED BY <2>1, <2>2
<1> QED BY <1>1, <1>2

\* The commands created for a document fit its selection.
LEMMA RecordedFits ==
  ASSUME NEW d, Coherent(d), NEW c \in Recorded(d)
  PROVE  c \in Commands /\ Fits(c, d.mSelectedLines) /\ Finds(c, d)
<1>1. d \in Docs /\ d.flags = d.mSelectedLines /\ d.mSelectedLines \in SUBSET Lines
  BY DEF Coherent, Docs
<1>2. ASSUME NEW idx \in Lines \ d.flags, c = SelectOrDeselectLine(idx, TRUE)
      PROVE  c \in Commands /\ Fits(c, d.mSelectedLines) /\ Finds(c, d)
  <2>1. c.id = "SelectOrDeselectLine" /\ c.mIdx = idx /\ c.mSelect = TRUE
    BY <1>2 DEF SelectOrDeselectLine
  <2>2. TRUE \in BOOLEAN
    OBVIOUS
  <2>3. c \in Commands
    BY <1>2, <2>2, InCommands
  <2> QED BY <1>1, <2>1, <2>3 DEF Fits, Finds
<1>3. ASSUME NEW idx \in d.flags, c = SelectOrDeselectLine(idx, FALSE)
      PROVE  c \in Commands /\ Fits(c, d.mSelectedLines) /\ Finds(c, d)
  <2>1. c.id = "SelectOrDeselectLine" /\ c.mIdx = idx /\ c.mSelect = FALSE
    BY <1>3 DEF SelectOrDeselectLine
  <2>2. FALSE \in BOOLEAN /\ idx \in Lines
    BY <1>1
  <2>3. c \in Commands
    BY <1>3, <2>2, InCommands
  <2> QED BY <1>1, <2>1, <2>3 DEF Fits, Finds
<1>4. ASSUME c = [id |-> "ClearSelection", mOldSelection |-> d.mSelectedLines]
      PROVE  c \in Commands /\ Fits(c, d.mSelectedLines) /\ Finds(c, d)
  <2>1. c.id = "ClearSelection" /\ c.mOldSelection = d.mSelectedLines
    BY <1>4
  <2>2. c \in Commands
    BY <1>1, <1>4 DEF Commands
  <2> QED BY <2>1, <2>2 DEF Fits, Finds
<1>5. ASSUME d.mSelectedLines # {}, NEW pos \in Pos, NEW isP1 \in BOOLEAN,
             c = MoveLinePoint(d, pos, isP1)
      PROVE  c \in Commands /\ Fits(c, d.mSelectedLines) /\ Finds(c, d)
  <2>1. c.id = "MoveLinePoint"
    BY <1>5 DEF MoveLinePoint
  <2>2. First(d) \in Lines
    BY <1>1, <1>5, FirstIsLine
  <2>3. Point(d, isP1) \in Pos
    BY <1>1, <2>2 DEF Point, Docs, Ends
  <2>4. c \in Commands
    BY <1>5, <2>3 DEF Commands, MoveLinePoint
  <2> QED BY <1>5, <2>1, <2>4 DEF Fits, Finds
<1>6. ASSUME NEW delta \in Pos, c = MoveSelection(delta)
      PROVE  c \in Commands /\ Fits(c, d.mSelectedLines) /\ Finds(c, d)
  <2>1. c.id = "MoveSelection"
    BY <1>6 DEF MoveSelection
  <2>2. c \in Commands
    BY <1>6, InCommands
  <2> QED BY <2>1, <2>2 DEF Fits, Finds
<1>7. CASE c \in Selects(d)
  BY <1>2, <1>7 DEF Selects
<1>8. CASE c \in Deselects(d)
  BY <1>3, <1>8 DEF Deselects
<1>9. CASE c \in Clears(d)
  BY <1>4, <1>9 DEF Clears
<1>10. CASE c \in PointMoves(d)
  <2>1. d.mSelectedLines # {}
    BY <1>10 DEF PointMoves
  <2>2. PICK pos \in Pos, isP1 \in BOOLEAN : c = MoveLinePoint(d, pos, isP1)
    BY <1>10 DEF PointMoves
  <2> QED BY <1>5, <2>1, <2>2
<1>11. CASE c \in LineMoves
  BY <1>6, <1>11 DEF LineMoves
<1> QED BY <1>7, <1>8, <1>9, <1>10, <1>11 DEF Recorded

-----------------------------------------------------------------------------
(* The stack: its type; the selections its commands lead from and to, which *)
(* hold until a map is loaded over them; and the documents, which hold      *)
(* until a drag is merged into a command that was undone.                   *)

Typed(e) ==
  /\ e \in [doc : Docs, mUndoStack : Seq(Commands), mCommandIndex : Nat,
            past : Seq(Docs), undefined : BOOLEAN]
  /\ Len(e.past) = Count(e) + 1
  /\ mStackLimit # -1 => Count(e) <= mStackLimit
  /\ e.mCommandIndex <= Count(e) \/ Count(e) = 0

ChainOf(e) ==
  /\ Typed(e) /\ e.mCommandIndex <= Count(e)
  /\ Coherent(e.doc)
  /\ e.doc.mSelectedLines = e.past[e.mCommandIndex + 1].mSelectedLines
  /\ \A i \in 1..Count(e) :
       /\ Fits(e.mUndoStack[i], e.past[i].mSelectedLines)
       /\ e.past[i + 1].mSelectedLines = After(e.mUndoStack[i], e.past[i].mSelectedLines)

HistoryOf(e) ==
  /\ ChainOf(e)
  /\ e.doc = e.past[e.mCommandIndex + 1]
  /\ \A i \in 1..Len(e.past) : Coherent(e.past[i])
  /\ \A i \in 1..Count(e) :
       /\ e.mUndoStack[i] \in Recorded(e.past[i])
       /\ e.past[i + 1] = Redo(e.mUndoStack[i], e.past[i])

\* What e has of these p has too, and p is not undefined for a stack in order.
Leads(e, p) ==
  /\ Typed(e) => Typed(p)
  /\ ChainOf(e) => ChainOf(p) /\ p.undefined = e.undefined
  /\ HistoryOf(e) => HistoryOf(p)

LEMMA LeadsOn ==
  ASSUME NEW e, NEW p, NEW q, Leads(e, p), Leads(p, q)
  PROVE  Leads(e, e) /\ Leads(e, q)
  BY DEF Leads

LEMMA TypedFields ==
  ASSUME NEW e, Typed(e)
  PROVE  /\ e.doc \in Docs /\ e.mUndoStack \in Seq(Commands) /\ e.past \in Seq(Docs)
         /\ e.mCommandIndex \in Nat /\ e.undefined \in BOOLEAN
         /\ Count(e) \in Nat /\ Count(e) = Len(e.mUndoStack)
         /\ Len(e.past) = Count(e) + 1
         /\ \A i \in 1..Count(e) : e.mUndoStack[i] \in Commands
         /\ \A i \in 1..(Count(e) + 1) : e.past[i] \in Docs
  BY DEF Typed, Count

LEMMA TypedLost ==
  ASSUME NEW e, Typed(e)
  PROVE  /\ Typed(Lost(e)) /\ Lost(e).mCommandIndex = e.mCommandIndex
         /\ Count(Lost(e)) = Count(e) /\ Lost(e).doc = e.doc
<1>1. TRUE \in BOOLEAN
  OBVIOUS
<1> QED BY <1>1 DEF Lost, Typed, Count

\* The document before a command, after it, and the command undone and redone.
LEMMA HistoryAt ==
  ASSUME NEW e, HistoryOf(e), NEW i \in 1..Count(e)
  PROVE  /\ i \in Nat /\ i + 1 \in 1..Len(e.past)
         /\ Coherent(e.past[i]) /\ Coherent(e.past[i + 1])
         /\ e.mUndoStack[i] \in Recorded(e.past[i])
         /\ Redo(e.mUndoStack[i], e.past[i]) = e.past[i + 1]
         /\ Undo(e.mUndoStack[i], e.past[i + 1]) = e.past[i]
         /\ Done(e.mUndoStack[i], e.past[i]) = e.mUndoStack[i]
<1>1. i \in Nat /\ i + 1 \in 1..Len(e.past) /\ i \in 1..Len(e.past)
  <2>1. Count(e) \in Nat /\ Len(e.past) = Count(e) + 1
    BY TypedFields DEF HistoryOf, ChainOf
  <2> QED BY <2>1
<1>2. /\ Coherent(e.past[i]) /\ Coherent(e.past[i + 1])
      /\ e.mUndoStack[i] \in Recorded(e.past[i])
      /\ e.past[i + 1] = Redo(e.mUndoStack[i], e.past[i])
  BY <1>1 DEF HistoryOf
<1> QED BY <1>1, <1>2, Reversible

\* The selection before a command and after it.
LEMMA ChainAt ==
  ASSUME NEW e, ChainOf(e), NEW i \in 1..Count(e)
  PROVE  LET c == e.mUndoStack[i]
             s == e.past[i].mSelectedLines
             t == e.past[i + 1].mSelectedLines
         IN /\ c \in Commands /\ s \in SUBSET Lines /\ t \in SUBSET Lines
            /\ Fits(c, s) /\ t = After(c, s) /\ s = Before(c, t)
            /\ c.id = "MoveLinePoint" => s # {} /\ t # {}
<1> DEFINE c == e.mUndoStack[i]
           s == e.past[i].mSelectedLines
           t == e.past[i + 1].mSelectedLines
<1>1. c \in Commands /\ e.past[i] \in Docs
  BY TypedFields DEF ChainOf
<1>2. s \in SUBSET Lines /\ Fits(c, s) /\ t = After(c, s)
  BY <1>1 DEF ChainOf, Docs
<1> HIDE DEF c, s, t
<1>3. s = Before(c, t) /\ t \in SUBSET Lines /\ (c.id = "MoveLinePoint" => t # {})
  BY <1>1, <1>2, Turn DEF c
<1>4. c.id = "MoveLinePoint" => s # {}
  BY <1>2 DEF Fits
<1> QED BY <1>1, <1>2, <1>3, <1>4 DEF c, s, t

LEMMA UndoLeads ==
  ASSUME NEW e
  PROVE  Leads(e, UndoLast(e))
<1> DEFINE k == e.mCommandIndex
           c == e.mUndoStack[k]
           p == UndoLast(e)
<1>1. CASE ~(Count(e) > 0 /\ k >= 1)
  BY <1>1 DEF UndoLast, Leads
<1>2. CASE Count(e) > 0 /\ k >= 1
  <2>1. ASSUME Typed(e)
        PROVE  /\ k \in 1..Count(e) /\ k - 1 \in Nat /\ (k - 1) + 1 = k
               /\ k <= Count(e) /\ k - 1 <= Count(e)
               /\ c \in Commands /\ e.doc \in Docs
    <3>1. k \in Nat /\ Count(e) \in Nat /\ k <= Count(e)
      BY <1>2, <2>1, TypedFields DEF Typed
    <3> QED BY <1>2, <2>1, <3>1, TypedFields
  <2>2. ASSUME Typed(e), Finds(c, e.doc)
        PROVE  /\ Typed(p) /\ Does(c, e.doc)
               /\ p.doc = Undo(c, e.doc) /\ p.mCommandIndex = k - 1
               /\ p.mUndoStack = e.mUndoStack /\ p.past = e.past /\ Count(p) = Count(e)
               /\ p.undefined = e.undefined
    <3>1. p = [e EXCEPT !.doc = Undo(c, e.doc), !.mCommandIndex = k - 1]
      BY <1>2, <2>2, Zenon DEF UndoLast
    <3>2. Does(c, e.doc) /\ Undo(c, e.doc) \in Docs
      BY <2>1, <2>2, CommandDoes DEF Does
    <3> HIDE DEF c, k, p
    <3>3. /\ p.doc = Undo(c, e.doc) /\ p.mCommandIndex = k - 1
          /\ p.mUndoStack = e.mUndoStack /\ p.past = e.past
          /\ p.undefined = e.undefined
          /\ p \in [doc : Docs, mUndoStack : Seq(Commands), mCommandIndex : Nat,
                    past : Seq(Docs), undefined : BOOLEAN]
      BY <2>1, <2>2, <3>1, <3>2 DEF Typed
    <3> QED BY <2>1, <2>2, <3>2, <3>3 DEF Typed, Count
  <2>3. Typed(e) => Typed(p)
    <3>1. CASE ~Finds(c, e.doc)
      BY <1>2, <3>1, TypedLost DEF UndoLast
    <3> QED BY <2>2, <3>1
  <2>4. ASSUME ChainOf(e)
        PROVE  Typed(e) /\ Finds(c, e.doc) /\ ChainOf(p) /\ p.undefined = e.undefined
    <3>1. Typed(e)
      BY <2>4 DEF ChainOf
    <3>2. /\ Before(c, e.past[k + 1].mSelectedLines) = e.past[k].mSelectedLines
          /\ c.id = "MoveLinePoint" => e.past[k + 1].mSelectedLines # {}
      BY <2>1, <2>4, <3>1, ChainAt
    <3>3. Finds(c, e.doc)
      BY <2>4, <3>2 DEF ChainOf, Finds
    <3>4. Coherent(p.doc) /\ p.doc.mSelectedLines = p.past[p.mCommandIndex + 1].mSelectedLines
      BY <2>1, <2>2, <2>4, <3>1, <3>2, <3>3 DEF ChainOf, Does
    <3> HIDE DEF p, c
    <3> QED BY <2>1, <2>2, <2>4, <3>1, <3>3, <3>4 DEF ChainOf
  <2>5. ASSUME HistoryOf(e)
        PROVE  HistoryOf(p)
    <3>1. ChainOf(e) /\ ChainOf(p) /\ Typed(e) /\ Finds(c, e.doc)
      BY <2>4, <2>5 DEF HistoryOf
    <3>2. p.doc = e.past[k]
      <4>1. Undo(c, e.past[k + 1]) = e.past[k]
        BY <2>1, <2>5, <3>1, HistoryAt
      <4> QED BY <2>2, <2>5, <3>1, <4>1 DEF HistoryOf
    <3>3. p.doc = p.past[p.mCommandIndex + 1]
      BY <2>1, <2>2, <3>1, <3>2
    <3> HIDE DEF p, c
    <3> QED BY <2>2, <2>5, <3>1, <3>3 DEF HistoryOf
  <2> HIDE DEF p
  <2> QED BY <2>3, <2>4, <2>5 DEF Leads, p
<1> QED BY <1>1, <1>2

LEMMA RedoLeads ==
  ASSUME NEW e
  PROVE  Leads(e, RedoNext(e))
<1> DEFINE k == e.mCommandIndex
           i == k + 1
           c == e.mUndoStack[i]
           p == RedoNext(e)
<1>1. CASE i > Count(e)
  BY <1>1 DEF RedoNext, Leads
<1>2. CASE ~(i > Count(e))
  <2>1. ASSUME Typed(e)
        PROVE  /\ i \in 1..Count(e) /\ i \in Nat /\ i <= Count(e)
               /\ c \in Commands /\ e.doc \in Docs /\ e.mUndoStack \in Seq(Commands)
    <3>1. k \in Nat /\ Count(e) \in Nat
      BY <2>1, TypedFields
    <3> QED BY <1>2, <2>1, <3>1, TypedFields
  <2>2. ASSUME Typed(e), Finds(c, e.doc)
        PROVE  /\ Typed(p) /\ Does(c, e.doc)
               /\ p.doc = Redo(c, e.doc) /\ p.mCommandIndex = i
               /\ p.mUndoStack = [e.mUndoStack EXCEPT ![i] = Done(c, e.doc)]
               /\ p.past = e.past /\ Count(p) = Count(e)
               /\ p.undefined = e.undefined
    <3> DEFINE stack == [e.mUndoStack EXCEPT ![i] = Done(c, e.doc)]
    <3>1. p = [e EXCEPT !.doc = Redo(c, e.doc), !.mUndoStack = stack, !.mCommandIndex = i]
      <4>1. p = [e EXCEPT !.doc = Redo(c, @), !.mUndoStack[i] = Done(c, e.doc),
                          !.mCommandIndex = i]
        BY <1>2, <2>2, Zenon DEF RedoNext
      <4> QED BY <4>1
    <3>2. Does(c, e.doc) /\ Redo(c, e.doc) \in Docs /\ Done(c, e.doc) \in Commands
      BY <2>1, <2>2, CommandDoes DEF Does
    <3> HIDE DEF c, i, p
    <3>3. stack \in Seq(Commands) /\ Len(stack) = Count(e)
      BY <2>1, <2>2, <3>2, TypedFields
    <3> HIDE DEF stack
    <3>4. /\ p.doc = Redo(c, e.doc) /\ p.mCommandIndex = i
          /\ p.mUndoStack = stack /\ p.past = e.past
          /\ p.undefined = e.undefined
          /\ p \in [doc : Docs, mUndoStack : Seq(Commands), mCommandIndex : Nat,
                    past : Seq(Docs), undefined : BOOLEAN]
      BY <2>1, <2>2, <3>1, <3>2, <3>3 DEF Typed
    <3>5. Count(p) = Count(e)
      BY <3>3, <3>4 DEF Count
    <3> QED BY <2>1, <2>2, <3>2, <3>4, <3>5 DEF Typed, stack
  <2>3. Typed(e) => Typed(p)
    <3>1. CASE ~Finds(c, e.doc)
      BY <1>2, <3>1, TypedLost DEF RedoNext
    <3> QED BY <2>2, <3>1
  <2>4. ASSUME ChainOf(e)
        PROVE  /\ Typed(e) /\ Finds(c, e.doc) /\ ChainOf(p) /\ p.undefined = e.undefined
               /\ p.mUndoStack = e.mUndoStack
    <3>1. Typed(e)
      BY <2>4 DEF ChainOf
    <3>2. /\ After(c, e.past[i].mSelectedLines) = e.past[i + 1].mSelectedLines
          /\ Fits(c, e.past[i].mSelectedLines)
      BY <2>1, <2>4, <3>1, ChainAt
    <3>3. e.doc.mSelectedLines = e.past[i].mSelectedLines
      BY <2>4 DEF ChainOf
    <3>4. Finds(c, e.doc)
      BY <3>2, <3>3 DEF Fits, Finds
    <3>5. Done(c, e.doc) = c
      <4>1. CASE c.id = "ClearSelection"
        <5>1. PICK s \in SUBSET Lines : c = [id |-> "ClearSelection", mOldSelection |-> s]
          BY <2>1, <3>1, <4>1, ClearForm
        <5>2. s = e.doc.mSelectedLines
          BY <3>2, <3>3, <5>1 DEF Fits
        <5> QED BY <5>1, <5>2 DEF Done
      <4> QED BY <4>1 DEF Done
    <3>6. p.mUndoStack = e.mUndoStack
      BY <2>1, <2>2, <3>1, <3>4, <3>5
    <3>7. Coherent(p.doc) /\ p.doc.mSelectedLines = p.past[p.mCommandIndex + 1].mSelectedLines
      BY <2>1, <2>2, <2>4, <3>1, <3>2, <3>3, <3>4 DEF ChainOf, Does
    <3> HIDE DEF p, c
    <3> QED BY <2>1, <2>2, <2>4, <3>1, <3>4, <3>6, <3>7 DEF ChainOf
  <2>5. ASSUME HistoryOf(e)
        PROVE  HistoryOf(p)
    <3>1. ChainOf(e) /\ ChainOf(p) /\ Typed(e) /\ Finds(c, e.doc)
      BY <2>4, <2>5 DEF HistoryOf
    <3>2. p.doc = e.past[i + 1]
      <4>1. Redo(c, e.past[i]) = e.past[i + 1]
        BY <2>1, <2>5, <3>1, HistoryAt
      <4> QED BY <2>2, <2>5, <3>1, <4>1 DEF HistoryOf
    <3>3. p.doc = p.past[p.mCommandIndex + 1]
      BY <2>1, <2>2, <3>1, <3>2
    <3> HIDE DEF p, c
    <3> QED BY <2>2, <2>4, <2>5, <3>1, <3>3 DEF HistoryOf
  <2> HIDE DEF p
  <2> QED BY <2>3, <2>4, <2>5 DEF Leads, p
<1> QED BY <1>1, <1>2

\* What a push builds: its top, and below it what was on the stack, one command
\* further down when the stack was full.
IsPush(e, c, p) ==
  LET k == e.mCommandIndex
      n == Count(p)
  IN /\ Typed(p) /\ p.doc = Redo(c, e.doc) /\ p.undefined = e.undefined
     /\ n \in Nat /\ n > 0 /\ p.mCommandIndex = n
     /\ p.mUndoStack[n] = Done(c, e.doc)
     /\ p.past[n] = e.past[k + 1] /\ p.past[n + 1] = p.doc
     /\ \E o \in Nat : \A i \in 1..(n - 1) :
          /\ i + o \in 1..k
          /\ p.mUndoStack[i] = e.mUndoStack[i + o]
          /\ p.past[i] = e.past[i + o] /\ p.past[i + 1] = e.past[(i + o) + 1]

LEMMA PushedAt ==
  ASSUME NEW e, Typed(e), e.mCommandIndex <= Count(e),
         mStackLimit \in {-1} \cup (Nat \ {0}),
         NEW c, Done(c, e.doc) \in Commands, Redo(c, e.doc) \in Docs
  PROVE  IsPush(e, c, Push(e, c))
<1> DEFINE k    == e.mCommandIndex
           done == Done(c, e.doc)
           doc  == Redo(c, e.doc)
           full == Append(SubSeq(e.mUndoStack, 1, k), done)
           docs == Append(SubSeq(e.past, 1, k + 1), doc)
           over == mStackLimit # -1 /\ Len(full) > mStackLimit
           p    == Push(e, c)
           n    == Count(p)
           Below(o) == \A i \in 1..(n - 1) :
                         /\ i + o \in 1..k
                         /\ p.mUndoStack[i] = e.mUndoStack[i + o]
                         /\ p.past[i] = e.past[i + o]
                         /\ p.past[i + 1] = e.past[(i + o) + 1]
<1>1. /\ k \in Nat /\ k <= Count(e) /\ Count(e) \in Nat
      /\ Len(e.past) = Count(e) + 1 /\ Count(e) = Len(e.mUndoStack)
      /\ e.mUndoStack \in Seq(Commands) /\ e.past \in Seq(Docs)
      /\ e.undefined \in BOOLEAN
  BY TypedFields
<1>2. done \in Commands /\ doc \in Docs
  OBVIOUS
<1>3. p = [e EXCEPT !.doc           = doc,
                    !.mUndoStack    = IF over THEN Tail(full) ELSE full,
                    !.mCommandIndex = IF over THEN k ELSE k + 1,
                    !.past          = IF over THEN Tail(docs) ELSE docs]
  <2>1. ~(k > Count(e))
    BY <1>1
  <2> QED BY <2>1 DEF Push, Pushed
<1> HIDE DEF k, done, doc, p
<1>4. /\ full \in Seq(Commands) /\ Len(full) = k + 1 /\ full[k + 1] = done
      /\ \A i \in 1..k : full[i] = e.mUndoStack[i]
  <2>1. /\ SubSeq(e.mUndoStack, 1, k) \in Seq(Commands)
        /\ Len(SubSeq(e.mUndoStack, 1, k)) = k
        /\ \A i \in 1..k : SubSeq(e.mUndoStack, 1, k)[i] = e.mUndoStack[i]
    BY <1>1
  <2> QED BY <1>1, <1>2, <2>1
<1>5. /\ docs \in Seq(Docs) /\ Len(docs) = k + 2 /\ docs[k + 2] = doc
      /\ \A i \in 1..(k + 1) : docs[i] = e.past[i]
  <2>1. /\ SubSeq(e.past, 1, k + 1) \in Seq(Docs)
        /\ Len(SubSeq(e.past, 1, k + 1)) = k + 1
        /\ \A i \in 1..(k + 1) : SubSeq(e.past, 1, k + 1)[i] = e.past[i]
    BY <1>1
  <2> QED BY <1>1, <1>2, <2>1
<1> HIDE DEF full, docs
<1>6. e \in [doc : Docs, mUndoStack : Seq(Commands), mCommandIndex : Nat,
             past : Seq(Docs), undefined : BOOLEAN]
  BY DEF Typed
<1>7. CASE ~over
  <2>1. /\ p.doc = doc /\ p.mUndoStack = full /\ p.mCommandIndex = k + 1
        /\ p.past = docs /\ p.undefined = e.undefined
        /\ p \in [doc : Docs, mUndoStack : Seq(Commands), mCommandIndex : Nat,
                  past : Seq(Docs), undefined : BOOLEAN]
    <3>1. p = [e EXCEPT !.doc = doc, !.mUndoStack = full, !.mCommandIndex = k + 1,
                        !.past = docs]
      BY <1>3, <1>7
    <3>2. full \in Seq(Commands) /\ docs \in Seq(Docs) /\ k + 1 \in Nat
      BY <1>1, <1>4, <1>5
    <3> QED BY ONLY <1>2, <1>6, <3>1, <3>2
  <2>2. n = k + 1
    BY <1>4, <2>1 DEF Count
  <2>3. Typed(p)
    <3>1. mStackLimit # -1 => n <= mStackLimit
      BY <1>1, <1>4, <1>7, <2>2
    <3> QED BY <1>1, <1>5, <2>1, <2>2, <3>1 DEF Typed
  <2>4. Below(0)
    BY <1>1, <1>4, <1>5, <2>1, <2>2
  <2>5. \E o \in Nat : Below(o)
    BY <2>4
  <2>6. docs[k + 1] = e.past[k + 1]
    BY <1>1, <1>5
  <2>7. n \in Nat /\ n > 0 /\ n + 1 = k + 2
    BY <1>1, <2>2
  <2> QED BY <1>4, <1>5, <2>1, <2>2, <2>3, <2>5, <2>6, <2>7 DEF IsPush, p, doc, done, k
<1>8. CASE over
  <2>1. mStackLimit = k /\ k > 0
    BY <1>1, <1>4, <1>8 DEF Typed
  <2>2. /\ Tail(full) \in Seq(Commands) /\ Len(Tail(full)) = k
        /\ \A i \in 1..k : Tail(full)[i] = full[i + 1]
    BY <1>1, <1>4, <2>1
  <2>3. /\ Tail(docs) \in Seq(Docs) /\ Len(Tail(docs)) = k + 1
        /\ \A i \in 1..(k + 1) : Tail(docs)[i] = docs[i + 1]
    BY <1>1, <1>5, <2>1
  <2>4. /\ p.doc = doc /\ p.mUndoStack = Tail(full) /\ p.mCommandIndex = k
        /\ p.past = Tail(docs) /\ p.undefined = e.undefined
        /\ p \in [doc : Docs, mUndoStack : Seq(Commands), mCommandIndex : Nat,
                  past : Seq(Docs), undefined : BOOLEAN]
    <3>1. p = [e EXCEPT !.doc = doc, !.mUndoStack = Tail(full), !.mCommandIndex = k,
                        !.past = Tail(docs)]
      BY <1>3, <1>8
    <3> QED BY ONLY <1>1, <1>2, <1>6, <2>2, <2>3, <3>1
  <2>5. n = k
    BY <2>2, <2>4 DEF Count
  <2>6. Typed(p)
    <3>1. mStackLimit # -1 => n <= mStackLimit
      BY <2>1, <2>5
    <3> QED BY <1>1, <2>3, <2>4, <2>5, <3>1 DEF Typed
  <2>7. Below(1)
    <3> TAKE i \in 1..(n - 1)
    <3>1. /\ i \in 1..k /\ i + 1 \in 1..k /\ i + 1 \in 1..(k + 1) /\ i \in 1..(k + 1)
          /\ (i + 1) + 1 \in 1..(k + 1) /\ i \in Nat
      BY <1>1, <2>5
    <3>2. /\ Tail(full)[i] = full[i + 1] /\ Tail(docs)[i] = docs[i + 1]
          /\ Tail(docs)[i + 1] = docs[(i + 1) + 1]
      BY <2>2, <2>3, <3>1
    <3> QED BY <1>4, <1>5, <2>4, <3>1, <3>2
  <2>8. \E o \in Nat : Below(o)
    BY <2>7
  <2>9. Tail(docs)[k + 1] = doc /\ Tail(docs)[k] = e.past[k + 1] /\ Tail(full)[k] = done
    <3>1. /\ k \in 1..k /\ k \in 1..(k + 1) /\ k + 1 \in 1..(k + 1) /\ (k + 1) + 1 = k + 2
      BY <1>1, <2>1
    <3> QED BY <1>4, <1>5, <2>2, <2>3, <3>1
  <2> QED BY <1>1, <2>1, <2>4, <2>5, <2>6, <2>8, <2>9 DEF IsPush, p, doc, done, k
<1> QED BY <1>7, <1>8

LEMMA PushLost ==
  ASSUME NEW e, Typed(e), e.mCommandIndex > Count(e), NEW c
  PROVE  Typed(Push(e, c))
  BY TypedLost DEF Push

LEMMA TypedPush ==
  ASSUME NEW e, Typed(e), mStackLimit \in {-1} \cup (Nat \ {0}),
         NEW c \in Commands, Finds(c, e.doc)
  PROVE  /\ Typed(Push(e, c))
         /\ Done(c, e.doc) \in Commands /\ Redo(c, e.doc) \in Docs
<1>1. e.doc \in Docs /\ e.mCommandIndex \in Nat /\ Count(e) \in Nat
  BY TypedFields
<1>2. Done(c, e.doc) \in Commands /\ Redo(c, e.doc) \in Docs
  BY <1>1, CommandDoes DEF Does
<1>3. CASE e.mCommandIndex > Count(e)
  BY <1>2, <1>3, PushLost
<1>4. CASE e.mCommandIndex <= Count(e)
  BY <1>2, <1>4, PushedAt DEF IsPush
<1> QED BY <1>1, <1>3, <1>4

\* A push of the command that is recorded for the document there is.
LEMMA PushLeads ==
  ASSUME NEW e, mStackLimit \in {-1} \cup (Nat \ {0}), NEW c \in Commands,
         Typed(e) => Finds(c, e.doc),
         ChainOf(e) => /\ Done(c, e.doc) \in Recorded(e.doc)
                       /\ Redo(c, e.doc) = Redo(Done(c, e.doc), e.doc)
  PROVE  Leads(e, Push(e, c))
<1> DEFINE p == Push(e, c)
           k == e.mCommandIndex
           n == Count(p)
           done == Done(c, e.doc)
<1>1. Typed(e) => Typed(p) /\ done \in Commands /\ Redo(c, e.doc) \in Docs
  BY TypedPush
<1> HIDE DEF p, done
<1>3. ASSUME ChainOf(e)
      PROVE  /\ Typed(p) /\ p.doc = Redo(c, e.doc) /\ p.undefined = e.undefined
             /\ n \in Nat /\ n > 0 /\ p.mCommandIndex = n
             /\ p.mUndoStack[n] = done
             /\ p.past[n] = e.past[k + 1] /\ p.past[n + 1] = p.doc
             /\ \E o \in Nat : \A i \in 1..(n - 1) :
                  /\ i + o \in 1..k
                  /\ p.mUndoStack[i] = e.mUndoStack[i + o]
                  /\ p.past[i] = e.past[i + o] /\ p.past[i + 1] = e.past[(i + o) + 1]
             /\ k \in Nat /\ k <= Count(e) /\ Count(e) \in Nat
  <2>1. Typed(e) /\ k <= Count(e)
    BY <1>3 DEF ChainOf
  <2>2. done \in Commands /\ Redo(c, e.doc) \in Docs
    BY <1>1, <2>1
  <2>3. k \in Nat /\ Count(e) \in Nat
    BY <2>1, TypedFields
  <2>4. IsPush(e, c, p)
    BY <2>1, <2>2, PushedAt DEF p, done
  <2> QED BY <2>1, <2>3, <2>4 DEF IsPush, done
<1>4. ASSUME ChainOf(e)
      PROVE  /\ Coherent(e.doc) /\ done \in Recorded(e.doc)
             /\ p.doc = Redo(done, e.doc) /\ Coherent(p.doc)
             /\ done \in Commands /\ Fits(done, e.doc.mSelectedLines)
             /\ p.doc.mSelectedLines = After(done, e.doc.mSelectedLines)
             /\ e.past[k + 1].mSelectedLines = e.doc.mSelectedLines
  <2>1. Coherent(e.doc) /\ e.doc \in Docs
    BY <1>4 DEF ChainOf, Coherent
  <2>2. done \in Recorded(e.doc) /\ p.doc = Redo(done, e.doc)
    BY <1>3, <1>4 DEF done
  <2>3. done \in Commands /\ Fits(done, e.doc.mSelectedLines) /\ Finds(done, e.doc)
    BY <2>1, <2>2, RecordedFits
  <2>4. Does(done, e.doc)
    BY <2>1, <2>3, CommandDoes
  <2> QED BY <1>4, <2>1, <2>2, <2>3, <2>4 DEF Does, ChainOf
<1>5. ASSUME ChainOf(e) PROVE ChainOf(p)
  <2>1. ASSUME NEW i \in 1..n
        PROVE  /\ Fits(p.mUndoStack[i], p.past[i].mSelectedLines)
               /\ p.past[i + 1].mSelectedLines
                    = After(p.mUndoStack[i], p.past[i].mSelectedLines)
    <3>1. CASE i = n
      BY <1>3, <1>4, <1>5, <3>1
    <3>2. CASE i # n
      <4>1. i \in 1..(n - 1)
        BY <1>3, <1>5, <3>2
      <4>2. PICK o \in Nat : /\ i + o \in 1..k
                             /\ p.mUndoStack[i] = e.mUndoStack[i + o]
                             /\ p.past[i] = e.past[i + o]
                             /\ p.past[i + 1] = e.past[(i + o) + 1]
        BY <1>3, <1>5, <4>1
      <4>3. i + o \in 1..Count(e)
        BY <1>3, <1>5, <4>2
      <4> QED BY <1>5, <4>2, <4>3 DEF ChainOf
    <3> QED BY <3>1, <3>2
  <2>2. p.mCommandIndex <= n /\ p.doc = p.past[p.mCommandIndex + 1]
    BY <1>3, <1>5
  <2> QED BY <1>3, <1>4, <1>5, <2>1, <2>2 DEF ChainOf
<1>6. ASSUME HistoryOf(e) PROVE HistoryOf(p)
  <2>0. ChainOf(e)
    BY <1>6 DEF HistoryOf
  <2>1. ASSUME NEW i \in 1..n
        PROVE  /\ p.mUndoStack[i] \in Recorded(p.past[i])
               /\ p.past[i + 1] = Redo(p.mUndoStack[i], p.past[i])
               /\ Coherent(p.past[i])
    <3>1. CASE i = n
      <4>1. p.past[i] = e.doc
        BY <1>3, <1>6, <2>0, <3>1 DEF HistoryOf
      <4> QED BY <1>3, <1>4, <2>0, <3>1, <4>1
    <3>2. CASE i # n
      <4>1. i \in 1..(n - 1)
        BY <1>3, <2>0, <3>2
      <4>2. PICK o \in Nat : /\ i + o \in 1..k
                             /\ p.mUndoStack[i] = e.mUndoStack[i + o]
                             /\ p.past[i] = e.past[i + o]
                             /\ p.past[i + 1] = e.past[(i + o) + 1]
        BY <1>3, <2>0, <4>1
      <4>3. i + o \in 1..Count(e)
        BY <1>3, <2>0, <4>2
      <4> QED BY <1>6, <4>2, <4>3, HistoryAt
    <3> QED BY <3>1, <3>2
  <2>2. \A i \in 1..Len(p.past) : Coherent(p.past[i])
    <3> TAKE i \in 1..Len(p.past)
    <3>1. Len(p.past) = n + 1
      BY <1>3, <2>0 DEF Typed
    <3>2. CASE i = n + 1
      BY <1>3, <1>4, <2>0, <3>2
    <3>3. CASE i # n + 1
      <4>1. i \in 1..n
        BY <1>3, <2>0, <3>1, <3>3
      <4> QED BY <2>1, <4>1
    <3> QED BY <3>2, <3>3
  <2>3. p.doc = p.past[p.mCommandIndex + 1]
    BY <1>3, <2>0
  <2> QED BY <1>5, <2>0, <2>1, <2>2, <2>3 DEF HistoryOf
<1>7. ChainOf(e) => p.undefined = e.undefined
  BY <1>3
<1> QED BY <1>1, <1>5, <1>6, <1>7 DEF Leads, p

\* Two moves of one kind are one move of that kind, from where the first began.
LEMMA MergedCommand ==
  /\ \A d : \A c \in PointMoves(d) : c.id = "MoveLinePoint"
  /\ \A c \in LineMoves : c.id = "MoveSelection"
  /\ \A d1, d2 : \A c \in PointMoves(d1), new \in PointMoves(d2) :
       Merge(c, new) \in PointMoves(d1)
  /\ \A c, new \in LineMoves : Merge(c, new) \in LineMoves
<1>1. ASSUME NEW d, NEW c \in PointMoves(d)
      PROVE  /\ c.id = "MoveLinePoint" /\ c.mNewPos \in Pos
             /\ \A pos \in Pos : [c EXCEPT !.mNewPos = pos] \in PointMoves(d)
  <2>1. PICK q \in Pos, isP1 \in BOOLEAN : c = MoveLinePoint(d, q, isP1)
    BY <1>1 DEF PointMoves
  <2>2. ASSUME NEW pos \in Pos
        PROVE  [c EXCEPT !.mNewPos = pos] = MoveLinePoint(d, pos, isP1)
    BY <2>1 DEF MoveLinePoint
  <2>3. d.mSelectedLines # {}
    BY <1>1 DEF PointMoves
  <2>4. c.id = "MoveLinePoint" /\ c.mNewPos \in Pos
    BY <2>1 DEF MoveLinePoint
  <2> QED BY <2>2, <2>3, <2>4 DEF PointMoves
<1>2. ASSUME NEW c \in LineMoves
      PROVE  /\ c.id = "MoveSelection" /\ c.mDelta \in Pos
             /\ \A k \in Pos : [c EXCEPT !.mDelta = k] \in LineMoves
  BY <1>2 DEF LineMoves, MoveSelection
<1>3. ASSUME NEW d1, NEW d2, NEW c \in PointMoves(d1), NEW new \in PointMoves(d2)
      PROVE  Merge(c, new) \in PointMoves(d1)
  <2>1. Merge(c, new) = [c EXCEPT !.mNewPos = new.mNewPos]
    BY <1>1 DEF Merge
  <2>2. new.mNewPos \in Pos
    BY <1>1
  <2> QED BY <1>1, <2>1, <2>2
<1>4. ASSUME NEW c \in LineMoves, NEW new \in LineMoves
      PROVE  Merge(c, new) \in LineMoves
  <2>1. Merge(c, new) = [c EXCEPT !.mDelta = (c.mDelta + new.mDelta) % PosCount]
    BY <1>2 DEF Merge
  <2>2. (c.mDelta + new.mDelta) % PosCount \in Pos
    BY <1>2, Modulo
  <2> QED BY <1>2, <2>1, <2>2
<1> QED BY <1>1, <1>2, <1>3, <1>4

MoveIds == {"MoveLinePoint", "MoveSelection"}

LEMMA MoveForms ==
  ASSUME NEW c \in Commands, c.id \in MoveIds
  PROVE  \/ /\ c.id = "MoveSelection" /\ c \in LineMoves
         \/ /\ c.id = "MoveLinePoint"
            /\ \E x \in Pos, y \in Pos, isP1 \in BOOLEAN :
                 c = [id |-> "MoveLinePoint", mOldPos |-> x, mNewPos |-> y,
                      mApplyToP1 |-> isP1]
<1>1. ASSUME NEW idx \in Lines, NEW select \in BOOLEAN, c = SelectOrDeselectLine(idx, select)
      PROVE  FALSE
  BY <1>1 DEF SelectOrDeselectLine, MoveIds
<1>2. ASSUME NEW s \in SUBSET Lines, c = [id |-> "ClearSelection", mOldSelection |-> s]
      PROVE  FALSE
  BY <1>2 DEF MoveIds
<1>3. ASSUME NEW delta \in Pos, c = MoveSelection(delta)
      PROVE  c.id = "MoveSelection" /\ c \in LineMoves
  BY <1>3 DEF LineMoves, MoveSelection
<1> QED BY <1>1, <1>2, <1>3, CommandForms

LEMMA MergedIsMove ==
  ASSUME NEW c \in Commands, NEW new \in Commands, c.id \in MoveIds, new.id = c.id
  PROVE  /\ Merge(c, new) \in Commands /\ Merge(c, new).id = c.id
         /\ \A s : After(c, s) = s /\ Before(c, s) = s
         /\ \A s : After(Merge(c, new), s) = s /\ Before(Merge(c, new), s) = s
         /\ \A s : Fits(c, s) => Fits(Merge(c, new), s)
<1>1. Merge(c, new) \in Commands /\ Merge(c, new).id = c.id
  <2>1. CASE c.id = "MoveSelection"
    <3>1. c \in LineMoves /\ new \in LineMoves
      BY <2>1, MoveForms DEF MoveIds
    <3>2. Merge(c, new) \in LineMoves
      BY <3>1, MergedCommand
    <3> QED BY <2>1, <3>2, MergedCommand DEF Commands
  <2>2. CASE c.id = "MoveLinePoint"
    <3>1. PICK x \in Pos, y \in Pos, isP1 \in BOOLEAN :
            c = [id |-> "MoveLinePoint", mOldPos |-> x, mNewPos |-> y, mApplyToP1 |-> isP1]
      BY <2>2, MoveForms DEF MoveIds
    <3>2. PICK q \in Pos, r \in Pos, b \in BOOLEAN :
            new = [id |-> "MoveLinePoint", mOldPos |-> q, mNewPos |-> r, mApplyToP1 |-> b]
      BY <2>2, MoveForms DEF MoveIds
    <3>3. Merge(c, new) = [id |-> "MoveLinePoint", mOldPos |-> x, mNewPos |-> r,
                           mApplyToP1 |-> isP1]
      BY <3>1, <3>2 DEF Merge
    <3> QED BY <2>2, <3>3 DEF Commands
  <2> QED BY <2>1, <2>2 DEF MoveIds
<1> HIDE DEF Merge
<1> QED BY <1>1 DEF MoveIds, After, Before, Fits

\* What PushMerge makes of a stack when it merges.
Merging(e, c) ==
  LET n   == Count(e)
      new == Merge(e.mUndoStack[n], c)
      doc == Redo(new, Undo(e.mUndoStack[n], e.doc))
  IN [e EXCEPT !.doc = doc, !.mUndoStack[n] = new,
               !.past[n + 1].p1 = doc.p1, !.past[n + 1].p2 = doc.p2]

IsMerge(e, c, p) ==
  LET n   == Count(e)
      new == Merge(e.mUndoStack[n], c)
      doc == Redo(new, Undo(e.mUndoStack[n], e.doc))
  IN /\ Typed(p) /\ Count(p) = n /\ p.mCommandIndex = e.mCommandIndex
     /\ p.undefined = e.undefined
     /\ p.doc = doc /\ doc \in Docs /\ doc.mSelectedLines = e.doc.mSelectedLines
     /\ Coherent(e.doc) => Coherent(doc)
     /\ p.mUndoStack[n] = new
     /\ \A i \in 1..n : i # n => p.mUndoStack[i] = e.mUndoStack[i]
     /\ \A i \in 1..n : p.past[i] = e.past[i]
     /\ p.past[n + 1] = [e.past[n + 1] EXCEPT !.p1 = doc.p1, !.p2 = doc.p2]

LEMMA MergedAt ==
  ASSUME NEW e, Typed(e), Count(e) > 0, NEW c \in Commands,
         e.mUndoStack[Count(e)].id \in MoveIds, c.id = e.mUndoStack[Count(e)].id,
         c.id = "MoveLinePoint" => e.doc.mSelectedLines # {}
  PROVE  IsMerge(e, c, Merging(e, c))
<1> DEFINE n == Count(e)
           last == e.mUndoStack[n]
           new == Merge(last, c)
           mid == Undo(last, e.doc)
           doc == Redo(new, mid)
           p == Merging(e, c)
           top == [e.past[n + 1] EXCEPT !.p1 = doc.p1, !.p2 = doc.p2]
           stack == [e.mUndoStack EXCEPT ![n] = new]
           docs  == [e.past EXCEPT ![n + 1] = top]
<1>1. /\ n \in Nat /\ n > 0 /\ n \in 1..n /\ n + 1 \in 1..(n + 1)
      /\ Len(e.past) = n + 1 /\ n = Len(e.mUndoStack)
      /\ e.mUndoStack \in Seq(Commands) /\ e.past \in Seq(Docs)
      /\ e.doc \in Docs /\ last \in Commands /\ e.past[n + 1] \in Docs
  <2>1. n \in Nat
    BY TypedFields
  <2>2. n \in 1..n /\ n + 1 \in 1..(n + 1)
    BY <2>1
  <2> QED BY <2>1, <2>2, TypedFields
<1>2. p = [e EXCEPT !.doc = doc, !.mUndoStack = stack, !.past = docs]
  <2>1. p = [e EXCEPT !.doc = doc, !.mUndoStack[n] = new,
               !.past[n + 1].p1 = doc.p1, !.past[n + 1].p2 = doc.p2]
    BY DEF Merging
  <2> HIDE DEF doc, new, n, p
  <2> QED BY <1>1, <2>1
<1>3. /\ new \in Commands /\ new.id = last.id
      /\ \A s : After(new, s) = s /\ Before(last, s) = s
  BY <1>1, MergedIsMove
<1> HIDE DEF p, n, new, last
<1>4. Does(last, e.doc)
  <2>1. Finds(last, e.doc)
    BY DEF Finds, last, n
  <2> QED BY <1>1, <2>1, CommandDoes
<1>5. /\ mid \in Docs /\ mid.mSelectedLines = e.doc.mSelectedLines
      /\ Coherent(e.doc) => Coherent(mid)
  BY <1>3, <1>4 DEF Does
<1> HIDE DEF mid
<1>6. Does(new, mid)
  <2>1. Finds(new, mid)
    BY <1>3, <1>5 DEF Finds, last, n
  <2> QED BY <1>3, <1>5, <2>1, CommandDoes
<1>7. /\ doc \in Docs /\ doc.mSelectedLines = e.doc.mSelectedLines
      /\ Coherent(e.doc) => Coherent(doc)
  BY <1>3, <1>5, <1>6 DEF Does
<1> HIDE DEF doc
<1>8. top \in Docs
  BY <1>1, <1>7, DocFields
<1> HIDE DEF top
<1>9. /\ stack \in Seq(Commands) /\ Len(stack) = n /\ stack[n] = new
      /\ \A i \in 1..n : i # n => stack[i] = e.mUndoStack[i]
  BY <1>1, <1>3
<1>10. /\ docs \in Seq(Docs) /\ Len(docs) = n + 1 /\ docs[n + 1] = top
       /\ \A i \in 1..n : docs[i] = e.past[i]
  BY <1>1, <1>8
<1> HIDE DEF stack, docs
<1>11. e \in [doc : Docs, mUndoStack : Seq(Commands), mCommandIndex : Nat,
              past : Seq(Docs), undefined : BOOLEAN]
  BY DEF Typed
<1>12. /\ p.doc = doc /\ p.mUndoStack = stack /\ p.past = docs
       /\ p.mCommandIndex = e.mCommandIndex /\ p.undefined = e.undefined
       /\ p \in [doc : Docs, mUndoStack : Seq(Commands), mCommandIndex : Nat,
                 past : Seq(Docs), undefined : BOOLEAN]
  BY <1>2, <1>7, <1>9, <1>10, <1>11
<1>13. Count(p) = n
  BY <1>9, <1>12 DEF Count
<1>14. Typed(p)
  BY <1>10, <1>12, <1>13 DEF Typed, n
<1>15. /\ p.mUndoStack[n] = new
       /\ \A i \in 1..n : i # n => p.mUndoStack[i] = e.mUndoStack[i]
       /\ \A i \in 1..n : p.past[i] = e.past[i]
       /\ p.past[n + 1] = top
  BY <1>9, <1>10, <1>12
<1> QED BY <1>7, <1>12, <1>13, <1>14, <1>15, Zenon
        DEF IsMerge, p, n, last, new, mid, doc, top

LEMMA SameBut ==
  ASSUME NEW d, Coherent(d), NEW doc, Coherent(doc), doc.mSelectedLines = d.mSelectedLines
  PROVE  [d EXCEPT !.p1 = doc.p1, !.p2 = doc.p2] = doc
<1> DEFINE x == doc.p1  y == doc.p2  r == [d EXCEPT !.p1 = x, !.p2 = y]
<1>1. x \in Ends /\ y \in Ends /\ d \in Docs
  BY DEF Coherent, Docs
<1> HIDE DEF x, y
<1>2. /\ r \in Docs /\ r.p1 = x /\ r.p2 = y
      /\ r.flags = d.flags /\ r.mSelectedLines = d.mSelectedLines
  BY <1>1 DEF Docs
<1> HIDE DEF r
<1>3. Coherent(r)
  BY <1>2 DEF Coherent
<1>4. r = Doc(x, y, d.mSelectedLines) /\ doc = Doc(x, y, d.mSelectedLines)
  BY <1>2, <1>3, DocForm DEF x, y
<1> QED BY <1>4 DEF r, x, y

\* The selections stay, and the documents too if it was done last.
LEMMA MergeKeeps ==
  ASSUME NEW e, Typed(e), Count(e) > 0, NEW c \in Commands,
         e.mUndoStack[Count(e)].id \in MoveIds, c.id = e.mUndoStack[Count(e)].id,
         c.id = "MoveLinePoint" => e.doc.mSelectedLines # {},
         NEW p, IsMerge(e, c, p)
  PROVE  /\ ChainOf(e) => ChainOf(p)
         /\ HistoryOf(e) /\ e.mCommandIndex = Count(e) => HistoryOf(p)
<1> DEFINE n == Count(e)
           last == e.mUndoStack[n]
           new == Merge(last, c)
           doc == Redo(new, Undo(last, e.doc))
<1>1. n \in Nat /\ n \in 1..n /\ n + 1 \in 1..(n + 1)
  <2>1. n \in Nat
    BY TypedFields
  <2> QED BY <2>1
<1>2. /\ Typed(p) /\ Count(p) = n /\ p.mCommandIndex = e.mCommandIndex
      /\ p.undefined = e.undefined
      /\ p.doc = doc /\ doc \in Docs /\ doc.mSelectedLines = e.doc.mSelectedLines
      /\ Coherent(e.doc) => Coherent(doc)
      /\ p.mUndoStack[n] = new
      /\ \A i \in 1..n : i # n => p.mUndoStack[i] = e.mUndoStack[i]
      /\ \A i \in 1..n : p.past[i] = e.past[i]
      /\ p.past[n + 1] = [e.past[n + 1] EXCEPT !.p1 = doc.p1, !.p2 = doc.p2]
  BY DEF IsMerge
<1>3. last \in Commands /\ e.past[n + 1] \in Docs /\ e.mCommandIndex \in Nat
  BY <1>1, TypedFields
<1>4. /\ new \in Commands /\ new.id = last.id
      /\ \A s : After(last, s) = s /\ After(new, s) = s
      /\ \A s : Fits(last, s) => Fits(new, s)
  BY <1>3, MergedIsMove
<1> HIDE DEF doc, new, last, n
<1>5. p.past[n + 1].mSelectedLines = e.past[n + 1].mSelectedLines
  <2>1. \A a, b : [e.past[n + 1] EXCEPT !.p1 = a, !.p2 = b].mSelectedLines
                    = e.past[n + 1].mSelectedLines
    BY <1>3 DEF Docs
  <2> QED BY <1>2, <2>1
<1>6. \A i \in 1..(n + 1) : p.past[i].mSelectedLines = e.past[i].mSelectedLines
  <2> TAKE i \in 1..(n + 1)
  <2>1. i = n + 1 \/ i \in 1..n
    BY <1>1
  <2> QED BY <1>2, <1>5, <2>1
<1>7. ASSUME ChainOf(e) PROVE ChainOf(p)
  <2>1. e.mCommandIndex <= n /\ e.mCommandIndex + 1 \in 1..(n + 1)
    BY <1>1, <1>3, <1>7 DEF ChainOf, n
  <2>2. ASSUME NEW i \in 1..n
        PROVE  /\ Fits(p.mUndoStack[i], p.past[i].mSelectedLines)
               /\ p.past[i + 1].mSelectedLines
                    = After(p.mUndoStack[i], p.past[i].mSelectedLines)
    <3>1. /\ Fits(e.mUndoStack[i], e.past[i].mSelectedLines)
          /\ e.past[i + 1].mSelectedLines
               = After(e.mUndoStack[i], e.past[i].mSelectedLines)
      BY <1>7 DEF ChainOf, n
    <3>2. i \in 1..(n + 1) /\ i + 1 \in 1..(n + 1)
      BY <1>1
    <3>3. CASE i = n
      BY <1>2, <1>4, <1>6, <3>1, <3>2, <3>3 DEF last
    <3>4. CASE i # n
      BY <1>2, <1>6, <3>1, <3>2, <3>4
    <3> QED BY <3>3, <3>4
  <2>3. Coherent(p.doc) /\ p.doc.mSelectedLines = p.past[p.mCommandIndex + 1].mSelectedLines
    BY <1>2, <1>6, <1>7, <2>1 DEF ChainOf
  <2> QED BY <1>2, <2>1, <2>2, <2>3 DEF ChainOf
<1>8. ASSUME HistoryOf(e), e.mCommandIndex = n PROVE HistoryOf(p)
  <2>1. ChainOf(e) /\ ChainOf(p)
    BY <1>7, <1>8 DEF HistoryOf
  <2>2. e.doc = e.past[n + 1]
    BY <1>8 DEF HistoryOf
  <2>3. Coherent(e.doc) /\ Coherent(doc)
    BY <1>2, <2>1 DEF ChainOf
  <2>4. p.past[n + 1] = doc
    <3>1. [e.doc EXCEPT !.p1 = doc.p1, !.p2 = doc.p2] = doc
      BY <1>2, <2>3, SameBut
    <3> QED BY <1>2, <2>2, <3>1
  <2>5. /\ Coherent(e.past[n]) /\ Undo(last, e.doc) = e.past[n]
        /\ last \in Recorded(e.past[n])
    BY <1>1, <1>8, <2>2, HistoryAt DEF n, last
  <2>6. new \in Recorded(e.past[n])
    <3>1. \A x \in Selects(e.past[n]) \cup Deselects(e.past[n]) \cup Clears(e.past[n]) :
            x.id \notin MoveIds
      BY DEF Selects, Deselects, Clears, SelectOrDeselectLine, MoveIds
    <3>2. last.id \in MoveIds /\ c.id = last.id
      BY DEF last, n
    <3>3. CASE last \in LineMoves
      <4>1. c \in LineMoves
        BY <3>2, <3>3, MoveForms, MergedCommand DEF MoveIds
      <4>2. new \in LineMoves
        BY <3>3, <4>1, MergedCommand DEF new
      <4> QED BY <4>2 DEF Recorded
    <3>4. CASE last \in PointMoves(e.past[n])
      <4>1. c.id = "MoveLinePoint" /\ last.id = "MoveLinePoint"
        BY <3>2, <3>4, MergedCommand
      <4>2. PICK x \in Pos, y \in Pos, isP1 \in BOOLEAN :
              c = [id |-> "MoveLinePoint", mOldPos |-> x, mNewPos |-> y, mApplyToP1 |-> isP1]
        BY <4>1, MoveForms DEF MoveIds
      <4>3. PICK pos \in Pos, b \in BOOLEAN : last = MoveLinePoint(e.past[n], pos, b)
        BY <3>4 DEF PointMoves
      <4>4. new = MoveLinePoint(e.past[n], y, b)
        BY <4>2, <4>3 DEF new, Merge, MoveLinePoint
      <4>5. e.past[n].mSelectedLines # {}
        BY <3>4 DEF PointMoves
      <4> QED BY <4>4, <4>5 DEF PointMoves, Recorded
    <3> QED BY <2>5, <3>1, <3>2, <3>3, <3>4 DEF Recorded
  <2>7. doc = Redo(new, e.past[n])
    BY <2>5 DEF doc
  <2>8. ASSUME NEW i \in 1..n
        PROVE  /\ p.mUndoStack[i] \in Recorded(p.past[i])
               /\ p.past[i + 1] = Redo(p.mUndoStack[i], p.past[i])
               /\ Coherent(p.past[i])
    <3>1. CASE i = n
      BY <1>1, <1>2, <2>4, <2>5, <2>6, <2>7, <3>1
    <3>2. CASE i # n
      <4>1. i + 1 \in 1..n
        BY <1>1, <3>2
      <4>2. /\ p.mUndoStack[i] = e.mUndoStack[i] /\ p.past[i] = e.past[i]
            /\ p.past[i + 1] = e.past[i + 1]
        BY <1>2, <3>2, <4>1
      <4> QED BY <1>8, <4>2, HistoryAt DEF n
    <3> QED BY <3>1, <3>2
  <2>9. \A i \in 1..Len(p.past) : Coherent(p.past[i])
    <3> TAKE i \in 1..Len(p.past)
    <3>1. Len(p.past) = n + 1
      BY <1>2 DEF Typed
    <3>2. i = n + 1 \/ i \in 1..n
      BY <1>1, <3>1
    <3> QED BY <2>3, <2>4, <2>8, <3>2
  <2> QED BY <1>2, <1>8, <2>1, <2>4, <2>8, <2>9 DEF HistoryOf
<1> QED BY <1>7, <1>8 DEF n

-----------------------------------------------------------------------------
(* The frames.                                                             *)

OneLine == PointStates \cup {"eLineMiddleSelected"}
Moves(state, d) == IF state \in PointStates THEN PointMoves(d) ELSE LineMoves

LEMMA MoveCommand ==
  ASSUME NEW state, NEW d, Coherent(d), NEW c \in Moves(state, d)
  PROVE  /\ c \in Recorded(d) /\ Done(c, d) = c
         /\ Coherent(Redo(c, d))
         /\ Redo(c, d).mSelectedLines = d.mSelectedLines
         /\ Undo(c, Redo(c, d)) = d
  BY PointCommand, LineCommand DEF Moves, Recorded

LEMMA Sizes ==
  /\ Cardinality({}) = 0
  /\ \A S \in SUBSET Lines :
       Cardinality(S) \in Nat /\ (Cardinality(S) = 0 <=> S = {})
<1>1. ASSUME NEW S \in SUBSET Lines
      PROVE  Cardinality(S) \in Nat /\ (Cardinality(S) = 0 <=> S = {})
  BY FS_Subset, FS_CardinalityType, FS_EmptySet, EditorAssumption
<1> QED BY <1>1, FS_EmptySet

LEMMA KeysLead ==
  ASSUME NEW key \in KeysTyped
  PROVE  Leads(edit, AfterKeys(key))
<1>1. CASE key = "CTRL+Z"
  BY <1>1, UndoLeads DEF AfterKeys
<1>2. CASE key = "CTRL+Y"
  BY <1>2, RedoLeads DEF AfterKeys
<1>3. CASE key # "CTRL+Z" /\ key # "CTRL+Y"
  BY <1>3 DEF AfterKeys, Leads
<1> QED BY <1>1, <1>2, <1>3

\* The pushes of a press.
LEMMA ClearLeads ==
  ASSUME NEW e, mStackLimit \in {-1} \cup (Nat \ {0})
  PROVE  /\ Leads(e, Push(e, CommandClearSelection))
         /\ ChainOf(e) => Push(e, CommandClearSelection).doc.mSelectedLines = {}
<1> DEFINE c == CommandClearSelection
           old == [id |-> "ClearSelection", mOldSelection |-> e.doc.mSelectedLines]
<1>1. c.id = "ClearSelection" /\ c \in Commands
  BY DEF CommandClearSelection, Commands
<1>2. Finds(c, e.doc)
  BY <1>1 DEF Finds
<1>3. ASSUME ChainOf(e)
      PROVE  /\ Done(c, e.doc) = old /\ old \in Recorded(e.doc)
             /\ Redo(c, e.doc) = Redo(old, e.doc) /\ Redo(old, e.doc).mSelectedLines = {}
  <2>1. Coherent(e.doc) /\ old \in Clears(e.doc)
    BY <1>3 DEF ChainOf, Clears
  <2> HIDE DEF old
  <2>2. /\ Done(c, e.doc) = old /\ Redo(c, e.doc) = Redo(old, e.doc)
        /\ Redo(old, e.doc).mSelectedLines = {}
    BY <2>1, ClearCommand
  <2> QED BY <2>1, <2>2 DEF Recorded
<1> HIDE DEF c, old
<1>4. Leads(e, Push(e, c))
  <2>1. ChainOf(e) => /\ Done(c, e.doc) \in Recorded(e.doc)
                      /\ Redo(c, e.doc) = Redo(Done(c, e.doc), e.doc)
    BY <1>3
  <2> QED BY <1>1, <1>2, <2>1, PushLeads
<1>5. ASSUME ChainOf(e) PROVE Push(e, c).doc.mSelectedLines = {}
  <2>1. Typed(e) /\ e.mCommandIndex <= Count(e) /\ e.doc \in Docs
    BY <1>5, TypedFields DEF ChainOf
  <2>2. Done(c, e.doc) \in Commands /\ Redo(c, e.doc) \in Docs
    BY <1>1, <1>2, <2>1, CommandDoes DEF Does
  <2>3. IsPush(e, c, Push(e, c))
    BY <2>1, <2>2, PushedAt
  <2> QED BY <1>3, <1>5, <2>3 DEF IsPush
<1> QED BY <1>4, <1>5 DEF c

LEMMA SelectLeads ==
  ASSUME NEW e, mStackLimit \in {-1} \cup (Nat \ {0}),
         NEW idx \in Lines, NEW select \in BOOLEAN,
         ChainOf(e) => (select = TRUE /\ idx \notin e.doc.flags)
                         \/ (select = FALSE /\ idx \in e.doc.flags)
  PROVE  Leads(e, Push(e, SelectOrDeselectLine(idx, select)))
<1> DEFINE c == SelectOrDeselectLine(idx, select)
<1>1. c \in Commands /\ c.id = "SelectOrDeselectLine"
  BY InCommands DEF SelectOrDeselectLine
<1>2. Finds(c, e.doc) /\ Done(c, e.doc) = c
  BY <1>1 DEF Finds, Done
<1>3. ASSUME ChainOf(e) PROVE c \in Recorded(e.doc)
  <2>1. CASE select = TRUE /\ idx \notin e.doc.flags
    BY <2>1 DEF Recorded, Selects
  <2>2. CASE select = FALSE /\ idx \in e.doc.flags
    BY <2>2 DEF Recorded, Deselects
  <2> QED BY <1>3, <2>1, <2>2
<1> HIDE DEF c
<1>4. Leads(e, Push(e, c))
  BY <1>1, <1>2, <1>3, PushLeads
<1> QED BY <1>4 DEF c

LEMMA GroupSelectLeads ==
  ASSUME NEW e, mStackLimit \in {-1} \cup (Nat \ {0}), NEW idx \in Lines
  PROVE  Leads(e, GroupSelect(e, idx))
<1>1. CASE idx \in e.doc.flags
  <2>1. (idx \notin e.doc.flags) = FALSE
    BY <1>1
  <2>2. GroupSelect(e, idx) = Push(e, SelectOrDeselectLine(idx, FALSE))
    BY <2>1, Zenon DEF GroupSelect
  <2>3. FALSE \in BOOLEAN
    OBVIOUS
  <2> QED BY <1>1, <2>2, <2>3, SelectLeads
<1>2. CASE idx \notin e.doc.flags
  <2>1. (idx \notin e.doc.flags) = TRUE
    BY <1>2
  <2>2. GroupSelect(e, idx) = Push(e, SelectOrDeselectLine(idx, TRUE))
    BY <2>1, Zenon DEF GroupSelect
  <2>3. TRUE \in BOOLEAN
    OBVIOUS
  <2> QED BY <1>2, <2>2, <2>3, SelectLeads
<1> QED BY <1>1, <1>2

LEMMA SingleSelectLeads ==
  ASSUME NEW e, mStackLimit \in {-1} \cup (Nat \ {0}), NEW idx \in Lines
  PROVE  Leads(e, SingleSelect(e, idx))
<1> DEFINE f == IF e.doc.mSelectedLines # {} THEN Push(e, CommandClearSelection)
                ELSE e
           c == SelectOrDeselectLine(idx, TRUE)
<1>1. CASE idx \in e.doc.mSelectedLines
  BY <1>1 DEF SingleSelect, Leads
<1>2. CASE idx \notin e.doc.mSelectedLines
  <2>1. SingleSelect(e, idx) = Push(f, c)
    BY <1>2 DEF SingleSelect
  <2>2. Leads(e, f)
    BY ClearLeads DEF Leads
  <2>3. TRUE \in BOOLEAN
    OBVIOUS
  <2>4. ASSUME ChainOf(e) PROVE idx \notin f.doc.flags /\ ChainOf(f)
    <3>1. ChainOf(f)
      BY <2>2, <2>4 DEF Leads
    <3>2. f.doc.mSelectedLines = {}
      BY <2>4, ClearLeads
    <3> HIDE DEF f
    <3> QED BY <3>1, <3>2 DEF ChainOf, Coherent
  <2> HIDE DEF f
  <2>5. CASE ChainOf(f)
    <3>1. f.doc.flags = f.doc.mSelectedLines
      BY <2>5 DEF ChainOf, Coherent
    <3>2. CASE idx \notin f.doc.flags
      <4>1. Leads(f, Push(f, c))
        BY <2>3, <3>2, SelectLeads
      <4> QED BY <2>1, <2>2, <4>1, LeadsOn
    <3>3. CASE idx \in f.doc.flags
      <4>1. ~ChainOf(e) /\ ~HistoryOf(e)
        BY <2>4, <3>3 DEF HistoryOf
      <4>2. Typed(f) => Typed(Push(f, c))
        <5>1. c \in Commands /\ Finds(c, f.doc)
          BY <2>3, InCommands DEF SelectOrDeselectLine, Finds
        <5> QED BY <5>1, TypedPush
      <4> QED BY <2>1, <2>2, <4>1, <4>2 DEF Leads
    <3> QED BY <3>2, <3>3
  <2>6. CASE ~ChainOf(f)
    <3>1. Leads(f, Push(f, c))
      BY <2>3, <2>6, SelectLeads
    <3> QED BY <2>1, <2>2, <3>1, LeadsOn
  <2> QED BY <2>5, <2>6
<1> QED BY <1>1, <1>2

LEMMA PointMoveOf ==
  ASSUME NEW d, d.mSelectedLines # {}, NEW pos \in Pos, NEW isP1 \in BOOLEAN
  PROVE  MoveLinePoint(d, pos, isP1) \in PointMoves(d)
  BY DEF PointMoves

\* The command of a drag that has something to move.
LEMMA DragCommandIs ==
  ASSUME mLastMousePos \in Pos, NEW d \in Docs, NEW pos \in Pos,
         mSelectionState \in PointStates => d.mSelectedLines # {}
  PROVE  LET c == DragCommand(d, pos)
         IN /\ c \in Commands /\ Finds(c, d)
            /\ c.id = IF mSelectionState \in PointStates THEN "MoveLinePoint"
                      ELSE "MoveSelection"
            /\ c \in Moves(mSelectionState, d)
<1> DEFINE c == DragCommand(d, pos)
<1>1. CASE mSelectionState \in PointStates
  <2>1. d.mSelectedLines # {} /\ First(d) \in Lines
    BY <1>1, FirstIsLine DEF Docs
  <2>2. PICK isP1 \in BOOLEAN : isP1 = (mSelectionState = "eLineP1Selected")
    OBVIOUS
  <2>3. c = MoveLinePoint(d, pos, isP1)
    BY <1>1, <2>2, Zenon DEF DragCommand
  <2>4. Point(d, isP1) \in Pos
    BY <2>1 DEF Point, Docs, Ends
  <2>5. c \in PointMoves(d)
    BY <2>1, <2>3, PointMoveOf
  <2>6. c.id = "MoveLinePoint"
    BY <2>5, MergedCommand
  <2>7. c \in Commands
    BY <2>3, <2>4 DEF Commands, MoveLinePoint
  <2>8. Finds(c, d)
    BY <2>1 DEF Finds
  <2> HIDE DEF c
  <2> QED BY <1>1, <2>5, <2>6, <2>7, <2>8 DEF Moves, c
<1>2. CASE mSelectionState \notin PointStates
  <2>1. PICK delta \in Pos : delta = (pos - mLastMousePos) % PosCount
    BY EditorAssumption DEF Pos
  <2>2. c = MoveSelection(delta)
    BY <1>2, <2>1 DEF DragCommand
  <2>3. c.id = "MoveSelection" /\ c \in LineMoves /\ c \in Commands
    BY <2>2, InCommands DEF MoveSelection, LineMoves
  <2>4. Finds(c, d)
    BY <2>3 DEF Finds
  <2> HIDE DEF c
  <2> QED BY <1>2, <2>3, <2>4 DEF Moves, c
<1> QED BY <1>1, <1>2

\* What a frame of a drag makes of the stack, one of three.
IsDrag(e, c, p) ==
  LET has == mSelectionState \in PointStates => e.doc.mSelectedLines # {}
  IN \/ ~has /\ p = Lost(e)
     \/ /\ has /\ Merges(e, mMergeCommand, c.id) /\ IsMerge(e, c, p)
        /\ (MergesUndone(e) <=> e.mCommandIndex # Count(e))
        /\ c \in Commands /\ Count(e) > 0 /\ c.id \in MoveIds
        /\ e.mUndoStack[Count(e)].id = c.id
        /\ c.id = "MoveLinePoint" => e.doc.mSelectedLines # {}
     \/ has /\ ~Merges(e, mMergeCommand, c.id) /\ p = Push(e, c)

LEMMA DragToIs ==
  ASSUME mStackLimit \in {-1} \cup (Nat \ {0}), mLastMousePos \in Pos,
         mMergeCommand \in BOOLEAN,
         NEW e, Typed(e), NEW pos \in Pos, NEW p, p = DragTo(e, pos)
  PROVE  IsDrag(e, DragCommand(e.doc, pos), p)
<1> DEFINE c == DragCommand(e.doc, pos)
           has == mSelectionState \in PointStates => e.doc.mSelectedLines # {}
<1>1. CASE ~has
  BY <1>1 DEF DragTo, IsDrag
<1>2. CASE has
  <2>1. p = PushMerge(e, mMergeCommand, c)
    BY <1>2 DEF DragTo
  <2>2. /\ e.doc \in Docs /\ c \in Commands /\ Finds(c, e.doc)
        /\ c.id = IF mSelectionState \in PointStates THEN "MoveLinePoint"
                  ELSE "MoveSelection"
    BY <1>2, TypedFields, DragCommandIs
  <2> HIDE DEF c
  <2>3. CASE Merges(e, mMergeCommand, c.id)
    <3>1. Count(e) > 0 /\ e.mUndoStack[Count(e)].id = c.id
      BY <2>3 DEF Merges
    <3>2. c.id \in MoveIds
      BY <2>2 DEF MoveIds
    <3>3. p = Merging(e, c)
      BY <2>1, <2>3 DEF PushMerge, Merging
    <3>4. c.id = "MoveLinePoint" => e.doc.mSelectedLines # {}
      BY <2>2 DEF Finds
    <3>5. IsMerge(e, c, p)
      BY <2>2, <3>1, <3>2, <3>3, <3>4, MergedAt
    <3>6. MergesUndone(e) <=> e.mCommandIndex # Count(e)
      BY <2>2, <2>3 DEF MergesUndone
    <3> QED BY <1>2, <2>2, <2>3, <3>1, <3>2, <3>4, <3>5, <3>6 DEF c, IsDrag
  <2>4. CASE ~Merges(e, mMergeCommand, c.id)
    <3>1. p = Push(e, c)
      BY <2>1, <2>4 DEF PushMerge
    <3> QED BY <1>2, <2>4, <3>1 DEF c, IsDrag
  <2> QED BY <2>3, <2>4
<1> QED BY <1>1, <1>2

LEMMA DragToKeeps ==
  ASSUME mStackLimit \in {-1} \cup (Nat \ {0}), mLastMousePos \in Pos,
         mMergeCommand \in BOOLEAN,
         NEW e, Typed(e), NEW pos \in Pos, NEW p, p = DragTo(e, pos)
  PROVE  /\ Typed(p)
         /\ ChainOf(e) => ChainOf(p)
         /\ HistoryOf(e) /\ ~MergesUndone(e) => HistoryOf(p)
         /\ ChainOf(e) /\ (mSelectionState \in PointStates => e.doc.mSelectedLines # {})
              => p.undefined = e.undefined
<1> DEFINE c == DragCommand(e.doc, pos)
           has == mSelectionState \in PointStates => e.doc.mSelectedLines # {}
<1>1. CASE ~has /\ p = Lost(e)
  <2>1. Typed(p)
    BY <1>1, TypedLost
  <2>2. /\ p.doc = e.doc /\ p.mUndoStack = e.mUndoStack /\ p.past = e.past
        /\ p.mCommandIndex = e.mCommandIndex
    BY <1>1 DEF Lost, Typed
  <2>3. Count(p) = Count(e)
    BY <2>2 DEF Count
  <2>4. ChainOf(e) => ChainOf(p)
    BY <2>1, <2>2, <2>3 DEF ChainOf
  <2>5. HistoryOf(e) => HistoryOf(p)
    BY <2>2, <2>3, <2>4 DEF HistoryOf
  <2> QED BY <1>1, <2>1, <2>4, <2>5
<1>2. CASE /\ has /\ Merges(e, mMergeCommand, c.id) /\ IsMerge(e, c, p)
           /\ (MergesUndone(e) <=> e.mCommandIndex # Count(e))
           /\ c \in Commands /\ Count(e) > 0 /\ c.id \in MoveIds
           /\ e.mUndoStack[Count(e)].id = c.id
           /\ c.id = "MoveLinePoint" => e.doc.mSelectedLines # {}
  <2> HIDE DEF c
  <2>1. Typed(p) /\ p.undefined = e.undefined
    BY <1>2 DEF IsMerge
  <2>2. /\ ChainOf(e) => ChainOf(p)
        /\ HistoryOf(e) /\ e.mCommandIndex = Count(e) => HistoryOf(p)
    BY <1>2, MergeKeeps
  <2> QED BY <1>2, <2>1, <2>2
<1>3. CASE has /\ ~Merges(e, mMergeCommand, c.id) /\ p = Push(e, c)
  <2>1. e.doc \in Docs /\ c \in Commands /\ Finds(c, e.doc) /\ c \in Moves(mSelectionState, e.doc)
    BY <1>3, TypedFields, DragCommandIs
  <2> HIDE DEF c
  <2>2. ChainOf(e) => /\ Done(c, e.doc) \in Recorded(e.doc)
                      /\ Redo(c, e.doc) = Redo(Done(c, e.doc), e.doc)
    BY <2>1, MoveCommand DEF ChainOf
  <2>3. Leads(e, p)
    BY <1>3, <2>1, <2>2, PushLeads
  <2> QED BY <2>3 DEF Leads
<1>4. IsDrag(e, c, p)
  BY DragToIs
<1> QED BY <1>1, <1>2, <1>3, <1>4 DEF IsDrag

-----------------------------------------------------------------------------
(* The invariant.                                                          *)

TypeInv ==
  /\ Typed(edit) /\ mStackLimit \in {-1} \cup (Nat \ {0})
  /\ mSelectionState \in {"eNone", "eMoveSelected"} \cup OneLine
  /\ mLastMousePos \in Pos /\ mMergeCommand \in BOOLEAN
  /\ astray \subseteq {"drag", "history", "map"}

StackInv ==
  /\ "map" \notin astray => ChainOf(edit)
  /\ astray \cap {"history", "map"} = {} => HistoryOf(edit)

\* A drag that nothing disturbed has selected what it moves; it has not begun,
\* or the last command is its own, done to the document there was at the press.
DragOn ==
  /\ mSelectionState \in OneLine => Cardinality(edit.doc.mSelectedLines) = 1
  /\ mSelectionState = "eMoveSelected" => Cardinality(edit.doc.mSelectedLines) > 1
  /\ mMergeCommand = FALSE => edit.doc = atPress
  /\ mMergeCommand = TRUE =>
       /\ Count(edit) > 0 /\ edit.mCommandIndex = Count(edit)
       /\ Coherent(atPress)
       /\ edit.mUndoStack[Count(edit)] \in Moves(mSelectionState, atPress)
       /\ edit.doc = Redo(edit.mUndoStack[Count(edit)], atPress)

DragInv ==
  astray \cap {"drag", "map"} = {} => edit.undefined = FALSE /\ (Dragging => DragOn)

EditorInv == TypeInv /\ StackInv /\ DragInv

\* A line is selected while such a drag goes on.
LEMMA DragHasLines ==
  ASSUME TypeInv, Dragging, DragOn
  PROVE  edit.doc.mSelectedLines # {}
<1>1. mSelectionState \in OneLine \cup {"eMoveSelected"}
  BY DEF TypeInv, Dragging
<1>2. Cardinality(edit.doc.mSelectedLines) = 1 \/ Cardinality(edit.doc.mSelectedLines) > 1
  BY <1>1 DEF DragOn
<1> QED BY <1>2, Sizes

\* The invariant speaks of mStackLimit, which never changes.
LEMMA NextStack ==
  ASSUME mStackLimit' = mStackLimit
  PROVE  /\ Typed(edit') => Typed(edit)'
         /\ ChainOf(edit') => ChainOf(edit)'
         /\ HistoryOf(edit') => HistoryOf(edit)'
<1>1. Typed(edit') => Typed(edit)'
  BY DEF Typed, Count
<1>2. ChainOf(edit') => ChainOf(edit)'
  BY <1>1 DEF ChainOf, Count
<1> QED BY <1>1, <1>2 DEF HistoryOf, Count

\* A frame of a drag that nothing disturbs.
LEMMA DragStep ==
  ASSUME TypeInv, ChainOf(edit), Dragging, DragOn, NEW pos \in Pos,
         edit' = DragTo(edit, pos), mMergeCommand' = TRUE,
         UNCHANGED <<mSelectionState, atPress>>
  PROVE  DragOn'
<1> DEFINE c == DragCommand(edit.doc, pos)
           n == Count(edit)
           has == mSelectionState \in PointStates => edit.doc.mSelectedLines # {}
<1>1. edit.doc.mSelectedLines # {}
  BY DragHasLines
<1>2. /\ Typed(edit) /\ Coherent(edit.doc) /\ edit.doc \in Docs
      /\ edit.mCommandIndex <= Count(edit)
      /\ mStackLimit \in {-1} \cup (Nat \ {0}) /\ mLastMousePos \in Pos
      /\ mMergeCommand \in BOOLEAN
  BY DEF TypeInv, ChainOf, Coherent
<1>3. c \in Commands /\ Finds(c, edit.doc) /\ c \in Moves(mSelectionState, edit.doc)
  BY <1>1, <1>2, DragCommandIs
<1>4. \/ has /\ Merges(edit, mMergeCommand, c.id) /\ IsMerge(edit, c, edit')
      \/ has /\ ~Merges(edit, mMergeCommand, c.id) /\ edit' = Push(edit, c)
  <2>1. has
    BY <1>1
  <2>2. IsDrag(edit, c, edit')
    BY <1>2, DragToIs
  <2> QED BY <2>1, <2>2 DEF IsDrag
<1> HIDE DEF c
<1>5. CASE mMergeCommand = TRUE
  <2> DEFINE top == edit.mUndoStack[n]
             new == Merge(top, c)
  <2>1. /\ n > 0 /\ edit.mCommandIndex = n /\ Coherent(atPress)
        /\ top \in Moves(mSelectionState, atPress)
        /\ edit.doc = Redo(top, atPress)
    BY <1>5 DEF DragOn
  <2>2. top.id = c.id /\ new \in Moves(mSelectionState, atPress)
    <3>1. CASE mSelectionState \in PointStates
      <4>1. top \in PointMoves(atPress) /\ c \in PointMoves(edit.doc)
        BY <1>3, <2>1, <3>1 DEF Moves
      <4>2. new \in PointMoves(atPress)
        BY <4>1, MergedCommand
      <4> QED BY <3>1, <4>1, <4>2, MergedCommand DEF Moves
    <3>2. CASE mSelectionState \notin PointStates
      <4>1. top \in LineMoves /\ c \in LineMoves
        BY <1>3, <2>1, <3>2 DEF Moves
      <4>2. new \in LineMoves
        BY <4>1, MergedCommand
      <4> QED BY <3>2, <4>1, <4>2, MergedCommand DEF Moves
    <3> QED BY <3>1, <3>2
  <2>3. IsMerge(edit, c, edit')
    BY <1>4, <1>5, <2>1, <2>2 DEF Merges
  <2>4. Undo(top, edit.doc) = atPress
    BY <2>1, MoveCommand
  <2>5. /\ Count(edit') = n /\ edit'.mCommandIndex = n
        /\ edit'.mUndoStack[n] = new /\ edit'.doc = Redo(new, atPress)
        /\ edit'.doc.mSelectedLines = edit.doc.mSelectedLines
    BY <2>1, <2>3, <2>4 DEF IsMerge
  <2>6. Count(edit)' = Count(edit')
    BY DEF Count
  <2> HIDE DEF new, n, top
  <2> QED BY <2>1, <2>2, <2>5, <2>6 DEF DragOn
<1>6. CASE mMergeCommand = FALSE
  <2>1. edit' = Push(edit, c)
    BY <1>4, <1>6 DEF Merges
  <2>2. /\ Done(c, edit.doc) = c
        /\ Redo(c, edit.doc).mSelectedLines = edit.doc.mSelectedLines
    BY <1>2, <1>3, MoveCommand
  <2>3. Done(c, edit.doc) \in Commands /\ Redo(c, edit.doc) \in Docs
    BY <1>2, <1>3, CommandDoes DEF Does
  <2>4. IsPush(edit, c, edit')
    BY <1>2, <2>1, <2>3, PushedAt
  <2>5. /\ Count(edit') \in Nat /\ Count(edit') > 0 /\ edit'.mCommandIndex = Count(edit')
        /\ edit'.mUndoStack[Count(edit')] = c /\ edit'.doc = Redo(c, edit.doc)
    BY <2>2, <2>4 DEF IsPush
  <2>6. Count(edit)' = Count(edit') /\ edit.doc = atPress
    BY <1>6 DEF Count, DragOn
  <2> QED BY <1>2, <1>3, <2>2, <2>5, <2>6 DEF DragOn
<1> QED BY <1>2, <1>5, <1>6

\* A frame that keeps the stack in order, and the drag if one goes on.
LEMMA FrameStep ==
  ASSUME EditorInv, edit.undefined = FALSE, Leads(edit, edit'),
         mStackLimit' = mStackLimit,
         mSelectionState' \in {"eNone", "eMoveSelected"} \cup OneLine,
         mLastMousePos' \in Pos, mMergeCommand' \in BOOLEAN,
         astray' \in {astray \cup {"drag"}, astray \ {"drag"}},
         Dragging' /\ astray' \cap {"drag", "map"} = {} => DragOn'
  PROVE  EditorInv'
<1>1. TypeInv'
  BY NextStack DEF EditorInv, TypeInv, Leads
<1>2. StackInv'
  BY NextStack DEF EditorInv, StackInv, Leads
<1>3. ASSUME "map" \notin astray' PROVE edit'.undefined = FALSE
  <2>1. ChainOf(edit)
    BY <1>3 DEF EditorInv, StackInv
  <2> QED BY <2>1 DEF Leads
<1>4. DragInv'
  BY <1>3 DEF DragInv
<1> QED BY <1>1, <1>2, <1>4 DEF EditorInv

\* A drag that goes on and has not gone astray leaves edit as it was.
LEMMA StillOn ==
  ASSUME NEW changed \in BOOLEAN, astray' = Drifts(changed)
  PROVE  /\ astray' \in {astray \cup {"drag"}, astray \ {"drag"}}
         /\ Dragging' /\ "drag" \notin astray'
              => changed = FALSE /\ "drag" \notin astray
  BY DEF Drifts

LEMMA EditorStep ==
  ASSUME EditorInv, [EditorNext]_editorVars
  PROVE  EditorInv'
<1>1. /\ mStackLimit \in {-1} \cup (Nat \ {0}) /\ Typed(edit)
      /\ mSelectionState \in {"eNone", "eMoveSelected"} \cup OneLine
      /\ mLastMousePos \in Pos /\ mMergeCommand \in BOOLEAN
      /\ astray \subseteq {"drag", "history", "map"}
  BY DEF EditorInv, TypeInv
<1>2. PICK changed \in BOOLEAN : changed = (edit' # edit)
  OBVIOUS
<1>3. ASSUME edit.undefined = FALSE, NEW key \in KeysTyped, FrameUp(key) PROVE EditorInv'
  <2>1. Leads(edit, edit')
    BY <1>3, KeysLead DEF FrameUp
  <2>2. astray' = Drifts(changed)
    BY <1>2, <1>3, Zenon DEF FrameUp
  <2>3. /\ mStackLimit' = mStackLimit /\ mLastMousePos' = mLastMousePos
        /\ mMergeCommand' = mMergeCommand
        /\ mSelectionState' \in {"eNone", mSelectionState}
        /\ Dragging' /\ "drag" \notin astray' => atPress' = atPress
    BY <1>3 DEF FrameUp
  <2>4. ASSUME Dragging', astray' \cap {"drag", "map"} = {} PROVE DragOn'
    <3>1. edit' = edit /\ "drag" \notin astray /\ astray \cap {"drag", "map"} = {}
      BY <1>2, <2>2, <2>4, StillOn
    <3>2. mSelectionState' = mSelectionState /\ Dragging /\ atPress' = atPress
      BY <2>3, <2>4 DEF Dragging
    <3>3. DragOn
      BY <3>1, <3>2 DEF EditorInv, DragInv
    <3> QED BY <2>3, <3>1, <3>2, <3>3 DEF DragOn, Count
  <2>5. astray' \in {astray \cup {"drag"}, astray \ {"drag"}}
    BY <2>2, StillOn
  <2> QED BY <1>1, <1>3, <2>1, <2>3, <2>4, <2>5, FrameStep
<1>4. ASSUME edit.undefined = FALSE, NEW key \in KeysTyped, NEW idx \in Lines,
             NEW pos \in Pos, NEW end \in OneLine, PressLine(key, idx, end, pos)
      PROVE  EditorInv'
  <2> DEFINE e == AfterKeys(key)
  <2>1. Leads(edit, e)
    BY KeysLead
  <2>2. edit' = GroupSelect(e, idx) \/ edit' = SingleSelect(e, idx)
    BY <1>4 DEF PressLine
  <2> HIDE DEF e
  <2>3. Leads(edit, edit')
    BY <1>1, <2>1, <2>2, GroupSelectLeads, SingleSelectLeads, LeadsOn
  <2>4. /\ mStackLimit' = mStackLimit /\ mLastMousePos' = pos /\ mMergeCommand' = FALSE
        /\ mSelectionState' \in {"eNone", DragOf(edit'.doc.mSelectedLines, end)}
        /\ Dragging' => atPress' = edit'.doc
        /\ astray' = astray \ {"drag"}
    BY <1>4 DEF PressLine
  <2>5. edit'.doc.mSelectedLines \in SUBSET Lines
    <3>1. Typed(edit')
      BY <1>1, <2>3 DEF Leads
    <3> QED BY <3>1, TypedFields DEF Docs
  <2>6. /\ Cardinality(edit'.doc.mSelectedLines) \in Nat
        /\ Cardinality(edit'.doc.mSelectedLines) = 0 <=> edit'.doc.mSelectedLines = {}
    BY <2>5, Sizes
  <2>7. \/ mSelectionState' = "eNone"
        \/ /\ mSelectionState' = "eMoveSelected"
           /\ Cardinality(edit'.doc.mSelectedLines) > 1
        \/ /\ mSelectionState' \in OneLine
           /\ Cardinality(edit'.doc.mSelectedLines) = 1
    BY <2>4, <2>6 DEF DragOf
  <2>8. Dragging' => DragOn'
    BY <2>4, <2>7 DEF DragOn, Dragging, OneLine, PointStates
  <2>9. mSelectionState' \in {"eNone", "eMoveSelected"} \cup OneLine
    BY <2>7
  <2>10. mMergeCommand' \in BOOLEAN
    BY <2>4
  <2> QED BY <1>4, <2>3, <2>4, <2>8, <2>9, <2>10, FrameStep
<1>5. ASSUME edit.undefined = FALSE, NEW key \in KeysTyped, PressNothing(key)
      PROVE  EditorInv'
  <2> DEFINE e == AfterKeys(key)
  <2>1. Leads(edit, e)
    BY KeysLead
  <2>2. edit' = IF e.doc.mSelectedLines # {} THEN Push(e, CommandClearSelection) ELSE e
    BY <1>5 DEF PressNothing
  <2> HIDE DEF e
  <2>3. Leads(edit, edit')
    BY <1>1, <2>1, <2>2, ClearLeads, LeadsOn
  <2>4. astray' = Drifts(changed)
    BY <1>2, <1>5, Zenon DEF PressNothing
  <2>5. /\ mStackLimit' = mStackLimit /\ mLastMousePos' = mLastMousePos
        /\ mMergeCommand' = FALSE /\ mSelectionState' = mSelectionState
    BY <1>5 DEF PressNothing
  <2>6. ASSUME Dragging', astray' \cap {"drag", "map"} = {} PROVE FALSE
    <3>1. edit' = edit /\ astray \cap {"drag", "map"} = {} /\ "map" \notin astray
      BY <1>2, <2>4, <2>6, StillOn
    <3>2. DragOn /\ Dragging /\ ChainOf(edit)
      BY <2>5, <2>6, <3>1 DEF EditorInv, DragInv, StackInv, Dragging
    <3>3. edit.doc.mSelectedLines # {}
      BY <3>2, DragHasLines DEF EditorInv
    <3>4. ChainOf(e)
      BY <2>1, <3>2 DEF Leads
    <3> QED BY <1>1, <2>2, <3>1, <3>3, <3>4, ClearLeads
  <2>7. astray' \in {astray \cup {"drag"}, astray \ {"drag"}}
    BY <2>4, StillOn
  <2>8. mMergeCommand' \in BOOLEAN
    BY <2>5
  <2> QED BY <1>1, <1>5, <2>3, <2>5, <2>6, <2>7, <2>8, FrameStep
<1>6. ASSUME edit.undefined = FALSE, NEW key \in KeysTyped, NEW pos \in Pos,
             FrameHeld(key, pos)
      PROVE  EditorInv'
  <2> DEFINE e == AfterKeys(key)
             moves == Dragging /\ mLastMousePos # pos
             lost == IF moves /\ MergesUndone(e) THEN {"history"} ELSE {}
  <2>1. Leads(edit, e) /\ Typed(e)
    BY <1>1, KeysLead DEF Leads
  <2>2. PICK drifts \in BOOLEAN : drifts = (e # edit)
    OBVIOUS
  <2>3. /\ edit' = IF moves THEN DragTo(e, pos) ELSE e
        /\ mLastMousePos' = IF moves THEN pos ELSE mLastMousePos
        /\ mMergeCommand' = (moves \/ mMergeCommand)
        /\ mSelectionState' = mSelectionState /\ mStackLimit' = mStackLimit
        /\ "drag" \notin astray' => atPress' = atPress
    BY <1>6, Zenon DEF FrameHeld
  <2>4. astray' = Drifts(drifts) \cup lost
    BY <1>6, <2>2, Zenon DEF FrameHeld
  <2>5. "map" \in astray => "map" \in astray'
    BY <2>4 DEF Drifts
  <2>6. "history" \in astray => "history" \in astray'
    BY <2>4 DEF Drifts
  <2>7. astray' \subseteq {"drag", "history", "map"}
    BY <1>1, <2>4 DEF Drifts
  <2>8. ASSUME Dragging', "drag" \notin astray'
        PROVE  e = edit /\ "drag" \notin astray
    BY <2>2, <2>4, <2>8 DEF Drifts
  <2>9. \/ moves /\ "history" \in astray'
        \/ moves /\ ~MergesUndone(e)
        \/ ~moves
    BY <2>4
  <2>10. Dragging' = Dragging
    BY <2>3 DEF Dragging
  <2> HIDE DEF e
  <2>11. /\ Typed(edit')
         /\ ChainOf(edit) => ChainOf(edit')
         /\ HistoryOf(edit) /\ "history" \notin astray' => HistoryOf(edit')
    <3>1. CASE moves
      <4>1. edit' = DragTo(e, pos)
        BY <2>3, <3>1
      <4>2. /\ Typed(edit') /\ (ChainOf(e) => ChainOf(edit'))
            /\ HistoryOf(e) /\ ~MergesUndone(e) => HistoryOf(edit')
        BY <1>1, <2>1, <4>1, DragToKeeps
      <4> QED BY <2>1, <2>9, <3>1, <4>2 DEF Leads
    <3>2. CASE ~moves
      BY <2>1, <2>3, <3>2 DEF Leads
    <3> QED BY <3>1, <3>2
  <2>12. TypeInv'
    <3>1. mLastMousePos' \in Pos /\ mMergeCommand' \in BOOLEAN
      BY <1>1, <2>3
    <3> QED BY <1>1, <2>3, <2>7, <2>11, <3>1, NextStack DEF TypeInv
  <2>13. StackInv'
    <3>1. "map" \notin astray' => ChainOf(edit)
      BY <2>5 DEF EditorInv, StackInv
    <3>2. astray' \cap {"history", "map"} = {} => HistoryOf(edit)
      BY <2>5, <2>6 DEF EditorInv, StackInv
    <3> QED BY <2>3, <2>11, <3>1, <3>2, NextStack DEF StackInv
  <2>14. ASSUME astray' \cap {"drag", "map"} = {}, ~Dragging
         PROVE  edit'.undefined = FALSE /\ (Dragging' => DragOn')
    <3>1. edit' = e
      BY <2>3, <2>14
    <3>2. ChainOf(edit)
      BY <2>5, <2>14 DEF EditorInv, StackInv
    <3> QED BY <1>6, <2>1, <2>10, <2>14, <3>1, <3>2 DEF Leads
  <2>15. ASSUME astray' \cap {"drag", "map"} = {}, Dragging
         PROVE  edit'.undefined = FALSE /\ DragOn'
    <3>1. e = edit /\ astray \cap {"drag", "map"} = {} /\ "map" \notin astray
      BY <2>5, <2>8, <2>10, <2>15
    <3>2. DragOn /\ ChainOf(edit) /\ TypeInv
      BY <2>15, <3>1 DEF EditorInv, DragInv, StackInv
    <3>3. atPress' = atPress
      BY <2>3, <2>15
    <3>4. CASE mLastMousePos # pos
      <4>1. edit' = DragTo(edit, pos) /\ mMergeCommand' = TRUE
        BY <2>3, <2>15, <3>1, <3>4
      <4>2. DragOn'
        BY <2>3, <2>15, <3>2, <3>3, <4>1, DragStep
      <4>3. edit.doc.mSelectedLines # {}
        BY <2>15, <3>2, DragHasLines
      <4>4. edit'.undefined = edit.undefined
        BY <1>1, <3>2, <4>1, <4>3, DragToKeeps
      <4> QED BY <1>6, <4>2, <4>4
    <3>5. CASE mLastMousePos = pos
      <4>1. edit' = edit /\ mMergeCommand' = mMergeCommand
        BY <1>1, <2>3, <3>1, <3>5
      <4> QED BY <1>6, <2>3, <3>2, <3>3, <4>1 DEF DragOn, Count
    <3> QED BY <3>4, <3>5
  <2>16. DragInv'
    BY <2>14, <2>15 DEF DragInv
  <2> QED BY <2>12, <2>13, <2>16 DEF EditorInv
<1>7. ASSUME edit.undefined = FALSE, NEW undo \in BOOLEAN, NEW down \in BOOLEAN,
             FrameUnseen(undo, down)
      PROVE  EditorInv'
  <2>1. Leads(edit, edit')
    <3>1. edit' = UndoLast(edit) \/ edit' = edit
      BY <1>7 DEF FrameUnseen
    <3> QED BY <3>1, UndoLeads DEF Leads
  <2>2. astray' = Drifts(changed)
    BY <1>2, <1>7, Zenon DEF FrameUnseen
  <2>3. /\ mStackLimit' = mStackLimit /\ mLastMousePos' = mLastMousePos
        /\ mMergeCommand' = mMergeCommand /\ mSelectionState' = mSelectionState
        /\ "drag" \notin astray' => atPress' = atPress
    BY <1>7 DEF FrameUnseen, drag
  <2>4. ASSUME Dragging', astray' \cap {"drag", "map"} = {} PROVE DragOn'
    <3>1. edit' = edit /\ astray \cap {"drag", "map"} = {}
      BY <1>2, <2>2, <2>4, StillOn
    <3>2. Dragging /\ atPress' = atPress
      BY <2>3, <2>4 DEF Dragging
    <3>3. DragOn
      BY <3>1, <3>2 DEF EditorInv, DragInv
    <3> QED BY <2>3, <3>1, <3>2, <3>3 DEF DragOn, Count
  <2>5. astray' \in {astray \cup {"drag"}, astray \ {"drag"}}
    BY <2>2, StillOn
  <2> QED BY <1>1, <1>7, <2>1, <2>3, <2>4, <2>5, FrameStep
<1>8. CASE edit.undefined = FALSE /\ LoadMap
  <2> DEFINE sel == edit.doc.mSelectedLines
             d == [Loaded EXCEPT !.mSelectedLines = sel]
  <2>1. /\ edit' = [edit EXCEPT !.doc = d, !.mUndoStack = <<>>, !.past = <<d>>]
        /\ mStackLimit' = mStackLimit /\ mSelectionState' = mSelectionState
        /\ mMergeCommand' = mMergeCommand /\ mLastMousePos' = mLastMousePos
        /\ astray' = (astray \ {"history"})
             \cup (IF edit.mCommandIndex # 0 \/ sel # {} THEN {"map"} ELSE {})
    BY <1>8, Zenon DEF LoadMap, drag
  <2>2. sel \in SUBSET Lines /\ edit.mCommandIndex \in Nat
    BY <1>1, TypedFields DEF Docs
  <2> HIDE DEF sel
  <2>3. d = [p1 |-> P1, p2 |-> P2, flags |-> {}, mSelectedLines |-> sel]
    BY DEF Loaded
  <2>4. d \in Docs /\ (sel = {} => Coherent(d))
    BY <2>2, <2>3, EditorAssumption DEF Docs, Coherent
  <2> HIDE DEF d
  <2>5. <<>> \in Seq(Commands) /\ <<d>> \in Seq(Docs) /\ Len(<<d>>) = 1 /\ <<d>>[1] = d
    BY <2>4
  <2>6. /\ edit'.doc = d /\ edit'.mUndoStack = <<>> /\ edit'.past = <<d>>
        /\ edit'.mCommandIndex = edit.mCommandIndex /\ edit'.undefined = FALSE
        /\ edit' \in [doc : Docs, mUndoStack : Seq(Commands), mCommandIndex : Nat,
                      past : Seq(Docs), undefined : BOOLEAN]
    BY <1>1, <1>8, <2>1, <2>4, <2>5 DEF Typed
  <2>7. Count(edit') = 0
    BY <2>6 DEF Count
  <2>8. Typed(edit')
    BY <1>1, <2>5, <2>6, <2>7 DEF Typed
  <2>9. TypeInv'
    BY <1>1, <2>1, <2>8, NextStack DEF TypeInv
  <2>10. ASSUME "map" \notin astray' PROVE HistoryOf(edit') /\ ChainOf(edit')
    <3>1. edit.mCommandIndex = 0 /\ sel = {}
      BY <2>1, <2>10
    <3>2. /\ edit'.mCommandIndex + 1 = 1 /\ edit'.mCommandIndex <= Count(edit')
          /\ edit'.doc = edit'.past[edit'.mCommandIndex + 1] /\ Coherent(edit'.doc)
      BY <2>4, <2>5, <2>6, <2>7, <3>1
    <3>3. ChainOf(edit')
      BY <2>7, <2>8, <3>2 DEF ChainOf
    <3>4. \A i \in 1..Len(edit'.past) : Coherent(edit'.past[i])
      BY <2>5, <2>6, <3>2
    <3> QED BY <2>7, <3>2, <3>3, <3>4 DEF HistoryOf
  <2>11. StackInv'
    BY <2>1, <2>10, NextStack DEF StackInv
  <2>12. ASSUME astray' \cap {"drag", "map"} = {}, Dragging' PROVE FALSE
    <3>1. astray \cap {"drag", "map"} = {} /\ sel = {} /\ Dragging
      BY <2>1, <2>12 DEF Dragging
    <3>2. DragOn /\ TypeInv
      BY <3>1 DEF EditorInv, DragInv
    <3> QED BY <3>1, <3>2, DragHasLines DEF sel
  <2>13. DragInv'
    BY <2>6, <2>12 DEF DragInv
  <2> QED BY <2>9, <2>11, <2>13 DEF EditorInv
<1>9. CASE UNCHANGED editorVars
  BY <1>9 DEF editorVars, EditorInv, TypeInv, StackInv, DragInv, DragOn, HistoryOf,
    ChainOf, Typed, Count, Dragging, drag
<1>10. PressAt \subseteq Pos
  BY EditorAssumption
<1>11. ~Ended => edit.undefined = FALSE
  BY <1>1, TypedFields DEF Ended
<1>12. \A key \in Shortcuts : key \in KeysTyped
  BY DEF KeysTyped
<1>13. CASE ~Ended /\ EditorFrame
  BY <1>3, <1>4, <1>5, <1>6, <1>7, <1>8, <1>10, <1>11, <1>12, <1>13
  DEF EditorFrame, OneLine, PointStates
<1> QED
  BY <1>9, <1>13 DEF EditorNext

LEMMA EditorStart == EditorInit => EditorInv
<1> SUFFICES ASSUME EditorInit PROVE EditorInv
  OBVIOUS
<1>1. /\ edit = [doc |-> Loaded, mUndoStack |-> <<>>, mCommandIndex |-> 0,
                 past |-> <<Loaded>>, undefined |-> FALSE]
      /\ mStackLimit \in {-1} \cup (Nat \ {0})
      /\ mSelectionState = "eNone" /\ mLastMousePos \in Pos /\ astray = {}
  BY EditorAssumption DEF EditorInit, Pos
<1>2. mMergeCommand \in BOOLEAN
  BY Zenon DEF EditorInit
<1>3. Coherent(Loaded) /\ Loaded \in Docs
  BY EditorAssumption DEF Coherent, Docs, Loaded
<1>4. Typed(edit) /\ Count(edit) = 0
  <2>1. /\ <<>> \in Seq(Commands) /\ <<Loaded>> \in Seq(Docs) /\ FALSE \in BOOLEAN
        /\ Len(<<Loaded>>) = 1
    BY <1>3
  <2>2. Count(edit) = 0
    BY <1>1 DEF Count
  <2> QED BY <1>1, <1>3, <2>1, <2>2 DEF Typed
<1> DEFINE d == Loaded
<1>9. /\ edit.doc = d /\ edit.past = <<d>> /\ edit.mCommandIndex = 0
      /\ Len(<<d>>) = 1 /\ <<d>>[1] = d /\ Coherent(d)
  BY <1>1, <1>3
<1> HIDE DEF d
<1>5. ChainOf(edit)
  BY <1>4, <1>9 DEF ChainOf
<1>6. HistoryOf(edit)
  <2>1. edit.doc = edit.past[edit.mCommandIndex + 1]
    BY <1>9
  <2>2. \A i \in 1..Len(edit.past) : Coherent(edit.past[i])
    BY <1>9
  <2> QED BY <1>4, <1>5, <2>1, <2>2 DEF HistoryOf
<1>7. TypeInv /\ StackInv
  BY <1>1, <1>2, <1>4, <1>5, <1>6 DEF TypeInv, StackInv
<1>8. DragInv
  BY <1>1 DEF DragInv, Dragging
<1> QED BY <1>7, <1>8 DEF EditorInv

LEMMA EditorInvariant == EditorSpec => []EditorInv
<1>1. EditorInv /\ [EditorNext]_editorVars => EditorInv'
  BY EditorStep
<1> QED BY <1>1, EditorStart, PTL DEF EditorSpec

-----------------------------------------------------------------------------
(* Theorems.                                                               *)

\* Whatever was pushed, merged, undone, redone and trimmed, in the middle of a
\* drag too, every Undo and Redo still possible gives the document there was,
\* until a drag is merged into a command that was undone or a map is loaded
\* over commands; and a limited stack keeps its limit always (UndoStack,
\* editormode.hpp).
THEOREM HistoryConsistent == EditorSpec => []HistoryIsConsistent
<1>1. ASSUME EditorInv PROVE HistoryIsConsistent
  <2>1. Typed(edit)
    BY <1>1 DEF EditorInv, TypeInv
  <2>2. ASSUME astray \cap {"history", "map"} = {}
        PROVE  /\ edit.mCommandIndex <= Count(edit)
               /\ edit.doc = edit.past[edit.mCommandIndex + 1]
               /\ \A i \in 1..Count(edit) :
                    /\ Redo(edit.mUndoStack[i], edit.past[i]) = edit.past[i + 1]
                    /\ Undo(edit.mUndoStack[i], edit.past[i + 1]) = edit.past[i]
    <3>1. HistoryOf(edit)
      BY <1>1, <2>2 DEF EditorInv, StackInv
    <3>2. \A i \in 1..Count(edit) :
            /\ Redo(edit.mUndoStack[i], edit.past[i]) = edit.past[i + 1]
            /\ Undo(edit.mUndoStack[i], edit.past[i + 1]) = edit.past[i]
      BY <3>1, HistoryAt
    <3> QED BY <3>1, <3>2 DEF HistoryOf, ChainOf
  <2> QED BY <2>1, <2>2 DEF HistoryIsConsistent, Typed
<1> QED BY <1>1, EditorInvariant, PTL

\* Undo, Redo and the pushes of a press never look for the first line of an
\* empty selection, also with the button held; a drag that an Undo, a Redo or a
\* press beside the lines has not come between never does either, and moves
\* what is selected (Selection::Select, CommandMoveLinePoint::Point,
\* EditorMode::Update).
THEOREM SelectionCoherent == EditorSpec => []SelectionIsCoherent
<1>1. ASSUME EditorInv PROVE SelectionIsCoherent
  <2>1. "map" \notin astray => edit.doc.flags = edit.doc.mSelectedLines
    BY <1>1 DEF EditorInv, StackInv, ChainOf, Coherent
  <2>2. ASSUME astray \cap {"drag", "map"} = {}
        PROVE  /\ ~edit.undefined
               /\ mSelectionState \in OneLine => Cardinality(edit.doc.mSelectedLines) = 1
               /\ mSelectionState = "eMoveSelected"
                    => Cardinality(edit.doc.mSelectedLines) > 1
    <3>1. edit.undefined = FALSE /\ (Dragging => DragOn)
      BY <1>1, <2>2 DEF EditorInv, DragInv
    <3>2. mSelectionState \in OneLine \cup {"eMoveSelected"} => Dragging
      BY DEF OneLine, PointStates, Dragging
    <3> QED BY <3>1, <3>2 DEF DragOn
  <2> QED BY <2>1, <2>2 DEF SelectionIsCoherent, OneLine
<1> QED BY <1>1, EditorInvariant, PTL

\* One Undo reverts the whole of a drag, until an Undo, a Redo or a press beside
\* the lines comes between; whatever went astray before (PushMerge and
\* mMergeCommand).
THEOREM DragIsOneUndo == EditorSpec => []UndoRevertsWholeDrag
<1>1. ASSUME EditorInv PROVE UndoRevertsWholeDrag
  <2> SUFFICES ASSUME Dragging, astray \cap {"drag", "map"} = {}
               PROVE  IF mMergeCommand THEN UndoLast(edit).doc = atPress
                      ELSE edit.doc = atPress
    BY DEF UndoRevertsWholeDrag
  <2>1. DragOn /\ ChainOf(edit) /\ TypeInv
    BY <1>1 DEF EditorInv, DragInv, StackInv
  <2>2. CASE mMergeCommand = FALSE
    BY <2>1, <2>2 DEF DragOn
  <2>3. CASE mMergeCommand = TRUE
    <3> DEFINE n == Count(edit)
               c == edit.mUndoStack[n]
    <3>1. /\ n > 0 /\ edit.mCommandIndex = n /\ Coherent(atPress)
          /\ c \in Moves(mSelectionState, atPress)
          /\ edit.doc = Redo(c, atPress)
      BY <2>1, <2>3 DEF DragOn
    <3>2. Undo(c, edit.doc) = atPress
      BY <3>1, MoveCommand
    <3>3. edit.doc.mSelectedLines # {}
      BY <2>1, DragHasLines
    <3>4. Count(edit) \in Nat /\ edit.mCommandIndex >= 1 /\ Typed(edit)
      BY <2>1, <3>1, TypedFields DEF TypeInv
    <3>5. UndoLast(edit) = [edit EXCEPT !.doc = Undo(c, edit.doc),
                                        !.mCommandIndex = edit.mCommandIndex - 1]
      BY <3>1, <3>3, <3>4, Zenon DEF UndoLast, Finds
    <3>6. UndoLast(edit).doc = Undo(c, edit.doc)
      BY <3>4, <3>5 DEF Typed
    <3> QED BY <2>3, <3>2, <3>6
  <2> QED BY <2>1, <2>2, <2>3 DEF TypeInv
<1> QED BY <1>1, EditorInvariant, PTL
=============================================================================
