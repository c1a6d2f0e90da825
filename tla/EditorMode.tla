----------------------------- MODULE EditorMode -----------------------------
(***************************************************************************)
(* EditorMode and its UndoStack and Selection (include/editormode.hpp,     *)
(* src/editormode.cpp): collision lines are selected and dragged with the  *)
(* mouse, every change is a command, consecutive moves of one drag merge,  *)
(* and Undo/Redo walk the stack of commands.                               *)
(*                                                                         *)
(* One action is one frame.  A position is a number modulo PosCount: the   *)
(* float arithmetic of the code is taken to be exact.  Which line is under *)
(* the mouse (CollisionLine::Pick) and which end is near is any choice.    *)
(*                                                                         *)
(* Some of what a user can do the code is not ready for: Undo and Redo     *)
(* while a line is being dragged, a button that goes up in a frame that    *)
(* does not reach the mouse handling, a map loaded over commands and a     *)
(* selection.  All of it is modelled.  The history variable astray says    *)
(* which of these has happened; where it leads to undefined behaviour,     *)
(* edit.undefined is TRUE and the model ends, as it does at the bound       *)
(* LastAstray.                                                             *)
(***************************************************************************)
EXTENDS Integers, Sequences, FiniteSets

CONSTANTS Lines,         \* indices of mCollisionItems
          PosCount,      \* number of positions
          PressAt,       \* bound: where the button goes down
          P1, P2,        \* end points of the lines in the map
          StackLimits,   \* values of mStackLimit; -1: no limit
          MaxCommands,   \* bound: commands on a stack without a limit
          LastAstray     \* bound: members of astray after which nothing follows

Pos == 0..(PosCount - 1)
Ends == [Lines -> Pos]

ASSUME EditorAssumption ==
  /\ Lines \subseteq Nat /\ Lines # {} /\ IsFiniteSet(Lines)
  /\ PosCount \in Nat \ {0} /\ PressAt \subseteq Pos
  /\ P1 \in Ends /\ P2 \in Ends
  /\ StackLimits \subseteq {-1} \cup (Nat \ {0}) /\ MaxCommands \in Nat
  /\ LastAstray \subseteq {"drag", "history", "map"}

VARIABLES
  edit,   \* record: doc, the lines and the Selection, mUndoStack,
          \* mCommandIndex; past, a history variable: the document before the
          \* first command of the stack and after each of them; and undefined
  mStackLimit,
  mSelectionState, mMergeCommand, mLastMousePos,
  mouseDown,   \* InputState's left button was down in the last frame
  atPress,     \* history: the document when the button went down, while a drag
               \* goes on and is not astray
  astray       \* history, a subset of {"drag", "history", "map"}:
               \*  "drag"     the drag that goes on: since its press an Undo, a
               \*             Redo or a press beside the lines changed something
               \*  "history"  a drag was merged into a command that was undone
               \*  "map"      a map was loaded over commands or a selection

drag == <<mSelectionState, mMergeCommand, mLastMousePos>>
editorVars == <<edit, mStackLimit, drag, mouseDown, atPress, astray>>

PointStates == {"eLineP1Selected", "eLineP2Selected"}
Dragging == mSelectionState # "eNone"

-----------------------------------------------------------------------------
(* Commands: what each of them does to the document, and back. *)

Select(d, idx, select) ==
  IF select
  THEN [d EXCEPT !.flags = @ \cup {idx}, !.mSelectedLines = @ \cup {idx}]
  ELSE [d EXCEPT !.flags = @ \ {idx}, !.mSelectedLines = @ \ {idx}]

\* Mutant: the lines keep their selected flag.
ClearSelectionFlagsStay(d) == [d EXCEPT !.mSelectedLines = {}]

ClearSelection(d) ==
  [d EXCEPT !.flags = @ \ d.mSelectedLines, !.mSelectedLines = {}]

Moved(points, lines, delta) ==
  [l \in Lines |-> IF l \in lines THEN (points[l] + delta) % PosCount ELSE points[l]]

Shift(d, delta) ==
  [d EXCEPT !.p1 = Moved(@, d.mSelectedLines, delta),
            !.p2 = Moved(@, d.mSelectedLines, delta)]

First(d) == CHOOSE l \in d.mSelectedLines : \A k \in d.mSelectedLines : l <= k
Point(d, isP1) == IF isP1 THEN d.p1[First(d)] ELSE d.p2[First(d)]
SetPoint(d, isP1, pos) ==
  IF isP1 THEN [d EXCEPT !.p1[First(d)] = pos] ELSE [d EXCEPT !.p2[First(d)] = pos]

SelectOrDeselectLine(idx, select) ==
  [id |-> "SelectOrDeselectLine", mIdx |-> idx, mSelect |-> select]
CommandClearSelection == [id |-> "ClearSelection", mOldSelection |-> {}]
MoveLinePoint(d, pos, isP1) ==
  [id |-> "MoveLinePoint", mOldPos |-> Point(d, isP1), mNewPos |-> pos, mApplyToP1 |-> isP1]
MoveSelection(delta) == [id |-> "MoveSelection", mDelta |-> delta]

Redo(c, d) ==
  CASE c.id = "SelectOrDeselectLine" -> Select(d, c.mIdx, c.mSelect)
    [] c.id = "ClearSelection"       -> ClearSelection(d)
    [] c.id = "MoveLinePoint"        -> SetPoint(d, c.mApplyToP1, c.mNewPos)
    [] c.id = "MoveSelection"        -> Shift(d, c.mDelta)

\* CommandMoveLinePoint::Point dereferences begin() of the selection.
Finds(c, d) == c.id = "MoveLinePoint" => d.mSelectedLines # {}

\* What Redo writes to the command itself.
Done(c, d) ==
  IF c.id = "ClearSelection" THEN [c EXCEPT !.mOldSelection = d.mSelectedLines] ELSE c

Undo(c, d) ==
  CASE c.id = "SelectOrDeselectLine" -> Select(d, c.mIdx, ~c.mSelect)
    [] c.id = "ClearSelection"       -> [d EXCEPT !.flags = @ \cup c.mOldSelection,
                                                  !.mSelectedLines = @ \cup c.mOldSelection]
    [] c.id = "MoveLinePoint"        -> SetPoint(d, c.mApplyToP1, c.mOldPos)
    [] c.id = "MoveSelection"        -> Shift(d, -c.mDelta)

Merge(c, new) ==
  IF c.id = "MoveLinePoint" THEN [c EXCEPT !.mNewPos = new.mNewPos]
  ELSE [c EXCEPT !.mDelta = (@ + new.mDelta) % PosCount]

-----------------------------------------------------------------------------
(* UndoStack *)

Count(e) == Len(e.mUndoStack)
Lost(e) == [e EXCEPT !.undefined = TRUE]

\* The stack with a command that has just been done, within its limit.
Pushed(e, stack, docs, c) ==
  LET full == Append(stack, Done(c, e.doc))
      all  == Append(docs, Redo(c, e.doc))
      over == mStackLimit # -1 /\ Len(full) > mStackLimit
  IN [e EXCEPT !.doc           = Redo(c, e.doc),
               !.mUndoStack    = IF over THEN Tail(full) ELSE full,
               !.mCommandIndex = IF over THEN @ ELSE @ + 1,
               !.past          = IF over THEN Tail(all) ELSE all]

\* Mutant: commands that were undone stay on the stack.
PushKeepsUndone(e, c) == Pushed(e, e.mUndoStack, e.past, c)

\* What was undone is erased, from begin() + mCommandIndex.
Push(e, c) ==
  IF e.mCommandIndex > Count(e) THEN Lost(e)
  ELSE Pushed(e, SubSeq(e.mUndoStack, 1, e.mCommandIndex),
              SubSeq(e.past, 1, e.mCommandIndex + 1), c)

Merges(e, shouldMerge, id) ==
  shouldMerge /\ Count(e) > 0 /\ e.mUndoStack[Count(e)].id = id

PushMerge(e, shouldMerge, c) ==
  LET n == Count(e)
  IN IF Merges(e, shouldMerge, c.id)
     THEN LET undone == Undo(e.mUndoStack[n], e.doc)
              merged == Merge(e.mUndoStack[n], c)
              doc    == Redo(merged, undone)
          IN [e EXCEPT !.doc = doc, !.mUndoStack[n] = merged,
                       !.past[n + 1].p1 = doc.p1, !.past[n + 1].p2 = doc.p2]
     ELSE Push(e, c)

UndoLast(e) ==
  LET c == e.mUndoStack[e.mCommandIndex]
  IN IF ~(Count(e) > 0 /\ e.mCommandIndex >= 1) THEN e
     ELSE IF ~Finds(c, e.doc) THEN Lost(e)
     ELSE [e EXCEPT !.doc = Undo(c, @), !.mCommandIndex = @ - 1]

RedoNext(e) ==
  LET i == e.mCommandIndex + 1
      c == e.mUndoStack[i]
  IN IF i > Count(e) THEN e
     ELSE IF ~Finds(c, e.doc) THEN Lost(e)
     ELSE [e EXCEPT !.doc = Redo(c, @), !.mUndoStack[i] = Done(c, e.doc),
                    !.mCommandIndex = i]

-----------------------------------------------------------------------------
(* EditorMode::Update, one action per kind of frame *)

Loaded == [p1 |-> P1, p2 |-> P2, flags |-> {}, mSelectedLines |-> {}]

EditorInit ==
  /\ edit = [doc |-> Loaded, mUndoStack |-> <<>>, mCommandIndex |-> 0,
             past |-> <<Loaded>>, undefined |-> FALSE]
  /\ mStackLimit \in StackLimits
  /\ mSelectionState = "eNone" /\ mMergeCommand = FALSE /\ mLastMousePos = 0
  /\ mouseDown = FALSE
  /\ atPress = Loaded /\ astray = {}

\* The keyboard in a frame: left Ctrl with Z or Y just pressed, or alone, which
\* makes a difference only to a press on a line.
Shortcuts == {"none", "CTRL+Z", "CTRL+Y"}
KeysTyped == Shortcuts \cup {"CTRL"}
AfterKeys(key) ==
  CASE key = "CTRL+Z" -> UndoLast(edit)
    [] key = "CTRL+Y" -> RedoNext(edit)
    [] OTHER          -> edit

Bounded == mStackLimit = -1 => Len(edit'.mUndoStack) <= MaxCommands

\* A drag that goes on is astray once something else has changed edit.
Drifts(changed) ==
  IF Dragging' /\ (changed \/ "drag" \in astray) THEN astray \cup {"drag"}
  ELSE astray \ {"drag"}

\* The button is up, or goes up in this frame.
FrameUp(key) ==
  /\ edit' = AfterKeys(key)
  /\ mouseDown' = FALSE
  /\ mSelectionState' = IF mouseDown THEN "eNone" ELSE mSelectionState
  /\ astray' = Drifts(edit' # edit)
  /\ atPress' = IF Dragging' /\ "drag" \notin astray' THEN atPress ELSE Loaded
  /\ UNCHANGED <<mStackLimit, mMergeCommand, mLastMousePos>>

\* What a drag that starts on a line with this selection will move.
DragOf(selected, end) ==
  IF Cardinality(selected) > 1 THEN "eMoveSelected"
  ELSE IF selected # {} THEN end
  ELSE "eNone"

GroupSelect(e, idx) ==
  Push(e, SelectOrDeselectLine(idx, idx \notin e.doc.flags))

SingleSelect(e, idx) ==
  IF idx \in e.doc.mSelectedLines THEN e
  ELSE Push(IF e.doc.mSelectedLines # {} THEN Push(e, CommandClearSelection) ELSE e,
            SelectOrDeselectLine(idx, TRUE))

\* Mutant: a new press goes on merging into the last move.
PressLineGoesOnMerging(key, idx, end, pos) ==
  LET e == AfterKeys(key)
      group == key # "none"
  IN /\ ~mouseDown /\ mouseDown' = TRUE
     /\ edit' = IF group THEN GroupSelect(e, idx) ELSE SingleSelect(e, idx)
     /\ Bounded
     /\ mSelectionState' = IF group /\ idx \in e.doc.flags THEN "eNone"
                           ELSE DragOf(edit'.doc.mSelectedLines, end)
     /\ mLastMousePos' = pos
     /\ atPress' = edit'.doc /\ astray' = astray \ {"drag"}
     /\ UNCHANGED <<mStackLimit, mMergeCommand>>

PressLine(key, idx, end, pos) ==
  LET e == AfterKeys(key)
      group == key # "none"
  IN /\ ~mouseDown /\ mouseDown' = TRUE
     /\ mMergeCommand' = FALSE
     /\ edit' = IF group THEN GroupSelect(e, idx) ELSE SingleSelect(e, idx)
     /\ Bounded
     /\ mSelectionState' = IF group /\ idx \in e.doc.flags THEN "eNone"
                           ELSE DragOf(edit'.doc.mSelectedLines, end)
     /\ mLastMousePos' = pos
     /\ atPress' = (IF Dragging' THEN edit'.doc ELSE Loaded) /\ astray' = astray \ {"drag"}
     /\ UNCHANGED mStackLimit

\* A drag whose release was not seen goes on.
PressNothing(key) ==
  LET e == AfterKeys(key)
  IN /\ ~mouseDown /\ mouseDown' = TRUE
     /\ mMergeCommand' = FALSE
     /\ edit' = IF e.doc.mSelectedLines # {} THEN Push(e, CommandClearSelection) ELSE e
     /\ Bounded
     /\ UNCHANGED mSelectionState
     /\ atPress' = Loaded /\ astray' = Drifts(edit' # edit)
     /\ UNCHANGED <<mStackLimit, mLastMousePos>>

\* The command of a frame in which the mouse has moved to pos.
DragCommand(d, pos) ==
  IF mSelectionState \in PointStates
  THEN MoveLinePoint(d, pos, mSelectionState = "eLineP1Selected")
  ELSE MoveSelection((pos - mLastMousePos) % PosCount)

\* The constructor of CommandMoveLinePoint, and its Undo, call Point().
DragTo(e, pos) ==
  IF mSelectionState \in PointStates /\ e.doc.mSelectedLines = {} THEN Lost(e)
  ELSE PushMerge(e, mMergeCommand, DragCommand(e.doc, pos))

\* The last command is not the last one done.
MergesUndone(e) ==
  /\ e.mCommandIndex # Count(e)
  /\ Merges(e, mMergeCommand, IF mSelectionState \in PointStates THEN "MoveLinePoint"
                              ELSE "MoveSelection")

FrameHeld(key, pos) ==
  LET e == AfterKeys(key)
      moves == Dragging /\ mLastMousePos # pos
  IN /\ mouseDown
     /\ edit' = IF moves THEN DragTo(e, pos) ELSE e
     /\ Bounded
     /\ mLastMousePos' = IF moves THEN pos ELSE mLastMousePos
     /\ mMergeCommand' = (moves \/ mMergeCommand)
     /\ UNCHANGED mSelectionState
     /\ astray' = Drifts(e # edit)
                    \cup (IF moves /\ MergesUndone(e) THEN {"history"} ELSE {})
     /\ atPress' = IF "drag" \in astray' THEN Loaded ELSE atPress
     /\ UNCHANGED <<mStackLimit, mouseDown>>

\* A frame that returns at menuItemHandled, its Undo item clicked or not, or
\* one of another state of the world: the button is not looked at.
FrameUnseen(undo, down) ==
  /\ edit' = IF undo THEN UndoLast(edit) ELSE edit
  /\ mouseDown' = down
  /\ UNCHANGED <<mStackLimit, drag>>
  /\ astray' = Drifts(edit' # edit)
  /\ atPress' = IF "drag" \in astray' THEN Loaded ELSE atPress

\* World::LoadMap: other lines, and EditorMode::ClearUndoStack.
LoadMap ==
  /\ LET d == [Loaded EXCEPT !.mSelectedLines = edit.doc.mSelectedLines]
     IN edit' = [edit EXCEPT !.doc = d, !.mUndoStack = <<>>, !.past = <<d>>]
  /\ astray' = (astray \ {"history"})
                 \cup (IF edit.mCommandIndex # 0 \/ edit.doc.mSelectedLines # {}
                       THEN {"map"} ELSE {})
  /\ UNCHANGED <<mStackLimit, drag, mouseDown, atPress>>

EditorFrame ==
  \/ \E key \in Shortcuts : FrameUp(key)
  \/ \E key \in KeysTyped, idx \in Lines, pos \in PressAt,
        end \in {"eLineP1Selected", "eLineP2Selected", "eLineMiddleSelected"} :
       PressLine(key, idx, end, pos)
  \/ \E key \in Shortcuts : PressNothing(key)
  \/ \E key \in Shortcuts, pos \in Pos : FrameHeld(key, pos)
  \/ \E undo, down \in BOOLEAN : FrameUnseen(undo, down)
  \/ LoadMap

Ended == edit.undefined \/ astray \cap LastAstray # {}

EditorNext ==
  \/ ~Ended /\ EditorFrame
  \/ Ended /\ UNCHANGED editorVars

EditorSpec == EditorInit /\ [][EditorNext]_editorVars

-----------------------------------------------------------------------------
(* Properties *)

\* However commands were pushed, merged, undone, redone and trimmed from a full
\* stack, in the middle of a drag too, the lines and the selection are exactly
\* what they were when the command before mCommandIndex had been done, and so
\* are the ones that every further Undo or Redo will bring back
\* (UndoStack::Push, PushMerge, Undo, Redo); and a stack with a limit never holds
\* more commands than that.  Only a drag that is merged into a command that
\* was undone, and a map loaded over commands, break it.
HistoryIsConsistent ==
  /\ mStackLimit # -1 => Count(edit) <= mStackLimit
  /\ Len(edit.past) = Count(edit) + 1
  /\ astray \cap {"history", "map"} = {} =>
       /\ edit.mCommandIndex <= Count(edit)
       /\ edit.doc = edit.past[edit.mCommandIndex + 1]
       /\ \A i \in 1..Count(edit) :
            /\ Redo(edit.mUndoStack[i], edit.past[i]) = edit.past[i + 1]
            /\ Undo(edit.mUndoStack[i], edit.past[i + 1]) = edit.past[i]

\* The selected flags of the lines are the Selection's set, whatever is undone
\* or redone and when, until a map is loaded over it.  A drag of a point or of
\* one line has that one line selected, a drag of many at least two, unless an
\* Undo, a Redo or a press beside the lines has come between.  So no Undo, Redo
\* or push ever dereferences "*mSelection.SelectedLines().begin()" of an empty
\* set, but a frame of such a drag (there it does: Ctrl+Z with the button held).
SelectionIsCoherent ==
  /\ "map" \notin astray => edit.doc.flags = edit.doc.mSelectedLines
  /\ astray \cap {"drag", "map"} = {} =>
       /\ ~edit.undefined
       /\ mSelectionState \in PointStates \cup {"eLineMiddleSelected"}
            => Cardinality(edit.doc.mSelectedLines) = 1
       /\ mSelectionState = "eMoveSelected" => Cardinality(edit.doc.mSelectedLines) > 1

\* A drag of many frames is one command: while it lasts, one Undo would bring
\* back what there was when the button went down, no more and no less; also
\* when an earlier drag went astray, and when frames of it were not seen.
UndoRevertsWholeDrag ==
  Dragging /\ astray \cap {"drag", "map"} = {} =>
    IF mMergeCommand THEN UndoLast(edit).doc = atPress
    ELSE edit.doc = atPress

\* editormode.hpp: "If the active index isn't the latest item then remove
\* everything after it": the active index is that of an item, or just past the
\* last, also when ClearUndoStack has emptied the stack.
CommandIndexInRange == edit.mCommandIndex <= Count(edit)
=============================================================================
