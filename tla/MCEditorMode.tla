---------------------------- MODULE MCEditorMode ----------------------------
(* Instances of EditorMode for TLC: two lines on three positions. *)
EXTENDS EditorMode

Starts == [l \in Lines |-> 0]
Stops  == [l \in Lines |-> 1]

\* UndoStack(1), which trims on every push, and the default of the engine.
Limits == {-1, 1}
NoLimit == {-1}
=============================================================================
