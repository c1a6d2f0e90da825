------------------------------ MODULE MCInput ------------------------------
(* Instances of Input for TLC: running on one key, speaking on two buttons,   *)
(* which the keyboard cannot do, and controllers that come and go.            *)
EXTENDS Input, TLC

RunAndSpeak == {"run", "speak"}
KeyMap == "run" :> [n |-> 1, of |-> {"lshift"}] @@ "speak" :> [n |-> 2, of |-> {"lshift"}]
PadMap == "run" :> [n |-> 1, of |-> {"rb"}] @@ "speak" :> [n |-> 2, of |-> {"rb", "y"}]
=============================================================================
