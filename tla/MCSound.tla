------------------------------ MODULE MCSound ------------------------------
(* Instances of Sound for TLC. *)
EXTENDS Sound, TLC

CONSTANTS r, a, b, jr, ja, jb, A, B

JobNames == jr :> r @@ ja :> a @@ jb :> b

\* b is in both themes; A has no ambiance and a second entry, B no base line.
TwoThemes ==
  A :> ("AMBIANCE" :> <<>> @@ "BASE_LINE" :> <<a, b>>) @@
  B :> ("AMBIANCE" :> <<b>> @@ "BASE_LINE" :> <<>>)

\* One sound for both events.
OneTheme == A :> ("AMBIANCE" :> <<a>> @@ "BASE_LINE" :> <<a>>)
SmallJobNames == jr :> r @@ ja :> a
=============================================================================
