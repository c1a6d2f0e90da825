------------------------------ MODULE MCWorld ------------------------------
(* Instances of World for TLC: a map of four screens with six objects, and a *)
(* map of one screen without any.                                            *)
EXTENDS World, TLC

CONSTANTS m1, m2

Sizes == m1 :> <<2, 2>> @@ m2 :> <<1, 1>>

\* An object the script does not want, a camera without objects.
MapObjects ==
  m1 :> (<<0, 0>> :> <<"door", "junk">> @@ <<0, 1>> :> <<>> @@
         <<1, 0>> :> <<"junk">> @@ <<1, 1>> :> <<"slig", "door", "door">>) @@
  m2 :> (<<0, 0>> :> <<>>)

BlankScreens == m1 :> {<<0, 0>>} @@ m2 :> {}

AnimCounts == "door" :> 0 @@ "junk" :> 1 @@ "slig" :> 2 @@ "abe" :> 1
=============================================================================
