-------------------------- MODULE MCResourceCache --------------------------
(* Two animations in one set of a shared archive, a third one that is also   *)
(* in an archive that cannot be opened, a fourth one that is not in the      *)
(* archive the mappings name, and a sound in two archives.                   *)
EXTENDS ResourceCache, TLC

Files ==
  "walk" :> <<"s1">> @@ "run" :> <<"s1">> @@ "bird" :> <<"lost", "r1">> @@ "ghost" :> <<"r1">> @@ "ring" :> <<"r1", "s1">>
Sets == "walk" :> "abe" @@ "run" :> "abe" @@ "bird" :> "bird" @@ "ghost" :> "ghost"
Found == {<<"walk", "s1">>, <<"run", "s1">>, <<"bird", "r1">>, <<"ring", "s1">>}
=============================================================================
