---------------------------- MODULE MCSoundCache ----------------------------
(* Instances of SoundCache for TLC. *)
EXTENDS SoundCache, TLC

CONSTANTS n1, n2, j1, j2

\* One job per sound: no name occurs twice in a theme of data/sounds.json, and
\* the resident sounds are not in the themes.
OneEach == j1 :> n1 @@ j2 :> n2
=============================================================================
