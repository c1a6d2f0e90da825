---------------------------- MODULE MCAsyncQueue ----------------------------
(* Instances of AsyncQueue for TLC. *)
EXTENDS AsyncQueue, TLC

CONSTANTS j1, j2, j3, w1, w2

\* No job adds another one.
NoSpawns == [j \in Jobs |-> {}]

\* j1 is a CacheAllSoundEffectsJob that adds j2 while it executes.
OneSpawns == [j \in Jobs |-> IF j = j1 THEN {j2} ELSE {}]
=============================================================================
