---------------------------- MODULE MCJobTracker ----------------------------
(* Instances of JobTracker for TLC. *)
EXTENDS JobTracker, TLC

CONSTANTS j1, j2, j3, w1, w2

\* j1 is a CacheAllSoundEffectsJob that starts j2; j3 is a job of its own.
OneSpawns == [j \in Jobs |-> IF j = j1 THEN {j2} ELSE {}]
=============================================================================
