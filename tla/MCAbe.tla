-------------------------------- MODULE MCAbe --------------------------------
(* Instances of Abe for TLC: a ledge, a floor below it, and nothing beyond;  *)
(* animations as short as the frames the script names allow.                 *)
EXTENDS Abe, TLC

Animations ==
  DOMAIN Follows \cup Airborne \cup StandSpeech \cup CrouchSpeech \cup DOMAIN EndFrame
    \cup {AnimOf[s] : s \in States} \cup {"FallingToLand", "StandTurnAround", "StandSpeak1"}

\* RunningSkidStop and RunningToSkidTurn end with their end frame.
NamedFrames ==
  "Walking" :> 16 @@ "Running" :> 14 @@ "Sneaking" :> 18 @@ "Rolling" :> 11 @@
  "RunningToSkidTurn" :> 18 @@ "RunningSkidStop" :> 17 @@
  "RuningToJump" :> 3 @@ "RunningJumpInAir" :> 11 @@ "StandToHop" :> 13 @@ "Hopping" :> 5 @@
  "StandToJump" :> 11 @@ "JumpUpFalling" :> 5 @@ "StandTurnAround" :> 5
FrameCounts == [a \in Animations |-> IF a \in DOMAIN NamedFrames THEN NamedFrames[a] ELSE 2]
Loops == {AnimOf[s] : s \in States}
LoopStarts == [a \in Animations |-> IF a \in {"StandIdle", "Walking", "Rolling"} THEN 1 ELSE 0]

Places == {{0}, {0, 100}, {100}, {}}
Keys ==
  {{}, {"same"}, {"opposite"}, {"same", "run"}, {"same", "sneak"}, {"same", "run", "jump"},
   {"same", "run", "roll"}, {"down"}, {"up"}, {"jump"}, {"roll"}, {"speak"}}
=============================================================================
