--------------------------------- MODULE Abe ---------------------------------
(***************************************************************************)
(* Abe, the player (data/scripts/abe.nut): a coroutine that the game wakes *)
(* up once per MapObject::Update and that suspends itself again.  In       *)
(* between it leaves one PlayAnimation, goes through any number of states, *)
(* and ends in a frame of the next PlayAnimation or of a state.            *)
(*                                                                         *)
(* Vertical movement is exact, in tenths of the script's units, y growing  *)
(* downwards.  Horizontal movement is reduced to whether there is any:     *)
(* then the floors below Abe may be others.  Keys are relative to the way  *)
(* Abe faces; turning round exchanges them.  Names of animations are       *)
(* without their prefix "Abe"; an animation of PlayAnimation is a "clip".  *)
(***************************************************************************)
EXTENDS Integers

CONSTANTS
  Frames,     \* frames of each animation (data of the game)
  Fps,        \* updates per frame
  Looping,    \* the animations that start again after the last frame
  LoopStart,  \* the frame they start again with
  Columns,    \* the floors that may be below one another: sets of y
  Inputs,     \* what may be held in an Update
  MaxRise,    \* bound: no jump or hop is asked for from higher above the floor
  MaxDepth    \* bound: no Update of an Abe who has fallen out of the map

\* The callback that ends a hop is called in its frame 3; floors are numbers.
ASSUME AbeAssumption ==
  /\ Frames["Hopping"] \in Nat /\ Frames["Hopping"] > 3 /\ LoopStart["Hopping"] \in Nat
  /\ \A floors \in Columns : floors \subseteq Int

NoClip == "none"
Falling == {"StandFalling", "StandFalling2"}
States == {"Stand", "Walk", "Run", "Crouch", "Sneak", "Roll", "HoistHang"} \cup Falling

VARIABLES
  mData,      \* the state function Exec calls
  clip,       \* the PlayAnimation that has not returned, or NoClip
  stop,       \* its local: return when resumed
  running,    \* between wakeup and suspend
  mInput,
  shown,      \* the Animation and mLastAnimationName
  changed,    \* local of Exec: frameChanged
  body,       \* mYPos, mYSpeed, mYVelocity; moving: mXSpeed > 0
  column,     \* the floors at mXPos
  local       \* toDown, toUp, toRun as a set; hoist; oldY

abeVars == <<mData, clip, stop, running, mInput, shown, changed, body, column, local>>

AnimOf ==
  [Stand |-> "StandIdle", Walk |-> "Walking", Run |-> "Running", Crouch |-> "CrouchIdle",
   Sneak |-> "Sneaking", Roll |-> "Rolling", StandFalling |-> "StandToFallingFromTrapDoor",
   StandFalling2 |-> "HoistDropDown", HoistHang |-> "HoistDangling"]

\* The clips that are followed by a state, whatever is held.
Follows ==
  [WalkToStand |-> "Stand", WalkToStandMidGrid |-> "Stand", WalkingToRunning |-> "Run",
   WalkingToRunningMidGrid |-> "Run", WalkingToSneaking |-> "Sneak",
   WalkingToSneakingMidGrid |-> "Sneak", StandToRun |-> "Run", RunningTurnAround |-> "Run",
   RunningTurnAroundToWalk |-> "Walk", RunningToRoll |-> "Roll", LandToRunning |-> "Run",
   LandToWalking |-> "Walk", RunningSkidStop |-> "Stand", RunningToWalk |-> "Walk",
   RunningToWalkingMidGrid |-> "Walk", StandToSneak |-> "Sneak", SneakToStand |-> "Stand",
   SneakToStandMidGrid |-> "Stand", SneakingToWalking |-> "Walk",
   SneakingToWalkingMidGrid |-> "Walk", StandPushWall |-> "Stand", HitGroundToStand |-> "Stand",
   StandToWalk |-> "Walk", StandToCrouch |-> "Crouch", CrouchToStand |-> "Stand",
   StandTurnAroundToRunning |-> "Run", CrouchTurnAround |-> "Crouch", CrouchToRoll |-> "Roll",
   HoppingToStand |-> "Stand", HoistPullSelfUp |-> "Stand"]

Turns == {"RunningTurnAround", "RunningTurnAroundToWalk", "CrouchTurnAround"}
StandSpeech == {"StandSpeak2", "StandSpeak3", "StandingSpeak4", "StandSpeak5"}
CrouchSpeech == {"CrouchSpeak1", "CrouchSpeak2"}

NoLocal == [asked |-> {}, hoist |-> FALSE, oldY |-> 0]

AbeInit ==
  /\ mData = "Stand" /\ clip = NoClip /\ stop = FALSE /\ running = FALSE /\ mInput = {}
  /\ shown = [anim |-> NoClip, frame |-> -1, counter |-> 0, delay |-> 1]
  /\ changed = FALSE
  /\ body = [y |-> 0, speed |-> 0, velocity |-> 0, moving |-> FALSE]
  /\ column = {0}
  /\ local = NoLocal

-----------------------------------------------------------------------------
(* Animation::Update, Restart and SetFrame *)

SetAnimation(a, name) ==
  IF a.anim = name THEN a ELSE [anim |-> name, frame |-> -1, counter |-> 0, delay |-> 1]

FrameChanges(a) == a.counter + 1 >= a.delay
NextFrame(a) ==
  IF a.frame + 1 < Frames[a.anim] THEN a.frame + 1
  ELSE IF a.anim \in Looping THEN LoopStart[a.anim] ELSE Frames[a.anim] - 1
AnimUpdate(a) ==
  IF FrameChanges(a) THEN [a EXCEPT !.frame = NextFrame(a), !.counter = 0, !.delay = Fps]
  ELSE [a EXCEPT !.counter = @ + 1]

-----------------------------------------------------------------------------
(* Movement *)

CalculateYSpeed(b) == IF b.speed - b.velocity > 200 THEN 200 ELSE b.speed - b.velocity

ApplyMovement(b) ==
  /\ body' = [b EXCEPT !.speed = CalculateYSpeed(b), !.y = @ + CalculateYSpeed(b)]
  /\ IF b.moving THEN column' \in Columns ELSE UNCHANGED column

\* MapObject::FloorCollision: the nearest floor, up to three screens down.
Below(y) == {f \in column : f >= y /\ f <= y + 7800}
HasFloor(y) == Below(y) # {}
FloorAt(y) == CHOOSE f \in Below(y) : \A g \in Below(y) : f <= g

\* Mutant: the velocity stays.
StillButVelocity(b) == [b EXCEPT !.speed = 0]

Still(b) == [b EXCEPT !.speed = 0, !.velocity = 0]
Stopped(b) == [Still(b) EXCEPT !.moving = FALSE]

-----------------------------------------------------------------------------
(* PlayAnimation and GoTo *)

PlayWith(l, name, a, b) ==
  /\ clip' = name /\ stop' = FALSE /\ local' = l
  /\ shown' = IF name = "StandToHop" THEN [SetAnimation(a, name) EXCEPT !.frame = 8, !.counter = 0, !.delay = 1]
                                     ELSE SetAnimation(a, name)
  /\ body' = b
  /\ UNCHANGED <<mData, running, column>>

Play(name, a, b) == PlayWith([local EXCEPT !.asked = {}], name, a, b)

GoTo(s, b) ==
  /\ mData' = s /\ clip' = NoClip /\ stop' = FALSE
  /\ body' = [b EXCEPT !.moving = IF s \in {"Stand", "Crouch"} THEN FALSE
                                  ELSE IF s \in {"Walk", "Run", "Sneak", "Roll"} THEN TRUE ELSE @,
                       !.velocity = IF s \in Falling THEN -18 ELSE IF s = "HoistHang" THEN 0 ELSE @]
  /\ local' = NoLocal
  /\ UNCHANGED <<running, column>>

\* The state function returns null: the frame of the state ends here.
StaysIn(a, frameChanged) ==
  /\ clip' = NoClip /\ stop' = FALSE /\ shown' = a /\ running' = FALSE
  /\ IF frameChanged THEN ApplyMovement(body) ELSE UNCHANGED <<body, column>>
  /\ UNCHANGED <<mData, local>>

-----------------------------------------------------------------------------
(* A frame of a clip *)

EndFrame ==
  [RunningToSkidTurn |-> 15, RunningSkidStop |-> 15, StandToHop |-> 11, Hopping |-> 3]

Held(key) == key \in mInput

\* What the callbacks onFrame do to the speeds when frame n is shown.
OnFrame(n, b) ==
  CASE clip = "RuningToJump" /\ n = 2 -> [b EXCEPT !.velocity = 96]
    [] clip = "RunningJumpInAir" /\ n = 10 -> [b EXCEPT !.velocity = 18, !.moving = TRUE]
    [] clip = "StandToHop" /\ n = 9 -> [b EXCEPT !.moving = TRUE]
    [] clip = "StandToHop" /\ n # 9 -> [b EXCEPT !.moving = TRUE, !.speed = -27]
    [] clip = "Hopping" /\ n = 3 -> Stopped(b)
    [] clip = "StandToJump" /\ n = 9 -> [b EXCEPT !.speed = -80]
    [] OTHER -> b

\* What they remember for later.
Asked(n) ==
  CASE clip = "HoistDangling" -> mInput \cap {"down", "up"}
    [] clip = "StandTurnAround" /\ n = 3 -> mInput \cap {"run"}
    [] OTHER -> {}

\* Mutant: nothing but the end frame and the callback ends an animation.
StopsAtEndFrame(n) ==
  \/ clip \in DOMAIN EndFrame /\ n = EndFrame[clip] + 1
  \/ Asked(n) # {}
  \/ clip = "JumpUpFalling" /\ n >= 3 /\ local.hoist

StopsAt(n) ==
  \/ clip \in DOMAIN EndFrame /\ n = EndFrame[clip] + 1
  \/ n = Frames[clip] - 1
  \/ Asked(n) # {}
  \/ clip = "JumpUpFalling" /\ n >= 3 /\ local.hoist

ClipFrame ==
  /\ running /\ clip # NoClip /\ ~stop
  /\ shown' = AnimUpdate(shown)
  /\ IF FrameChanges(shown)
     THEN LET n == NextFrame(shown)
          IN /\ stop' = StopsAt(n)
             /\ ApplyMovement(OnFrame(n, body))
             /\ local' = [local EXCEPT !.asked = @ \cup Asked(n)]
     ELSE UNCHANGED <<stop, body, column, local>>
  /\ running' = FALSE /\ mInput' = {}
  /\ UNCHANGED <<mData, clip, changed>>

-----------------------------------------------------------------------------
(* When a clip has returned, in the Update after its last frame *)

Exchange == [k \in {"same", "opposite"} |-> IF k = "same" THEN "opposite" ELSE "same"]
Flipped(keys) == {IF k \in DOMAIN Exchange THEN Exchange[k] ELSE k : k \in keys}
Moving(b) == [b EXCEPT !.moving = TRUE]

\* What comes next, for a clip that is followed by more than a GoTo.
Continue ==
  \/ clip = "RunningToSkidTurn"
     /\ Play(IF Held("run") THEN "RunningTurnAround" ELSE "RunningTurnAroundToWalk", shown, Moving(body))
  \/ clip = "RuningToJump"
     /\ Play("RunningJumpInAir", shown, [Moving(body) EXCEPT !.velocity = -18])
  \/ clip = "RunningJumpInAir"
     /\ Play(IF ~Held("same") THEN "FallingToLand" ELSE IF Held("run") THEN "LandToRunning" ELSE "LandToWalking",
              shown, Still(body))
  \/ clip = "FallingToLand" /\ Play("RunningSkidStop", shown, body)
  \/ clip = "StandToHop" /\ Play("Hopping", shown, [body EXCEPT !.velocity = -18])
  \/ clip = "Hopping" /\ Play("HoppingToStand", shown, body)
  \/ clip = "StandSpeak1" /\ \E s \in StandSpeech : Play(s, shown, body)
  \/ clip = "HoistDangling" /\ "down" \notin local.asked
     /\ Play(IF "up" \in local.asked THEN "HoistPullSelfUp" ELSE "HoistDangling", shown, body)
  \/ clip = "StandToJump"
     /\ \E hoist \in BOOLEAN :
          PlayWith([local EXCEPT !.hoist = hoist], "JumpUpFalling", shown, [body EXCEPT !.velocity = -18])
  \/ clip = "JumpUpFalling" /\ ~local.hoist
     /\ PlayWith(NoLocal, "HitGroundToStand", shown, [Still(body) EXCEPT !.y = local.oldY])

Leave ==
  \/ clip \in DOMAIN Follows /\ GoTo(Follows[clip], body)
  \/ clip = "HoistDangling" /\ "down" \in local.asked
     /\ GoTo("StandFalling2", [body EXCEPT !.y = @ + 780])
  \/ clip = "JumpUpFalling" /\ local.hoist
     /\ GoTo("HoistHang", [Still(body) EXCEPT !.y = @ - 780])

ClipReturns ==
  /\ running /\ clip # NoClip /\ stop
  /\ \/ /\ Continue \/ (Leave /\ UNCHANGED shown)
        /\ mInput' = IF clip \in Turns THEN Flipped(mInput) ELSE mInput
     \/ /\ clip = "StandTurnAround"
        /\ IF "run" \in local.asked THEN Play("StandTurnAroundToRunning", shown, Moving(body))
                                     ELSE GoTo("Stand", body) /\ UNCHANGED shown
        /\ mInput' = Flipped(mInput)
     \/ /\ clip \in StandSpeech \cup CrouchSpeech
        /\ StaysIn(SetAnimation(shown, AnimOf[mData]), changed)
        /\ mInput' = {}
  /\ UNCHANGED changed

-----------------------------------------------------------------------------
(* One turn of the loop of Exec: the animation of the state, its function *)

ExecShown == AnimUpdate(SetAnimation(shown, AnimOf[mData]))
ExecChanged == FrameChanges(SetAnimation(shown, AnimOf[mData]))
FrameIs(frames) == ExecChanged /\ ExecShown.frame \in frames

Plays(name, b) == Play(name, ExecShown, b)
Goes(s, b) == GoTo(s, b) /\ shown' = ExecShown
Stays == StaysIn(ExecShown, ExecChanged)

\* WillStepIntoWall: blocked at the head only, or at the knees too.
Blocked ==
  \/ Plays("StandPushWall", [body EXCEPT !.moving = FALSE])
  \/ Plays("StandToCrouch", [body EXCEPT !.moving = FALSE])

JumpUp == PlayWith([local EXCEPT !.asked = {}, !.oldY = body.y], "StandToJump", ExecShown, body)

Stand ==
  \/ Held("opposite") /\ Plays("StandTurnAround", body)
  \/ Held("same") /\ Held("run") /\ Plays("StandToRun", Moving(body))
  \/ Held("same") /\ ~Held("run")
     /\ (Blocked \/ Plays(IF Held("sneak") THEN "StandToSneak" ELSE "StandToWalk", Moving(body)))
  \/ /\ mInput \cap {"same", "opposite"} = {}
     /\ \/ Held("down") /\ Plays("StandToCrouch", body)
        \/ /\ ~Held("down")
           /\ \/ Held("speak") /\ Plays("StandSpeak1", body)
              \/ ~Held("speak") /\ Held("roll") /\ Plays("StandSpeak5", body)
              \/ /\ mInput \cap {"speak", "roll"} = {}
                 /\ \/ Held("jump") /\ Plays("StandToHop", body)
                    \/ ~Held("jump") /\ Held("up") /\ JumpUp
                    \/ mInput \cap {"jump", "up"} = {} /\ Stays

\* Mutant: under a ceiling the state is entered again.
CrouchEnteredAgain ==
  \/ Held("up") /\ (Plays("CrouchToStand", body) \/ Goes("Crouch", body))
  \/ ~Held("up") /\ Stays

Crouch ==
  \/ Held("up") /\ (Plays("CrouchToStand", body) \/ Stays)   \* Stays: IsCellingAbove
  \/ /\ ~Held("up")
     /\ \/ Held("same") /\ Plays("CrouchToRoll", Moving(body))
        \/ Held("opposite") /\ Plays("CrouchTurnAround", body)
        \/ /\ mInput \cap {"same", "opposite"} = {}
           /\ \/ Held("speak") /\ \E s \in CrouchSpeech : Plays(s, body)
              \/ ~Held("speak") /\ Held("roll") /\ Plays("CrouchSpeak1", body)
              \/ mInput \cap {"speak", "roll"} = {} /\ Stays

NotOnFloor == HasFloor(body.y) => FloorAt(body.y) > body.y

Walk ==
  \/ NotOnFloor /\ Goes("StandFalling", body)
  \/ /\ ~NotOnFloor /\ FrameIs({6, 15})
     /\ \/ Blocked
        \/ Held("same") /\ Held("run")
           /\ Plays(IF FrameIs({6}) THEN "WalkingToRunning" ELSE "WalkingToRunningMidGrid", body)
        \/ Held("same") /\ ~Held("run") /\ Held("sneak")
           /\ Plays(IF FrameIs({6}) THEN "WalkingToSneaking" ELSE "WalkingToSneakingMidGrid", Moving(body))
        \/ (Held("same") => mInput \cap {"run", "sneak"} = {}) /\ Stays
  \/ /\ ~NotOnFloor /\ FrameIs({3, 12}) /\ ~Held("same")
     /\ Plays(IF FrameIs({3}) THEN "WalkToStand" ELSE "WalkToStandMidGrid", Moving(body))
  \/ ~NotOnFloor /\ ~FrameIs({6, 15}) /\ (FrameIs({3, 12}) => Held("same")) /\ Stays

Sneak ==
  \/ /\ Held("same") /\ FrameIs({7, 17})
     /\ \/ Blocked
        \/ ~Held("sneak") /\ Plays(IF FrameIs({7}) THEN "SneakingToWalking" ELSE "SneakingToWalkingMidGrid", body)
        \/ Held("sneak") /\ Stays
  \/ /\ ~Held("same") /\ FrameIs({4, 14})
     /\ Plays(IF FrameIs({4}) THEN "SneakToStand" ELSE "SneakToStandMidGrid", body)
  \/ ~FrameIs(IF Held("same") THEN {7, 17} ELSE {4, 14}) /\ Stays

Run ==
  LET b == Moving(body) IN
  \/ /\ FrameIs({1, 9})
     /\ IF {"same", "run", "jump"} \subseteq mInput THEN Plays("RuningToJump", b)
        ELSE StaysIn(ExecShown, ExecChanged)
  \/ /\ FrameIs({5, 13})
     /\ \/ Held("opposite") /\ Plays("RunningToSkidTurn", b)
        \/ Held("same") /\ ~Held("run")
           /\ Plays(IF FrameIs({5}) THEN "RunningToWalk" ELSE "RunningToWalkingMidGrid", b)
        \/ Held("same") /\ Held("run") /\ Held("jump") /\ Plays("RuningToJump", b)
        \/ Held("same") /\ Held("run") /\ ~Held("jump") /\ Held("roll") /\ Plays("RunningToRoll", b)
        \/ {"same", "run"} \subseteq mInput /\ mInput \cap {"jump", "roll"} = {} /\ Stays
        \/ mInput \cap {"same", "opposite"} = {} /\ Plays("RunningSkidStop", b)
  \/ ~FrameIs({1, 9, 5, 13}) /\ Stays

Roll ==
  \/ FrameIs({1, 5, 9}) /\ ~Held("same") /\ Goes("Crouch", body)
  \/ FrameIs({2, 6, 10}) /\ {"same", "run"} \subseteq mInput /\ Plays("StandToRun", Moving(body))
  \/ /\ FrameIs({1, 5, 9}) => Held("same")
     /\ FrameIs({2, 6, 10}) => ~({"same", "run"} \subseteq mInput)
     /\ Stays

HoistHang == Plays("HoistDangling", body)

\* Mutant: the velocity is left out.
ExpectedYPosBefore(b) == b.y + b.speed

ExpectedYPos(b) == b.y + CalculateYSpeed(b)

\* StandFalling and StandFalling2 are the same.
StandFalling ==
  LET floor == FloorAt(body.y)
      lands == HasFloor(body.y) /\ (floor = body.y \/ ExpectedYPos(body) > floor)
  IN IF lands THEN Plays("HitGroundToStand", [Stopped(body) EXCEPT !.y = floor]) ELSE Stays

StateFunction ==
  \/ mData = "Stand" /\ Stand
  \/ mData = "Crouch" /\ Crouch
  \/ mData = "Walk" /\ Walk
  \/ mData = "Run" /\ Run
  \/ mData = "Sneak" /\ Sneak
  \/ mData = "Roll" /\ Roll
  \/ mData = "HoistHang" /\ HoistHang
  \/ mData \in Falling /\ StandFalling

Exec ==
  /\ running /\ clip = NoClip
  /\ StateFunction
  /\ changed' = ExecChanged
  /\ mInput' = IF running' THEN mInput ELSE {}

-----------------------------------------------------------------------------

TooHigh == HasFloor(body.y) => FloorAt(body.y) > body.y + MaxRise

\* MapObject::Update: what is held now, and the coroutine goes on.
AbeUpdate(keys) ==
  /\ ~running /\ running' = TRUE
  /\ body.y <= MaxDepth
  /\ TooHigh => keys \cap {"jump", "up"} = {}
  /\ mInput' = keys
  /\ UNCHANGED <<mData, clip, stop, shown, changed, body, column, local>>

AbeNext == (\E keys \in Inputs : AbeUpdate(keys)) \/ ClipFrame \/ ClipReturns \/ Exec

\* World::Update calls the objects once per frame.
AbeFairness == WF_abeVars(AbeNext)

AbeSpec == AbeInit /\ [][AbeNext]_abeVars
FairAbeSpec == AbeSpec /\ AbeFairness

-----------------------------------------------------------------------------
(* Properties *)

Airborne ==
  {"RuningToJump", "RunningJumpInAir", "StandToHop", "Hopping", "StandToJump", "JumpUpFalling"}

(* A jump, hop or fall leaves no vertical speed or velocity behind, whichever *)
(* way it ends: GoTo sets them for no state on the ground, and ApplyMovement  *)
(* would carry Abe off while he stands, walks or speaks.                      *)
GroundIsStill ==
  clip \notin Airborne /\ (mData \in Falling => clip = "HitGroundToStand") =>
    body.speed = 0 /\ body.velocity = 0

(* Who falls never gets below the floor that he was above in the frame       *)
(* before, however fast he is: what StandFalling expects is what             *)
(* ApplyMovement does.  (A jump looks for no floor.)                         *)
NoFallThrough ==
  [][HasFloor(body.y) /\ mData \in Falling => body'.y <= FloorAt(body.y)]_abeVars

(* The coroutine suspends itself in every Update, or the game would hang:    *)
(* states do not go to one another for ever in one frame (Exec).             *)
UpdateReturns == running ~> ~running

(* Every PlayAnimation returns, so the player can act again; Abe hangs on a  *)
(* hoist until he is told to go up or down.                                  *)
ClipsEnd == clip \notin {NoClip, "HoistDangling"} ~> clip \in {NoClip, "HoistDangling"}

(* Who falls lands, if there is a floor: no fall stops in mid-air.           *)
FallsEnd == mData \in Falling ~> mData = "Stand" \/ body.y > MaxDepth

(* What Abe has begun comes to its end, a clip and a fall.                   *)
ActionsEnd == ClipsEnd /\ FallsEnd

=============================================================================
