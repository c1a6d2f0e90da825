------------------------------ MODULE AbeProofs ------------------------------
(***************************************************************************)
(* However long the animations are and whatever is held: no jump, hop or   *)
(* fall leaves a vertical speed behind, and nobody falls through a floor.  *)
(***************************************************************************)
EXTENDS Abe, WellFoundedInduction, TLAPS

Body == [y : Int, speed : Int, velocity : Int, moving : BOOLEAN]
IsStill(b) == b.speed = 0 /\ b.velocity = 0

ShownFields == {"anim", "frame", "counter", "delay"}
IsShown(a) == a = [f \in ShownFields |-> a[f]]
LocalFields == {"asked", "hoist", "oldY"}
IsLocal(l) == l = [f \in LocalFields |-> l[f]] /\ l.oldY \in Int

AbeTypes ==
  /\ mData \in States /\ body \in Body /\ column \subseteq Int
  /\ IsShown(shown) /\ IsLocal(local)

\* A hop is over once its frame 3 has been shown, and ends no sooner.
HopEnds ==
  clip = "Hopping" =>
    /\ shown.anim = "Hopping" /\ shown.frame \in Int
    /\ shown.frame >= 3 => IsStill(body)
    /\ stop => shown.frame >= 3

\* StandToHop is the animation it shows, so that Hopping starts at its first
\* frame; who falls does nothing else but land.
MoveInv ==
  /\ AbeTypes
  /\ clip = "StandToHop" => shown.anim = clip
  /\ HopEnds
  /\ mData \in Falling => clip \in {NoClip, "HitGroundToStand"}
  /\ clip \notin Airborne /\ (mData \in Falling => clip = "HitGroundToStand") => IsStill(body)

-----------------------------------------------------------------------------
(* The helpers *)

LEMMA Bodies ==
  ASSUME NEW b \in Body
  PROVE  /\ Moving(b) \in Body /\ (IsStill(b) => IsStill(Moving(b)))
         /\ [b EXCEPT !.moving = FALSE] \in Body
         /\ IsStill(b) => IsStill([b EXCEPT !.moving = FALSE])
         /\ Still(b) \in Body /\ IsStill(Still(b)) /\ Still(b).y = b.y
         /\ Stopped(b) \in Body /\ IsStill(Stopped(b)) /\ Stopped(b).y = b.y
<1>1. /\ [b EXCEPT !.speed = 0] \in Body /\ [b EXCEPT !.moving = FALSE] \in Body
      /\ [b EXCEPT !.moving = TRUE] \in Body
  <2>1. [b EXCEPT !.speed = 0] \in Body
    BY DEF Body
  <2>2. [b EXCEPT !.moving = FALSE] \in Body
    BY DEF Body
  <2>3. [b EXCEPT !.moving = TRUE] \in Body
    BY DEF Body
  <2> QED
    BY <2>1, <2>2, <2>3
<1>2. Still(b) \in Body
  <2>1. \A c \in Body : [c EXCEPT !.velocity = 0] \in Body
    BY DEF Body
  <2> QED
    BY <1>1, <2>1, Zenon DEF Still
<1>3. Still(b).y = b.y /\ Still(b).speed = 0 /\ Still(b).velocity = 0
  BY DEF Body, Still
<1>4. \A c \in Body, m \in {TRUE, FALSE} :
        /\ [c EXCEPT !.moving = m].y = c.y /\ [c EXCEPT !.moving = m].speed = c.speed
        /\ [c EXCEPT !.moving = m].velocity = c.velocity
  BY DEF Body
<1>5. Stopped(b) \in Body
  <2>1. \A c \in Body : [c EXCEPT !.moving = FALSE] \in Body
    BY DEF Body
  <2> QED
    BY <1>2, <2>1, Zenon DEF Stopped
<1>6. Stopped(b).y = b.y /\ IsStill(Stopped(b))
  BY <1>2, <1>3, <1>4 DEF Stopped, IsStill
<1> QED
  BY <1>1, <1>2, <1>3, <1>4, <1>5, <1>6 DEF Moving, IsStill

\* ApplyMovement keeps still who is still.
LEMMA Applied ==
  ASSUME NEW b \in Body, ApplyMovement(b), column \subseteq Int
  PROVE  /\ body' \in Body /\ column' \subseteq Int
         /\ body'.y = ExpectedYPos(b)
         /\ IsStill(b) => IsStill(body') /\ body'.y = b.y
<1>1. CalculateYSpeed(b) \in Int /\ (IsStill(b) => CalculateYSpeed(b) = 0)
  BY DEF CalculateYSpeed, Body, IsStill
<1>2. body' = [b EXCEPT !.speed = CalculateYSpeed(b), !.y = b.y + CalculateYSpeed(b)]
  BY DEF ApplyMovement
<1>3. body' \in Body /\ body'.speed = CalculateYSpeed(b) /\ body'.velocity = b.velocity
      /\ body'.y = b.y + CalculateYSpeed(b)
  <2> DEFINE v == CalculateYSpeed(b)
  <2>1. v \in Int
    BY <1>1
  <2> HIDE DEF v
  <2>2. body' = [b EXCEPT !.speed = v, !.y = b.y + v]
    BY <1>2 DEF v
  <2>3. \A c \in Body, w \in Int : [c EXCEPT !.speed = w] \in Body /\ [c EXCEPT !.y = w] \in Body
    BY DEF Body
  <2>4. b.y + v \in Int
    BY <2>1 DEF Body
  <2>5. body' \in Body
    BY <2>1, <2>2, <2>3, <2>4, Zenon
  <2>6. body'.speed = v /\ body'.velocity = b.velocity /\ body'.y = b.y + v
    BY <2>1, <2>2 DEF Body
  <2> QED
    BY <2>5, <2>6 DEF v
<1>4. column' \subseteq Int
  BY AbeAssumption DEF ApplyMovement
<1> QED
  BY <1>1, <1>3, <1>4 DEF IsStill, ExpectedYPos, Body

LEMMA Shows ==
  ASSUME NEW a, IsShown(a), NEW name
  PROVE  /\ IsShown(SetAnimation(a, name)) /\ SetAnimation(a, name).anim = name
         /\ a.anim # name => SetAnimation(a, name).frame = -1
         /\ IsShown(AnimUpdate(a)) /\ AnimUpdate(a).anim = a.anim
         /\ AnimUpdate(a).frame = IF FrameChanges(a) THEN NextFrame(a) ELSE a.frame
<1>1. IsShown(SetAnimation(a, name)) /\ SetAnimation(a, name).anim = name
      /\ (a.anim # name => SetAnimation(a, name).frame = -1)
  BY DEF SetAnimation, IsShown, ShownFields
<1>2. CASE FrameChanges(a)
  <2>1. AnimUpdate(a) = [a EXCEPT !.frame = NextFrame(a), !.counter = 0, !.delay = Fps]
    BY <1>2 DEF AnimUpdate
  <2>2. PICK n : n = NextFrame(a)
    OBVIOUS
  <2> QED
    BY <1>1, <1>2, <2>1, <2>2 DEF IsShown, ShownFields
<1>3. CASE ~FrameChanges(a)
  <2>1. AnimUpdate(a) = [a EXCEPT !.counter = @ + 1]
    BY <1>3 DEF AnimUpdate
  <2> QED
    BY <1>1, <1>3, <2>1 DEF IsShown, ShownFields
<1> QED
  BY <1>2, <1>3

\* The nearest floor is one, and not above.
LEMMA FloorIsBelow ==
  ASSUME NEW y \in Int, column \subseteq Int, HasFloor(y)
  PROVE  FloorAt(y) \in Int /\ y <= FloorAt(y)
<1> DEFINE deep == {n \in Nat : y + n \in Below(y)}
           less == {pair \in Nat \X Nat : pair[1] < pair[2]}
<1>1. deep \subseteq Nat /\ deep # {}
  <2>1. PICK f : f \in Below(y)
    BY DEF HasFloor
  <2>2. f - y \in Nat /\ y + (f - y) = f
    BY <2>1 DEF Below
  <2> QED
    BY <2>1, <2>2
<1>2. OpToRel(<, Nat) = less
  BY Zenon DEF OpToRel
<1> HIDE DEF deep, less
<1>3. PICK n \in deep : \A m \in deep : ~(<<m, n>> \in less)
  BY <1>1, <1>2, NatLessThanWellFounded, WFMin, Zenon
<1>4. ASSUME NEW g \in Below(y) PROVE y + n <= g
  <2>1. g \in Int /\ y <= g
    BY DEF Below
  <2>2. g - y \in Nat /\ y + (g - y) = g
    BY <2>1
  <2>3. g - y \in deep
    BY <2>2 DEF deep
  <2>4. ~(g - y < n)
    BY <1>1, <1>3, <2>3 DEF less
  <2> QED
    BY <1>1, <1>3, <2>1, <2>2, <2>4
<1>5. y + n \in Below(y)
  BY <1>3 DEF deep
<1>6. FloorAt(y) \in Below(y)
  BY <1>4, <1>5 DEF FloorAt
<1>7. \A g \in Below(y) : g \in Int /\ y <= g
  BY DEF Below
<1> QED
  BY <1>6, <1>7

-----------------------------------------------------------------------------
(* The ways a turn ends *)

\* PlayAnimation: a clip of the ground is begun by one who is still.
LEMMA PlayStep ==
  ASSUME MoveInv, NEW l, IsLocal(l), NEW name, NEW a, IsShown(a), NEW b \in Body,
         PlayWith(l, name, a, b),
         name \notin Airborne => IsStill(b),
         name = "Hopping" => a.anim # name,
         mData \in Falling => name = "HitGroundToStand"
  PROVE  MoveInv'
<1>1. mData' = mData /\ clip' = name /\ stop' = FALSE /\ local' = l /\ body' = b /\ column' = column
  BY DEF PlayWith
<1>2. IsShown(shown') /\ shown'.anim = name
      /\ (name = "Hopping" => shown' = SetAnimation(a, name))
  <2>1. CASE name = "StandToHop"
    <3>1. shown' = [SetAnimation(a, name) EXCEPT !.frame = 8, !.counter = 0, !.delay = 1]
      BY <2>1 DEF PlayWith
    <3>2. IsShown(SetAnimation(a, name)) /\ SetAnimation(a, name).anim = name
      BY Shows
    <3> QED
      BY <2>1, <3>1, <3>2 DEF IsShown, ShownFields
  <2>2. CASE name # "StandToHop"
    BY <2>2, Shows DEF PlayWith
  <2> QED
    BY <2>1, <2>2
<1>3. AbeTypes'
  BY <1>1, <1>2 DEF MoveInv, AbeTypes, IsShown, IsLocal
<1>4. HopEnds'
  BY <1>1, <1>2, Shows DEF MoveInv, HopEnds
<1>5. clip' = "StandToHop" => shown'.anim = clip'
  BY <1>1, <1>2
<1>6. mData' \in Falling => clip' \in {NoClip, "HitGroundToStand"}
  BY <1>1
<1>7. clip' \notin Airborne => IsStill(body')
  BY <1>1
<1> QED
  BY <1>3, <1>4, <1>5, <1>6, <1>7 DEF MoveInv

\* GoTo: only a fall begins with a velocity.
LEMMA GoToStep ==
  ASSUME MoveInv, NEW s \in States, NEW b \in Body, GoTo(s, b), IsShown(shown'),
         s \notin Falling => IsStill(b)
  PROVE  MoveInv'
<1>1. mData' = s /\ clip' = NoClip /\ stop' = FALSE /\ local' = NoLocal /\ column' = column
  BY DEF GoTo
<1>2. IsLocal(NoLocal)
  BY DEF IsLocal, NoLocal, LocalFields
<1>3. body' \in Body /\ (s \notin Falling => IsStill(body'))
  <2> DEFINE m == IF s \in {"Stand", "Crouch"} THEN FALSE
                  ELSE IF s \in {"Walk", "Run", "Sneak", "Roll"} THEN TRUE ELSE b.moving
             v == IF s \in Falling THEN -18 ELSE IF s = "HoistHang" THEN 0 ELSE b.velocity
  <2>1. m \in BOOLEAN /\ v \in Int
    <3>1. b.moving \in BOOLEAN /\ b.velocity \in Int
      BY DEF Body
    <3>2. v \in Int
      BY <3>1
    <3>3. m \in BOOLEAN
      BY <3>1, Zenon
    <3> QED
      BY <3>2, <3>3
  <2>2. s \notin Falling /\ IsStill(b) => v = 0
    BY DEF IsStill
  <2> HIDE DEF m, v
  <2>3. body' = [b EXCEPT !.moving = m, !.velocity = v]
    BY DEF GoTo, m, v
  <2>4. \A c \in Body, n \in BOOLEAN : [c EXCEPT !.moving = n] \in Body
    BY DEF Body
  <2>5. \A c \in Body, w \in Int : [c EXCEPT !.velocity = w] \in Body
    BY DEF Body
  <2>6. body' \in Body
    BY <2>1, <2>3, <2>4, <2>5, Zenon
  <2>7. body'.velocity = v /\ body'.speed = b.speed
    BY <2>3 DEF Body
  <2> QED
    BY <2>2, <2>6, <2>7 DEF IsStill
<1>4. AbeTypes'
  BY <1>1, <1>2, <1>3 DEF MoveInv, AbeTypes
<1> QED
  BY <1>1, <1>3, <1>4 DEF MoveInv, HopEnds, NoClip

\* A frame of a state moves nobody who is still.
LEMMA StayStep ==
  ASSUME MoveInv, NEW a, IsShown(a), NEW c, StaysIn(a, c), clip = NoClip \/ clip \notin Airborne
  PROVE  MoveInv'
<1>1. mData' = mData /\ clip' = NoClip /\ local' = local /\ shown' = a
  BY DEF StaysIn
<1>2. body' \in Body /\ column' \subseteq Int /\ (IsStill(body) => IsStill(body'))
  <2>1. body \in Body /\ column \subseteq Int
    BY DEF MoveInv, AbeTypes
  <2>2. ApplyMovement(body) \/ UNCHANGED <<body, column>>
    BY DEF StaysIn
  <2> QED
    BY <2>1, <2>2, Applied
<1>3. mData \notin Falling => IsStill(body)
  BY DEF MoveInv, NoClip, Airborne
<1>4. AbeTypes'
  BY <1>1, <1>2 DEF MoveInv, AbeTypes
<1> QED
  BY <1>1, <1>2, <1>3, <1>4 DEF MoveInv, HopEnds, NoClip

\* A frame of a clip: the callbacks of the ground set no vertical speed, and
\* the last callback of a hop takes both away.
LEMMA ClipFrameStep == MoveInv /\ ClipFrame => MoveInv'
<1> SUFFICES ASSUME MoveInv, ClipFrame PROVE MoveInv'
  OBVIOUS
<1>1. /\ mData' = mData /\ clip' = clip /\ clip # NoClip /\ ~stop /\ shown' = AnimUpdate(shown)
      /\ body \in Body /\ column \subseteq Int /\ IsShown(shown) /\ IsLocal(local)
  BY DEF ClipFrame, MoveInv, AbeTypes
<1>2. IsShown(shown') /\ shown'.anim = shown.anim
      /\ shown'.frame = IF FrameChanges(shown) THEN NextFrame(shown) ELSE shown.frame
  BY <1>1, Shows
<1>3. CASE ~FrameChanges(shown)
  <2>1. UNCHANGED <<stop, body, column, local>>
    BY <1>3 DEF ClipFrame
  <2> QED
    BY <1>1, <1>2, <1>3, <2>1 DEF MoveInv, AbeTypes, HopEnds
<1>4. CASE FrameChanges(shown)
  <2> DEFINE n == NextFrame(shown)
             b == OnFrame(n, body)
  <2>1. stop' = StopsAt(n) /\ ApplyMovement(b) /\ local' = [local EXCEPT !.asked = @ \cup Asked(n)]
    BY <1>4 DEF ClipFrame
  <2>2. shown'.frame = n
    BY <1>2, <1>4
  <2> HIDE DEF n
  <2>3. /\ b \in Body /\ (clip \notin Airborne => b = body)
        /\ clip = "Hopping" => b = IF n = 3 THEN Stopped(body) ELSE body
    <3>1. [body EXCEPT !.velocity = 96] \in Body
      BY <1>1 DEF Body
    <3>2. [body EXCEPT !.speed = -80] \in Body
      BY <1>1 DEF Body
    <3>3. [body EXCEPT !.moving = TRUE] \in Body
      BY <1>1 DEF Body
    <3>4. [body EXCEPT !.velocity = 18] \in Body
      BY <1>1 DEF Body
    <3>5. \A c \in Body : [c EXCEPT !.moving = TRUE] \in Body
      BY DEF Body
    <3>0. \A c \in Body : [c EXCEPT !.speed = -27] \in Body
      BY DEF Body
    <3>6. [body EXCEPT !.velocity = 18, !.moving = TRUE] \in Body
      BY <3>4, <3>5, Zenon
    <3>7. [body EXCEPT !.moving = TRUE, !.speed = -27] \in Body
      BY <3>0, <3>3, Zenon
    <3>8. Stopped(body) \in Body
      BY <1>1, Bodies
    <3>9. b \in {body, [body EXCEPT !.velocity = 96], [body EXCEPT !.velocity = 18, !.moving = TRUE],
                 [body EXCEPT !.moving = TRUE], [body EXCEPT !.moving = TRUE, !.speed = -27],
                 Stopped(body), [body EXCEPT !.speed = -80]}
      BY DEF OnFrame
    <3>10. (clip \notin Airborne => b = body)
           /\ (clip = "Hopping" => b = IF n = 3 THEN Stopped(body) ELSE body)
      BY DEF OnFrame, Airborne
    <3> QED
      <4>1. b \in Body
        BY <1>1, <3>1, <3>2, <3>3, <3>6, <3>7, <3>8, <3>9
      <4> QED
        BY <3>10, <4>1
  <2> HIDE DEF b
  <2>4. body' \in Body /\ column' \subseteq Int /\ (IsStill(b) => IsStill(body'))
    BY <1>1, <2>1, <2>3, Applied
  <2>5. IsLocal(local')
    <3>1. PICK asked : local' = [local EXCEPT !.asked = asked]
      BY <2>1
    <3> QED
      BY <1>1, <3>1 DEF IsLocal, LocalFields
  <2>6. AbeTypes'
    BY <1>1, <1>2, <2>4, <2>5 DEF MoveInv, AbeTypes
  <2>7. HopEnds'
    <3> SUFFICES ASSUME clip = "Hopping"
                 PROVE  /\ shown'.anim = "Hopping" /\ n \in Int
                        /\ n >= 3 => IsStill(body')
                        /\ StopsAt(n) => n >= 3
      BY <1>1, <2>1, <2>2 DEF HopEnds
    <3>1. shown.anim = "Hopping" /\ shown.frame \in Int /\ (shown.frame >= 3 => IsStill(body))
      BY DEF MoveInv, HopEnds
    <3> DEFINE frames == Frames["Hopping"]
               start == LoopStart["Hopping"]
    <3>2. frames \in Nat /\ frames > 3 /\ start \in Nat
      BY AbeAssumption
    <3>3. n = IF shown.frame + 1 < frames THEN shown.frame + 1
              ELSE IF "Hopping" \in Looping THEN start ELSE frames - 1
      BY <3>1 DEF n, NextFrame
    <3>4. StopsAt(n) => n = 4 \/ n = frames - 1
      BY DEF StopsAt, EndFrame, Asked
    <3> HIDE DEF frames, start
    <3>5. n \in Int /\ (n > 3 => shown.frame >= 3)
      BY <3>1, <3>2, <3>3
    <3>6. n >= 3 => IsStill(b)
      <4>1. CASE n = 3
        BY <1>1, <2>3, <4>1, Bodies
      <4>2. CASE n > 3
        BY <2>3, <3>1, <3>5, <4>2
      <4> QED
        BY <3>5, <4>1, <4>2
    <3>7. StopsAt(n) => n >= 3
      BY <3>2, <3>4, <3>5
    <3> QED
      BY <1>2, <2>4, <3>1, <3>5, <3>6, <3>7
  <2> QED
    BY <1>1, <1>2, <2>3, <2>4, <2>6, <2>7 DEF MoveInv
<1> QED
  BY <1>3, <1>4

-----------------------------------------------------------------------------
(* What comes after a clip *)

LEMMA ReturnStep == MoveInv /\ ClipReturns => MoveInv'
<1> SUFFICES ASSUME MoveInv, ClipReturns PROVE MoveInv'
  OBVIOUS
<1>1. /\ clip # NoClip /\ stop /\ body \in Body /\ IsShown(shown) /\ IsLocal(local) /\ mData \in States
      /\ (mData \in Falling => clip = "HitGroundToStand")
      /\ (clip \notin Airborne => IsStill(body))
  BY DEF ClipReturns, MoveInv, AbeTypes
<1>2. /\ Moving(body) \in Body /\ (IsStill(body) => IsStill(Moving(body)))
      /\ Still(body) \in Body /\ IsStill(Still(body))
  BY <1>1, Bodies
\* A clip that plays the next one.
<1>3. ASSUME NEW name, NEW b \in Body, Play(name, shown, b), name \notin Airborne => IsStill(b),
             name = "Hopping" => clip = "StandToHop", clip # "HitGroundToStand"
      PROVE  MoveInv'
  <2>1. PICK l : l = [local EXCEPT !.asked = {}]
    OBVIOUS
  <2>2. IsLocal(l) /\ PlayWith(l, name, shown, b)
    BY <1>1, <1>3, <2>1 DEF Play, IsLocal, LocalFields
  <2>3. name = "Hopping" => shown.anim # name
    BY <1>3 DEF MoveInv
  <2> QED
    BY <1>1, <1>3, <2>2, <2>3, PlayStep
<1>4. ASSUME Continue PROVE MoveInv'
  <2>1. CASE clip = "RunningToSkidTurn"
    BY <1>1, <1>2, <1>3, <1>4, <2>1 DEF Continue, Airborne
  <2>2. CASE clip = "RuningToJump"
    <3>1. [Moving(body) EXCEPT !.velocity = -18] \in Body
      <4>1. \A c \in Body : [c EXCEPT !.velocity = -18] \in Body
        BY DEF Body
      <4> QED
        BY <1>2, <4>1
    <3>2. Play("RunningJumpInAir", shown, [Moving(body) EXCEPT !.velocity = -18])
      BY <1>4, <2>2 DEF Continue
    <3> QED
      BY <1>3, <2>2, <3>1, <3>2 DEF Airborne
  <2>3. CASE clip = "RunningJumpInAir"
    BY <1>1, <1>2, <1>3, <1>4, <2>3 DEF Continue, Airborne
  <2>4. CASE clip = "FallingToLand"
    BY <1>1, <1>3, <1>4, <2>4 DEF Continue, Airborne
  <2>5. CASE clip = "StandToHop"
    <3>1. [body EXCEPT !.velocity = -18] \in Body
      BY <1>1 DEF Body
    <3>2. Play("Hopping", shown, [body EXCEPT !.velocity = -18])
      BY <1>4, <2>5 DEF Continue
    <3> QED
      BY <1>3, <2>5, <3>1, <3>2 DEF Airborne
  <2>6. CASE clip = "Hopping"
    <3>1. IsStill(body)
      BY <1>1, <2>6 DEF MoveInv, HopEnds
    <3> QED
      BY <1>1, <1>3, <1>4, <2>6, <3>1 DEF Continue, Airborne
  <2>7. CASE clip = "StandSpeak1"
    BY <1>1, <1>3, <1>4, <2>7 DEF Continue, Airborne, StandSpeech
  <2>8. CASE clip = "HoistDangling"
    BY <1>1, <1>3, <1>4, <2>8 DEF Continue, Airborne
  <2>9. CASE clip = "StandToJump"
    <3>1. [body EXCEPT !.velocity = -18] \in Body
      BY <1>1 DEF Body
    <3>2. PICK hoist \in BOOLEAN :
            PlayWith([local EXCEPT !.hoist = hoist], "JumpUpFalling", shown, [body EXCEPT !.velocity = -18])
      BY <1>4, <2>9 DEF Continue
    <3>3. IsLocal([local EXCEPT !.hoist = hoist])
      BY <1>1 DEF IsLocal, LocalFields
    <3> QED
      BY <1>1, <2>9, <3>1, <3>2, <3>3, PlayStep DEF Airborne
  <2>10. CASE clip = "JumpUpFalling"
    <3>1. PlayWith(NoLocal, "HitGroundToStand", shown, [Still(body) EXCEPT !.y = local.oldY])
      BY <1>4, <2>10 DEF Continue
    <3>2. local.oldY \in Int /\ IsLocal(NoLocal)
      BY <1>1 DEF IsLocal, NoLocal, LocalFields
    <3>3. [Still(body) EXCEPT !.y = local.oldY] \in Body /\ IsStill([Still(body) EXCEPT !.y = local.oldY])
      <4>1. \A c \in Body, y \in Int : [c EXCEPT !.y = y] \in Body
        BY DEF Body
      <4>2. \A c \in Body, y \in Int : IsStill(c) => IsStill([c EXCEPT !.y = y])
        BY DEF Body, IsStill
      <4> QED
        BY <1>2, <3>2, <4>1, <4>2
    <3>4. PICK b \in Body : IsStill(b) /\ PlayWith(NoLocal, "HitGroundToStand", shown, b)
      BY <3>1, <3>3
    <3> QED
      BY <1>1, <3>2, <3>4, PlayStep
  <2> QED
    BY <1>4, <2>1, <2>2, <2>3, <2>4, <2>5, <2>6, <2>7, <2>8, <2>9, <2>10 DEF Continue
<1>5. ASSUME Leave, UNCHANGED shown PROVE MoveInv'
  <2>0. IsShown(shown')
    BY <1>1, <1>5
  <2>3. CASE clip \in DOMAIN Follows /\ GoTo(Follows[clip], body)
    <3>1. Follows[clip] \in States /\ clip \notin Airborne
      BY <2>3 DEF Follows, States, Airborne
    <3>2. PICK s \in States : GoTo(s, body)
      BY <2>3, <3>1
    <3>3. IsStill(body) /\ body \in Body
      BY <1>1, <3>1
    <3> QED
      BY <2>0, <3>2, <3>3, GoToStep
  <2>4. CASE GoTo("StandFalling2", [body EXCEPT !.y = @ + 780])
    <3>1. [body EXCEPT !.y = @ + 780] \in Body
      BY <1>1 DEF Body
    <3> QED
      BY <2>0, <2>4, <3>1, GoToStep DEF States, Falling
  <2>5. CASE GoTo("HoistHang", [Still(body) EXCEPT !.y = @ - 780])
    <3>1. [Still(body) EXCEPT !.y = @ - 780] \in Body /\ IsStill([Still(body) EXCEPT !.y = @ - 780])
      <4>1. \A c \in Body : [c EXCEPT !.y = @ - 780] \in Body
        BY DEF Body
      <4>2. \A c \in Body : IsStill(c) => IsStill([c EXCEPT !.y = @ - 780])
        BY DEF Body, IsStill
      <4> QED
        BY <1>2, <4>1, <4>2
    <3> QED
      BY <2>0, <2>5, <3>1, GoToStep DEF States
  <2> QED
    BY <1>5, <2>3, <2>4, <2>5 DEF Leave
<1>6. ASSUME clip = "StandTurnAround",
             IF "run" \in local.asked THEN Play("StandTurnAroundToRunning", shown, Moving(body))
                                      ELSE GoTo("Stand", body) /\ UNCHANGED shown
      PROVE  MoveInv'
  <2>1. IsStill(body)
    BY <1>1, <1>6 DEF Airborne
  <2>2. CASE "run" \in local.asked
    BY <1>2, <1>3, <1>6, <2>1, <2>2
  <2>3. CASE "run" \notin local.asked
    BY <1>1, <1>6, <2>1, <2>3, GoToStep DEF States
  <2> QED
    BY <2>2, <2>3
<1>7. ASSUME clip \in StandSpeech \cup CrouchSpeech, StaysIn(SetAnimation(shown, AnimOf[mData]), changed)
      PROVE  MoveInv'
  <2>1. clip \notin Airborne
    BY <1>7 DEF StandSpeech, CrouchSpeech, Airborne
  <2>2. IsShown(SetAnimation(shown, AnimOf[mData]))
    BY <1>1, Shows
  <2> QED
    BY <1>7, <2>1, <2>2, StayStep
<1> QED
  BY <1>4, <1>5, <1>6, <1>7 DEF ClipReturns

-----------------------------------------------------------------------------
(* One turn of the loop of Exec *)

\* On the ground a state function begins a clip of the ground, a jump or hop,
\* goes to another state or stays; it never touches the vertical speeds.
LEMMA GroundStep ==
  ASSUME MoveInv, clip = NoClip, mData \notin Falling, StateFunction
  PROVE  MoveInv'
<1>1. body \in Body /\ IsStill(body) /\ IsShown(shown) /\ IsLocal(local)
  BY DEF MoveInv, AbeTypes, Airborne, NoClip
<1>2. IsShown(ExecShown) /\ ExecShown.anim = AnimOf[mData]
  <2>1. IsShown(SetAnimation(shown, AnimOf[mData])) /\ SetAnimation(shown, AnimOf[mData]).anim = AnimOf[mData]
    BY <1>1, Shows
  <2> QED
    BY <2>1, Shows DEF ExecShown
<1>3. /\ Moving(body) \in Body /\ IsStill(Moving(body))
      /\ [body EXCEPT !.moving = FALSE] \in Body /\ IsStill([body EXCEPT !.moving = FALSE])
  BY <1>1, Bodies
<1>4. ASSUME NEW name, NEW b \in Body, IsStill(b), Plays(name, b), name # "Hopping" PROVE MoveInv'
  <2>1. PICK l : l = [local EXCEPT !.asked = {}]
    OBVIOUS
  <2>2. IsLocal(l) /\ PlayWith(l, name, ExecShown, b)
    BY <1>1, <1>4, <2>1 DEF Plays, Play, IsLocal, LocalFields
  <2> QED
    BY <1>2, <1>4, <2>2, PlayStep
<1>5. ASSUME NEW s \in States, Goes(s, body) PROVE MoveInv'
  BY <1>1, <1>2, <1>5, GoToStep DEF Goes
<1>6. ASSUME Stays PROVE MoveInv'
  BY <1>2, <1>6, StayStep DEF Stays
<1>7. ASSUME Blocked PROVE MoveInv'
  BY <1>3, <1>4, <1>7 DEF Blocked
<1>8. ASSUME JumpUp PROVE MoveInv'
  <2>1. PICK l : l = [local EXCEPT !.asked = {}, !.oldY = body.y]
    OBVIOUS
  <2>2. body.y \in Int
    BY <1>1 DEF Body
  <2>3. IsLocal(l)
    BY <1>1, <2>1, <2>2 DEF IsLocal, LocalFields
  <2>4. PlayWith(l, "StandToJump", ExecShown, body)
    BY <1>8, <2>1 DEF JumpUp
  <2> QED
    BY <1>1, <1>2, <2>3, <2>4, PlayStep
<1>9. CASE Stand
  BY <1>1, <1>3, <1>4, <1>6, <1>7, <1>8, <1>9 DEF Stand
<1>10. CASE Crouch
  BY <1>1, <1>3, <1>4, <1>6, <1>10 DEF Crouch, CrouchSpeech
<1>11. CASE Walk
  BY <1>1, <1>3, <1>4, <1>5, <1>6, <1>7, <1>11 DEF Walk, States, Falling
<1>12. CASE Sneak
  BY <1>1, <1>4, <1>6, <1>7, <1>12 DEF Sneak
<1>13. CASE Run
  BY <1>3, <1>4, <1>6, <1>13 DEF Run, Stays
<1>14. CASE Roll
  BY <1>1, <1>3, <1>4, <1>5, <1>6, <1>14 DEF Roll, States
<1>15. CASE HoistHang
  BY <1>1, <1>4, <1>15 DEF HoistHang
<1> QED
  BY <1>9, <1>10, <1>11, <1>12, <1>13, <1>14, <1>15 DEF StateFunction

\* Who falls lands on a floor with no speed left, or falls on.
LEMMA FallStep ==
  ASSUME MoveInv, clip = NoClip, mData \in Falling, StandFalling
  PROVE  /\ MoveInv'
         /\ HasFloor(body.y) => body'.y <= FloorAt(body.y)
<1>1. body \in Body /\ column \subseteq Int /\ IsShown(shown) /\ IsLocal(local) /\ body.y \in Int
  BY DEF MoveInv, AbeTypes, Body
<1>2. IsShown(ExecShown)
  <2>1. IsShown(SetAnimation(shown, AnimOf[mData]))
    BY <1>1, Shows
  <2> QED
    BY <2>1, Shows DEF ExecShown
<1>3. HasFloor(body.y) => FloorAt(body.y) \in Int /\ body.y <= FloorAt(body.y)
  BY <1>1, FloorIsBelow
<1> DEFINE lands == HasFloor(body.y) /\ (FloorAt(body.y) = body.y \/ ExpectedYPos(body) > FloorAt(body.y))
<1>4. CASE lands
  <2>1. PICK floor \in Int : floor = FloorAt(body.y)
    BY <1>3, <1>4
  <2>2. PICK b : b = [Stopped(body) EXCEPT !.y = floor]
    OBVIOUS
  <2>3. Plays("HitGroundToStand", b)
    BY <1>4, <2>1, <2>2 DEF StandFalling
  <2>4. b \in Body /\ IsStill(b) /\ b.y = floor
    <3>1. Stopped(body) \in Body /\ IsStill(Stopped(body))
      BY <1>1, Bodies
    <3>2. \A c \in Body : [c EXCEPT !.y = floor] \in Body
      BY DEF Body
    <3>3. \A c \in Body : [c EXCEPT !.y = floor].y = floor /\ (IsStill(c) => IsStill([c EXCEPT !.y = floor]))
      BY DEF Body, IsStill
    <3> QED
      BY <2>2, <3>1, <3>2, <3>3
  <2>5. PICK l : l = [local EXCEPT !.asked = {}]
    OBVIOUS
  <2>6. IsLocal(l) /\ PlayWith(l, "HitGroundToStand", ExecShown, b)
    BY <1>1, <2>3, <2>5 DEF Plays, Play, IsLocal, LocalFields
  <2>7. MoveInv'
    BY <1>2, <2>4, <2>6, PlayStep
  <2>8. body' = b
    BY <2>6 DEF PlayWith
  <2> QED
    BY <2>1, <2>4, <2>7, <2>8
<1>5. CASE ~lands
  <2>1. Stays
    BY <1>5 DEF StandFalling
  <2>2. MoveInv'
    BY <1>2, <2>1, StayStep DEF Stays
  <2>3. ASSUME HasFloor(body.y) PROVE body'.y <= FloorAt(body.y)
    <3>1. ExpectedYPos(body) \in Int
      BY <1>1 DEF ExpectedYPos, CalculateYSpeed, Body
    <3>2. ExpectedYPos(body) <= FloorAt(body.y)
      BY <1>3, <1>5, <2>3, <3>1
    <3>3. body'.y = ExpectedYPos(body) \/ body'.y = body.y
      <4>1. ApplyMovement(body) \/ body' = body
        BY <2>1 DEF Stays, StaysIn
      <4> QED
        BY <1>1, <4>1, Applied
    <3> QED
      BY <1>3, <2>3, <3>2, <3>3
  <2> QED
    BY <2>2, <2>3
<1> QED
  BY <1>4, <1>5

LEMMA MoveStep == MoveInv /\ [AbeNext]_abeVars => MoveInv'
<1> SUFFICES ASSUME MoveInv, [AbeNext]_abeVars PROVE MoveInv'
  OBVIOUS
<1>1. ASSUME NEW keys, AbeUpdate(keys) PROVE MoveInv'
  BY <1>1 DEF AbeUpdate, MoveInv, AbeTypes, HopEnds
<1>2. CASE Exec
  <2>1. clip = NoClip /\ StateFunction
    BY <1>2 DEF Exec
  <2>2. CASE mData \in Falling
    <3>1. StandFalling
      BY <2>1, <2>2 DEF StateFunction, Falling
    <3> QED
      BY <2>1, <2>2, <3>1, FallStep
  <2> QED
    BY <2>1, <2>2, GroundStep
<1>3. CASE UNCHANGED abeVars
  BY <1>3 DEF abeVars, MoveInv, AbeTypes, HopEnds
<1> QED
  BY <1>1, <1>2, <1>3, ClipFrameStep, ReturnStep DEF AbeNext

LEMMA InitMoves == AbeInit => MoveInv
<1> SUFFICES ASSUME AbeInit PROVE MoveInv
  OBVIOUS
<1>1. body \in Body /\ IsStill(body) /\ column \subseteq Int /\ mData \in States
  BY DEF AbeInit, Body, IsStill, States
<1>2. IsShown(shown) /\ IsLocal(local)
  BY DEF AbeInit, IsShown, ShownFields, IsLocal, LocalFields, NoLocal
<1> QED
  BY <1>1, <1>2 DEF AbeInit, MoveInv, AbeTypes, HopEnds, NoClip, Falling

\* A jump, hop or fall leaves no vertical speed or velocity behind, whichever
\* way it ends (GoTo, ApplyMovement), for animations of any length if Hopping
\* has the frame its callback waits for.
THEOREM LandsStill == AbeSpec => []GroundIsStill
<1>1. MoveInv => GroundIsStill
  BY DEF MoveInv, GroundIsStill, IsStill
<1> QED
  BY <1>1, InitMoves, MoveStep, PTL DEF AbeSpec

\* Who falls never gets below the floor that he was above in the frame before
\* (StandFalling, ApplyMovement), however fast and for any floors.
THEOREM NeverThrough == AbeSpec => NoFallThrough
<1>1. MoveInv /\ [AbeNext]_abeVars =>
        [HasFloor(body.y) /\ mData \in Falling => body'.y <= FloorAt(body.y)]_abeVars
  <2> SUFFICES ASSUME MoveInv, AbeNext, HasFloor(body.y), mData \in Falling
               PROVE  body'.y <= FloorAt(body.y)
    OBVIOUS
  <2>1. body \in Body /\ column \subseteq Int /\ body.y \in Int
    BY DEF MoveInv, AbeTypes, Body
  <2>2. FloorAt(body.y) \in Int /\ body.y <= FloorAt(body.y)
    BY <2>1, FloorIsBelow
  <2>3. clip # NoClip => clip = "HitGroundToStand" /\ IsStill(body)
    BY DEF MoveInv, Airborne
  <2>4. ASSUME NEW keys, AbeUpdate(keys) PROVE body'.y <= FloorAt(body.y)
    BY <2>2, <2>4 DEF AbeUpdate
  <2>5. CASE ClipFrame
    <3>1. clip = "HitGroundToStand" /\ IsStill(body)
      BY <2>3, <2>5 DEF ClipFrame
    <3>2. \A n : OnFrame(n, body) = body
      BY <3>1 DEF OnFrame
    <3>3. ApplyMovement(body) \/ body' = body
      BY <2>5, <3>2 DEF ClipFrame
    <3> QED
      BY <2>1, <2>2, <3>1, <3>3, Applied
  <2>6. CASE ClipReturns
    <3>1. clip = "HitGroundToStand"
      BY <2>3, <2>6 DEF ClipReturns
    <3>2. GoTo("Stand", body)
      BY <2>6, <3>1 DEF ClipReturns, Continue, Leave, Follows, StandSpeech, CrouchSpeech
    <3>3. body'.y = body.y
      BY <2>1, <3>2 DEF GoTo, Body
    <3> QED
      BY <2>2, <3>3
  <2>7. CASE Exec
    <3>1. clip = NoClip /\ StandFalling
      BY <2>7 DEF Exec, StateFunction, Falling
    <3> QED
      BY <3>1, FallStep
  <2> QED
    BY <2>4, <2>5, <2>6, <2>7 DEF AbeNext
<1> QED
  BY <1>1, InitMoves, MoveStep, PTL DEF AbeSpec, NoFallThrough
=============================================================================
