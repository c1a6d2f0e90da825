---------------------------- MODULE WorldProofs ----------------------------
(***************************************************************************)
(* What World keeps true for any maps, missing ones included.  The         *)
(* inductive invariant has five parts, each relying on those before it:    *)
(* the modes of the world and the place of the loader in them; the nested  *)
(* loops, of which an inner one is under way only within an outer one; the *)
(* screens, which are the ones those loops have passed; the object being   *)
(* initialised, with the animations its own loop has passed; the objects,  *)
(* which are those the loops have passed but for the one being loaded.     *)
(* The textures need none of them.                                         *)
(***************************************************************************)
EXTENDS World, SequenceTheorems, TLAPS

-----------------------------------------------------------------------------
(* The modes of the world *)

\* The map there is, if any, has its loader behind it.
Loaded ==
  /\ \/ mState \in Shown \cup {"eSoundsLoading"}
     \/ mState = "ePlayFmv" /\ mReturnToState \in Shown
  /\ path # "nullptr"

ModeTypes ==
  /\ mState \in Shown \cup {"eLoadingMap", "eSoundsLoading", "ePlayFmv", "eQuit", "destroyed"}
  /\ gameMode \in {"eRunning", "ePaused"}
  /\ future \in {"none", "busy", "ready"} /\ requested \in Maps \cup Missing
  /\ path \in Maps \cup {"nullptr"} /\ lstate \in LoaderStates
  /\ iconEnabled \in BOOLEAN /\ soundLoading \in BOOLEAN
  /\ loads \in 1..MaxLoads /\ mCameraSubject \in 0..loads

ReturnsToShown == mState = "ePlayFmv" => mReturnToState \in Shown \cup {"eLoadingMap"}

\* The loader is at work only while the world waits for it.
LoaderAtWork ==
  lstate # "eInit" =>
    future = "none" /\ path \in Maps /\ mState \in {"eLoadingMap", "destroyed"}

SubjectOfMap == Loaded => mCameraSubject = loads

ModeInv ==
  /\ ModeTypes
  /\ ReturnsToShown
  /\ LoaderAtWork
  /\ SubjectOfMap
  /\ IconShowsLoading

LEMMA ModeInit == WorldInit => ModeInv
  BY MapAssumption, WorldAssumption
  DEF WorldInit, LoaderInit, ModeInv, ModeTypes, ReturnsToShown, LoaderAtWork, SubjectOfMap,
      IconShowsLoading, Loading, Loaded, Shown, LoaderStates

\* What one step of the loader leaves to the modes.
LEMMA LoadStepKeeps ==
  ASSUME LoadStep, lstate \in LoaderStates
  PROVE  /\ lstate' \in LoaderStates
         /\ UNCHANGED <<path, loads, mCameraSubject>>
  BY DEF LoadStep, SetupAndConvertCollisionItems, AllocateCameraMemory, LoadCameras,
         ObjectLoaderScripts, InitObject, LoadObjectsReady, LoadObjects, LoadObject,
         HackPlaceAbe, contents, loops, LoaderStates

USE DEF loops, contents, loaderVars, worldVars, vars, Shown

LEMMA ModeStep == ModeInv /\ [Next]_vars => ModeInv'
<1> SUFFICES ASSUME ModeInv, [Next]_vars PROVE ModeInv'
  OBVIOUS
<1> USE MapAssumption, WorldAssumption
<1> USE DEF ModeInv, ModeTypes, ReturnsToShown, LoaderAtWork, SubjectOfMap,
            IconShowsLoading, Loading, Loaded, LoaderStates
<1>1. CASE FramePathFound
  BY <1>1 DEF FramePathFound, Begin
<1>2. CASE FramePathMissing
  BY <1>2 DEF FramePathMissing
<1>3. CASE FrameLoading
  BY <1>3, LoadStepKeeps DEF FrameLoading
<1>4. CASE FrameLoaded
  BY <1>4 DEF FrameLoaded, HackAbeReady
<1>5. CASE FrameSoundsLoaded
  BY <1>5 DEF FrameSoundsLoaded
<1>6. ASSUME NEW name \in Maps \cup Missing, FrameLoadMap(name) PROVE ModeInv'
  BY <1>6 DEF FrameLoadMap, LoadMap, DebugUi, UnloadMap
<1>7. ASSUME NEW name \in Maps \cup Missing, FrameLoadMapAndPlayFmv(name) PROVE ModeInv'
  BY <1>7 DEF FrameLoadMapAndPlayFmv, LoadMap, DebugUi, UnloadMap
<1>8. CASE FramePlayFmv
  BY <1>8 DEF FramePlayFmv, DebugUi
<1>9. CASE FrameFmvEnds
  BY <1>9 DEF FrameFmvEnds
<1>10. ASSUME NEW escape \in BOOLEAN, NEW e \in BOOLEAN, FrameGame(escape, e) PROVE ModeInv'
  BY <1>10 DEF FrameGame, Toggled
<1>11. ASSUME NEW next \in {"eToGame", "eQuit"}, FrameEditor(next) PROVE ModeInv'
  BY <1>11 DEF FrameEditor
<1>12. CASE FrameSwitched
  BY <1>12 DEF FrameSwitched
<1>13. CASE FrameRender
  BY <1>13 DEF FrameRender, RenderScreen
<1>14. CASE PathLocated
  BY <1>14 DEF PathLocated
<1>15. CASE SoundsLoaded
  BY <1>15, ZenonT(60) DEF SoundsLoaded
<1>16. CASE Destroy
  BY <1>16 DEF Destroy, UnloadMap
<1>17. CASE UNCHANGED vars
  BY <1>17
<1> QED
  BY <1>1, <1>2, <1>3, <1>4, <1>5, <1>6, <1>7, <1>8, <1>9, <1>10, <1>11, <1>12, <1>13, <1>14,
     <1>15, <1>16, <1>17 DEF Next, LoadingFrames, Destroyed

\* The invariant of the modes holds in every state.
THEOREM ModesRight == Spec => []ModeInv
  BY ModeInit, ModeStep, PTL DEF Spec

\* A shown map has a living camera subject, the object made by its own load.
THEOREM SubjectLives == Spec => []SubjectIsAlive
<1>1. ModeInv => SubjectIsAlive
  BY DEF ModeInv, SubjectOfMap, Loaded, SubjectIsAlive
<1> QED
  BY <1>1, ModesRight, PTL

\* The loading icon is shown exactly while something is loaded.
THEOREM IconRight == Spec => []IconShowsLoading
<1>1. ModeInv => IconShowsLoading
  BY DEF ModeInv
<1> QED
  BY <1>1, ModesRight, PTL

-----------------------------------------------------------------------------
(* The textures *)

\* Unloading a map releases its textures before it destroys the screens.
THEOREM TexturesReleased == Spec => []TexturesHaveScreens
<1> USE DEF TexturesHaveScreens
<1>1. WorldInit => TexturesHaveScreens
  BY DEF WorldInit, LoaderInit
<1>2. TexturesHaveScreens /\ [Next]_vars => TexturesHaveScreens'
  <2> SUFFICES ASSUME TexturesHaveScreens, [Next]_vars PROVE TexturesHaveScreens'
    OBVIOUS
  <2>1. ASSUME LoadStep PROVE TexturesHaveScreens'
    BY <2>1 DEF LoadStep, SetupAndConvertCollisionItems, AllocateCameraMemory, LoadCameras,
                ObjectLoaderScripts, InitObject, LoadObjectsReady, LoadObjects, LoadObject,
                HackPlaceAbe
  <2>2. ASSUME NEW name \in Maps \cup Missing, LoadMap(name) PROVE TexturesHaveScreens'
    BY <2>2 DEF LoadMap, UnloadMap
  <2>3. CASE LoadingFrames
    BY <2>1, <2>3 DEF LoadingFrames, FramePathFound, Begin, FramePathMissing, FrameLoading,
                      FrameLoaded, HackAbeReady, FrameSoundsLoaded
  <2>4. CASE FrameRender
    BY <2>4 DEF FrameRender, RenderScreen
  <2>5. CASE Destroy
    BY <2>5 DEF Destroy, UnloadMap
  <2> QED
    BY <2>2, <2>3, <2>4, <2>5
    DEF Next, FrameLoadMap, FrameLoadMapAndPlayFmv, FramePlayFmv, FrameFmvEnds, FrameGame,
        FrameEditor, FrameSwitched, PathLocated, SoundsLoaded, Destroyed
<1> QED
  BY <1>1, <1>2, PTL DEF Spec

-----------------------------------------------------------------------------
(* The nested loops *)

Loops == [mCurrentIndex : Nat, mEndRange : Nat, mIsFirstIteration : BOOLEAN]

LoopTypes ==
  /\ xLoop \in Loops /\ (xLoop.mIsFirstIteration => xLoop.mCurrentIndex = 0)
  /\ yLoop \in Loops /\ (yLoop.mIsFirstIteration => yLoop.mCurrentIndex = 0)
  /\ iLoop \in Loops /\ (iLoop.mIsFirstIteration => iLoop.mCurrentIndex = 0)

\* An inner loop is under way only in an iteration of the outer one.
Inside(outer, inner) ==
  ~inner.mIsFirstIteration => ~outer.mIsFirstIteration /\ ~LoopDone(outer)

Nested ==
  /\ Inside(xLoop, yLoop) /\ Inside(yLoop, iLoop)
  /\ lstate \notin {"eLoadCameras", "eLoadObjects"} => xLoop.mIsFirstIteration
  /\ lstate # "eLoadObjects" => iLoop.mIsFirstIteration

Ranges ==
  lstate \in {"eLoadCameras", "eLoadObjects"} =>
    /\ ~xLoop.mIsFirstIteration => xLoop.mEndRange = Size[path][1]
    /\ ~yLoop.mIsFirstIteration => yLoop.mEndRange = Size[path][2]

BeingLoaded ==
  mMapObjectBeingLoaded # Nothing =>
    lstate \in {"eLoadObjects", "eHackToPlaceAbeInValidCamera"}

LoopInv == LoopTypes /\ Nested /\ Ranges /\ BeingLoaded

LEMMA LoopInit == WorldInit => LoopInv
  BY DEF WorldInit, LoaderInit, LoopInv, LoopTypes, Loops, Nested, Ranges, Inside, BeingLoaded,
         FreshLoop, LoopDone

\* The loops over a map, whose size is not 0.
LEMMA SizeOfPath ==
  ASSUME path \in Maps
  PROVE  Size[path][1] \in Nat \ {0} /\ Size[path][2] \in Nat \ {0}
  BY MapAssumption

LEMMA LoopOperators ==
  ASSUME NEW l \in Loops, NEW n \in Nat
  PROVE  /\ Entered(l, n) \in Loops /\ ~Entered(l, n).mIsFirstIteration
         /\ Entered(l, n).mCurrentIndex = l.mCurrentIndex
         /\ Entered(l, n).mEndRange = IF l.mIsFirstIteration THEN n ELSE l.mEndRange
         /\ Incremented(l) \in Loops /\ Incremented(l).mCurrentIndex = l.mCurrentIndex + 1
         /\ Incremented(l).mIsFirstIteration = l.mIsFirstIteration
         /\ Incremented(l).mEndRange = l.mEndRange
         /\ LoopReset(l) \in Loops /\ LoopReset(l).mIsFirstIteration
         /\ LoopReset(l).mCurrentIndex = 0
<1>1. /\ Incremented(l) \in Loops /\ Incremented(l).mCurrentIndex = l.mCurrentIndex + 1
      /\ Incremented(l).mIsFirstIteration = l.mIsFirstIteration
      /\ Incremented(l).mEndRange = l.mEndRange
  BY DEF Loops, Incremented
<1>2. /\ LoopReset(l) \in Loops /\ LoopReset(l).mIsFirstIteration
      /\ LoopReset(l).mCurrentIndex = 0
  BY DEF Loops, LoopReset
<1>3. CASE l.mIsFirstIteration
  <2>1. Entered(l, n) = [l EXCEPT !.mEndRange = n, !.mIsFirstIteration = FALSE]
    BY <1>3 DEF Entered
  <2>2. /\ Entered(l, n) \in Loops /\ ~Entered(l, n).mIsFirstIteration
        /\ Entered(l, n).mCurrentIndex = l.mCurrentIndex
        /\ Entered(l, n).mEndRange = n
    BY <2>1 DEF Loops
  <2> QED
    BY <1>1, <1>2, <1>3, <2>2
<1>4. CASE ~l.mIsFirstIteration
  BY <1>1, <1>2, <1>4 DEF Entered
<1> QED
  BY <1>3, <1>4

\* Where a loop is that is entered again and not over.
LEMMA EnteredInside ==
  ASSUME NEW l \in Loops, NEW n \in Nat \ {0},
         l.mIsFirstIteration => l.mCurrentIndex = 0,
         ~l.mIsFirstIteration => l.mEndRange = n,
         ~Over(l)
  PROVE  /\ Entered(l, n).mEndRange = n
         /\ Entered(l, n).mCurrentIndex \in 0..(n - 1)
         /\ ~LoopDone(Entered(l, n))
<1>1. l.mCurrentIndex \in Nat /\ l.mIsFirstIteration \in BOOLEAN
  BY DEF Loops
<1>2. /\ Entered(l, n).mCurrentIndex = l.mCurrentIndex
      /\ Entered(l, n).mEndRange = IF l.mIsFirstIteration THEN n ELSE l.mEndRange
  BY LoopOperators
<1>3. Entered(l, n).mEndRange = n
  BY <1>1, <1>2
<1>4. l.mCurrentIndex < n
  BY <1>1 DEF Over, LoopDone
<1> QED
  BY <1>1, <1>2, <1>3, <1>4 DEF LoopDone

LEMMA LoadCamerasLoops ==
  ASSUME LoopInv, path \in Maps, LoadCameras
  PROVE  LoopInv'
<1> DEFINE x == Entered(xLoop, Size[path][1])
           y == Entered(yLoop, Size[path][2])
<1>1. /\ lstate = "eLoadCameras" /\ UNCHANGED <<path, iLoop, mMapObjectBeingLoaded>>
      /\ iLoop.mIsFirstIteration
  BY DEF LoadCameras, LoopInv, Nested
<1>2. LoopTypes /\ Inside(xLoop, yLoop) /\ Inside(yLoop, iLoop) /\ Ranges /\ BeingLoaded
  BY DEF LoopInv, Nested
<1>3. CASE Over(xLoop)
  <2>1. xLoop' = LoopReset(xLoop) /\ yLoop' = yLoop /\ lstate' = "eObjectLoaderScripts"
    BY <1>3 DEF LoadCameras, Over
  <2>2. yLoop.mIsFirstIteration
    BY <1>2, <1>3 DEF Inside, Over
  <2>3. xLoop' \in Loops /\ xLoop'.mIsFirstIteration /\ xLoop'.mCurrentIndex = 0
    BY <1>2, <2>1, LoopOperators DEF LoopTypes
  <2> QED
    BY <1>1, <1>2, <2>1, <2>2, <2>3
    DEF LoopInv, LoopTypes, Nested, Inside, Ranges, BeingLoaded
<1>4. CASE ~Over(xLoop) /\ Over(yLoop)
  <2>1. xLoop' = Incremented(xLoop) /\ yLoop' = LoopReset(yLoop) /\ lstate' = lstate
    BY <1>4 DEF LoadCameras
  <2>2. ~xLoop.mIsFirstIteration
    BY <1>2, <1>4 DEF Inside, Over
  <2>3. /\ xLoop' \in Loops /\ ~xLoop'.mIsFirstIteration /\ xLoop'.mEndRange = xLoop.mEndRange
        /\ yLoop' \in Loops /\ yLoop'.mIsFirstIteration /\ yLoop'.mCurrentIndex = 0
    BY <1>2, <2>1, <2>2, LoopOperators DEF LoopTypes
  <2> QED
    BY <1>1, <1>2, <2>1, <2>2, <2>3
    DEF LoopInv, LoopTypes, Nested, Inside, Ranges, BeingLoaded
<1>5. CASE ~Over(xLoop) /\ ~Over(yLoop)
  <2>1. xLoop' = x /\ yLoop' = Incremented(y) /\ lstate' = lstate
    BY <1>5 DEF LoadCameras
  <2>2. /\ x \in Loops /\ ~x.mIsFirstIteration /\ x.mEndRange = Size[path][1] /\ ~LoopDone(x)
        /\ y \in Loops /\ ~y.mIsFirstIteration /\ y.mEndRange = Size[path][2]
    BY <1>1, <1>2, <1>5, SizeOfPath, LoopOperators, EnteredInside DEF LoopTypes, Ranges
  <2> HIDE DEF x, y
  <2>3. /\ Incremented(y) \in Loops /\ ~Incremented(y).mIsFirstIteration
        /\ Incremented(y).mEndRange = y.mEndRange
    BY <2>2, LoopOperators
  <2> QED
    BY <1>1, <1>2, <2>1, <2>2, <2>3
    DEF LoopInv, LoopTypes, Nested, Inside, Ranges, BeingLoaded
<1> QED
  BY <1>3, <1>4, <1>5

\* The objects of the camera the loops are at.
LEMMA ObjectsThere ==
  ASSUME LoopInv, path \in Maps, lstate = "eLoadObjects", ~Over(xLoop), ~Over(yLoop),
         NEW x, x = Entered(xLoop, Size[path][1]), NEW y, y = Entered(yLoop, Size[path][2])
  PROVE  /\ x \in Loops /\ y \in Loops
         /\ ~x.mIsFirstIteration /\ ~LoopDone(x) /\ x.mEndRange = Size[path][1]
         /\ ~y.mIsFirstIteration /\ ~LoopDone(y) /\ y.mEndRange = Size[path][2]
         /\ Len(Objects[path][<<x.mCurrentIndex, y.mCurrentIndex>>]) \in Nat
<1>1. /\ x \in Loops /\ y \in Loops
      /\ ~x.mIsFirstIteration /\ ~LoopDone(x) /\ x.mEndRange = Size[path][1]
      /\ ~y.mIsFirstIteration /\ ~LoopDone(y) /\ y.mEndRange = Size[path][2]
  BY SizeOfPath, LoopOperators, EnteredInside DEF LoopInv, LoopTypes, Ranges
<1>2. <<x.mCurrentIndex, y.mCurrentIndex>> \in Grid(path)
  BY <1>1, SizeOfPath DEF Grid, Loops, LoopDone
<1>3. Objects[path][<<x.mCurrentIndex, y.mCurrentIndex>>] \in Seq(DOMAIN Anims)
  BY <1>2, MapAssumption
<1> QED
  BY <1>1, <1>3, LenProperties

LEMMA LoadObjectsLoops ==
  ASSUME LoopInv, path \in Maps, LoadObjects
  PROVE  LoopInv'
<1>1. lstate = "eLoadObjects" /\ path' = path /\ mMapObjectBeingLoaded = Nothing
  BY DEF LoadObjects
<1>2. LoopTypes /\ Inside(xLoop, yLoop) /\ Inside(yLoop, iLoop) /\ Ranges /\ BeingLoaded
  BY DEF LoopInv, Nested
<1>3. CASE Over(xLoop)
  <2>1. /\ xLoop' = LoopReset(xLoop) /\ yLoop' = yLoop /\ iLoop' = iLoop
        /\ lstate' = "eHackToPlaceAbeInValidCamera"
    BY <1>3 DEF LoadObjects
  <2>2. yLoop.mIsFirstIteration /\ iLoop.mIsFirstIteration
    BY <1>2, <1>3 DEF Inside, Over
  <2>3. xLoop' \in Loops /\ xLoop'.mIsFirstIteration /\ xLoop'.mCurrentIndex = 0
    BY <1>2, <2>1, LoopOperators DEF LoopTypes
  <2> QED
    BY <1>1, <1>2, <2>1, <2>2, <2>3
    DEF LoopInv, LoopTypes, Nested, Inside, Ranges, BeingLoaded
<1>4. CASE ~Over(xLoop) /\ Over(yLoop)
  <2>1. /\ xLoop' = Incremented(xLoop) /\ yLoop' = LoopReset(yLoop) /\ iLoop' = iLoop
        /\ lstate' = lstate
    BY <1>4 DEF LoadObjects
  <2>2. ~xLoop.mIsFirstIteration /\ iLoop.mIsFirstIteration
    BY <1>2, <1>4 DEF Inside, Over
  <2>3. /\ xLoop' \in Loops /\ ~xLoop'.mIsFirstIteration /\ xLoop'.mEndRange = xLoop.mEndRange
        /\ yLoop' \in Loops /\ yLoop'.mIsFirstIteration /\ yLoop'.mCurrentIndex = 0
    BY <1>2, <2>1, <2>2, LoopOperators DEF LoopTypes
  <2> QED
    BY <1>1, <1>2, <2>1, <2>2, <2>3
    DEF LoopInv, LoopTypes, Nested, Inside, Ranges, BeingLoaded
<1>5. CASE ~Over(xLoop) /\ ~Over(yLoop) /\ Over(iLoop)
  <2>1. /\ xLoop' = xLoop /\ yLoop' = Incremented(yLoop) /\ iLoop' = LoopReset(iLoop)
        /\ lstate' = lstate
    BY <1>5 DEF LoadObjects
  <2>2. ~yLoop.mIsFirstIteration
    BY <1>2, <1>5 DEF Inside, Over
  <2>3. /\ yLoop' \in Loops /\ ~yLoop'.mIsFirstIteration /\ yLoop'.mEndRange = yLoop.mEndRange
        /\ iLoop' \in Loops /\ iLoop'.mIsFirstIteration /\ iLoop'.mCurrentIndex = 0
    BY <1>2, <2>1, <2>2, LoopOperators DEF LoopTypes
  <2> QED
    BY <1>1, <1>2, <2>1, <2>2, <2>3
    DEF LoopInv, LoopTypes, Nested, Inside, Ranges, BeingLoaded, LoopDone
<1>6. CASE ~Over(xLoop) /\ ~Over(yLoop) /\ ~Over(iLoop)
  <2> DEFINE x == Entered(xLoop, Size[path][1])
             y == Entered(yLoop, Size[path][2])
             n == Len(Objects[path][<<x.mCurrentIndex, y.mCurrentIndex>>])
             i == Entered(iLoop, n)
  <2>1. LoadObject(x, y)
    BY <1>6 DEF LoadObjects
  <2>2. /\ x \in Loops /\ y \in Loops /\ n \in Nat
        /\ ~x.mIsFirstIteration /\ ~LoopDone(x) /\ x.mEndRange = Size[path][1]
        /\ ~y.mIsFirstIteration /\ ~LoopDone(y) /\ y.mEndRange = Size[path][2]
    BY <1>1, <1>6, ObjectsThere
  <2> HIDE DEF x, y, n
  <2>3. xLoop' = x /\ yLoop' = y /\ lstate' = lstate /\ iLoop' \in {i, Incremented(i)}
    BY <2>1 DEF LoadObject, n
  <2>4. i \in Loops /\ ~i.mIsFirstIteration
    BY <1>2, <2>2, LoopOperators DEF LoopTypes
  <2> HIDE DEF i
  <2>5. iLoop' \in Loops /\ ~iLoop'.mIsFirstIteration
    BY <2>3, <2>4, LoopOperators
  <2> QED
    BY <1>1, <1>2, <2>2, <2>3, <2>5
    DEF LoopInv, LoopTypes, Nested, Inside, Ranges, BeingLoaded
<1> QED
  BY <1>3, <1>4, <1>5, <1>6

LEMMA LoopsKept ==
  ASSUME LoopInv, UNCHANGED <<path, lstate, xLoop, yLoop, iLoop, mMapObjectBeingLoaded>>
  PROVE  LoopInv'
  BY DEF LoopInv, LoopTypes, Nested, Inside, Ranges, BeingLoaded, LoopDone

\* Every step but those of the loader leaves it as it is.
LEMMA OtherSteps ==
  ASSUME [Next]_vars, ~FramePathFound, ~FramePathMissing, ~FrameLoading, ~FrameLoaded
  PROVE  UNCHANGED <<path, lstate, xLoop, yLoop, iLoop, mMapObjectBeingLoaded>>
  BY DEF Next, LoadingFrames, FrameSoundsLoaded, FrameLoadMap, FrameLoadMapAndPlayFmv, LoadMap,
         FramePlayFmv, FrameFmvEnds, FrameGame, FrameEditor, FrameSwitched, FrameRender,
         RenderScreen, PathLocated, SoundsLoaded, Destroy, Destroyed

LEMMA LoadStepLoops ==
  ASSUME LoopInv, path \in Maps, LoadStep
  PROVE  LoopInv'
<1> USE DEF LoopInv, LoopTypes, Nested, Inside, Ranges, BeingLoaded, LoopDone
<1>1. CASE SetupAndConvertCollisionItems
  BY <1>1 DEF SetupAndConvertCollisionItems
<1>2. CASE AllocateCameraMemory
  BY <1>2 DEF AllocateCameraMemory
<1>3. CASE LoadCameras
  BY <1>3, LoadCamerasLoops
<1>4. CASE ObjectLoaderScripts
  BY <1>4 DEF ObjectLoaderScripts
<1>5. CASE InitObject
  BY <1>5 DEF InitObject
<1>6. CASE LoadObjectsReady
  BY <1>6 DEF LoadObjectsReady
<1>7. CASE LoadObjects
  BY <1>7, LoadObjectsLoops
<1>8. CASE HackPlaceAbe
  BY <1>8 DEF HackPlaceAbe
<1> QED
  BY <1>1, <1>2, <1>3, <1>4, <1>5, <1>6, <1>7, <1>8 DEF LoadStep

LEMMA LoopStep == ModeInv /\ LoopInv /\ [Next]_vars => LoopInv'
<1> SUFFICES ASSUME ModeInv, LoopInv, [Next]_vars PROVE LoopInv'
  OBVIOUS
<1>1. CASE FramePathFound
  BY <1>1 DEF FramePathFound, Begin, LoopInv, LoopTypes, Nested, Inside, Ranges, BeingLoaded,
              LoopDone
<1>2. CASE FramePathMissing
  <2>1. lstate = "eInit"
    BY <1>2 DEF FramePathMissing, ModeInv, LoaderAtWork
  <2> QED
    BY <1>2, <2>1 DEF FramePathMissing, LoopInv, LoopTypes, Nested, Inside, Ranges, BeingLoaded,
                      LoopDone
<1>3. CASE FrameLoading
  BY <1>3, LoadStepLoops DEF FrameLoading, ModeInv, ModeTypes
<1>4. CASE FrameLoaded
  BY <1>4 DEF FrameLoaded, HackAbeReady, LoopInv, LoopTypes, Nested, Inside, Ranges, BeingLoaded,
              LoopDone
<1> QED
  BY <1>1, <1>2, <1>3, <1>4, OtherSteps, LoopsKept

\* The loops are nested as the code nests them, in every state.
THEOREM LoopsRight == Spec => []LoopInv
<1>1. Spec => []ModeInv
  BY ModesRight
<1> QED
  BY <1>1, LoopInit, LoopStep, PTL DEF Spec

\* The types, and that between two loads the loader is ready for the next.
THEOREM WorldTypeCorrect == Spec => []WorldTypeOK
<1>1. ModeInv /\ LoopInv => WorldTypeOK
  BY MapAssumption
  DEF ModeInv, ModeTypes, ReturnsToShown, LoopInv, LoopTypes, Nested, Inside, BeingLoaded,
      WorldTypeOK, IsReset
<1> QED
  BY <1>1, ModesRight, LoopsRight, PTL

-----------------------------------------------------------------------------
(* The screens *)

\* The screens passed by the loops, column by column, when they are at x, y.
PassedAt(m, x, y) == {c \in Grid(m) : c[1] < x \/ (c[1] = x /\ c[2] < y)}

LEMMA PassedNone == ASSUME NEW m \in Maps PROVE PassedAt(m, 0, 0) = {}
  BY MapAssumption DEF PassedAt, Grid

LEMMA PassedNext ==
  ASSUME NEW m \in Maps, NEW x \in 0..(Size[m][1] - 1), NEW y \in 0..(Size[m][2] - 1)
  PROVE  PassedAt(m, x, y + 1) = PassedAt(m, x, y) \cup {<<x, y>>}
<1>1. Size[m][1] \in Nat /\ Size[m][2] \in Nat
  BY MapAssumption
<1>2. ASSUME NEW c \in Grid(m)
      PROVE  /\ c[1] \in Nat /\ c[2] \in Nat
             /\ c = <<x, y>> <=> c[1] = x /\ c[2] = y
  BY <1>1 DEF Grid
<1>3. <<x, y>> \in Grid(m)
  BY DEF Grid
<1> QED
  BY <1>1, <1>2, <1>3 DEF PassedAt

LEMMA PassedColumn ==
  ASSUME NEW m \in Maps, NEW x \in Nat, NEW y \in Nat, y >= Size[m][2]
  PROVE  PassedAt(m, x + 1, 0) = PassedAt(m, x, y)
<1>1. Size[m][1] \in Nat /\ Size[m][2] \in Nat
  BY MapAssumption
<1>2. ASSUME NEW c \in Grid(m)
      PROVE  c[1] \in Nat /\ c[2] \in 0..(Size[m][2] - 1)
  BY <1>1 DEF Grid
<1> QED
  BY <1>1, <1>2 DEF PassedAt

LEMMA PassedAll ==
  ASSUME NEW m \in Maps, NEW x \in Nat, NEW y, x >= Size[m][1]
  PROVE  PassedAt(m, x, y) = Grid(m)
<1>1. Size[m][1] \in Nat /\ Size[m][2] \in Nat
  BY MapAssumption
<1>2. ASSUME NEW c \in Grid(m)
      PROVE  c[1] \in 0..(Size[m][1] - 1)
  BY <1>1 DEF Grid
<1> QED
  BY <1>1, <1>2 DEF PassedAt

\* The world waits for a map, at once or after a movie.
Awaiting ==
  mState = "eLoadingMap" \/ (mState = "ePlayFmv" /\ mReturnToState = "eLoadingMap")

ScreenInv ==
  /\ Awaiting /\ lstate \in {"eInit", "eSetupAndConvertCollisionItems", "eAllocateCameraMemory"}
       => mScreens = {}
  /\ Awaiting /\ lstate = "eLoadCameras"
       => mScreens = PassedAt(path, xLoop.mCurrentIndex, yLoop.mCurrentIndex)
  /\ Awaiting /\ lstate \in {"eObjectLoaderScripts", "eLoadObjects",
                             "eHackToPlaceAbeInValidCamera"}
       => mScreens = Grid(path)
  /\ Loaded => mScreens = Grid(path)

LEMMA ScreenInit == WorldInit => ScreenInv
  BY DEF WorldInit, LoaderInit, ScreenInv, Awaiting, Loaded

LEMMA LoadCamerasScreens ==
  ASSUME ScreenInv, LoopInv, path \in Maps, LoadCameras, mState = "eLoadingMap",
         mState' = mState
  PROVE  ScreenInv'
<1> DEFINE x == Entered(xLoop, Size[path][1])
           y == Entered(yLoop, Size[path][2])
<1>1. /\ lstate = "eLoadCameras" /\ path' = path
      /\ mScreens = PassedAt(path, xLoop.mCurrentIndex, yLoop.mCurrentIndex)
  BY DEF LoadCameras, ScreenInv, Awaiting
<1>2. /\ xLoop \in Loops /\ yLoop \in Loops /\ Inside(xLoop, yLoop) /\ LoopTypes /\ Ranges
      /\ xLoop.mCurrentIndex \in Nat /\ yLoop.mCurrentIndex \in Nat
  BY DEF LoopInv, Nested, LoopTypes, Loops
<1>3. SUFFICES /\ lstate' = "eLoadCameras"
                    => mScreens' = PassedAt(path, xLoop'.mCurrentIndex, yLoop'.mCurrentIndex)
               /\ lstate' = "eObjectLoaderScripts" => mScreens' = Grid(path)
               /\ lstate' \in {"eLoadCameras", "eObjectLoaderScripts"}
  BY <1>1 DEF ScreenInv, Awaiting, Loaded
<1>4. CASE Over(xLoop)
  <2>1. lstate' = "eObjectLoaderScripts" /\ mScreens' = mScreens
    BY <1>4 DEF LoadCameras, Over
  <2>2. xLoop.mCurrentIndex >= Size[path][1]
    BY <1>1, <1>2, <1>4 DEF Over, LoopDone, Ranges
  <2> QED
    BY <1>1, <1>2, <2>1, <2>2, PassedAll
<1>5. CASE ~Over(xLoop) /\ Over(yLoop)
  <2>1. /\ xLoop' = Incremented(xLoop) /\ yLoop' = LoopReset(yLoop) /\ lstate' = lstate
        /\ mScreens' = mScreens
    BY <1>5 DEF LoadCameras
  <2>2. xLoop'.mCurrentIndex = xLoop.mCurrentIndex + 1 /\ yLoop'.mCurrentIndex = 0
    BY <1>2, <2>1, LoopOperators
  <2>3. yLoop.mCurrentIndex >= Size[path][2]
    BY <1>1, <1>2, <1>5 DEF Over, LoopDone, Ranges
  <2> QED
    BY <1>1, <1>2, <2>1, <2>2, <2>3, PassedColumn
<1>6. CASE ~Over(xLoop) /\ ~Over(yLoop)
  <2>1. /\ xLoop' = x /\ yLoop' = Incremented(y) /\ lstate' = lstate
        /\ mScreens' = mScreens \cup {<<x.mCurrentIndex, y.mCurrentIndex>>}
    BY <1>6 DEF LoadCameras
  <2>2. /\ x \in Loops /\ x.mCurrentIndex = xLoop.mCurrentIndex
        /\ y \in Loops /\ y.mCurrentIndex = yLoop.mCurrentIndex
    BY <1>2, SizeOfPath, LoopOperators
  <2>3. /\ x.mCurrentIndex \in 0..(Size[path][1] - 1)
        /\ y.mCurrentIndex \in 0..(Size[path][2] - 1)
    BY <1>1, <1>2, <1>6, SizeOfPath, EnteredInside DEF LoopTypes, Ranges
  <2> HIDE DEF x, y
  <2>4. Incremented(y).mCurrentIndex = y.mCurrentIndex + 1
    BY <2>2, LoopOperators
  <2> QED
    BY <1>1, <2>1, <2>2, <2>3, <2>4, PassedNext
<1> QED
  BY <1>4, <1>5, <1>6

LEMMA LoadStepScreens ==
  ASSUME ScreenInv, LoopInv, path \in Maps, LoadStep, mState = "eLoadingMap",
         mState' = mState
  PROVE  ScreenInv'
<1>1. CASE SetupAndConvertCollisionItems
  BY <1>1 DEF SetupAndConvertCollisionItems, ScreenInv, Awaiting, Loaded
<1>2. CASE AllocateCameraMemory
  <2>1. xLoop.mCurrentIndex = 0 /\ yLoop.mCurrentIndex = 0
    BY <1>2 DEF AllocateCameraMemory, LoopInv, LoopTypes, Nested, Inside
  <2> QED
    BY <1>2, <2>1, PassedNone DEF AllocateCameraMemory, ScreenInv, Awaiting, Loaded
<1>3. CASE LoadCameras
  BY <1>3, LoadCamerasScreens
<1>4. CASE ObjectLoaderScripts
  BY <1>4 DEF ObjectLoaderScripts, ScreenInv, Awaiting, Loaded
<1>5. CASE InitObject
  BY <1>5 DEF InitObject, ScreenInv, Awaiting, Loaded
<1>6. CASE LoadObjectsReady
  BY <1>6 DEF LoadObjectsReady, ScreenInv, Awaiting, Loaded
<1>7. CASE LoadObjects
  <2>1. /\ lstate = "eLoadObjects" /\ path' = path /\ mScreens' = mScreens
        /\ lstate' \in {"eLoadObjects", "eHackToPlaceAbeInValidCamera"}
    BY <1>7 DEF LoadObjects, LoadObject, contents
  <2> QED
    BY <2>1 DEF ScreenInv, Awaiting, Loaded
<1>8. CASE HackPlaceAbe
  BY <1>8 DEF HackPlaceAbe, ScreenInv, Awaiting, Loaded
<1> QED
  BY <1>1, <1>2, <1>3, <1>4, <1>5, <1>6, <1>7, <1>8 DEF LoadStep

LEMMA ScreenStep == ModeInv /\ LoopInv /\ ScreenInv /\ [Next]_vars => ScreenInv'
<1> SUFFICES ASSUME ModeInv, LoopInv, ScreenInv, [Next]_vars PROVE ScreenInv'
  OBVIOUS
<1> USE DEF ScreenInv, Awaiting, Loaded
<1>1. CASE FramePathFound
  BY <1>1 DEF FramePathFound, Begin
<1>2. CASE FramePathMissing
  BY <1>2 DEF FramePathMissing
<1>3. CASE FrameLoading
  <2>1. path \in Maps
    BY <1>3 DEF FrameLoading, ModeInv, ModeTypes
  <2> QED
    BY <1>3, <2>1, LoadStepScreens DEF FrameLoading
<1>4. CASE FrameLoaded
  BY <1>4 DEF FrameLoaded, HackAbeReady
<1>5. CASE FrameSoundsLoaded
  BY <1>5 DEF FrameSoundsLoaded
<1>6. ASSUME NEW name \in Maps \cup Missing,
             FrameLoadMap(name) \/ FrameLoadMapAndPlayFmv(name)
      PROVE  ScreenInv'
  <2>1. mScreens' = {} /\ lstate' = lstate /\ lstate = "eInit"
    BY <1>6 DEF FrameLoadMap, FrameLoadMapAndPlayFmv, LoadMap, UnloadMap, DebugUi, ModeInv,
                LoaderAtWork
  <2>2. \/ mState' = "eLoadingMap"
        \/ mState' = "ePlayFmv" /\ mReturnToState' = "eLoadingMap"
    BY <1>6 DEF FrameLoadMap, FrameLoadMapAndPlayFmv
  <2> QED
    BY <2>1, <2>2
<1>7. CASE FramePlayFmv
  BY <1>7 DEF FramePlayFmv, DebugUi
<1>8. CASE FrameFmvEnds
  BY <1>8 DEF FrameFmvEnds, ModeInv, ReturnsToShown
<1>9. ASSUME NEW escape \in BOOLEAN, NEW e \in BOOLEAN, FrameGame(escape, e) PROVE ScreenInv'
  BY <1>9 DEF FrameGame
<1>10. ASSUME NEW next \in {"eToGame", "eQuit"}, FrameEditor(next) PROVE ScreenInv'
  BY <1>10 DEF FrameEditor
<1>11. CASE FrameSwitched
  BY <1>11 DEF FrameSwitched
<1>12. CASE FrameRender
  BY <1>12 DEF FrameRender, RenderScreen
<1>13. CASE PathLocated \/ SoundsLoaded
  BY <1>13 DEF PathLocated, SoundsLoaded
<1>14. CASE Destroy
  BY <1>14 DEF Destroy
<1>15. CASE UNCHANGED vars
  BY <1>15
<1> QED
  BY <1>1, <1>2, <1>3, <1>4, <1>5, <1>6, <1>7, <1>8, <1>9, <1>10, <1>11, <1>12, <1>13, <1>14,
     <1>15 DEF Next, LoadingFrames, Destroyed

\* However the loops are sliced into frames, every screen of the map is there
\* before the first object, and as long as the map is shown.
THEOREM ScreensComplete == Spec => []AllScreens
<1>1. ModeInv /\ ScreenInv => AllScreens
  BY DEF ModeInv, ModeTypes, LoaderAtWork, ScreenInv, Awaiting, Loaded, AllScreens, Placing,
         HasMap
<1> QED
  BY <1>1, ModesRight, LoopsRight, ScreenInit, ScreenStep, PTL DEF Spec

-----------------------------------------------------------------------------
(* The objects *)

\* The objects passed by the loops when they are at x, y and i.
PassedObjs(m, x, y, i) ==
  {o \in ObjectsOf(m) :
     o.at[1] < x \/ (o.at[1] = x /\ (o.at[2] < y \/ (o.at[2] = y /\ o.at[3] <= i)))}

LEMMA SizeOf ==
  ASSUME NEW m \in Maps
  PROVE  /\ Size[m][1] \in Nat \ {0} /\ Size[m][2] \in Nat \ {0}
         /\ \A x \in 0..(Size[m][1] - 1), y \in 0..(Size[m][2] - 1) :
              /\ <<x, y>> \in Grid(m) /\ Objects[m][<<x, y>>] \in Seq(DOMAIN Anims)
              /\ Len(Objects[m][<<x, y>>]) \in Nat
              /\ DOMAIN Objects[m][<<x, y>>] = 1..Len(Objects[m][<<x, y>>])
<1>1. Size[m][1] \in Nat \ {0} /\ Size[m][2] \in Nat \ {0}
  BY MapAssumption
<1>2. ASSUME NEW x \in 0..(Size[m][1] - 1), NEW y \in 0..(Size[m][2] - 1)
      PROVE  /\ <<x, y>> \in Grid(m) /\ Objects[m][<<x, y>>] \in Seq(DOMAIN Anims)
             /\ Len(Objects[m][<<x, y>>]) \in Nat
             /\ DOMAIN Objects[m][<<x, y>>] = 1..Len(Objects[m][<<x, y>>])
  <2>1. <<x, y>> \in Grid(m)
    BY DEF Grid
  <2>2. Objects[m][<<x, y>>] \in Seq(DOMAIN Anims)
    BY <2>1, MapAssumption
  <2> QED
    BY <2>1, <2>2, LenProperties
<1> QED
  BY <1>1, <1>2

\* o is object number k of camera x, y.
IsAt(m, o, x, y, k) ==
  /\ x \in 0..(Size[m][1] - 1) /\ y \in 0..(Size[m][2] - 1) /\ k \in 1..Len(Objects[m][<<x, y>>])
  /\ o = MadeOf(Objects[m][<<x, y>>][k], <<x, y, k>>) /\ Objects[m][<<x, y>>][k] \in Accepted
  /\ o.at[1] = x /\ o.at[2] = y /\ o.at[3] = k

LEMMA MadeAt ==
  ASSUME NEW t, NEW x, NEW y, NEW k
  PROVE  MadeOf(t, <<x, y, k>>).at[1] = x /\ MadeOf(t, <<x, y, k>>).at[2] = y
         /\ MadeOf(t, <<x, y, k>>).at[3] = k
<1>1. MadeOf(t, <<x, y, k>>).at = <<x, y, k>>
  BY DEF MadeOf
<1>2. <<x, y, k>>[1] = x /\ <<x, y, k>>[2] = y /\ <<x, y, k>>[3] = k
  OBVIOUS
<1> QED
  BY <1>1, <1>2, Zenon

LEMMA ObjectAt ==
  ASSUME NEW m \in Maps, NEW o \in ObjectsOf(m)
  PROVE  \E x, y, k \in Nat : IsAt(m, o, x, y, k)
<1>1. PICK c \in Grid(m) : \E i \in DOMAIN Objects[m][c] :
        o = MadeOf(Objects[m][c][i], <<c[1], c[2], i>>) /\ Objects[m][c][i] \in Accepted
  BY DEF ObjectsOf
<1>2. PICK x \in 0..(Size[m][1] - 1), y \in 0..(Size[m][2] - 1) : c = <<x, y>>
  BY DEF Grid
<1>3. PICK k \in 1..Len(Objects[m][<<x, y>>]) :
        o = MadeOf(Objects[m][<<x, y>>][k], <<x, y, k>>) /\ Objects[m][<<x, y>>][k] \in Accepted
  <2>1. c[1] = x /\ c[2] = y /\ DOMAIN Objects[m][c] = 1..Len(Objects[m][<<x, y>>])
    BY <1>2, SizeOf
  <2> QED
    BY <1>1, <1>2, <2>1
<1>4. x \in Nat /\ y \in Nat /\ k \in Nat
  BY SizeOf
<1>5. IsAt(m, o, x, y, k)
  BY <1>3, MadeAt DEF IsAt
<1> QED
  BY <1>4, <1>5

LEMMA AtInside ==
  ASSUME NEW m \in Maps, NEW o, NEW x \in Nat, NEW y \in Nat, NEW k \in Nat, IsAt(m, o, x, y, k)
  PROVE  x < Size[m][1] /\ y < Size[m][2] /\ k > 0
  BY SizeOf DEF IsAt

LEMMA ObjectIsThere ==
  ASSUME NEW m \in Maps, NEW x \in 0..(Size[m][1] - 1), NEW y \in 0..(Size[m][2] - 1),
         NEW k \in 1..Len(Objects[m][<<x, y>>]), Objects[m][<<x, y>>][k] \in Accepted
  PROVE  MadeOf(Objects[m][<<x, y>>][k], <<x, y, k>>) \in ObjectsOf(m)
<1>1. /\ <<x, y>> \in Grid(m) /\ k \in DOMAIN Objects[m][<<x, y>>]
      /\ <<x, y>>[1] = x /\ <<x, y>>[2] = y
  BY SizeOf
<1> QED
  BY <1>1 DEF ObjectsOf

LEMMA NoObjPassed == ASSUME NEW m \in Maps PROVE PassedObjs(m, 0, 0, 0) = {}
<1>1. ASSUME NEW o \in ObjectsOf(m) PROVE o \notin PassedObjs(m, 0, 0, 0)
  <2>1. PICK x \in Nat, y \in Nat, k \in Nat : IsAt(m, o, x, y, k)
    BY ObjectAt
  <2> QED
    BY <2>1, AtInside DEF PassedObjs, IsAt
<1> QED
  BY <1>1 DEF PassedObjs

LEMMA AllObjsPassed ==
  ASSUME NEW m \in Maps, NEW x \in Nat, NEW y, NEW i, x >= Size[m][1]
  PROVE  PassedObjs(m, x, y, i) = ObjectsOf(m)
<1>1. ASSUME NEW o \in ObjectsOf(m) PROVE o \in PassedObjs(m, x, y, i)
  <2>1. PICK u \in Nat, v \in Nat, k \in Nat : IsAt(m, o, u, v, k)
    BY ObjectAt
  <2>2. u < x
    BY <2>1, AtInside, SizeOf
  <2> QED
    BY <2>1, <2>2 DEF PassedObjs, IsAt
<1> QED
  BY <1>1 DEF PassedObjs

LEMMA ColumnPassed ==
  ASSUME NEW m \in Maps, NEW x \in Nat, NEW y \in Nat, y >= Size[m][2]
  PROVE  PassedObjs(m, x + 1, 0, 0) = PassedObjs(m, x, y, 0)
<1>1. ASSUME NEW o \in ObjectsOf(m)
      PROVE  o \in PassedObjs(m, x + 1, 0, 0) <=> o \in PassedObjs(m, x, y, 0)
  <2>1. PICK u \in Nat, v \in Nat, k \in Nat : IsAt(m, o, u, v, k)
    BY ObjectAt
  <2>2. v < y /\ k > 0
    BY <2>1, AtInside, SizeOf
  <2>3. o.at[1] = u /\ o.at[2] = v /\ o.at[3] = k
    BY <2>1 DEF IsAt
  <2> QED
    BY <2>2, <2>3 DEF PassedObjs
<1> QED
  BY <1>1 DEF PassedObjs

LEMMA CameraPassed ==
  ASSUME NEW m \in Maps, NEW x \in Nat, NEW y \in Nat, NEW i \in Nat,
         i >= Len(Objects[m][<<x, y>>])
  PROVE  PassedObjs(m, x, y + 1, 0) = PassedObjs(m, x, y, i)
<1>1. ASSUME NEW o \in ObjectsOf(m)
      PROVE  o \in PassedObjs(m, x, y + 1, 0) <=> o \in PassedObjs(m, x, y, i)
  <2>1. PICK u \in Nat, v \in Nat, k \in Nat : IsAt(m, o, u, v, k)
    BY ObjectAt
  <2>2. o.at[1] = u /\ o.at[2] = v /\ o.at[3] = k /\ k > 0
    BY <2>1, AtInside DEF IsAt
  <2>3. u = x /\ v = y => k <= i
    BY <2>1, SizeOf DEF IsAt
  <2> QED
    BY <2>2, <2>3 DEF PassedObjs
<1> QED
  BY <1>1 DEF PassedObjs

LEMMA ObjectPassed ==
  ASSUME NEW m \in Maps, NEW x \in 0..(Size[m][1] - 1), NEW y \in 0..(Size[m][2] - 1),
         NEW k \in Nat, k + 1 \in 1..Len(Objects[m][<<x, y>>]),
         NEW o, o = MadeOf(Objects[m][<<x, y>>][k + 1], <<x, y, k + 1>>)
  PROVE  /\ PassedObjs(m, x, y, k + 1) =
              PassedObjs(m, x, y, k) \cup
                (IF Objects[m][<<x, y>>][k + 1] \in Accepted THEN {o} ELSE {})
         /\ \A p \in PassedObjs(m, x, y, k) : Earlier(p.at, o.at)
<1>1. o.at[1] = x /\ o.at[2] = y /\ o.at[3] = k + 1
  BY MadeAt
<1>2. x \in Nat /\ y \in Nat
  BY SizeOf
<1>3. ASSUME NEW p \in ObjectsOf(m)
      PROVE  /\ p \in PassedObjs(m, x, y, k) => Earlier(p.at, o.at)
             /\ p \in PassedObjs(m, x, y, k + 1) => p \in PassedObjs(m, x, y, k) \/
                  (Objects[m][<<x, y>>][k + 1] \in Accepted /\ p = o)
             /\ p \in PassedObjs(m, x, y, k) => p \in PassedObjs(m, x, y, k + 1)
  <2>1. PICK u \in Nat, v \in Nat, l \in Nat : IsAt(m, p, u, v, l)
    BY ObjectAt
  <2>2. p.at[1] = u /\ p.at[2] = v /\ p.at[3] = l
    BY <2>1 DEF IsAt
  <2>3. p \in PassedObjs(m, x, y, k) => Earlier(p.at, o.at)
    BY <1>1, <1>2, <2>2 DEF PassedObjs, Earlier
  <2>4. u = x /\ v = y /\ l = k + 1 => Objects[m][<<x, y>>][k + 1] \in Accepted /\ p = o
    BY <2>1 DEF IsAt
  <2>5. p \in PassedObjs(m, x, y, k + 1) =>
          p \in PassedObjs(m, x, y, k) \/ (u = x /\ v = y /\ l = k + 1)
    BY <1>2, <2>2 DEF PassedObjs
  <2>6. p \in PassedObjs(m, x, y, k) => p \in PassedObjs(m, x, y, k + 1)
    BY <1>2, <2>2 DEF PassedObjs
  <2> QED
    BY <2>3, <2>4, <2>5, <2>6
<1>4. Objects[m][<<x, y>>][k + 1] \in Accepted => o \in PassedObjs(m, x, y, k + 1)
  <2>1. ASSUME Objects[m][<<x, y>>][k + 1] \in Accepted PROVE o \in ObjectsOf(m)
    BY <2>1, ObjectIsThere
  <2> QED
    BY <1>1, <1>2, <2>1 DEF PassedObjs
<1>5. \A p \in PassedObjs(m, x, y, k) : p \in ObjectsOf(m)
  BY DEF PassedObjs
<1>6. \A p \in PassedObjs(m, x, y, k + 1) : p \in ObjectsOf(m)
  BY DEF PassedObjs
<1> QED
  BY <1>3, <1>4, <1>5, <1>6

\* The object being initialised by MapObject::Init.
LoadedObjects(m) ==
  [type : DOMAIN Anims, at : (Nat \X Nat \X Nat) \cup {AbeScreen(m)},
   mState : {"eInit", "eLoadAnimations", "eLoadSounds"}, mForLoop : Loops, mAnims : SUBSET Nat]

\* It has the animations that its loop has passed, and all of them when it is ready.
AnimsPassed(o) ==
  /\ o.mForLoop.mIsFirstIteration => o.mForLoop.mCurrentIndex = 0
  /\ ~o.mForLoop.mIsFirstIteration =>
       o.mForLoop.mEndRange = Anims[o.type] /\ o.mForLoop.mCurrentIndex <= Anims[o.type]
  /\ o.mAnims = 0..((IF o.mState = "eLoadSounds" THEN Anims[o.type]
                     ELSE o.mForLoop.mCurrentIndex) - 1)

ObjectInv ==
  mMapObjectBeingLoaded # Nothing =>
    mMapObjectBeingLoaded \in LoadedObjects(path) /\ AnimsPassed(mMapObjectBeingLoaded)

LEMMA ObjectFields ==
  ASSUME NEW m, NEW o \in LoadedObjects(m)
  PROVE  /\ o.type \in DOMAIN Anims /\ Anims[o.type] \in Nat
         /\ o.at \in (Nat \X Nat \X Nat) \cup {AbeScreen(m)}
         /\ o.mState \in {"eInit", "eLoadAnimations", "eLoadSounds"}
         /\ o.mForLoop \in Loops /\ o.mAnims \in SUBSET Nat
         /\ o.mForLoop.mCurrentIndex \in Nat /\ o.mForLoop.mEndRange \in Nat
         /\ o.mForLoop.mIsFirstIteration \in BOOLEAN
         /\ o # Nothing
<1>1. /\ o.type \in DOMAIN Anims
      /\ o.at \in (Nat \X Nat \X Nat) \cup {AbeScreen(m)}
      /\ o.mState \in {"eInit", "eLoadAnimations", "eLoadSounds"}
      /\ o.mForLoop \in Loops /\ o.mAnims \in SUBSET Nat
  BY DEF LoadedObjects
<1>2. Anims[o.type] \in Nat
  BY <1>1, MapAssumption
<1>3. /\ o.mForLoop.mCurrentIndex \in Nat /\ o.mForLoop.mEndRange \in Nat
      /\ o.mForLoop.mIsFirstIteration \in BOOLEAN
  BY <1>1 DEF Loops
<1>4. o # Nothing
  <2>1. DOMAIN o = {"type", "at", "mState", "mForLoop", "mAnims"}
    BY DEF LoadedObjects
  <2>2. DOMAIN Nothing = {"type"}
    BY DEF Nothing
  <2> QED
    BY <2>1, <2>2
<1> QED
  BY <1>1, <1>2, <1>3, <1>4

LEMMA NewObjectRight ==
  ASSUME NEW m, NEW t \in DOMAIN Anims,
         NEW at \in (Nat \X Nat \X Nat) \cup {AbeScreen(m)}
  PROVE  /\ NewObject(t, at) \in LoadedObjects(m) /\ AnimsPassed(NewObject(t, at))
         /\ NewObject(t, at).type = t /\ NewObject(t, at).at = at
<1>1. FreshLoop \in Loops /\ FreshLoop.mIsFirstIteration /\ FreshLoop.mCurrentIndex = 0
  BY DEF FreshLoop, Loops
<1>2. NewObject(t, at) \in LoadedObjects(m)
  BY <1>1 DEF NewObject, LoadedObjects
<1>3. /\ NewObject(t, at).type = t /\ NewObject(t, at).at = at
      /\ NewObject(t, at).mState = "eInit" /\ NewObject(t, at).mForLoop = FreshLoop
      /\ NewObject(t, at).mAnims = {}
  BY DEF NewObject
<1>4. 0..(0 - 1) = {}
  OBVIOUS
<1> QED
  BY <1>1, <1>2, <1>3, <1>4 DEF AnimsPassed

\* One iteration of Init keeps it so, and the object is the same.
LEMMA InitStepRight ==
  ASSUME NEW m, NEW o \in LoadedObjects(m), AnimsPassed(o), o.mState # "eLoadSounds"
  PROVE  /\ ObjectInitStep(o) \in LoadedObjects(m) /\ AnimsPassed(ObjectInitStep(o))
         /\ ObjectInitStep(o).type = o.type /\ ObjectInitStep(o).at = o.at
<1> DEFINE s == ObjectInitStep(o)
<1> USE ObjectFields
<1>0. o = [type |-> o.type, at |-> o.at, mState |-> o.mState, mForLoop |-> o.mForLoop,
           mAnims |-> o.mAnims]
  BY DEF LoadedObjects
<1>1. CASE o.mState = "eInit"
  <2>1. s = [o EXCEPT !.mState = "eLoadAnimations"]
    BY <1>1 DEF ObjectInitStep
  <2>2. /\ s.type = o.type /\ s.at = o.at /\ s.mState = "eLoadAnimations"
        /\ s.mForLoop = o.mForLoop /\ s.mAnims = o.mAnims
    BY <2>1, <1>0
  <2>3. s \in LoadedObjects(m)
    BY <2>1 DEF LoadedObjects
  <2> QED
    BY <1>1, <2>2, <2>3 DEF AnimsPassed
<1>2. CASE o.mState # "eInit" /\ (Anims[o.type] = 0 \/ Over(o.mForLoop))
  <2>1. s = [o EXCEPT !.mState = "eLoadSounds", !.mForLoop = LoopReset(@)]
    BY <1>2 DEF ObjectInitStep
  <2>2. /\ s.type = o.type /\ s.at = o.at /\ s.mState = "eLoadSounds"
        /\ s.mForLoop = LoopReset(o.mForLoop) /\ s.mAnims = o.mAnims
    BY <2>1, <1>0
  <2>3. /\ LoopReset(o.mForLoop) \in Loops /\ LoopReset(o.mForLoop).mIsFirstIteration
        /\ LoopReset(o.mForLoop).mCurrentIndex = 0
    BY LoopOperators
  <2>4. s \in LoadedObjects(m)
    BY <2>1, <2>3 DEF LoadedObjects
  <2>5. o.mForLoop.mCurrentIndex = Anims[o.type]
    BY <1>2 DEF AnimsPassed, Over, LoopDone
  <2>6. o.mAnims = 0..(Anims[o.type] - 1)
    BY <2>5 DEF AnimsPassed
  <2> QED
    BY <2>2, <2>3, <2>4, <2>6 DEF AnimsPassed
<1>3. CASE o.mState # "eInit" /\ ~(Anims[o.type] = 0 \/ Over(o.mForLoop))
  <2> DEFINE l == Entered(o.mForLoop, Anims[o.type])
  <2>1. s = [o EXCEPT !.mForLoop = Incremented(l), !.mAnims = @ \cup {l.mCurrentIndex}]
    BY <1>3 DEF ObjectInitStep
  <2>2. /\ l \in Loops /\ ~l.mIsFirstIteration /\ l.mCurrentIndex = o.mForLoop.mCurrentIndex
        /\ l.mEndRange = Anims[o.type] /\ l.mCurrentIndex \in 0..(Anims[o.type] - 1)
    <3>1. Anims[o.type] \in Nat \ {0} /\ ~Over(o.mForLoop)
      BY <1>3
    <3>2. o.mForLoop.mIsFirstIteration => o.mForLoop.mCurrentIndex = 0
      BY DEF AnimsPassed
    <3>3. ~o.mForLoop.mIsFirstIteration => o.mForLoop.mEndRange = Anims[o.type]
      BY DEF AnimsPassed
    <3> QED
      BY <3>1, <3>2, <3>3, LoopOperators, EnteredInside
  <2> HIDE DEF l
  <2>3. /\ s.type = o.type /\ s.at = o.at /\ s.mState = o.mState
        /\ s.mForLoop = Incremented(l) /\ s.mAnims = o.mAnims \cup {l.mCurrentIndex}
    BY <2>1, <1>0
  <2>4. /\ Incremented(l) \in Loops /\ ~Incremented(l).mIsFirstIteration
        /\ Incremented(l).mCurrentIndex = l.mCurrentIndex + 1
        /\ Incremented(l).mEndRange = Anims[o.type]
    BY <2>2, LoopOperators
  <2>5. l.mCurrentIndex \in Nat
    BY <2>2 DEF Loops
  <2>6. s \in LoadedObjects(m)
    BY <2>1, <2>4, <2>5 DEF LoadedObjects
  <2>7. o.mAnims = 0..(l.mCurrentIndex - 1)
    BY <2>2 DEF AnimsPassed
  <2>8. s.mAnims = 0..((l.mCurrentIndex + 1) - 1)
    BY <2>3, <2>5, <2>7
  <2>9. l.mCurrentIndex + 1 <= Anims[o.type]
    BY <2>2
  <2>10. /\ ~s.mForLoop.mIsFirstIteration /\ s.mForLoop.mEndRange = Anims[s.type]
         /\ s.mForLoop.mCurrentIndex <= Anims[s.type]
    BY <2>3, <2>4, <2>9
  <2>11. s.mState # "eLoadSounds" /\ s.mAnims = 0..(s.mForLoop.mCurrentIndex - 1)
    BY <2>3, <2>4, <2>8
  <2> HIDE DEF s
  <2> QED
    BY <2>3, <2>6, <2>10, <2>11 DEF AnimsPassed, s
<1> QED
  BY <1>1, <1>2, <1>3

\* The objects in mObjs are those of P, each of them once and in order.
PlacedAre(P) ==
  mObjs \in Seq(ObjectsOf(path)) /\ InOrder(Len(mObjs)) /\ FirstObjs(Len(mObjs)) = P

LEMMA Appended ==
  ASSUME NEW S, mObjs \in Seq(S), NEW o, mObjs' = Append(mObjs, o),
         NEW n \in Nat, n = Len(mObjs)
  PROVE  /\ Len(mObjs') = n + 1 /\ mObjs'[n + 1] = o
         /\ InOrder(n)' = InOrder(n) /\ FirstObjs(n)' = FirstObjs(n)
         /\ FirstObjs(n + 1)' = FirstObjs(n) \cup {o}
<1>1. Append(mObjs, o) \in Seq(S \cup {o}) /\ mObjs \in Seq(S \cup {o})
  <2>1. mObjs \in Seq(S \cup {o})
    BY SeqDef
  <2> QED
    BY <2>1, AppendProperties
<1>2. /\ Len(mObjs') = n + 1 /\ mObjs'[n + 1] = o
      /\ \A i \in 1..n : mObjs'[i] = mObjs[i]
  BY <1>1, AppendProperties
<1>3. InOrder(n)' = InOrder(n)
  BY <1>2 DEF InOrder
<1>4. FirstObjs(n)' = FirstObjs(n)
  BY <1>2 DEF FirstObjs
<1>5. 1..(n + 1) = 1..n \cup {n + 1}
  OBVIOUS
<1>6. FirstObjs(n + 1)' = FirstObjs(n)' \cup {o}
  BY <1>2, <1>5 DEF FirstObjs
<1> QED
  BY <1>2, <1>3, <1>4, <1>6

\* The next object comes after those that are there.
LEMMA PlacedNext ==
  ASSUME NEW P, PlacedAre(P), path' = path, NEW o \in ObjectsOf(path),
         \A p \in P : Earlier(p.at, o.at), mObjs' = Append(mObjs, o)
  PROVE  PlacedAre(P \cup {o})'
<1>1. PICK n \in Nat : n = Len(mObjs)
  BY LenProperties DEF PlacedAre
<1>2. mObjs \in Seq(ObjectsOf(path)) /\ InOrder(n) /\ FirstObjs(n) = P
  BY <1>1 DEF PlacedAre
<1>3. /\ Len(mObjs') = n + 1 /\ mObjs'[n + 1] = o
      /\ InOrder(n)' /\ FirstObjs(n)' = P /\ FirstObjs(n + 1)' = P \cup {o}
  BY <1>1, <1>2, Appended
<1>4. mObjs' \in Seq(ObjectsOf(path))
  BY <1>2, AppendProperties
<1>5. InOrder(n + 1)'
  <2>1. \A i \in 1..n : Earlier(mObjs'[i].at, mObjs'[n + 1].at)
    <3>1. \A i \in 1..n : mObjs'[i] \in P
      BY <1>3 DEF FirstObjs
    <3> QED
      BY <1>3, <3>1
  <2>2. \A i, j \in 1..n : i < j => Earlier(mObjs'[i].at, mObjs'[j].at)
    BY <1>3 DEF InOrder
  <2>3. ASSUME NEW i \in 1..(n + 1), NEW j \in 1..(n + 1), i < j
        PROVE  Earlier(mObjs'[i].at, mObjs'[j].at)
    <3>1. i \in 1..n /\ (j \in 1..n \/ j = n + 1)
      BY <2>3
    <3> QED
      BY <2>1, <2>2, <2>3, <3>1
  <2> QED
    BY <2>3 DEF InOrder
<1>6. ObjectsOf(path)' = ObjectsOf(path)
  OBVIOUS
<1> QED
  BY <1>3, <1>4, <1>5, <1>6 DEF PlacedAre

LEMMA PlacedKept ==
  ASSUME NEW P, PlacedAre(P), UNCHANGED <<path, mObjs>>
  PROVE  PlacedAre(P)'
<1>1. ObjectsOf(path)' = ObjectsOf(path)
  OBVIOUS
<1>2. InOrder(Len(mObjs))' = InOrder(Len(mObjs)) /\ FirstObjs(Len(mObjs))' = FirstObjs(Len(mObjs))
  BY Zenon DEF InOrder, FirstObjs
<1> QED
  BY <1>1, <1>2 DEF PlacedAre

LEMMA PlacedNone == ASSUME mObjs = <<>> PROVE PlacedAre({})
<1>1. Len(mObjs) = 0 /\ mObjs \in Seq(ObjectsOf(path))
  OBVIOUS
<1> QED
  BY <1>1 DEF PlacedAre, InOrder, FirstObjs

\* The loops have last passed object k + 1 of camera x, y, which is being loaded.
LoadsLast(x, y, k) ==
  /\ x \in 0..(Size[path][1] - 1) /\ y \in 0..(Size[path][2] - 1)
  /\ k + 1 \in 1..Len(Objects[path][<<x, y>>]) /\ Objects[path][<<x, y>>][k + 1] \in Accepted
  /\ mMapObjectBeingLoaded.type = Objects[path][<<x, y>>][k + 1]
  /\ mMapObjectBeingLoaded.at = <<x, y, k + 1>>
  /\ PlacedAre(PassedObjs(path, x, y, k))

PassedHere ==
  PassedObjs(path, xLoop.mCurrentIndex, yLoop.mCurrentIndex, iLoop.mCurrentIndex)

USE DEF PassedHere

\* The objects that the loops have passed are there, but for the one being loaded.
PlacingInv ==
  /\ ~iLoop.mIsFirstIteration =>
       iLoop.mEndRange = Len(Objects[path][<<xLoop.mCurrentIndex, yLoop.mCurrentIndex>>])
  /\ mMapObjectBeingLoaded = Nothing =>
       PlacedAre(PassedHere)
  /\ mMapObjectBeingLoaded # Nothing =>
       \E k \in Nat : /\ iLoop.mCurrentIndex = k + 1
                      /\ LoadsLast(xLoop.mCurrentIndex, yLoop.mCurrentIndex, k)

HackInv ==
  /\ PlacedAre(ObjectsOf(path))
  /\ mMapObjectBeingLoaded # Nothing =>
       mMapObjectBeingLoaded.type = Abe /\ mMapObjectBeingLoaded.at = AbeScreen(path)

MapHasAll ==
  \E n \in Nat : /\ Len(mObjs) = n + 1 /\ mObjs[n + 1] = MadeOf(Abe, AbeScreen(path))
                 /\ InOrder(n) /\ FirstObjs(n) = ObjectsOf(path)

PlacedInv ==
  /\ Awaiting /\ lstate \in {"eAllocateCameraMemory", "eLoadCameras", "eObjectLoaderScripts"}
       => mObjs = <<>>
  /\ Awaiting /\ lstate = "eLoadObjects" => PlacingInv
  /\ Awaiting /\ lstate = "eHackToPlaceAbeInValidCamera" => HackInv
  /\ Loaded => MapHasAll

\* The object that is ready is the one the map asks for.
LEMMA ReadyIsMade ==
  ASSUME ObjectInv, ObjectReady
  PROVE  MapObjectOf(mMapObjectBeingLoaded)
           = MadeOf(mMapObjectBeingLoaded.type, mMapObjectBeingLoaded.at)
  BY DEF ObjectInv, AnimsPassed, ObjectReady, MapObjectOf, MadeOf

\* LoadObjects goes on to the next object of camera u, v, if there is one.
ToNext(u, v, k) ==
  LET types == Objects[path][<<u, v>>] IN
  /\ xLoop.mCurrentIndex = u /\ yLoop.mCurrentIndex = v /\ iLoop.mCurrentIndex = k
  /\ xLoop'.mCurrentIndex = u /\ yLoop'.mCurrentIndex = v /\ iLoop'.mEndRange = Len(types)
  /\ \/ k >= Len(types) /\ iLoop'.mCurrentIndex = k /\ mMapObjectBeingLoaded' = Nothing
     \/ /\ k + 1 \in 1..Len(types) /\ iLoop'.mCurrentIndex = k + 1
        /\ mMapObjectBeingLoaded' =
             IF types[k + 1] \in Accepted THEN NewObject(types[k + 1], <<u, v, k + 1>>)
             ELSE Nothing

LEMMA NextObject ==
  ASSUME PlacingInv, LoopInv, path \in Maps, LoadObjects,
         ~Over(xLoop), ~Over(yLoop), ~Over(iLoop)
  PROVE  \E u \in 0..(Size[path][1] - 1), v \in 0..(Size[path][2] - 1), k \in Nat :
           ToNext(u, v, k)
<1> DEFINE x == Entered(xLoop, Size[path][1])
           y == Entered(yLoop, Size[path][2])
           n == Len(Objects[path][<<x.mCurrentIndex, y.mCurrentIndex>>])
           i == Entered(iLoop, n)
<1>1. LoadObject(x, y) /\ lstate = "eLoadObjects"
  BY DEF LoadObjects
<1>2. /\ x \in Loops /\ y \in Loops /\ n \in Nat /\ ~LoopDone(x) /\ x.mEndRange = Size[path][1]
      /\ ~LoopDone(y) /\ y.mEndRange = Size[path][2]
  BY <1>1, ObjectsThere
<1>3. x.mCurrentIndex = xLoop.mCurrentIndex /\ y.mCurrentIndex = yLoop.mCurrentIndex
  BY SizeOfPath, LoopOperators DEF LoopInv, LoopTypes
<1>4. iLoop \in Loops /\ iLoop.mCurrentIndex \in Nat
  BY DEF LoopInv, LoopTypes, Loops
<1>5. i \in Loops /\ i.mCurrentIndex = iLoop.mCurrentIndex /\ i.mEndRange = n
  <2>1. ~iLoop.mIsFirstIteration => iLoop.mEndRange = n
    BY <1>3 DEF PlacingInv
  <2> HIDE DEF n
  <2> QED
    BY <1>2, <1>4, <2>1, LoopOperators
<1> HIDE DEF x, y
<1>6. /\ xLoop' = x /\ yLoop' = y /\ iLoop' = IF LoopDone(i) THEN i ELSE Incremented(i)
      /\ mMapObjectBeingLoaded' =
           LET types == Objects[path][<<x.mCurrentIndex, y.mCurrentIndex>>]
               index == i.mCurrentIndex + 1
           IN IF ~LoopDone(i) /\ types[index] \in Accepted
              THEN NewObject(types[index], <<x.mCurrentIndex, y.mCurrentIndex, index>>)
              ELSE Nothing
  BY <1>1 DEF LoadObject
<1>7. PICK u \in 0..(Size[path][1] - 1) : u = x.mCurrentIndex
  BY <1>2, SizeOf DEF Loops, LoopDone
<1>8. PICK v \in 0..(Size[path][2] - 1) : v = y.mCurrentIndex
  BY <1>2, SizeOf DEF Loops, LoopDone
<1>9. PICK k \in Nat : k = i.mCurrentIndex
  BY <1>4, <1>5
<1>10. n = Len(Objects[path][<<u, v>>])
  BY <1>7, <1>8
<1> HIDE DEF n, i
<1>11. CASE LoopDone(i)
  <2>1. k >= Len(Objects[path][<<u, v>>])
    BY <1>5, <1>9, <1>10, <1>11 DEF LoopDone
  <2> QED
    BY <1>3, <1>5, <1>6, <1>7, <1>8, <1>9, <1>10, <1>11, <2>1 DEF ToNext
<1>12. CASE ~LoopDone(i)
  <2>1. k + 1 \in 1..Len(Objects[path][<<u, v>>])
    BY <1>2, <1>5, <1>9, <1>10, <1>12 DEF LoopDone
  <2>2. iLoop' = Incremented(i)
    BY <1>6, <1>12
  <2>3. Incremented(i).mCurrentIndex = i.mCurrentIndex + 1 /\ Incremented(i).mEndRange = n
    BY <1>5, LoopOperators
  <2>4. iLoop'.mCurrentIndex = k + 1 /\ iLoop'.mEndRange = Len(Objects[path][<<u, v>>])
    BY <1>9, <1>10, <2>2, <2>3
  <2>5. mMapObjectBeingLoaded' =
             IF Objects[path][<<u, v>>][k + 1] \in Accepted
             THEN NewObject(Objects[path][<<u, v>>][k + 1], <<u, v, k + 1>>)
             ELSE Nothing
    BY <1>6, <1>7, <1>8, <1>9, <1>12
  <2> QED
    BY <1>3, <1>5, <1>6, <1>7, <1>8, <1>9, <2>1, <2>4, <2>5 DEF ToNext
<1> QED
  BY <1>7, <1>8, <1>9, <1>11, <1>12

LEMMA NextObjectRight ==
  ASSUME NEW m \in Maps, path = m, path' = m,
         NEW u \in 0..(Size[m][1] - 1), NEW v \in 0..(Size[m][2] - 1), NEW k \in Nat,
         ToNext(u, v, k)
  PROVE  ObjectInv'
<1>1. SUFFICES ASSUME mMapObjectBeingLoaded' # Nothing PROVE ObjectInv'
  BY DEF ObjectInv
<1>2. /\ k + 1 \in 1..Len(Objects[m][<<u, v>>])
      /\ mMapObjectBeingLoaded' = NewObject(Objects[m][<<u, v>>][k + 1], <<u, v, k + 1>>)
  BY <1>1 DEF ToNext
<1>3. PICK t \in DOMAIN Anims : t = Objects[m][<<u, v>>][k + 1]
  BY <1>2, SizeOf, ElementOfSeq
<1>4. PICK at \in (Nat \X Nat \X Nat) \cup {AbeScreen(m)} : at = <<u, v, k + 1>>
  <2>1. u \in Nat /\ v \in Nat /\ k + 1 \in Nat
    BY SizeOf
  <2>2. <<u, v, k + 1>> \in Nat \X Nat \X Nat
    BY <2>1
  <2> QED
    BY <2>2
<1>5. mMapObjectBeingLoaded' = NewObject(t, at)
  BY <1>2, <1>3, <1>4
<1> QED
  BY <1>5, NewObjectRight DEF ObjectInv

LEMMA NextObjectPlaced ==
  ASSUME PlacingInv, mMapObjectBeingLoaded = Nothing,
         NEW m \in Maps, path = m, path' = m, mObjs' = mObjs,
         NEW u \in 0..(Size[m][1] - 1), NEW v \in 0..(Size[m][2] - 1), NEW k \in Nat,
         ToNext(u, v, k)
  PROVE  PlacingInv'
<1>1. iLoop'.mEndRange = Len(Objects[path'][<<xLoop'.mCurrentIndex, yLoop'.mCurrentIndex>>])
  BY DEF ToNext
<1>2. PICK P : P = PassedObjs(m, u, v, k)
  OBVIOUS
<1>3. PlacedAre(P)
  BY <1>2 DEF ToNext, PlacingInv
<1>4. PlacedAre(P)'
  BY <1>3, PlacedKept
<1>5. CASE k >= Len(Objects[m][<<u, v>>]) /\ iLoop'.mCurrentIndex = k
           /\ mMapObjectBeingLoaded' = Nothing
  <2>1. PassedHere' = P
    BY <1>2, <1>5 DEF ToNext
  <2>2. PlacedAre(PassedHere)'
    BY <1>4, <2>1
  <2> QED
    BY <1>1, <1>5, <2>2 DEF PlacingInv
<1>6. CASE /\ k + 1 \in 1..Len(Objects[m][<<u, v>>]) /\ iLoop'.mCurrentIndex = k + 1
           /\ mMapObjectBeingLoaded' =
                IF Objects[m][<<u, v>>][k + 1] \in Accepted
                THEN NewObject(Objects[m][<<u, v>>][k + 1], <<u, v, k + 1>>) ELSE Nothing
  <2>1. xLoop'.mCurrentIndex = u /\ yLoop'.mCurrentIndex = v
    BY DEF ToNext
  <2>2. CASE Objects[m][<<u, v>>][k + 1] \in Accepted
    <3>1. mMapObjectBeingLoaded' = NewObject(Objects[m][<<u, v>>][k + 1], <<u, v, k + 1>>)
      BY <1>6, <2>2
    <3>2. /\ mMapObjectBeingLoaded'.type = Objects[m][<<u, v>>][k + 1]
          /\ mMapObjectBeingLoaded'.at = <<u, v, k + 1>>
      BY <3>1 DEF NewObject
    <3>3. LoadsLast(u, v, k)'
      BY <1>2, <1>4, <1>6, <2>2, <3>2 DEF LoadsLast
    <3>4. mMapObjectBeingLoaded' # Nothing
      <4>1. DOMAIN mMapObjectBeingLoaded' # {"type"} /\ DOMAIN Nothing = {"type"}
        BY <3>1 DEF NewObject, Nothing
      <4> QED
        BY <4>1
    <3> QED
      BY <1>1, <1>6, <2>1, <3>3, <3>4 DEF PlacingInv
  <2>3. CASE Objects[m][<<u, v>>][k + 1] \notin Accepted
    <3>1. PassedObjs(m, u, v, k + 1) = P
      <4>1. PICK o : o = MadeOf(Objects[m][<<u, v>>][k + 1], <<u, v, k + 1>>)
        OBVIOUS
      <4>2. k + 1 \in 1..Len(Objects[m][<<u, v>>])
        BY <1>6
      <4>3. PassedObjs(m, u, v, k + 1) =
              PassedObjs(m, u, v, k) \cup
                (IF Objects[m][<<u, v>>][k + 1] \in Accepted THEN {o} ELSE {})
        BY <4>1, <4>2, ObjectPassed
      <4> QED
        BY <1>2, <2>3, <4>3
    <3>2. PassedHere' = P
      BY <1>6, <2>1, <3>1
    <3>3. PlacedAre(PassedHere)'
      BY <1>4, <3>2
    <3> QED
      BY <1>1, <1>6, <2>3, <3>3 DEF PlacingInv
  <2> QED
    BY <2>2, <2>3
<1> QED
  BY <1>5, <1>6 DEF ToNext

LEMMA LoadObjectsPlaced ==
  ASSUME PlacingInv, ObjectInv, LoopInv, NEW m \in Maps, path = m, LoadObjects
  PROVE  /\ ObjectInv'
         /\ lstate' = "eLoadObjects" => PlacingInv'
         /\ lstate' = "eHackToPlaceAbeInValidCamera" => HackInv'
<1>1. /\ lstate = "eLoadObjects" /\ mMapObjectBeingLoaded = Nothing /\ path' = m /\ mObjs' = mObjs
      /\ lstate' \in {"eLoadObjects", "eHackToPlaceAbeInValidCamera"}
  BY DEF LoadObjects, LoadObject
<1>2. PICK u \in Nat, v \in Nat, k \in Nat :
        u = xLoop.mCurrentIndex /\ v = yLoop.mCurrentIndex /\ k = iLoop.mCurrentIndex
  BY DEF LoopInv, LoopTypes, Loops
<1>3. PICK P : P = PassedObjs(m, u, v, k)
  OBVIOUS
<1>4. PlacedAre(P)'
  <2>1. PlacedAre(P)
    BY <1>1, <1>2, <1>3 DEF PlacingInv
  <2> QED
    BY <1>1, <2>1, PlacedKept
<1>5. LoopTypes /\ Inside(xLoop, yLoop) /\ Inside(yLoop, iLoop) /\ Ranges
  BY DEF LoopInv, Nested
<1>6. CASE Over(xLoop)
  <2>1. lstate' = "eHackToPlaceAbeInValidCamera" /\ mMapObjectBeingLoaded' = Nothing
    BY <1>1, <1>6 DEF LoadObjects
  <2>2. u >= Size[m][1]
    BY <1>1, <1>2, <1>5, <1>6 DEF Over, LoopDone, Ranges
  <2>3. P = ObjectsOf(m)
    BY <1>3, <2>2, AllObjsPassed
  <2>4. PlacedAre(ObjectsOf(path))'
    BY <1>1, <1>4, <2>3
  <2> QED
    BY <2>1, <2>4 DEF HackInv, ObjectInv
<1>7. CASE ~Over(xLoop) /\ Over(yLoop)
  <2>1. /\ xLoop' = Incremented(xLoop) /\ yLoop' = LoopReset(yLoop) /\ iLoop' = iLoop
        /\ lstate' = lstate /\ mMapObjectBeingLoaded' = Nothing
    BY <1>1, <1>7 DEF LoadObjects
  <2>2. iLoop.mIsFirstIteration /\ k = 0
    BY <1>2, <1>5, <1>7 DEF Inside, Over, LoopTypes
  <2>3. xLoop'.mCurrentIndex = u + 1 /\ yLoop'.mCurrentIndex = 0 /\ iLoop'.mCurrentIndex = 0
    BY <1>2, <1>5, <2>1, <2>2, LoopOperators DEF LoopTypes
  <2>4. v >= Size[m][2]
    BY <1>1, <1>2, <1>5, <1>7 DEF Over, LoopDone, Ranges
  <2>5. P = PassedObjs(m, u + 1, 0, 0)
    BY <1>3, <2>2, <2>4, ColumnPassed
  <2>6. PlacedAre(PassedHere)'
    BY <1>1, <1>4, <2>3, <2>5
  <2> QED
    BY <1>1, <2>1, <2>2, <2>6 DEF PlacingInv, ObjectInv
<1>8. CASE ~Over(xLoop) /\ ~Over(yLoop) /\ Over(iLoop)
  <2>1. /\ xLoop' = xLoop /\ yLoop' = Incremented(yLoop) /\ iLoop' = LoopReset(iLoop)
        /\ lstate' = lstate /\ mMapObjectBeingLoaded' = Nothing
    BY <1>1, <1>8 DEF LoadObjects
  <2>2. /\ xLoop'.mCurrentIndex = u /\ yLoop'.mCurrentIndex = v + 1 /\ iLoop'.mCurrentIndex = 0
        /\ iLoop'.mIsFirstIteration
    BY <1>2, <1>5, <2>1, LoopOperators DEF LoopTypes
  <2>3. k >= Len(Objects[m][<<u, v>>])
    BY <1>2, <1>8 DEF Over, LoopDone, PlacingInv
  <2>4. P = PassedObjs(m, u, v + 1, 0)
    BY <1>3, <2>3, CameraPassed
  <2>5. PlacedAre(PassedHere)'
    BY <1>1, <1>4, <2>2, <2>4
  <2> QED
    BY <1>1, <2>1, <2>2, <2>5 DEF PlacingInv, ObjectInv
<1>9. CASE ~Over(xLoop) /\ ~Over(yLoop) /\ ~Over(iLoop)
  <2>1. PICK a \in 0..(Size[m][1] - 1), b \in 0..(Size[m][2] - 1), c \in Nat : ToNext(a, b, c)
    BY <1>9, NextObject
  <2>2. ObjectInv' /\ PlacingInv'
    BY <1>1, <2>1, NextObjectRight, NextObjectPlaced
  <2>3. lstate' = lstate
    BY <1>9 DEF LoadObjects, LoadObject
  <2> QED
    BY <1>1, <2>2, <2>3
<1> QED
  BY <1>6, <1>7, <1>8, <1>9

\* The object that is ready joins those that the loops have passed.
LEMMA ReadyPlaced ==
  ASSUME PlacingInv, ObjectInv, LoopInv, NEW m \in Maps, path = m, LoadObjectsReady
  PROVE  PlacingInv'
<1>1. /\ mMapObjectBeingLoaded # Nothing /\ mMapObjectBeingLoaded' = Nothing /\ path' = m
      /\ mObjs' = Append(mObjs, MapObjectOf(mMapObjectBeingLoaded))
      /\ UNCHANGED <<xLoop, yLoop, iLoop>> /\ ObjectReady
  BY DEF LoadObjectsReady, ObjectReady
<1>2. PICK k \in Nat : /\ iLoop.mCurrentIndex = k + 1
                       /\ LoadsLast(xLoop.mCurrentIndex, yLoop.mCurrentIndex, k)
  BY <1>1 DEF PlacingInv
<1>3. PICK u \in 0..(Size[m][1] - 1), v \in 0..(Size[m][2] - 1) :
        u = xLoop.mCurrentIndex /\ v = yLoop.mCurrentIndex
  BY <1>2 DEF LoadsLast
<1>4. LoadsLast(u, v, k)
  BY <1>2, <1>3
<1>5. PICK o : o = MadeOf(Objects[m][<<u, v>>][k + 1], <<u, v, k + 1>>)
  OBVIOUS
<1>6. mObjs' = Append(mObjs, o)
  BY <1>1, <1>4, <1>5, ReadyIsMade DEF LoadsLast
<1>7. PICK P : P = PassedObjs(m, u, v, k)
  OBVIOUS
<1>8. /\ k + 1 \in 1..Len(Objects[m][<<u, v>>]) /\ Objects[m][<<u, v>>][k + 1] \in Accepted
      /\ PlacedAre(P)
  BY <1>4, <1>7 DEF LoadsLast
<1>9. o \in ObjectsOf(m)
  BY <1>5, <1>8, ObjectIsThere
<1>10. /\ PassedObjs(m, u, v, k + 1) = P \cup {o}
       /\ \A p \in P : Earlier(p.at, o.at)
  BY <1>5, <1>7, <1>8, ObjectPassed
<1>11. PlacedAre(P \cup {o})'
  BY <1>1, <1>6, <1>8, <1>9, <1>10, PlacedNext
<1>12. PlacedAre(PassedHere)'
  BY <1>1, <1>2, <1>3, <1>10, <1>11
<1>13. ~iLoop'.mIsFirstIteration =>
         iLoop'.mEndRange = Len(Objects[path'][<<xLoop'.mCurrentIndex, yLoop'.mCurrentIndex>>])
  BY <1>1 DEF PlacingInv
<1> QED
  BY <1>1, <1>12, <1>13 DEF PlacingInv

\* Abe is the last of the objects of the map.
LEMMA AbePlaced ==
  ASSUME HackInv, ObjectInv, NEW m \in Maps, path = m, path' = m, HackAbeReady
  PROVE  MapHasAll'
<1>1. /\ mMapObjectBeingLoaded # Nothing /\ ObjectReady
      /\ mObjs' = Append(mObjs, MapObjectOf(mMapObjectBeingLoaded))
  BY DEF HackAbeReady, ObjectReady
<1>2. PICK o : o = MadeOf(Abe, AbeScreen(m))
  OBVIOUS
<1>3. mObjs' = Append(mObjs, o)
  BY <1>1, <1>2, ReadyIsMade DEF HackInv
<1>4. mObjs \in Seq(ObjectsOf(m)) /\ InOrder(Len(mObjs)) /\ FirstObjs(Len(mObjs)) = ObjectsOf(m)
  BY DEF HackInv, PlacedAre
<1>5. PICK n \in Nat : n = Len(mObjs)
  BY <1>4, LenProperties
<1>6. /\ Len(mObjs') = n + 1 /\ mObjs'[n + 1] = o
      /\ InOrder(n)' /\ FirstObjs(n)' = ObjectsOf(m)
  BY <1>3, <1>4, <1>5, Appended
<1> QED
  BY <1>2, <1>6 DEF MapHasAll

LEMMA ObjectsInit == WorldInit => ObjectInv /\ PlacedInv
  BY DEF WorldInit, LoaderInit, ObjectInv, PlacedInv, Awaiting, Loaded

LEMMA LoadStepObjects ==
  ASSUME ObjectInv, PlacedInv, LoopInv, NEW m \in Maps, path = m, LoadStep,
         mState = "eLoadingMap", mState' = mState
  PROVE  ObjectInv' /\ PlacedInv'
<1>1. CASE SetupAndConvertCollisionItems
  BY <1>1 DEF SetupAndConvertCollisionItems, ObjectInv, PlacedInv, Awaiting, Loaded
<1>2. CASE AllocateCameraMemory
  BY <1>2 DEF AllocateCameraMemory, ObjectInv, PlacedInv, Awaiting, Loaded
<1>3. CASE LoadCameras
  <2>1. /\ lstate = "eLoadCameras" /\ lstate' \in {"eLoadCameras", "eObjectLoaderScripts"}
        /\ UNCHANGED <<path, mObjs, mMapObjectBeingLoaded>>
    BY <1>3 DEF LoadCameras
  <2> QED
    BY <2>1 DEF ObjectInv, PlacedInv, Awaiting, Loaded
<1>4. CASE ObjectLoaderScripts
  <2>1. /\ lstate = "eObjectLoaderScripts" /\ lstate' = "eLoadObjects" /\ path' = m
        /\ UNCHANGED <<mObjs, mMapObjectBeingLoaded, xLoop, yLoop, iLoop>>
        /\ mObjs = <<>>
    BY <1>4 DEF ObjectLoaderScripts, PlacedInv, Awaiting
  <2>2. /\ mMapObjectBeingLoaded = Nothing /\ iLoop.mIsFirstIteration
        /\ xLoop.mCurrentIndex = 0 /\ yLoop.mCurrentIndex = 0 /\ iLoop.mCurrentIndex = 0
    BY <2>1 DEF LoopInv, LoopTypes, Nested, Inside, BeingLoaded
  <2>3. PlacedAre({})'
    BY <2>1, PlacedNone, PlacedKept
  <2>4. PlacedAre(PassedHere)'
    BY <2>1, <2>2, <2>3, NoObjPassed
  <2>5. PlacingInv'
    BY <2>1, <2>2, <2>4 DEF PlacingInv
  <2> QED
    BY <2>1, <2>2, <2>5 DEF ObjectInv, PlacedInv, Awaiting, Loaded
<1>5. CASE InitObject
  <2>1. /\ UNCHANGED <<path, lstate, mObjs, xLoop, yLoop, iLoop>> /\ path' = m
        /\ mMapObjectBeingLoaded # Nothing /\ mMapObjectBeingLoaded.mState # "eLoadSounds"
        /\ mMapObjectBeingLoaded' = ObjectInitStep(mMapObjectBeingLoaded)
    BY <1>5 DEF InitObject, ObjectReady
  <2>2. PICK o \in LoadedObjects(m) : o = mMapObjectBeingLoaded /\ AnimsPassed(o)
    BY <2>1 DEF ObjectInv
  <2>3. /\ mMapObjectBeingLoaded' \in LoadedObjects(m) /\ AnimsPassed(mMapObjectBeingLoaded')
        /\ mMapObjectBeingLoaded'.type = o.type /\ mMapObjectBeingLoaded'.at = o.at
    BY <2>1, <2>2, InitStepRight
  <2>4. mMapObjectBeingLoaded' # Nothing
    BY <2>3, ObjectFields
  <2>5. ObjectInv'
    BY <2>1, <2>3 DEF ObjectInv
  <2>6. ASSUME PlacingInv PROVE PlacingInv'
    <3>1. PICK k \in Nat : /\ iLoop.mCurrentIndex = k + 1
                           /\ LoadsLast(xLoop.mCurrentIndex, yLoop.mCurrentIndex, k)
      BY <2>1, <2>6 DEF PlacingInv
    <3>2. PICK u, v, P : /\ u = xLoop.mCurrentIndex /\ v = yLoop.mCurrentIndex
                         /\ P = PassedObjs(m, u, v, k)
      OBVIOUS
    <3>3. LoadsLast(u, v, k) /\ PlacedAre(P)
      BY <3>1, <3>2 DEF LoadsLast
    <3>4. PlacedAre(P)'
      BY <2>1, <3>3, PlacedKept
    <3>5. LoadsLast(u, v, k)'
      BY <2>1, <2>2, <2>3, <3>2, <3>3, <3>4 DEF LoadsLast
    <3>6. ~iLoop'.mIsFirstIteration =>
            iLoop'.mEndRange = Len(Objects[path'][<<xLoop'.mCurrentIndex, yLoop'.mCurrentIndex>>])
      BY <2>1, <2>6 DEF PlacingInv
    <3>7. iLoop'.mCurrentIndex = k + 1 /\ xLoop'.mCurrentIndex = u /\ yLoop'.mCurrentIndex = v
      BY <2>1, <3>1, <3>2
    <3> QED
      BY <2>4, <3>5, <3>6, <3>7 DEF PlacingInv
  <2>7. ASSUME HackInv PROVE HackInv'
    <3>1. PICK P : P = ObjectsOf(m)
      OBVIOUS
    <3>2. PlacedAre(P)'
      BY <2>1, <2>7, <3>1, PlacedKept DEF HackInv
    <3>3. PlacedAre(ObjectsOf(path))'
      BY <2>1, <3>1, <3>2
    <3> QED
      BY <2>1, <2>2, <2>3, <2>7, <3>3 DEF HackInv
  <2>8. lstate \in {"eLoadObjects", "eHackToPlaceAbeInValidCamera"}
    BY <2>1 DEF LoopInv, BeingLoaded
  <2> QED
    BY <2>1, <2>5, <2>6, <2>7, <2>8 DEF PlacedInv, Awaiting, Loaded
<1>6. CASE LoadObjectsReady
  <2>1. lstate = "eLoadObjects" /\ lstate' = lstate /\ mMapObjectBeingLoaded' = Nothing
    BY <1>6 DEF LoadObjectsReady
  <2>2. PlacingInv'
    BY <1>6, <2>1, ReadyPlaced DEF PlacedInv, Awaiting
  <2> QED
    BY <2>1, <2>2 DEF ObjectInv, PlacedInv, Awaiting, Loaded
<1>7. CASE LoadObjects
  <2>1. lstate = "eLoadObjects" /\ lstate' \in {"eLoadObjects", "eHackToPlaceAbeInValidCamera"}
    BY <1>7 DEF LoadObjects, LoadObject
  <2>2. PlacingInv
    BY <2>1 DEF PlacedInv, Awaiting
  <2>3. /\ ObjectInv'
        /\ lstate' = "eLoadObjects" => PlacingInv'
        /\ lstate' = "eHackToPlaceAbeInValidCamera" => HackInv'
    BY <1>7, <2>2, LoadObjectsPlaced
  <2> QED
    BY <2>1, <2>3 DEF PlacedInv, Awaiting, Loaded
<1>8. CASE HackPlaceAbe
  <2>1. /\ lstate = "eHackToPlaceAbeInValidCamera" /\ lstate' = lstate /\ path' = m
        /\ mObjs' = mObjs /\ mMapObjectBeingLoaded' = NewObject(Abe, AbeScreen(m))
    BY <1>8 DEF HackPlaceAbe
  <2>2. PlacedAre(ObjectsOf(m))
    BY <2>1 DEF PlacedInv, HackInv, Awaiting
  <2>3. PlacedAre(ObjectsOf(path))'
    <3>1. PICK P : P = ObjectsOf(m)
      OBVIOUS
    <3>2. PlacedAre(P)'
      BY <2>1, <2>2, <3>1, PlacedKept
    <3> QED
      BY <2>1, <3>1, <3>2
  <2>4. Abe \in DOMAIN Anims /\ AbeScreen(m) \in (Nat \X Nat \X Nat) \cup {AbeScreen(m)}
    BY MapAssumption
  <2>5. /\ mMapObjectBeingLoaded' \in LoadedObjects(m) /\ AnimsPassed(mMapObjectBeingLoaded')
        /\ mMapObjectBeingLoaded'.type = Abe /\ mMapObjectBeingLoaded'.at = AbeScreen(m)
    BY <2>1, <2>4, NewObjectRight
  <2>6. HackInv' /\ ObjectInv'
    BY <2>1, <2>3, <2>5 DEF HackInv, ObjectInv
  <2> QED
    BY <2>1, <2>6 DEF PlacedInv, Awaiting, Loaded
<1> QED
  BY <1>1, <1>2, <1>3, <1>4, <1>5, <1>6, <1>7, <1>8 DEF LoadStep

LEMMA MapKept ==
  ASSUME MapHasAll, UNCHANGED <<path, mObjs>>
  PROVE  MapHasAll'
<1>1. PICK n \in Nat : /\ Len(mObjs) = n + 1 /\ mObjs[n + 1] = MadeOf(Abe, AbeScreen(path))
                       /\ InOrder(n) /\ FirstObjs(n) = ObjectsOf(path)
  BY DEF MapHasAll
<1>2. InOrder(n)' = InOrder(n) /\ FirstObjs(n)' = FirstObjs(n)
  BY Zenon DEF InOrder, FirstObjs
<1>3. ObjectsOf(path)' = ObjectsOf(path) /\ AbeScreen(path)' = AbeScreen(path)
  OBVIOUS
<1> QED
  BY <1>1, <1>2, <1>3 DEF MapHasAll

\* What the objects rely on.
LEMMA PlacedKeptInv ==
  ASSUME ObjectInv, PlacedInv,
         UNCHANGED <<path, lstate, xLoop, yLoop, iLoop, mMapObjectBeingLoaded, mObjs>>,
         Awaiting' => Awaiting, Loaded' => Loaded
  PROVE  ObjectInv' /\ PlacedInv'
<1>1. ObjectInv'
  BY DEF ObjectInv
<1>2. PICK P : P = PassedHere
  OBVIOUS
<1>3. ASSUME PlacingInv PROVE PlacingInv'
  <2>1. ~iLoop'.mIsFirstIteration =>
          iLoop'.mEndRange = Len(Objects[path'][<<xLoop'.mCurrentIndex, yLoop'.mCurrentIndex>>])
    BY <1>3 DEF PlacingInv
  <2>2. CASE mMapObjectBeingLoaded = Nothing
    <3>1. PlacedAre(P)'
      BY <1>2, <1>3, <2>2, PlacedKept DEF PlacingInv
    <3>2. PlacedAre(PassedHere)'
      BY <1>2, <3>1
    <3> QED
      BY <2>1, <2>2, <3>2 DEF PlacingInv
  <2>3. CASE mMapObjectBeingLoaded # Nothing
    <3>1. PICK k \in Nat : /\ iLoop.mCurrentIndex = k + 1
                           /\ LoadsLast(xLoop.mCurrentIndex, yLoop.mCurrentIndex, k)
      BY <1>3, <2>3 DEF PlacingInv
    <3>2. PICK u, v, Q : /\ u = xLoop.mCurrentIndex /\ v = yLoop.mCurrentIndex
                         /\ Q = PassedObjs(path, u, v, k)
      OBVIOUS
    <3>3. LoadsLast(u, v, k) /\ PlacedAre(Q)
      BY <3>1, <3>2 DEF LoadsLast
    <3>4. PlacedAre(Q)'
      BY <3>3, PlacedKept
    <3>5. LoadsLast(u, v, k)'
      BY <3>2, <3>3, <3>4 DEF LoadsLast
    <3> QED
      BY <2>1, <2>3, <3>1, <3>2, <3>5 DEF PlacingInv
  <2> QED
    BY <2>2, <2>3
<1>4. ASSUME HackInv PROVE HackInv'
  <2>1. PICK Q : Q = ObjectsOf(path)
    OBVIOUS
  <2>2. PlacedAre(Q)'
    BY <1>4, <2>1, PlacedKept DEF HackInv
  <2>3. PlacedAre(ObjectsOf(path))'
    BY <2>1, <2>2
  <2> QED
    BY <1>4, <2>3 DEF HackInv
<1>5. ASSUME MapHasAll PROVE MapHasAll'
  BY <1>5, MapKept
<1> QED
  BY <1>1, <1>3, <1>4, <1>5 DEF PlacedInv

LEMMA ObjectsStep ==
  ModeInv /\ LoopInv /\ ObjectInv /\ PlacedInv /\ [Next]_vars => ObjectInv' /\ PlacedInv'
<1> SUFFICES ASSUME ModeInv, LoopInv, ObjectInv, PlacedInv, [Next]_vars
             PROVE  ObjectInv' /\ PlacedInv'
  OBVIOUS
<1>1. lstate = "eInit" => mMapObjectBeingLoaded = Nothing
  BY DEF LoopInv, BeingLoaded
<1>2. CASE FramePathFound
  BY <1>1, <1>2 DEF FramePathFound, Begin, ObjectInv, PlacedInv, Awaiting, Loaded
<1>3. CASE FramePathMissing
  <2>1. lstate = "eInit"
    BY <1>3 DEF FramePathMissing, ModeInv, LoaderAtWork
  <2> QED
    BY <1>1, <1>3, <2>1 DEF FramePathMissing, ObjectInv, PlacedInv, Awaiting, Loaded
<1>4. CASE FrameLoading
  <2>1. PICK m \in Maps : path = m
    BY <1>4 DEF FrameLoading, ModeInv, ModeTypes
  <2>2. LoadStep /\ mState = "eLoadingMap" /\ mState' = mState
    BY <1>4 DEF FrameLoading
  <2> QED
    BY <2>1, <2>2, LoadStepObjects
<1>5. CASE FrameLoaded
  <2>1. PICK m \in Maps : path = m
    BY <1>5 DEF FrameLoaded, ModeInv, ModeTypes
  <2>2. HackAbeReady /\ path' = m /\ mState = "eLoadingMap" /\ mState' = "eSoundsLoading"
    BY <1>5, <2>1 DEF FrameLoaded, HackAbeReady
  <2>3. HackInv /\ mMapObjectBeingLoaded' = Nothing /\ lstate' = "eInit"
    BY <2>2 DEF HackAbeReady, PlacedInv, Awaiting
  <2>4. MapHasAll'
    BY <2>1, <2>2, <2>3, AbePlaced
  <2> QED
    BY <2>2, <2>3, <2>4 DEF ObjectInv, PlacedInv, Awaiting
<1>6. ASSUME NEW name \in Maps \cup Missing,
             FrameLoadMap(name) \/ FrameLoadMapAndPlayFmv(name)
      PROVE  ObjectInv' /\ PlacedInv'
  <2>1. /\ lstate' = lstate /\ lstate = "eInit" /\ mMapObjectBeingLoaded' = mMapObjectBeingLoaded
    BY <1>6 DEF FrameLoadMap, FrameLoadMapAndPlayFmv, LoadMap, DebugUi, ModeInv, LoaderAtWork
  <2>2. \/ mState' = "eLoadingMap"
        \/ mState' = "ePlayFmv" /\ mReturnToState' = "eLoadingMap"
    BY <1>6 DEF FrameLoadMap, FrameLoadMapAndPlayFmv
  <2> QED
    BY <1>1, <2>1, <2>2 DEF ObjectInv, PlacedInv, Loaded
<1>7. CASE Destroy
  BY <1>7 DEF Destroy, UnloadMap, ObjectInv, PlacedInv, Awaiting, Loaded
<1>8. CASE \/ FrameSoundsLoaded \/ FramePlayFmv \/ FrameFmvEnds \/ FrameSwitched \/ FrameRender
           \/ PathLocated \/ SoundsLoaded \/ UNCHANGED vars
           \/ \E escape, e \in BOOLEAN : FrameGame(escape, e)
           \/ \E next \in {"eToGame", "eQuit"} : FrameEditor(next)
  <2>1. UNCHANGED <<path, lstate, xLoop, yLoop, iLoop, mMapObjectBeingLoaded, mObjs>>
    BY <1>8 DEF FrameSoundsLoaded, FramePlayFmv, FrameFmvEnds, FrameGame, FrameEditor,
                FrameSwitched, FrameRender, RenderScreen, PathLocated, SoundsLoaded
  <2>2. Awaiting' => Awaiting
    BY <1>8 DEF FrameSoundsLoaded, FramePlayFmv, FrameFmvEnds, FrameGame, FrameEditor, DebugUi,
                FrameSwitched, FrameRender, RenderScreen, PathLocated, SoundsLoaded, Awaiting
  <2>3. Loaded' => Loaded
    BY <1>8 DEF FrameSoundsLoaded, FramePlayFmv, FrameFmvEnds, FrameGame, FrameEditor, DebugUi,
                FrameSwitched, FrameRender, RenderScreen, PathLocated, SoundsLoaded, Loaded,
                ModeInv, ReturnsToShown
  <2> QED
    BY <2>1, <2>2, <2>3, PlacedKeptInv
<1> QED
  BY <1>2, <1>3, <1>4, <1>5, <1>6, <1>7, <1>8 DEF Next, LoadingFrames, Destroyed

LEMMA PlacingIsPrefix ==
  ASSUME PlacingInv, NEW m \in Maps, path = m, LoopInv
  PROVE  LET n == Len(mObjs) IN
         /\ InOrder(n) /\ FirstObjs(n) \subseteq ObjectsOf(m)
         /\ \A o \in ObjectsOf(m) \ FirstObjs(n) : \A i \in 1..n : Earlier(mObjs[i].at, o.at)
<1>1. \E x, y, k \in Nat : PlacedAre(PassedObjs(m, x, y, k))
  <2>1. PICK u \in Nat, v \in Nat, k \in Nat :
          u = xLoop.mCurrentIndex /\ v = yLoop.mCurrentIndex /\ k = iLoop.mCurrentIndex
    BY DEF LoopInv, LoopTypes, Loops
  <2>2. CASE mMapObjectBeingLoaded = Nothing
    BY <2>1, <2>2 DEF PlacingInv
  <2>3. CASE mMapObjectBeingLoaded # Nothing
    BY <2>1, <2>3 DEF PlacingInv, LoadsLast
  <2> QED
    BY <2>2, <2>3
<1>2. PICK x \in Nat, y \in Nat, k \in Nat : PlacedAre(PassedObjs(m, x, y, k))
  BY <1>1
<1>3. PICK n \in Nat : n = Len(mObjs)
  BY <1>2, LenProperties DEF PlacedAre
<1>4. InOrder(n) /\ FirstObjs(n) = PassedObjs(m, x, y, k)
  BY <1>2, <1>3 DEF PlacedAre
<1>5. FirstObjs(n) \subseteq ObjectsOf(m)
  BY <1>4 DEF PassedObjs
<1>6. ASSUME NEW o \in ObjectsOf(m) \ FirstObjs(n), NEW i \in 1..n
      PROVE  Earlier(mObjs[i].at, o.at)
  <2>1. mObjs[i] \in PassedObjs(m, x, y, k) /\ mObjs[i] \in ObjectsOf(m)
    BY <1>4, <1>5 DEF FirstObjs
  <2>2. PICK a \in Nat, b \in Nat, c \in Nat : IsAt(m, mObjs[i], a, b, c)
    BY <2>1, ObjectAt
  <2>3. PICK d \in Nat, e \in Nat, f \in Nat : IsAt(m, o, d, e, f)
    BY ObjectAt
  <2>4. mObjs[i].at[1] = a /\ mObjs[i].at[2] = b /\ mObjs[i].at[3] = c
    BY <2>2 DEF IsAt
  <2>5. o.at[1] = d /\ o.at[2] = e /\ o.at[3] = f
    BY <2>3 DEF IsAt
  <2>6. a < x \/ (a = x /\ (b < y \/ (b = y /\ c <= k)))
    BY <2>1, <2>4 DEF PassedObjs
  <2>7. ~(d < x \/ (d = x /\ (e < y \/ (e = y /\ f <= k))))
    BY <1>4, <2>5 DEF PassedObjs
  <2> QED
    BY <2>4, <2>5, <2>6, <2>7 DEF Earlier
<1> QED
  BY <1>3, <1>4, <1>5, <1>6

LEMMA AllAreThere ==
  ASSUME ModeInv, LoopInv, PlacedInv
  PROVE  AllObjects
<1>1. ASSUME Placing
      PROVE  LET n == Len(mObjs) IN
             /\ InOrder(n) /\ FirstObjs(n) \subseteq ObjectsOf(path)
             /\ \A o \in ObjectsOf(path) \ FirstObjs(n) : \A i \in 1..n : Earlier(mObjs[i].at, o.at)
  <2>1. PICK m \in Maps : path = m
    BY <1>1 DEF Placing, ModeInv, LoaderAtWork
  <2>2. Awaiting /\ lstate \in {"eLoadObjects", "eHackToPlaceAbeInValidCamera"}
    BY <1>1 DEF Placing, ModeInv, LoaderAtWork, Awaiting
  <2>3. CASE lstate = "eLoadObjects"
    <3>1. PlacingInv
      BY <2>2, <2>3 DEF PlacedInv
    <3> QED
      BY <2>1, <3>1, PlacingIsPrefix
  <2>4. CASE lstate = "eHackToPlaceAbeInValidCamera"
    <3>1. InOrder(Len(mObjs)) /\ FirstObjs(Len(mObjs)) = ObjectsOf(path)
      BY <2>2, <2>4 DEF PlacedInv, HackInv, PlacedAre
    <3> QED
      BY <3>1
  <2> QED
    BY <2>2, <2>3, <2>4
<1>2. ASSUME HasMap
      PROVE  LET n == Len(mObjs) IN
             /\ n > 0 /\ mObjs[n] = MadeOf(Abe, AbeScreen(path))
             /\ InOrder(n - 1) /\ FirstObjs(n - 1) = ObjectsOf(path)
  <2>1. MapHasAll
    BY <1>2 DEF HasMap, Loaded, PlacedInv
  <2>2. PICK n \in Nat : /\ Len(mObjs) = n + 1 /\ mObjs[n + 1] = MadeOf(Abe, AbeScreen(path))
                         /\ InOrder(n) /\ FirstObjs(n) = ObjectsOf(path)
    BY <2>1 DEF MapHasAll
  <2>3. n + 1 > 0 /\ (n + 1) - 1 = n
    OBVIOUS
  <2> QED
    BY <2>2, <2>3
<1> QED
  BY <1>1, <1>2 DEF AllObjects

\* However the loading is sliced into frames and whatever was loaded before: no
\* object before every screen, the objects in the order of the map, each of them
\* once and with all of its animations, and all of them and Abe when it is shown.
THEOREM MapIsWhole == Spec => []LoadsWholeMap
<1>1. WorldInit => ObjectInv /\ PlacedInv
  BY ObjectsInit
<1>2. Spec => [](ObjectInv /\ PlacedInv)
  BY <1>1, ObjectsStep, ModesRight, LoopsRight, PTL DEF Spec
<1>3. ModeInv /\ LoopInv /\ PlacedInv /\ AllScreens => LoadsWholeMap
  BY AllAreThere DEF LoadsWholeMap
<1> QED
  BY <1>2, <1>3, ModesRight, LoopsRight, ScreensComplete, PTL

-----------------------------------------------------------------------------
\* No frame uses a subject that is gone and no screen goes with its textures,
\* for any maps and any slicing.
THEOREM DanglesNever == Spec => []NothingDangles
<1>1. SubjectIsAlive /\ TexturesHaveScreens => NothingDangles
  BY DEF NothingDangles
<1> QED
  BY <1>1, SubjectLives, TexturesReleased, PTL

=============================================================================
