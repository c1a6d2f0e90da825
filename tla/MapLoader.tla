----------------------------- MODULE MapLoader -----------------------------
(***************************************************************************)
(* GridMap::Loader (src/gridmap.cpp), MapObject::Loader (mapobject.cpp)    *)
(* and the IterativeForLoops they are built from (iterativeforloop.hpp): a *)
(* map is loaded on the main thread, a few milliseconds in every frame.    *)
(*                                                                         *)
(* A time-boxed loop runs one or more iterations in a frame and nothing    *)
(* else changes the loader between two frames, so one action is one        *)
(* iteration: every way of slicing the work into frames is a run of these. *)
(***************************************************************************)
EXTENDS Integers, Sequences

CONSTANTS
  Maps,      \* names of maps that exist
  Size,      \* Size[m]: <<XSize, YSize>> of the path
  Objects,   \* Objects[m][c]: the types of the objects of camera c = <<x, y>>
  Blank,     \* Blank[m]: the cameras without a file name, so without texture
  Accepted,  \* the types object_factory makes an object of
  Anims,     \* Anims[t]: number of kAnimationResources of type t
  MaxLoads   \* bound: maps loaded, a map that is not there included

Abe == "abe"   \* the type of the player's object

Grid(m) == (0..(Size[m][1] - 1)) \X (0..(Size[m][2] - 1))

ASSUME MapAssumption ==
  /\ \A m \in Maps : /\ Size[m] \in (Nat \ {0}) \X (Nat \ {0})
                     /\ Blank[m] \subseteq Grid(m) /\ Blank[m] # Grid(m)
                     /\ Objects[m] \in [Grid(m) -> Seq(DOMAIN Anims)]
  /\ Abe \in DOMAIN Anims
  /\ \A t \in DOMAIN Anims : Anims[t] \in Nat
  /\ MaxLoads \in Nat \ {0}

VARIABLES
  path,       \* mPathBeingLoaded: a map, or "nullptr"
  lstate,     \* Loader::mState
  xLoop, yLoop, iLoop,
  mMapObjectBeingLoaded,   \* an object with its MapObject::Loader, or Nothing
  mScreens,   \* the cameras with a GridScreen, of those allocated
  textures,   \* the cameras whose GridScreen holds textures of the renderer
  mObjs,
  mCameraSubject,   \* the load that made the object it points to; 0: nullptr
  loads       \* history: how often a map was asked for, by the constructor first

loops      == <<xLoop, yLoop, iLoop>>
contents   == <<mScreens, textures, mObjs, mCameraSubject>>
loaderVars == <<path, lstate, loops, mMapObjectBeingLoaded, contents, loads>>

-----------------------------------------------------------------------------
(* IterativeForLoop *)

FreshLoop == [mCurrentIndex |-> 0, mEndRange |-> 0, mIsFirstIteration |-> TRUE]

LoopDone(l) == l.mCurrentIndex >= l.mEndRange

\* The call returns TRUE, and the loop is ready for another use.
Over(l) == ~l.mIsFirstIteration /\ LoopDone(l)

Entered(l, bound) ==
  IF l.mIsFirstIteration THEN [l EXCEPT !.mEndRange = bound, !.mIsFirstIteration = FALSE]
  ELSE l

Incremented(l) == [l EXCEPT !.mCurrentIndex = @ + 1]

LoopReset(l) == [l EXCEPT !.mCurrentIndex = 0, !.mIsFirstIteration = TRUE]

IsReset(l) == l.mCurrentIndex = 0 /\ l.mIsFirstIteration

-----------------------------------------------------------------------------
(* MapObject::Init *)

Nothing == [type |-> "nothing"]
NewObject(t, at) ==
  [type |-> t, at |-> at, mState |-> "eInit", mForLoop |-> FreshLoop, mAnims |-> {}]

\* One iteration of Init until eLoadSounds.
ObjectInitStep(o) ==
  IF o.mState = "eInit" THEN [o EXCEPT !.mState = "eLoadAnimations"]
  ELSE IF Anims[o.type] = 0 \/ Over(o.mForLoop)
  THEN [o EXCEPT !.mState = "eLoadSounds", !.mForLoop = LoopReset(@)]
  ELSE LET l == Entered(o.mForLoop, Anims[o.type])
       IN [o EXCEPT !.mForLoop = Incremented(l), !.mAnims = @ \cup {l.mCurrentIndex}]

\* In eLoadSounds Init only logs, and then returns TRUE.
ObjectReady == mMapObjectBeingLoaded # Nothing /\ mMapObjectBeingLoaded.mState = "eLoadSounds"
MapObjectOf(o) == [type |-> o.type, at |-> o.at, mAnims |-> o.mAnims]

InitObject ==
  /\ mMapObjectBeingLoaded # Nothing /\ ~ObjectReady
  /\ mMapObjectBeingLoaded' = ObjectInitStep(mMapObjectBeingLoaded)
  /\ UNCHANGED <<path, lstate, loops, contents, loads>>

-----------------------------------------------------------------------------
(* GridMap::Loader *)

LoaderInit ==
  /\ path = "nullptr" /\ lstate = "eInit"
  /\ xLoop = FreshLoop /\ yLoop = FreshLoop /\ iLoop = FreshLoop
  /\ mMapObjectBeingLoaded = Nothing
  /\ mScreens = {} /\ textures = {} /\ mObjs = <<>> /\ mCameraSubject = 0
  /\ loads = 1

Begin ==
  /\ lstate = "eInit"
  /\ lstate' = "eSetupAndConvertCollisionItems"
  /\ UNCHANGED <<loops, mMapObjectBeingLoaded, contents>>

SetupAndConvertCollisionItems ==
  /\ lstate = "eSetupAndConvertCollisionItems"
  /\ mObjs' = <<>>
  /\ lstate' = "eAllocateCameraMemory"
  /\ UNCHANGED <<path, loops, mMapObjectBeingLoaded, mScreens, textures, mCameraSubject, loads>>

\* mScreens is resized, with null pointers.
AllocateCameraMemory ==
  /\ lstate = "eAllocateCameraMemory"
  /\ lstate' = "eLoadCameras"
  /\ UNCHANGED <<path, loops, mMapObjectBeingLoaded, contents, loads>>

LoadCameras ==
  /\ lstate = "eLoadCameras"
  /\ \/ /\ Over(xLoop)
        /\ xLoop' = LoopReset(xLoop)
        /\ lstate' = "eObjectLoaderScripts"
        /\ UNCHANGED <<yLoop, mScreens>>
     \/ /\ ~Over(xLoop) /\ Over(yLoop)
        /\ yLoop' = LoopReset(yLoop)
        /\ xLoop' = Incremented(xLoop)
        /\ UNCHANGED <<lstate, mScreens>>
     \/ /\ ~Over(xLoop) /\ ~Over(yLoop)
        /\ xLoop' = Entered(xLoop, Size[path][1])
        /\ LET y == Entered(yLoop, Size[path][2])
           IN /\ yLoop' = Incremented(y)
              /\ mScreens' = mScreens \cup {<<xLoop'.mCurrentIndex, y.mCurrentIndex>>}
        /\ UNCHANGED lstate
  /\ UNCHANGED <<path, iLoop, mMapObjectBeingLoaded, textures, mObjs, mCameraSubject, loads>>

ObjectLoaderScripts ==
  /\ lstate = "eObjectLoaderScripts"
  /\ lstate' = "eLoadObjects"
  /\ UNCHANGED <<path, loops, mMapObjectBeingLoaded, contents, loads>>

\* The object being loaded is finished and appended.
LoadObjectsReady ==
  /\ lstate = "eLoadObjects" /\ ObjectReady
  /\ mObjs' = Append(mObjs, MapObjectOf(mMapObjectBeingLoaded))
  /\ mMapObjectBeingLoaded' = Nothing
  /\ UNCHANGED <<path, lstate, loops, mScreens, textures, mCameraSubject, loads>>

\* The next object of the current camera, if it has one and the script wants it.
LoadObject(x, y) ==
  LET types == Objects[path][<<x.mCurrentIndex, y.mCurrentIndex>>]
      i     == Entered(iLoop, Len(types))
      index == i.mCurrentIndex + 1
  IN /\ xLoop' = x /\ yLoop' = y
     /\ iLoop' = IF LoopDone(i) THEN i ELSE Incremented(i)
     /\ mMapObjectBeingLoaded' =
          IF ~LoopDone(i) /\ types[index] \in Accepted
          THEN NewObject(types[index], <<x.mCurrentIndex, y.mCurrentIndex, index>>)
          ELSE Nothing
     /\ UNCHANGED lstate

\* Mutant: the object that is still being initialised is dropped for the next.
LoadObjectsImpatient ==
  /\ lstate = "eLoadObjects"
  /\ \/ /\ Over(xLoop)
        /\ xLoop' = LoopReset(xLoop)
        /\ lstate' = "eHackToPlaceAbeInValidCamera"
        /\ UNCHANGED <<yLoop, iLoop, mMapObjectBeingLoaded>>
     \/ /\ ~Over(xLoop) /\ Over(yLoop)
        /\ yLoop' = LoopReset(yLoop) /\ xLoop' = Incremented(xLoop)
        /\ UNCHANGED <<lstate, iLoop, mMapObjectBeingLoaded>>
     \/ /\ ~Over(xLoop) /\ ~Over(yLoop) /\ Over(iLoop)
        /\ iLoop' = LoopReset(iLoop) /\ yLoop' = Incremented(yLoop)
        /\ UNCHANGED <<lstate, xLoop, mMapObjectBeingLoaded>>
     \/ /\ ~Over(xLoop) /\ ~Over(yLoop) /\ ~Over(iLoop)
        /\ LoadObject(Entered(xLoop, Size[path][1]), Entered(yLoop, Size[path][2]))
  /\ UNCHANGED <<path, contents, loads>>

LoadObjects ==
  /\ lstate = "eLoadObjects" /\ mMapObjectBeingLoaded = Nothing
  /\ \/ /\ Over(xLoop)
        /\ xLoop' = LoopReset(xLoop)
        /\ lstate' = "eHackToPlaceAbeInValidCamera"
        /\ UNCHANGED <<yLoop, iLoop, mMapObjectBeingLoaded>>
     \/ /\ ~Over(xLoop) /\ Over(yLoop)
        /\ yLoop' = LoopReset(yLoop) /\ xLoop' = Incremented(xLoop)
        /\ UNCHANGED <<lstate, iLoop, mMapObjectBeingLoaded>>
     \/ /\ ~Over(xLoop) /\ ~Over(yLoop) /\ Over(iLoop)
        /\ iLoop' = LoopReset(iLoop) /\ yLoop' = Incremented(yLoop)
        /\ UNCHANGED <<lstate, xLoop, mMapObjectBeingLoaded>>
     \/ /\ ~Over(xLoop) /\ ~Over(yLoop) /\ ~Over(iLoop)
        /\ LoadObject(Entered(xLoop, Size[path][1]), Entered(yLoop, Size[path][2]))
  /\ UNCHANGED <<path, contents, loads>>

\* The first screen, column by column, that has a texture.
Before(c, d) == c[1] < d[1] \/ (c[1] = d[1] /\ c[2] < d[2])
AbeScreen(m) ==
  CHOOSE c \in Grid(m) \ Blank[m] : \A d \in Grid(m) \ Blank[m] : d = c \/ Before(c, d)

HackPlaceAbe ==
  /\ lstate = "eHackToPlaceAbeInValidCamera" /\ mMapObjectBeingLoaded = Nothing
  /\ mMapObjectBeingLoaded' = NewObject(Abe, AbeScreen(path))
  /\ UNCHANGED <<path, lstate, loops, contents, loads>>

\* Mutant: the loader does not go back to where the next load begins.
HackAbeReadyStays ==
  /\ lstate = "eHackToPlaceAbeInValidCamera" /\ ObjectReady
  /\ mCameraSubject' = loads
  /\ mObjs' = Append(mObjs, MapObjectOf(mMapObjectBeingLoaded))
  /\ mMapObjectBeingLoaded' = Nothing
  /\ lstate' = "eSetupAndConvertCollisionItems"
  /\ UNCHANGED <<path, loops, mScreens, textures, loads>>

\* Mutant: the camera goes on following the object of the last map.
HackAbeReadyNoSubject ==
  /\ lstate = "eHackToPlaceAbeInValidCamera" /\ ObjectReady
  /\ mObjs' = Append(mObjs, MapObjectOf(mMapObjectBeingLoaded))
  /\ mMapObjectBeingLoaded' = Nothing
  /\ lstate' = "eInit"
  /\ UNCHANGED <<path, loops, mScreens, textures, mCameraSubject, loads>>

HackAbeReady ==
  /\ lstate = "eHackToPlaceAbeInValidCamera" /\ ObjectReady
  /\ mCameraSubject' = loads
  /\ mObjs' = Append(mObjs, MapObjectOf(mMapObjectBeingLoaded))
  /\ mMapObjectBeingLoaded' = Nothing
  /\ lstate' = "eInit"
  /\ UNCHANGED <<path, loops, mScreens, textures, loads>>

\* Load, until it returns TRUE with HackAbeReady.
LoadStep ==
  \/ SetupAndConvertCollisionItems
  \/ AllocateCameraMemory
  \/ LoadCameras
  \/ ObjectLoaderScripts
  \/ InitObject
  \/ LoadObjectsReady
  \/ LoadObjects
  \/ HackPlaceAbe

-----------------------------------------------------------------------------
(* GridMap::UnloadMap and the textures of the screens *)

UnloadMap ==
  /\ mScreens' = {} /\ mObjs' = <<>> /\ textures' = {}
  /\ UNCHANGED mCameraSubject

\* GridScreen::Render loads the textures of the screen it draws.
RenderScreen(c) ==
  /\ c \in mScreens \ textures
  /\ textures' = textures \cup {c}
  /\ UNCHANGED <<path, lstate, loops, mMapObjectBeingLoaded, mScreens, mObjs,
                 mCameraSubject, loads>>

-----------------------------------------------------------------------------
(* What loading a map has to produce *)

MadeOf(t, at) == [type |-> t, at |-> at, mAnims |-> 0..(Anims[t] - 1)]

\* Column by column, and in a camera in the order of its objects.
Earlier(a, b) ==
  a[1] < b[1] \/ (a[1] = b[1] /\ (a[2] < b[2] \/ (a[2] = b[2] /\ a[3] < b[3])))

ObjectsOf(m) ==
  UNION {{MadeOf(Objects[m][c][i], <<c[1], c[2], i>>) :
            i \in {k \in DOMAIN Objects[m][c] : Objects[m][c][k] \in Accepted}} : c \in Grid(m)}

\* The first n objects of the map that there is.
FirstObjs(n) == {mObjs[i] : i \in 1..n}
InOrder(n) == \A i, j \in 1..n : i < j => Earlier(mObjs[i].at, mObjs[j].at)
=============================================================================
