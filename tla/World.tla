------------------------------- MODULE World -------------------------------
(***************************************************************************)
(* World (src/world.cpp) with its game and editor modes: what the engine   *)
(* runs once a game is selected.  A map is asked for from the debug user   *)
(* interface, located by another thread, loaded by MapLoader and followed  *)
(* by the sounds of its theme; movies, the pause, the editor and the end   *)
(* of the program come in between.                                         *)
(*                                                                         *)
(* Sound is reduced to IsLoading; that its loading ends is LoadingEnds of  *)
(* module Sound.  A movie is reduced to PlayFmvState::Update returning     *)
(* FALSE at last.                                                          *)
(***************************************************************************)
EXTENDS MapLoader, FiniteSets

CONSTANT Missing   \* names of maps whose LVL is not found

ASSUME WorldAssumption == Missing \cap Maps = {} /\ "nullptr" \notin Maps \cup Missing

VARIABLES
  mState, mReturnToState,
  gameMode,            \* GameMode::mState; eMenu is never entered
  future, requested,   \* mLocatePathFuture: none, busy or ready, and its map
  iconEnabled,         \* LoadingIcon::mEnabled
  soundLoading         \* Sound::IsLoading()

worldVars == <<mState, mReturnToState, gameMode, future, requested, iconEnabled, soundLoading>>
vars == <<loaderVars, worldVars>>

Shown == {"eInGame", "eToEditor", "eInEditor", "eToGame"}

\* The constructor has called LoadMap.
WorldInit ==
  /\ LoaderInit
  /\ mState = "eLoadingMap" /\ mReturnToState = "eNone"
  /\ gameMode = "eRunning"
  /\ future = "busy" /\ requested \in Maps \cup Missing
  /\ iconEnabled = TRUE
  /\ soundLoading \in BOOLEAN

-----------------------------------------------------------------------------
(* Debugging().Update, at the start of a frame of the shown world *)

DebugUi == mState \in Shown /\ ~(mState = "eInGame" /\ gameMode = "ePaused")

\* World::LoadMap: no other mode of the world is updated in this frame.
LoadMap(name) ==
  /\ DebugUi /\ loads < MaxLoads
  /\ loads' = loads + 1
  /\ UnloadMap
  /\ future' = "busy" /\ requested' = name
  /\ iconEnabled' = TRUE
  /\ UNCHANGED <<path, lstate, loops, mMapObjectBeingLoaded, gameMode, soundLoading>>

FrameLoadMap(name) ==
  /\ LoadMap(name)
  /\ mState' = "eLoadingMap"
  /\ UNCHANGED mReturnToState

FramePlayFmv ==
  /\ DebugUi
  /\ mReturnToState' = mState
  /\ mState' = "ePlayFmv"
  /\ UNCHANGED <<loaderVars, gameMode, future, requested, iconEnabled, soundLoading>>

\* The controller's guide button and a click on a movie in one frame.
FrameLoadMapAndPlayFmv(name) ==
  /\ LoadMap(name)
  /\ mReturnToState' = "eLoadingMap"
  /\ mState' = "ePlayFmv"

-----------------------------------------------------------------------------
(* The rest of World::Update *)

Toggled(mode) == IF mode = "eRunning" THEN "ePaused" ELSE "eRunning"

\* GameMode::Update: Escape, then E.
FrameGame(escape, e) ==
  /\ mState = "eInGame"
  /\ gameMode' = IF escape THEN Toggled(gameMode) ELSE gameMode
  /\ mState' = IF e /\ gameMode' # "ePaused" THEN "eToEditor" ELSE mState
  /\ UNCHANGED <<loaderVars, mReturnToState, future, requested, iconEnabled, soundLoading>>

\* EditorMode::Update: E, or Exit of the File menu.
FrameEditor(next) ==
  /\ mState = "eInEditor"
  /\ mState' = next
  /\ UNCHANGED <<loaderVars, mReturnToState, gameMode, future, requested, iconEnabled,
                 soundLoading>>

\* mModeSwitchTimeout has passed.
FrameSwitched ==
  /\ \/ mState = "eToEditor" /\ mState' = "eInEditor"
     \/ mState = "eToGame" /\ mState' = "eInGame"
  /\ UNCHANGED <<loaderVars, mReturnToState, gameMode, future, requested, iconEnabled,
                 soundLoading>>

FrameFmvEnds ==
  /\ mState = "ePlayFmv"
  /\ mState' = mReturnToState
  /\ UNCHANGED <<loaderVars, mReturnToState, gameMode, future, requested, iconEnabled,
                 soundLoading>>

\* The path has been located: this frame takes the loader's first step.
FramePathFound ==
  /\ mState = "eLoadingMap" /\ future = "ready" /\ requested \in Maps
  /\ path' = requested /\ future' = "none"
  /\ Begin
  /\ UNCHANGED <<loads, mState, mReturnToState, gameMode, requested, iconEnabled, soundLoading>>

FramePathMissing ==
  /\ mState = "eLoadingMap" /\ future = "ready" /\ requested \notin Maps
  /\ path' = "nullptr" /\ future' = "none"
  /\ mState' = "eInGame"
  /\ iconEnabled' = FALSE
  /\ UNCHANGED <<lstate, loops, mMapObjectBeingLoaded, contents, loads,
                 mReturnToState, gameMode, requested, soundLoading>>

FrameLoading ==
  /\ mState = "eLoadingMap" /\ future = "none" /\ path # "nullptr"
  /\ LoadStep
  /\ UNCHANGED worldVars

\* Load has returned TRUE: Sound::SetMusicTheme.
FrameLoaded ==
  /\ mState = "eLoadingMap" /\ future = "none" /\ path # "nullptr"
  /\ HackAbeReady
  /\ mState' = "eSoundsLoading"
  /\ soundLoading' = TRUE
  /\ UNCHANGED <<mReturnToState, gameMode, future, requested, iconEnabled>>

FrameSoundsLoaded ==
  /\ mState = "eSoundsLoading" /\ ~soundLoading
  /\ mState' = "eInGame"
  /\ iconEnabled' = FALSE
  /\ UNCHANGED <<loaderVars, mReturnToState, gameMode, future, requested, soundLoading>>

-----------------------------------------------------------------------------
(* Render, other threads and the end *)

FrameRender ==
  /\ mState \in Shown
  /\ \E c \in mScreens : c \notin Blank[path] /\ RenderScreen(c)
  /\ UNCHANGED worldVars

\* ResourceLocator::LocatePath, by another thread.
PathLocated ==
  /\ future = "busy"
  /\ future' = "ready"
  /\ UNCHANGED <<loaderVars, mState, mReturnToState, gameMode, requested, iconEnabled,
                 soundLoading>>

\* Sound::Update has come back to eIdle.
SoundsLoaded ==
  /\ soundLoading
  /\ soundLoading' = FALSE
  /\ UNCHANGED <<loaderVars, mState, mReturnToState, gameMode, future, requested, iconEnabled>>

\* World::~World, after eQuit or an SDL_QUIT; a future waits for its thread.
Destroy ==
  /\ mState # "destroyed" /\ future # "busy"
  /\ UnloadMap
  /\ mState' = "destroyed"
  /\ UNCHANGED <<path, lstate, loops, mMapObjectBeingLoaded, loads, mReturnToState, gameMode,
                 future, requested, iconEnabled, soundLoading>>

Destroyed == mState = "destroyed" /\ UNCHANGED vars

LoadingFrames ==
  \/ FramePathFound
  \/ FramePathMissing
  \/ FrameLoading
  \/ FrameLoaded
  \/ FrameSoundsLoaded

Next ==
  \/ LoadingFrames
  \/ \E name \in Maps \cup Missing : FrameLoadMap(name) \/ FrameLoadMapAndPlayFmv(name)
  \/ FramePlayFmv
  \/ FrameFmvEnds
  \/ \E escape, e \in BOOLEAN : FrameGame(escape, e)
  \/ \E next \in {"eToGame", "eQuit"} : FrameEditor(next)
  \/ FrameSwitched
  \/ FrameRender
  \/ PathLocated
  \/ SoundsLoaded
  \/ Destroy
  \/ Destroyed

Spec == WorldInit /\ [][Next]_vars

\* The engine goes on calling Update; the thread that locates a path, the
\* loading of sounds and a movie end.
WorldFairness ==
  /\ WF_vars(LoadingFrames) /\ WF_vars(FrameFmvEnds)
  /\ WF_vars(PathLocated) /\ WF_vars(SoundsLoaded)

FairSpec == Spec /\ WorldFairness

-----------------------------------------------------------------------------
(* Properties *)

LoaderStates ==
  {"eInit", "eSetupAndConvertCollisionItems", "eAllocateCameraMemory", "eLoadCameras",
   "eObjectLoaderScripts", "eLoadObjects", "eHackToPlaceAbeInValidCamera"}

\* Types; between two loads the loader is in eInit with all of its loops reset
\* and nothing left over, as the next load needs it.
WorldTypeOK ==
  /\ mState \in Shown \cup {"eLoadingMap", "eSoundsLoading", "ePlayFmv", "eQuit", "destroyed"}
  /\ mState = "ePlayFmv" => mReturnToState \in Shown \cup {"eLoadingMap"}
  /\ gameMode \in {"eRunning", "ePaused"}
  /\ future \in {"none", "busy", "ready"} /\ requested \in Maps \cup Missing
  /\ path \in Maps \cup {"nullptr"} /\ lstate \in LoaderStates
  /\ iconEnabled \in BOOLEAN /\ soundLoading \in BOOLEAN
  /\ loads \in 0..MaxLoads /\ mCameraSubject \in 0..loads
  /\ lstate \notin {"eLoadCameras", "eLoadObjects"} =>
       IsReset(xLoop) /\ IsReset(yLoop) /\ IsReset(iLoop)
  /\ mMapObjectBeingLoaded # Nothing =>
       lstate \in {"eLoadObjects", "eHackToPlaceAbeInValidCamera"}

Loading ==
  \/ mState \in {"eLoadingMap", "eSoundsLoading"}
  \/ mState = "ePlayFmv" /\ mReturnToState = "eLoadingMap"

Placing == lstate \in {"eLoadObjects", "eHackToPlaceAbeInValidCamera"} /\ mState # "destroyed"
HasMap  == mState \in Shown \cup {"eSoundsLoading"} /\ path # "nullptr"

AllScreens == Placing \/ HasMap => mScreens = Grid(path)

\* A beginning of the objects of the map, then all of them and Abe.
AllObjects ==
  LET n == Len(mObjs) IN
  /\ Placing =>
       /\ InOrder(n) /\ FirstObjs(n) \subseteq ObjectsOf(path)
       /\ \A o \in ObjectsOf(path) \ FirstObjs(n) : \A i \in 1..n : Earlier(mObjs[i].at, o.at)
  /\ HasMap =>
       /\ n > 0 /\ mObjs[n] = MadeOf(Abe, AbeScreen(path))
       /\ InOrder(n - 1) /\ FirstObjs(n - 1) = ObjectsOf(path)

\* However the work is sliced into frames, and whatever was loaded before, no
\* object is loaded before every screen is there (the loader uses the screens
\* unchecked), the objects come in order, each of them once and with all of its
\* animations, and a map that is shown is all there (GridMap::Loader::Load).
LoadsWholeMap == AllScreens /\ AllObjects

\* The loading icon is shown exactly while a map and its sounds are loading,
\* whether or not the map is found and a movie comes in between.
IconShowsLoading == mState # "destroyed" => (iconEnabled <=> Loading)

\* A frame of the game or the editor that uses mCameraSubject finds it alive,
\* unless the last map was not found.
SubjectIsAlive ==
  mState \in Shown /\ path # "nullptr" => mCameraSubject = loads

\* gridmap.cpp, "assert(mCameraTexture.IsValid() == false)": a screen that is
\* destroyed, by the next map or with the world, has had its textures released.
TexturesHaveScreens == textures \subseteq mScreens

\* Neither does a frame use an object that is gone, nor a screen go that is in use.
NothingDangles == SubjectIsAlive /\ TexturesHaveScreens

\* Every load ends in the game, with the map or without it, movies or not.
LoadingEnds == Loading ~> mState \in {"eInGame", "destroyed"}
=============================================================================
