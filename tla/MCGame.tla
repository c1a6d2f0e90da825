------------------------------- MODULE MCGame -------------------------------
(* The parts of the program whose progress is checked, which share no state  *)
(* in the modules: the engine until it runs a game, the world that loads the *)
(* game's maps, a movie, and Abe.  One of them moves in a behaviour; the     *)
(* engine has quit and the world is destroyed when they are not the one.     *)
EXTENDS MCEngine, MCAbe, MCFmv, MCWorld

VARIABLE part

gameVars == <<engineVars, abeVars, fmvVars, vars, part>>

GameInit ==
  /\ part \in {"engine", "abe", "movie", "world"}
  /\ AbeInit /\ FmvInit
  /\ IF part = "engine" THEN EngineInit
     ELSE /\ SelectionInit /\ saved = <<>> /\ selected = "pc"
          /\ engineState = "eQuit" /\ initJob = "none" /\ runs = MaxRuns
  /\ IF part = "world" THEN WorldInit
     ELSE /\ LoaderInit
          /\ mState = "destroyed" /\ mReturnToState = "eNone" /\ gameMode = "eRunning"
          /\ future = "none" /\ requested = m1 /\ iconEnabled = FALSE /\ soundLoading = FALSE

\* The program is not started again; Abe has fallen out of the map.
Ended ==
  /\ \/ part = "engine" /\ engineState = "eQuit" /\ runs = MaxRuns
     \/ part = "abe" /\ ~running /\ body.y > MaxDepth
  /\ UNCHANGED gameVars

GameNext ==
  \/ part = "engine" /\ EngineNext /\ UNCHANGED <<abeVars, fmvVars, vars, part>>
  \/ part = "abe" /\ AbeNext /\ UNCHANGED <<engineVars, fmvVars, vars, part>>
  \/ part = "movie" /\ FmvNext /\ UNCHANGED <<engineVars, abeVars, vars, part>>
  \/ part = "world" /\ Next /\ UNCHANGED <<engineVars, abeVars, fmvVars, part>>
  \/ Ended

\* The fairness of the modules, for the part that moves.
GameFairness ==
  /\ WF_engineVars(part = "engine" /\ StartUpFrame)
  /\ WF_engineVars(part = "engine" /\ WorkerTakesJob)
  /\ WF_engineVars(part = "engine" /\ InitResources)
  /\ WF_abeVars(part = "abe" /\ AbeNext)
  /\ WF_fmvVars(part = "movie" /\ UpdateSteps)
  /\ SF_fmvVars(part = "movie" /\ Render)
  /\ WF_fmvVars(part = "movie" /\ AudioSteps)
  /\ WF_vars(part = "world" /\ LoadingFrames)
  /\ WF_vars(part = "world" /\ FrameFmvEnds)
  /\ WF_vars(part = "world" /\ PathLocated)
  /\ WF_vars(part = "world" /\ SoundsLoaded)

GameSpec == GameInit /\ [][GameNext]_gameVars /\ GameFairness
=============================================================================
