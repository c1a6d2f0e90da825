------------------------------- MODULE Engine -------------------------------
(***************************************************************************)
(* Engine (src/engine.cpp): its states, the job that loads the game        *)
(* definitions and the data paths on the worker of the job system, and the *)
(* frames of the main thread, which poll the events, deliver a finished    *)
(* job and update the game selection or the world.                         *)
(*                                                                         *)
(* The world is reduced to what its Update returns (module World is its    *)
(* model), the queue of the jobs to one job (module AsyncQueue).           *)
(***************************************************************************)
EXTENDS GameSelection

CONSTANT MaxRuns   \* how often the program is started

VARIABLES
  engineState,     \* Engine::mState
  initJob,         \* the EngineJob: none, queued, running, executed, delivered
  runs

engineVars == <<selectionVars, engineState, initJob, runs>>

EngineInit ==
  /\ SelectionInit
  /\ engineState = "ePreEngineInit" /\ initJob = "none" /\ runs = 1

-----------------------------------------------------------------------------
(* The worker *)

WorkerTakesJob ==
  /\ initJob = "queued" /\ initJob' = "running"
  /\ UNCHANGED <<selectionVars, engineState, runs>>

InitResources ==
  /\ initJob = "running" /\ initJob' = "executed"
  /\ mRequiredDataSetsOf' \in Graphs
  /\ mPaths' = PathsFrom(saved)
  /\ UNCHANGED <<saved, selState, selected, requiredVars, activeVars, engineState, runs>>

-----------------------------------------------------------------------------
(* Engine::Update, once per turn of the loop of Run *)

\* Mutant: the state is set by the frame that waits for the job only.
StateToUpdateUndelivered(quit) ==
  IF initJob = "executed" /\ engineState = "ePreEngineInit" THEN "eSelectGame"
  ELSE IF quit THEN "eQuit" ELSE engineState

\* What the events leave, then what OnJobFinished makes of it.
StateToUpdate(quit) ==
  IF initJob = "executed" THEN "eSelectGame"
  ELSE IF quit THEN "eQuit" ELSE engineState

Frame(quit, state) ==
  /\ engineState # "eQuit"
  /\ StateToUpdate(quit) = state
  /\ initJob' = IF initJob = "executed" THEN "delivered"
                ELSE IF state = "ePreEngineInit" THEN "queued" ELSE initJob
  /\ UNCHANGED runs

FramePreInit ==
  /\ Frame(FALSE, "ePreEngineInit")
  /\ engineState' = "eEngineInit"
  /\ UNCHANGED selectionVars

FrameIdle(quit, state) ==
  /\ state \in {"eEngineInit", "eQuit"}
  /\ Frame(quit, state)
  /\ engineState' = state
  /\ UNCHANGED selectionVars

FrameSelect(quit) ==
  /\ Frame(quit, "eSelectGame")
  /\ \/ engineState' = "eSelectGame"
        /\ \/ UNCHANGED selectionVars
           \/ \E g \in Visible : SelectGame(g)
           \/ StartLacking
           \/ StartFinds
           \/ \E n \in Names, d \in Dirs : GivePath(n, d)
           \/ Back
     \/ engineState' = "eRunSelectedGame" /\ StartRuns
     \/ engineState' = "eQuit" /\ selState = "eSelectGame" /\ UNCHANGED selectionVars

FrameWorld ==
  /\ Frame(FALSE, "eRunSelectedGame")
  /\ engineState' \in {"eRunSelectedGame", "eQuit"}
  /\ UNCHANGED selectionVars

FrameStep(quit) ==
  \/ FramePreInit \/ FrameSelect(quit) \/ FrameWorld
  \/ \E state \in {"eEngineInit", "eQuit"} : FrameIdle(quit, state)

\* The program ends and is started again: only DataSets.json is left.
Restart ==
  /\ engineState = "eQuit" /\ runs < MaxRuns
  /\ runs' = runs + 1
  /\ engineState' = "ePreEngineInit" /\ initJob' = "none"
  /\ mRequiredDataSetsOf' = [g \in Games |-> <<>>] /\ mPaths' = [id \in {} |-> None]
  /\ selState' = "eSelectGame" /\ selected' \in Visible
  /\ mRequiredDataSets' = <<>> /\ mRequiredDataSetNames' = {} /\ mMissingDataPaths' = {}
  /\ mActiveDataPaths' = <<>> /\ unopened' = 0
  /\ UNCHANGED saved

EngineNext ==
  \/ WorkerTakesJob \/ InitResources
  \/ \E quit \in BOOLEAN : FrameStep(quit)
  \/ Restart

\* A frame that has something to do of its own, without events or clicks.
StartUpFrame == initJob \in {"none", "executed"} /\ FrameStep(FALSE)

\* The loop goes on without events, and the worker runs what is queued.
EngineFairness ==
  /\ WF_engineVars(StartUpFrame)
  /\ WF_engineVars(WorkerTakesJob) /\ WF_engineVars(InitResources)

EngineSpec == EngineInit /\ [][EngineNext]_engineVars
FairEngineSpec == EngineSpec /\ EngineFairness

-----------------------------------------------------------------------------
(* Properties *)

\* What the selected game needs, by any chain of definitions.
Needs(n) == Range(mRequiredDataSetsOf[n])
Needed ==
  {n \in Names : \A S \in SUBSET Names :
     (selected \in S /\ \A m \in S \cap Games : Needs(m) \subseteq S) => n \in S}

\* order visits a data set before those it needs, and all of those before
\* whatever comes after them: the order of a depth first walk.
IsDepthFirst(order) ==
  /\ \A i, j \in DOMAIN order : order[i] = order[j] => i = j
  /\ \A a, b, c \in DOMAIN order :
       (a < b /\ b < c /\ order[c] \in Needs(order[a]) /\ order[b] \notin Needs(order[a]))
         => \E d \in a + 1 .. b - 1 : order[b] \in Needs(order[d])

\* Every data set asked for with its directory, but those without files.
WholePaths ==
  [i \in {j \in DOMAIN mRequiredDataSets : mRequiredDataSets[j] \notin Meta \ Mods} |->
     LET n == mRequiredDataSets[i] IN <<n, IF n \in Mods THEN n ELSE mPaths[n]>>]

(* A game is run with the directory of every data set it needs, in the order *)
(* GetDependencies promises (gamedefinition.hpp:368), itself first, whatever *)
(* was started, given and taken back before: when every definition is there, *)
(* and up to the first whose file system can no longer be opened.            *)
RunsWholeGame ==
  (engineState = "eRunSelectedGame" /\ \A g \in Games : Needs(g) \subseteq Games) =>
    /\ Range(mRequiredDataSets) = Needed
    /\ mRequiredDataSets[1] = selected
    /\ IsDepthFirst(mRequiredDataSets)
    /\ mActiveDataPaths = UntilFails(WholePaths, unopened)

(* The directory kept for a data set is one that is identified as it, also   *)
(* when the user gave a directory below it, and what is written to           *)
(* DataSets.json is enough to find all of them when the program starts again *)
(* (DataPaths::Add, Identify and Persist).                                   *)
PathsSurviveRestart ==
  /\ \A id \in DOMAIN mPaths : Identified(mPaths[id]) = id
  /\ PathsFrom(Persisted(mPaths)) = mPaths

(* The engine leaves its initialisation: the worker's job is delivered and   *)
(* the game selection is updated, or the user has quit (Engine::Update).       *)
EngineStarts == engineState = "ePreEngineInit" ~> engineState \in {"eSelectGame", "eRunSelectedGame", "eQuit"}

=============================================================================
