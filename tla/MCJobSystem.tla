----------------------------- MODULE MCJobSystem -----------------------------
(* The queue for TLC, used directly and through a JobTracker.  In a behaviour *)
(* its owner uses it in one of the two ways; without a tracker the owner may  *)
(* also pause the queue, which nothing in the program does to a tracked one.  *)
EXTENDS JobTracker, TLC

CONSTANTS j1, j2, j3, w1, w2

\* j1 is a CacheAllSoundEffectsJob that starts j2; j3 is a job of its own.
OneSpawns == [j \in Jobs |-> IF j = j1 THEN {j2} ELSE {}]

VARIABLE tracked

systemVars == <<allVars, tracked>>

Untracked(A) == ~tracked /\ A /\ UNCHANGED <<trackerVars, tracked>>
Tracked(A)   == tracked /\ A /\ UNCHANGED tracked

SystemInit == TrackerInit /\ tracked \in BOOLEAN

\* Bound: the owner of a tracker does not stop the queue.  What Stop does to
\* the queue is seen without a tracker, and BusyEnds asks nothing after a Stop.
NotStopped == pc'[Main] # "stopLock"

SystemNext ==
  \/ Tracked(TrackerNext /\ NotStopped)
  \/ Untracked(Next)

\* The fairness of AsyncQueue and of JobTracker.
SystemFairness ==
  /\ SF_systemVars(Untracked(MainGoesOn) \/ Tracked(OwnerGoesOn))
  /\ SF_systemVars(Untracked(UpdateTake) \/ Tracked(Quiet(Main) /\ UpdateTake))
  /\ \A w \in Workers :
       SF_systemVars(Untracked(WorkerStep(w) \/ AddStep(w)) \/ Tracked(WorkerGoesOn(w)))

FairSystemSpec == SystemInit /\ [][SystemNext]_systemVars /\ SystemFairness

\* While a tracker is used it knows of all work in progress: OutstandingCoversWork
\* of JobTracker, in the behaviours that have one.
TrackedWorkIsOutstanding == tracked => OutstandingCoversWork
=============================================================================
