----------------------------- MODULE JobTracker -----------------------------
(***************************************************************************)
(* JobTracker (include/jobsystem.hpp, src/jobsystem.cpp) on top of the     *)
(* job queue: every job is wrapped in a TrackedJobWrapper and kept in      *)
(* mOutstandingJobs from before it is added until its OnFinished.  The     *)
(* owner polls OutstandingJobCount to learn that everything it started,    *)
(* and everything that in turn started, is over (SoundCache::IsBusy), and  *)
(* may cancel what is outstanding.                                         *)
(*                                                                         *)
(* mOutstandingJobs is a std::set without a lock, so an access has a       *)
(* beginning and an end, and an update that overlaps another access may be *)
(* lost.  With Serialized the accesses are kept apart, which shows what    *)
(* the protocol gives when the set itself is not corrupted.                *)
(***************************************************************************)
EXTENDS AsyncQueue

CONSTANT Serialized  \* TRUE: no two accesses of the set ever overlap

ASSUME TrackerAssumption == Serialized \in BOOLEAN

VARIABLES
  mOutstandingJobs,  \* the wrappers not finished yet
  mCancel,           \* the cancel flag of every wrapper
  access,            \* what each thread is doing to mOutstandingJobs
  tracking           \* the job a thread's JobTracker::StartJob is about

trackerVars == <<mOutstandingJobs, mCancel, access, tracking>>
allVars     == <<vars, trackerVars>>

TrackerInit ==
  /\ Init
  /\ mOutstandingJobs = {}
  /\ mCancel = [j \in Jobs |-> FALSE]
  /\ access = [t \in Threads |-> "none"]
  /\ tracking = [t \in Threads |-> None]

Touching(t) == access[t] \in {"insert", "erase", "scan"}
Writing(t)  == access[t] \in {"insert", "erase"}

IsCancelled(j) == mStopWork \/ mCancel[j]
IsBusy         == mOutstandingJobs # {}

Begin(t, how) ==
  /\ access[t] = "none"
  /\ Serialized => \A u \in Threads : ~Touching(u)
  /\ access' = [access EXCEPT ![t] = how]

\* An update takes effect; if another access overlaps it, it may also be lost.
Commit(t, new) ==
  \/ mOutstandingJobs' = new
  \/ /\ \E u \in Threads \ {t} : Touching(u)
     /\ UNCHANGED mOutstandingJobs

-----------------------------------------------------------------------------
(* JobTracker::StartJob: insert the wrapper, then hand it to the queue.    *)

StartBegin(t, j) ==
  /\ j \notin given
  /\ \A u \in Threads : tracking[u] # j
  /\ Begin(t, "insert")
  /\ tracking' = [tracking EXCEPT ![t] = j]
  /\ UNCHANGED <<vars, mOutstandingJobs, mCancel>>

OwnerStart(j) ==
  /\ pc[Main] = "client"
  /\ \A k \in Jobs : j \notin Spawns[k]
  /\ StartBegin(Main, j)

\* CacheAllSoundEffectsImp tests its cancel flag before each job it starts.
JobStart(w) ==
  /\ pc[w] = "execute"
  /\ ~IsCancelled(item[w])
  /\ \E j \in Spawns[item[w]] : StartBegin(w, j)

StartInserted(t) ==
  /\ access[t] = "insert"
  /\ Commit(t, mOutstandingJobs \cup {tracking[t]})
  /\ access' = [access EXCEPT ![t] = "add"]
  /\ UNCHANGED <<vars, mCancel, tracking>>

StartAdd(t) ==
  /\ access[t] = "add"
  /\ AddCheck(t, tracking[t])
  /\ access' = [access EXCEPT ![t] = "none"]
  /\ tracking' = [tracking EXCEPT ![t] = None]
  /\ UNCHANGED <<mOutstandingJobs, mCancel>>

-----------------------------------------------------------------------------
(* TrackedJobWrapper::OnFinished: erase the wrapper, then the job's own    *)
(* OnFinished.  Always on the main thread, inside Update.                  *)

FinishBegin ==
  /\ pc[Main] = "notify"
  /\ Begin(Main, "erase")
  /\ UNCHANGED <<vars, mOutstandingJobs, mCancel, tracking>>

\* Mutant: the wrapper calls the job's OnFinished and does not erase itself.
FinishNotErased ==
  /\ access[Main] = "erase"
  /\ access' = [access EXCEPT ![Main] = "none"]
  /\ UpdateNotify
  /\ UNCHANGED <<mOutstandingJobs, mCancel, tracking>>

FinishErased ==
  /\ access[Main] = "erase"
  /\ Commit(Main, mOutstandingJobs \ {Head(completed)})
  /\ access' = [access EXCEPT ![Main] = "none"]
  /\ UpdateNotify
  /\ UNCHANGED <<mCancel, tracking>>

-----------------------------------------------------------------------------
(* CancelOutstandingJobs and OutstandingJobCount, on the main thread.      *)

ScanBegin ==
  /\ pc[Main] = "client"
  /\ Begin(Main, "scan")
  /\ UNCHANGED <<vars, mOutstandingJobs, mCancel, tracking>>

\* Mutant: cancelled jobs are forgotten.
CancelAndForget ==
  /\ access[Main] = "scan"
  /\ mCancel' = [j \in Jobs |-> mCancel[j] \/ j \in mOutstandingJobs]
  /\ mOutstandingJobs' = {}
  /\ access' = [access EXCEPT ![Main] = "none"]
  /\ UNCHANGED <<vars, tracking>>

CancelOutstandingJobs ==
  /\ access[Main] = "scan"
  /\ mCancel' = [j \in Jobs |-> mCancel[j] \/ j \in mOutstandingJobs]
  /\ access' = [access EXCEPT ![Main] = "none"]
  /\ UNCHANGED <<vars, mOutstandingJobs, tracking>>

OutstandingJobCount ==
  /\ access[Main] = "scan"
  /\ access' = [access EXCEPT ![Main] = "none"]
  /\ UNCHANGED <<vars, mOutstandingJobs, mCancel, tracking>>

-----------------------------------------------------------------------------
\* A job body does not return, and the main thread makes no other call, in
\* the middle of a call of the tracker.
Quiet(t) == access[t] = "none" /\ UNCHANGED trackerVars

QueueStep ==
  \/ Quiet(Main) /\ ( \/ StartLock \/ StartWait \/ StopStep \/ AddStep(Main)
                      \/ UpdateTake
                      \/ "Stop" \in Calls /\ StopCall )
  \/ \E w \in Workers :
       Quiet(w) /\ ( WorkerStep(w) \/ WorkerSpuriousWakeup(w) \/ AddStep(w) )

TrackerStep ==
  \/ \E t \in Threads : StartInserted(t) \/ StartAdd(t)
  \/ FinishBegin \/ FinishErased
  \/ CancelOutstandingJobs

TrackerNext ==
  \/ QueueStep
  \/ TrackerStep
  \/ \E j \in Jobs : OwnerStart(j)
  \/ \E w \in Workers : JobStart(w)
  \/ ScanBegin
  \/ OutstandingJobCount

TrackerSpec == TrackerInit /\ [][TrackerNext]_allVars

\* What a thread does to get out of where it is.
OwnerGoesOn ==
  \/ Quiet(Main) /\ (StartLock \/ StartWait \/ StopStep \/ AddStep(Main))
  \/ StartInserted(Main) \/ StartAdd(Main)
  \/ FinishBegin \/ FinishErased
  \/ CancelOutstandingJobs \/ OutstandingJobCount

WorkerGoesOn(w) ==
  \/ Quiet(w) /\ (WorkerStep(w) \/ AddStep(w))
  \/ StartInserted(w) \/ StartAdd(w)

\* As for the queue: threads run, a mutex that is free again and again is got
\* by each thread that wants it, jobs return, and Update is called in every
\* frame.  Nothing makes the owner start, scan or stop.
TrackerFairness ==
  /\ SF_allVars(OwnerGoesOn)
  /\ SF_allVars(Quiet(Main) /\ UpdateTake)
  /\ \A w \in Workers : SF_allVars(WorkerGoesOn(w))

FairTrackerSpec == TrackerSpec /\ TrackerFairness

-----------------------------------------------------------------------------
\* OutstandingCoversWork: a job that waits to be added, is queued, is being
\* executed or waits for its notification is outstanding, so IsBusy cannot
\* turn FALSE while work is left: a job that starts further jobs stays
\* outstanding itself until it has started them all.
OutstandingCoversWork ==
  (InFlight \cup Taken \cup Members(mWorkQueue) \cup Members(mCompletedWork)
     \cup Members(completed)) \subseteq mOutstandingJobs

\* NotBusyMeansDone: once the owner has started a job and the tracker reports
\* it is not busy, every job started so far was notified; none was dropped.
NotBusyMeansDone ==
  ~IsBusy => given \subseteq Members(notified)

\* NotBusyIsStable: from not busy to busy only through the owner's own call,
\* never because a job still at work started another one (Sound::Update
\* unloads a theme as soon as it has once seen IsBusy return FALSE).
NotBusyIsStable ==
  [][~IsBusy /\ IsBusy' => access[Main] = "insert"]_allVars

\* BusyEnds: unless the queue is stopped, IsBusy becomes FALSE; without it the
\* Sound state machine waits in a loading or cancelling state for ever.
BusyEnds == IsBusy ~> (~IsBusy \/ mQuit)

\* SoundCache, whose jobs start jobs through its tracker, is commented
\* "Thread safe" (soundcache.hpp): no access of the set overlaps an update.
NoConcurrentAccess ==
  \A t, u \in Threads : t # u /\ Touching(t) => ~Writing(u)
=============================================================================
