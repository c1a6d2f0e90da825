----------------------------- MODULE AsyncQueue -----------------------------
(***************************************************************************)
(* ASyncQueue (include/asyncqueue.hpp), the queue behind JobSystem: one    *)
(* main thread that adds jobs, pauses, stops and delivers notifications,   *)
(* and a pool of worker threads.  A job's OnExecute runs on a worker and   *)
(* may itself add jobs (CacheAllSoundEffectsJob does); OnFinished runs on  *)
(* the main thread inside Update.                                          *)
(*                                                                         *)
(* A critical section of mQueueMutex in which nothing else can be observed *)
(* (push_back, clear, empty) is one step that needs the mutex free.  The   *)
(* worker's own critical section is several steps, because mQuit is        *)
(* written without that mutex.  mCompletedWorkMutex protects single moves  *)
(* only, so it needs no variable.                                          *)
(***************************************************************************)
EXTENDS Integers, Sequences, FiniteSets

CONSTANTS Jobs,      \* job objects, each handed to Add at most once
          Workers,   \* the worker threads Start creates
          Main,      \* the thread that owns the queue
          None,      \* no thread, no job
          Spawns,    \* Spawns[j]: the jobs that j's OnExecute may add
          Calls      \* which operations the client's main thread uses

Threads == Workers \cup {Main}

ASSUME QueueAssumption ==
  /\ Workers # {} /\ IsFiniteSet(Workers)
  /\ Main \notin Workers
  /\ None \notin Threads \cup Jobs
  /\ Spawns \in [Jobs -> SUBSET Jobs]
  /\ Calls \subseteq {"Add", "Update", "Pause", "Stop"}

VARIABLES
  mQuit, mStopWork,        \* the atomic flags
  mStartStopMutex,         \* the thread that holds it, or None
  mQueueMutex,             \* the worker that holds it, or None
  mWorkQueue,              \* jobs to run
  mCompletedWork,          \* jobs that have run, to be notified
  mExecutingJobCount,
  mRunningThreadCount,
  pc,                      \* where each thread is
  item,                    \* the job a worker took off the queue
  adding,                  \* the job a thread is adding
  completed,               \* the local list of Update
  given,                   \* history: jobs whose Add has been called
  notified                 \* history: jobs whose OnFinished was called

flags   == <<mQuit, mStopWork>>
counts  == <<mExecutingJobCount, mRunningThreadCount>>
queues  == <<mWorkQueue, mCompletedWork, completed>>
history == <<given, notified>>
vars == <<flags, mStartStopMutex, mQueueMutex, queues, counts, pc, item,
          adding, history>>

WorkerLabels ==
  {"none", "starting", "lock", "loop", "pred", "sleep", "waiting", "relock",
   "awake", "popped", "execute", "executed", "exited"}
AddLabels  == {"addLock", "addPush", "addNotify"}
MainLabels ==
  {"client", "startLock", "startWait", "pauseLock", "pauseClear", "pauseFlag",
   "stopLock", "stopQuit", "stopFlag", "stopClear", "stopNotify", "stopJoin",
   "notify"}

\* Labels at which a worker owns mQueueMutex.
HoldsQueueMutex == {"loop", "pred", "sleep", "awake"}

Goto(t, l)   == pc' = [pc EXCEPT ![t] = l]
Members(s)   == {s[i] : i \in DOMAIN s}

Init ==
  /\ mQuit = FALSE /\ mStopWork = FALSE
  /\ mStartStopMutex = None /\ mQueueMutex = None
  /\ mWorkQueue = <<>> /\ mCompletedWork = <<>> /\ completed = <<>>
  /\ mExecutingJobCount = 0 /\ mRunningThreadCount = 0
  /\ pc = [t \in Threads |-> IF t = Main THEN "startLock" ELSE "none"]
  /\ item = [w \in Workers |-> None]
  /\ adding = [t \in Threads |-> None]
  /\ given = {} /\ notified = <<>>

-----------------------------------------------------------------------------
(* Start: create the workers and spin until every one has counted itself.  *)

StartLock ==
  /\ pc[Main] = "startLock"
  /\ mStartStopMutex = None
  /\ mStartStopMutex' = Main
  /\ pc' = [t \in Threads |-> IF t = Main THEN "startWait" ELSE "starting"]
  /\ UNCHANGED <<flags, mQueueMutex, queues, counts, item, adding, history>>

StartWait ==
  /\ pc[Main] = "startWait"
  /\ mRunningThreadCount >= Cardinality(Workers)
  /\ mStartStopMutex' = None
  /\ Goto(Main, "client")
  /\ UNCHANGED <<flags, mQueueMutex, queues, counts, item, adding, history>>

-----------------------------------------------------------------------------
(* Add, on the main thread or from inside a job's OnExecute on a worker.   *)

AfterAdd(t) == IF t = Main THEN "client" ELSE "execute"

\* Mutant: the flags are not tested.
AddCheckUntested(t, j) ==
  /\ pc[t] = AfterAdd(t)
  /\ j \notin given
  /\ given' = given \cup {j}
  /\ Goto(t, "addLock") /\ adding' = [adding EXCEPT ![t] = j]
  /\ UNCHANGED <<flags, mStartStopMutex, mQueueMutex, queues, counts, item,
                 notified>>

\* The flags are read before any lock is taken.
AddCheck(t, j) ==
  /\ pc[t] = AfterAdd(t)
  /\ j \notin given
  /\ given' = given \cup {j}
  /\ IF mQuit \/ mStopWork
     THEN UNCHANGED <<pc, adding>>
     ELSE Goto(t, "addLock") /\ adding' = [adding EXCEPT ![t] = j]
  /\ UNCHANGED <<flags, mStartStopMutex, mQueueMutex, queues, counts, item,
                 notified>>

AddLock(t) ==
  /\ pc[t] = "addLock"
  /\ mStartStopMutex = None
  /\ mStartStopMutex' = t
  /\ Goto(t, "addPush")
  /\ UNCHANGED <<flags, mQueueMutex, queues, counts, item, adding, history>>

\* Mutant: push_front.
AddPushFront(t) ==
  /\ pc[t] = "addPush"
  /\ mQueueMutex = None
  /\ mWorkQueue' = <<adding[t]>> \o mWorkQueue
  /\ adding' = [adding EXCEPT ![t] = None]
  /\ mStartStopMutex' = None
  /\ Goto(t, "addNotify")
  /\ UNCHANGED <<flags, mQueueMutex, mCompletedWork, completed, counts, item,
                 history>>

AddPush(t) ==
  /\ pc[t] = "addPush"
  /\ mQueueMutex = None
  /\ mWorkQueue' = Append(mWorkQueue, adding[t])
  /\ adding' = [adding EXCEPT ![t] = None]
  /\ mStartStopMutex' = None
  /\ Goto(t, "addNotify")
  /\ UNCHANGED <<flags, mQueueMutex, mCompletedWork, completed, counts, item,
                 history>>

\* Mutant: notify_one is forgotten.
AddNotifyNobody(t) ==
  /\ pc[t] = "addNotify"
  /\ Goto(t, AfterAdd(t))
  /\ UNCHANGED <<flags, mStartStopMutex, mQueueMutex, queues, counts, item,
                 adding, history>>

\* notify_one wakes one thread that waits, if there is any.
AddNotify(t) ==
  LET waiting == {w \in Workers : pc[w] = "waiting"}
  IN /\ pc[t] = "addNotify"
     /\ \/ /\ waiting = {}
           /\ Goto(t, AfterAdd(t))
        \/ \E w \in waiting :
             pc' = [pc EXCEPT ![t] = AfterAdd(t), ![w] = "relock"]
     /\ UNCHANGED <<flags, mStartStopMutex, mQueueMutex, queues, counts, item,
                    adding, history>>

-----------------------------------------------------------------------------
(* PauseAndCancelASync, UnPause and Stop, on the main thread.              *)

WakeAll(l) ==
  pc' = [t \in Threads |-> IF t = Main THEN l
                           ELSE IF pc[t] = "waiting" THEN "relock" ELSE pc[t]]

PauseCall ==
  /\ pc[Main] = "client"
  /\ Goto(Main, "pauseLock")
  /\ UNCHANGED <<flags, mStartStopMutex, mQueueMutex, queues, counts, item,
                 adding, history>>

PauseLock ==
  /\ pc[Main] = "pauseLock"
  /\ mStartStopMutex = None
  /\ mStartStopMutex' = Main
  /\ Goto(Main, "pauseClear")
  /\ UNCHANGED <<flags, mQueueMutex, queues, counts, item, adding, history>>

PauseClear ==
  /\ pc[Main] = "pauseClear"
  /\ mQueueMutex = None
  /\ mWorkQueue' = <<>>
  /\ Goto(Main, "pauseFlag")
  /\ UNCHANGED <<flags, mStartStopMutex, mQueueMutex, mCompletedWork,
                 completed, counts, item, adding, history>>

\* mStopWork is set, every waiting worker notified, mStartStopMutex released.
PauseFlag ==
  /\ pc[Main] = "pauseFlag"
  /\ mStopWork' = TRUE
  /\ WakeAll("client")
  /\ mStartStopMutex' = None
  /\ UNCHANGED <<mQuit, mQueueMutex, queues, counts, item, adding, history>>

UnPause ==
  /\ pc[Main] = "client"
  /\ mStopWork' = FALSE
  /\ UNCHANGED <<mQuit, mStartStopMutex, mQueueMutex, queues, counts, pc,
                 item, adding, history>>

StopCall ==
  /\ pc[Main] = "client"
  /\ Goto(Main, "stopLock")
  /\ UNCHANGED <<flags, mStartStopMutex, mQueueMutex, queues, counts, item,
                 adding, history>>

StopLock ==
  /\ pc[Main] = "stopLock"
  /\ mStartStopMutex = None
  /\ mStartStopMutex' = Main
  /\ Goto(Main, "stopQuit")
  /\ UNCHANGED <<flags, mQueueMutex, queues, counts, item, adding, history>>

\* Not under mQueueMutex: a worker between its test and its wait misses it.
StopQuit ==
  /\ pc[Main] = "stopQuit"
  /\ mQuit' = TRUE
  /\ Goto(Main, "stopFlag")
  /\ UNCHANGED <<mStopWork, mStartStopMutex, mQueueMutex, queues, counts,
                 item, adding, history>>

StopFlag ==
  /\ pc[Main] = "stopFlag"
  /\ mStopWork' = TRUE
  /\ Goto(Main, "stopClear")
  /\ UNCHANGED <<mQuit, mStartStopMutex, mQueueMutex, queues, counts, item,
                 adding, history>>

StopClear ==
  /\ pc[Main] = "stopClear"
  /\ mQueueMutex = None
  /\ mWorkQueue' = <<>>
  /\ Goto(Main, "stopNotify")
  /\ UNCHANGED <<flags, mStartStopMutex, mQueueMutex, mCompletedWork,
                 completed, counts, item, adding, history>>

\* Mutant: notify_one instead of notify_all.
StopNotifyOne ==
  /\ pc[Main] = "stopNotify"
  /\ \/ /\ \A w \in Workers : pc[w] # "waiting"
        /\ Goto(Main, "stopJoin")
     \/ \E w \in Workers :
          /\ pc[w] = "waiting"
          /\ pc' = [pc EXCEPT ![Main] = "stopJoin", ![w] = "relock"]
  /\ UNCHANGED <<flags, mStartStopMutex, mQueueMutex, queues, counts, item,
                 adding, history>>

StopNotify ==
  /\ pc[Main] = "stopNotify"
  /\ WakeAll("stopJoin")
  /\ UNCHANGED <<flags, mStartStopMutex, mQueueMutex, queues, counts, item,
                 adding, history>>

StopJoin ==
  /\ pc[Main] = "stopJoin"
  /\ \A w \in Workers : pc[w] = "exited"
  /\ mRunningThreadCount' = 0
  /\ mStartStopMutex' = None
  /\ Goto(Main, "client")
  /\ UNCHANGED <<flags, mQueueMutex, queues, mExecutingJobCount, item, adding,
                 history>>

-----------------------------------------------------------------------------
(* Update: take the completed jobs in one move, then notify each.          *)

UpdateTake ==
  /\ pc[Main] = "client"
  /\ mCompletedWork # <<>>
  /\ completed' = mCompletedWork
  /\ mCompletedWork' = <<>>
  /\ Goto(Main, "notify")
  /\ UNCHANGED <<flags, mStartStopMutex, mQueueMutex, mWorkQueue, counts,
                 item, adding, history>>

UpdateNotify ==
  /\ pc[Main] = "notify"
  /\ notified' = Append(notified, Head(completed))
  /\ completed' = Tail(completed)
  /\ IF Len(completed) = 1 THEN Goto(Main, "client") ELSE UNCHANGED pc
  /\ UNCHANGED <<flags, mStartStopMutex, mQueueMutex, mWorkQueue,
                 mCompletedWork, counts, item, adding, given>>

\* What IsIdle returns TRUE for; it takes mQueueMutex.
IsIdle ==
  /\ mQueueMutex = None
  /\ mExecutingJobCount = 0
  /\ mWorkQueue = <<>>

-----------------------------------------------------------------------------
(* WorkerFunc.                                                             *)

WorkerStart(w) ==
  /\ pc[w] = "starting"
  /\ mRunningThreadCount' = mRunningThreadCount + 1
  /\ Goto(w, "lock")
  /\ UNCHANGED <<flags, mStartStopMutex, mQueueMutex, queues,
                 mExecutingJobCount, item, adding, history>>

\* The first lock, the lock after a job, and the relock inside wait.
WorkerLock(w) ==
  /\ pc[w] \in {"lock", "relock"}
  /\ mQueueMutex = None
  /\ mQueueMutex' = w
  /\ Goto(w, IF pc[w] = "lock" THEN "loop" ELSE "pred")
  /\ UNCHANGED <<flags, mStartStopMutex, queues, counts, item, adding,
                 history>>

\* while (!mQuit)
WorkerLoop(w) ==
  /\ pc[w] = "loop"
  /\ IF mQuit
     THEN Goto(w, "exited") /\ mQueueMutex' = None
     ELSE Goto(w, "pred") /\ UNCHANGED mQueueMutex
  /\ UNCHANGED <<flags, mStartStopMutex, queues, counts, item, adding,
                 history>>

\* The predicate of mHaveWork.wait.
WorkerPred(w) ==
  /\ pc[w] = "pred"
  /\ Goto(w, IF mWorkQueue # <<>> \/ mQuit THEN "awake" ELSE "sleep")
  /\ UNCHANGED <<flags, mStartStopMutex, mQueueMutex, queues, counts, item,
                 adding, history>>

\* wait releases the mutex and blocks in one step.
WorkerSleep(w) ==
  /\ pc[w] = "sleep"
  /\ mQueueMutex' = None
  /\ Goto(w, "waiting")
  /\ UNCHANGED <<flags, mStartStopMutex, queues, counts, item, adding,
                 history>>

WorkerSpuriousWakeup(w) ==
  /\ pc[w] = "waiting"
  /\ Goto(w, "relock")
  /\ UNCHANGED <<flags, mStartStopMutex, mQueueMutex, queues, counts, item,
                 adding, history>>

WorkerTake(w) ==
  /\ pc[w] = "awake"
  /\ mQueueMutex' = None
  /\ IF mQuit
     THEN Goto(w, "exited") /\ UNCHANGED <<mWorkQueue, item>>
     ELSE /\ item' = [item EXCEPT ![w] = Head(mWorkQueue)]
          /\ mWorkQueue' = Tail(mWorkQueue)
          /\ Goto(w, "popped")
  /\ UNCHANGED <<flags, mStartStopMutex, mCompletedWork, completed, counts,
                 adding, history>>

\* Mutant: the counter is not incremented.
WorkerExecuteUncounted(w) ==
  /\ pc[w] = "popped"
  /\ Goto(w, "execute")
  /\ UNCHANGED <<flags, mStartStopMutex, mQueueMutex, queues, counts, item,
                 adding, history>>

WorkerExecute(w) ==
  /\ pc[w] = "popped"
  /\ mExecutingJobCount' = mExecutingJobCount + 1
  /\ Goto(w, "execute")
  /\ UNCHANGED <<flags, mStartStopMutex, mQueueMutex, queues,
                 mRunningThreadCount, item, adding, history>>

WorkerExecuted(w) ==
  /\ pc[w] = "execute"
  /\ mExecutingJobCount' = mExecutingJobCount - 1
  /\ Goto(w, "executed")
  /\ UNCHANGED <<flags, mStartStopMutex, mQueueMutex, queues,
                 mRunningThreadCount, item, adding, history>>

WorkerComplete(w) ==
  /\ pc[w] = "executed"
  /\ mCompletedWork' = Append(mCompletedWork, item[w])
  /\ item' = [item EXCEPT ![w] = None]
  /\ Goto(w, "lock")
  /\ UNCHANGED <<flags, mStartStopMutex, mQueueMutex, mWorkQueue, completed,
                 counts, adding, history>>

-----------------------------------------------------------------------------
ClientAdd(j) ==
  /\ "Add" \in Calls
  /\ \A k \in Jobs : j \notin Spawns[k]
  /\ AddCheck(Main, j)

\* The OnExecute of the job w runs adds one of the jobs it is there to add.
SpawnAdd(w) ==
  /\ pc[w] = "execute"
  /\ \E j \in Spawns[item[w]] : AddCheck(w, j)

AddStep(t) == AddLock(t) \/ AddPush(t) \/ AddNotify(t)

UpdateStep == UpdateTake \/ UpdateNotify
PauseStep  == PauseLock \/ PauseClear \/ PauseFlag
StopStep   == \/ StopLock \/ StopQuit \/ StopFlag \/ StopClear
              \/ StopNotify \/ StopJoin

WorkerStep(w) ==
  \/ WorkerStart(w) \/ WorkerLock(w) \/ WorkerLoop(w) \/ WorkerPred(w)
  \/ WorkerSleep(w) \/ WorkerTake(w) \/ WorkerExecute(w)
  \/ WorkerExecuted(w) \/ WorkerComplete(w)

\* What the threads do inside a call once it was made.
Internal ==
  \/ StartLock \/ StartWait
  \/ \E t \in Threads : AddStep(t)
  \/ PauseStep
  \/ StopStep
  \/ \E w \in Workers : WorkerStep(w) \/ WorkerSpuriousWakeup(w)

Next ==
  \/ Internal
  \/ \E j \in Jobs : ClientAdd(j)
  \/ \E w \in Workers : SpawnAdd(w)
  \/ "Update" \in Calls /\ UpdateStep
  \/ "Pause" \in Calls /\ (PauseCall \/ UnPause)
  \/ "Stop" \in Calls /\ StopCall

Spec == Init /\ [][Next]_vars

\* What the main thread does to get out of a call, Update's Take apart.
MainGoesOn ==
  StartLock \/ StartWait \/ AddStep(Main) \/ UpdateNotify \/ PauseStep \/ StopStep

\* Threads are scheduled, a mutex that is free again and again is got by each
\* thread that wants it, job bodies return, and the main loop calls Update in
\* every frame it does not spend inside another call.  No spurious wake-up,
\* no Add, Pause or Stop need ever happen.
Fairness ==
  /\ SF_vars(MainGoesOn) /\ SF_vars(UpdateTake)
  /\ \A w \in Workers : SF_vars(WorkerStep(w) \/ AddStep(w))

FairSpec == Spec /\ Fairness

-----------------------------------------------------------------------------
TypeOK ==
  /\ mQuit \in BOOLEAN /\ mStopWork \in BOOLEAN
  /\ mStartStopMutex \in Threads \cup {None}
  /\ mQueueMutex \in Workers \cup {None}
  /\ mWorkQueue \in Seq(Jobs)
  /\ mCompletedWork \in Seq(Jobs)
  /\ completed \in Seq(Jobs)
  /\ mExecutingJobCount \in Int
  /\ mRunningThreadCount \in Nat
  /\ pc \in [Threads -> WorkerLabels \cup AddLabels \cup MainLabels]
  /\ pc[Main] \in MainLabels \cup AddLabels
  /\ \A w \in Workers : pc[w] \in WorkerLabels \cup AddLabels
  /\ item \in [Workers -> Jobs \cup {None}]
  /\ adding \in [Threads -> Jobs \cup {None}]
  /\ given \subseteq Jobs
  /\ notified \in Seq(Jobs)

Waiting   == {w \in Workers : pc[w] = "waiting"}
\* Workers that will look at the queue before they can sleep.
Awake     == {w \in Workers : pc[w] \in
                {"starting", "lock", "loop", "relock", "pred", "awake"}}
Notifying == {t \in Threads : pc[t] = "addNotify"}
Executing == {w \in Workers : pc[w] = "execute" \/ pc[w] \in AddLabels}
Holding   == {w \in Workers : item[w] # None}
InFlight  == {adding[t] : t \in Threads} \ {None}
Taken     == {item[w] : w \in Workers} \ {None}
Dropped   == given \ (Members(mWorkQueue) \cup InFlight \cup Taken
               \cup Members(mCompletedWork) \cup Members(completed)
               \cup Members(notified))

\* mExecutingJobCount, an unsigned counter the workers change outside every
\* lock, is at all times the number of workers inside an OnExecute: it never
\* wraps below zero, whatever the workers' interleaving.
ExecutingCountExact == mExecutingJobCount = Cardinality(Executing)

\* WorkConserving: no worker sleeps through work.  While one waits on
\* mHaveWork there are never more queued jobs than workers already on their
\* way to the queue and notify_one calls still to be made.
WorkConserving ==
  ~mQuit /\ Waiting # {}
    => Len(mWorkQueue) <= Cardinality(Awake) + Cardinality(Notifying)

\* QuitIsSeen: once Stop has called notify_all no worker waits or is about
\* to, although mQuit is written without the mutex the workers wait under.
QuitIsSeen ==
  pc[Main] = "stopJoin" =>
    \A w \in Workers : pc[w] \notin {"sleep", "waiting"}

\* StopIsFinal: when Stop has returned every worker has exited, no job is
\* queued, held or executing, and none can be queued later.
StopIsFinal ==
  mQuit /\ pc[Main] \in {"client", "notify"} =>
    /\ \A w \in Workers : pc[w] = "exited" /\ item[w] = None
    /\ mWorkQueue = <<>> /\ mExecutingJobCount = 0
    /\ adding[Main] = None

\* The queue is a JobPool: jobs start and are notified in order, once each,
\* never more at a time than there are workers, and no job is lost but those
\* refused, or still queued when Pause or Stop cleared the queue.
Pool == INSTANCE JobPool WITH
          MaxRunning <- Cardinality(Workers),
          pending    <- mWorkQueue,
          running    <- Taken,
          done       <- completed \o mCompletedWork,
          dropped    <- Dropped

ImplementsJobPool == Pool!Spec

\* AcceptedJobsNotified: every job the queue accepted is executed and its
\* owner notified on the main thread, unless Pause or Stop cleared it.
AcceptedJobsNotified ==
  \A j \in Jobs :
    j \in InFlight ~> (j \in Members(notified) \/ j \in Dropped \/ mQuit)

\* StopReturns ("Wait for running workers to exit", asyncqueue.hpp): Stop
\* comes back to its caller.
StopReturns == pc[Main] = "stopLock" ~> pc[Main] = "client"

\* StopReturnsUnlessAdding: the one thing that can keep it from returning is
\* a job that adds a job while Stop holds the mutex.
StopReturnsUnlessAdding ==
  pc[Main] = "stopLock" ~>
    (pc[Main] = "client" \/ \E w \in Workers : pc[w] = "addLock")

\* What test/asyncqueue_tests.cpp relies on: when IsIdle returns TRUE every
\* job given to the queue has run and waits for Update or was notified.
IdleMeansAllCompleted ==
  pc[Main] = "client" /\ IsIdle =>
    \A j \in given : j \in Members(mCompletedWork) \cup Members(notified)
=============================================================================
