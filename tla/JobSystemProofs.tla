-------------------------- MODULE JobSystemProofs ---------------------------
(***************************************************************************)
(* Theorems about AsyncQueue, for every set of jobs and workers, every     *)
(* Spawns and every set of Calls, and then about JobTracker: while the     *)
(* accesses of the tracker's set are kept apart, whatever still works is   *)
(* outstanding.                                                            *)
(***************************************************************************)
EXTENDS JobTracker, FiniteSetTheorems, SequenceTheorems, TLAPS

\* Labels at which a worker holds a job it took off the queue.
HoldsItem == {"popped", "execute", "executed"} \cup AddLabels

\* The facts about single threads that every other proof rests on: the mutex
\* is owned exactly where the code owns it, and what a thread has seen of the
\* queue under the mutex stays true while it owns it.
ThreadInv ==
  /\ \A w \in Workers : mQueueMutex = w <=> pc[w] \in HoldsQueueMutex
  /\ \A w \in Workers : pc[w] = "awake" /\ ~mQuit => mWorkQueue # <<>>
  /\ \A w \in Workers : pc[w] = "sleep" => mWorkQueue = <<>>
  /\ \A w \in Workers : item[w] # None <=> pc[w] \in HoldsItem
  /\ \A t \in Threads : adding[t] # None <=> pc[t] \in {"addLock", "addPush"}
  /\ pc[Main] = "notify" => completed # <<>>
  /\ pc[Main] = "startLock" => \A w \in Workers : pc[w] = "none"

QueueInv == TypeOK /\ ThreadInv

LEMMA Distinct ==
  Main \notin Workers /\ None \notin Workers /\ None # Main /\ None \notin Jobs
BY QueueAssumption DEF Threads

\* notify_one, thread by thread: the caller returns from Add and at most one
\* waiting worker is woken.
ThreadsAfterNotify(t) ==
  /\ pc[t] = "addNotify"
  /\ pc'[t] = IF t = Main THEN "client" ELSE "execute"
  /\ \/ /\ \A u \in Workers : pc[u] # "waiting"
        /\ \A u \in Threads \ {t} : pc'[u] = pc[u]
     \/ \E w \in Workers :
          /\ w # t /\ pc[w] = "waiting" /\ pc'[w] = "relock"
          /\ \A u \in Threads \ {t, w} : pc'[u] = pc[u]

LEMMA AddNotifyStep ==
  ASSUME TypeOK, NEW t \in Threads, AddNotify(t)
  PROVE  /\ ThreadsAfterNotify(t)
         /\ pc' \in [Threads -> WorkerLabels \cup AddLabels \cup MainLabels]
<1> USE DEF TypeOK, Threads, AfterAdd, Goto, WorkerLabels, MainLabels, AddLabels
<1> DEFINE Typed ==
      pc' \in [Threads -> WorkerLabels \cup AddLabels \cup MainLabels]
<1>1. CASE /\ \A u \in Workers : pc[u] # "waiting"
           /\ pc' = [pc EXCEPT ![t] = AfterAdd(t)]
  BY <1>1 DEF AddNotify, ThreadsAfterNotify
<1>2. ASSUME NEW w \in Workers, pc[w] = "waiting",
             pc' = [pc EXCEPT ![t] = AfterAdd(t), ![w] = "relock"]
      PROVE  ThreadsAfterNotify(t) /\ Typed
  <2>1. pc[t] = "addNotify" /\ w # t
    BY <1>2 DEF AddNotify
  <2>2. Typed
    BY <1>2
  <2>3. /\ pc'[t] = AfterAdd(t) /\ pc'[w] = "relock"
        /\ \A u \in Threads \ {t, w} : pc'[u] = pc[u]
    BY <1>2, <2>1
  <2> QED BY <1>2, <2>1, <2>2, <2>3 DEF ThreadsAfterNotify
<1> QED
  BY <1>1, <1>2 DEF AddNotify

\* The steps of Next, one by one.  Which job a thread adds is of no concern:
\* the tracker's clients choose otherwise than ClientAdd and SpawnAdd do.
QueueSteps ==
  \/ StartLock \/ StartWait
  \/ \E t \in Threads : AddLock(t) \/ AddPush(t) \/ AddNotify(t)
  \/ \E t \in Threads, j \in Jobs : AddCheck(t, j)
  \/ PauseLock \/ PauseClear \/ PauseFlag
  \/ StopLock \/ StopQuit \/ StopFlag \/ StopClear \/ StopNotify
  \/ StopJoin
  \/ \E w \in Workers :
       \/ WorkerStart(w) \/ WorkerLock(w) \/ WorkerLoop(w)
       \/ WorkerPred(w) \/ WorkerSleep(w) \/ WorkerTake(w)
       \/ WorkerExecute(w) \/ WorkerExecuted(w) \/ WorkerComplete(w)
       \/ WorkerSpuriousWakeup(w)
  \/ UpdateTake \/ UpdateNotify \/ PauseCall \/ UnPause \/ StopCall
  \/ UNCHANGED vars

LEMMA NextCases == QueueInv /\ [Next]_vars => QueueSteps
<1> SUFFICES ASSUME QueueInv, [Next]_vars PROVE QueueSteps
  OBVIOUS
<1> USE DEF QueueSteps
<1>1. CASE \E w \in Workers : SpawnAdd(w)
  <2>1. PICK w \in Workers : SpawnAdd(w)
    BY <1>1
  <2>2. PICK j \in Spawns[item[w]] : pc[w] = "execute" /\ AddCheck(w, j)
    BY <2>1 DEF SpawnAdd
  <2>3. item[w] \in Jobs
    BY <2>2 DEF QueueInv, TypeOK, ThreadInv, HoldsItem
  <2>4. j \in Jobs
    BY <2>2, <2>3, QueueAssumption
  <2> QED BY <2>2, <2>4 DEF Threads
<1>2. CASE \E j \in Jobs : ClientAdd(j)
  BY <1>2 DEF ClientAdd, Threads
<1>3. CASE Internal
  BY <1>3 DEF Internal, AddStep, PauseStep, StopStep, WorkerStep
<1> QED
  BY <1>1, <1>2, <1>3 DEF Next, UpdateStep

LEMMA InitQueueInv == Init => QueueInv
<1> SUFFICES ASSUME Init PROVE QueueInv
  OBVIOUS
<1> USE Distinct DEF Threads, WorkerLabels, AddLabels, MainLabels,
      HoldsQueueMutex, HoldsItem
<1>1. TypeOK
  <2>1. pc \in [Threads -> WorkerLabels \cup AddLabels \cup MainLabels]
    BY DEF Init
  <2>2. pc[Main] = "startLock" /\ \A w \in Workers : pc[w] = "none"
    BY DEF Init
  <2>3. /\ mStartStopMutex \in Threads \cup {None}
        /\ mQueueMutex \in Workers \cup {None}
        /\ given \subseteq Jobs
        /\ mExecutingJobCount \in Int /\ mRunningThreadCount \in Nat
    BY DEF Init
  <2>6. mQuit \in BOOLEAN /\ mStopWork \in BOOLEAN
    BY Zenon DEF Init
  <2>4. /\ mWorkQueue \in Seq(Jobs) /\ mCompletedWork \in Seq(Jobs)
        /\ completed \in Seq(Jobs) /\ notified \in Seq(Jobs)
    BY DEF Init
  <2>5. /\ item \in [Workers -> Jobs \cup {None}]
        /\ adding \in [Threads -> Jobs \cup {None}]
    BY DEF Init
  <2> QED BY <2>1, <2>2, <2>3, <2>4, <2>5, <2>6 DEF TypeOK
<1>2. ThreadInv
  BY DEF Init, ThreadInv
<1> QED BY <1>1, <1>2 DEF QueueInv

LEMMA StepQueueInv == QueueInv /\ QueueSteps => QueueInv'
<1> SUFFICES ASSUME QueueInv, QueueSteps PROVE QueueInv'
  OBVIOUS
<1> USE Distinct DEF QueueInv, Threads, flags, counts, queues, history,
      WorkerLabels, AddLabels, MainLabels, HoldsQueueMutex, HoldsItem, Goto
<1>1. CASE StartLock
  <2>1. TypeOK'
    BY <1>1 DEF StartLock, TypeOK, ThreadInv
  <2>2. ThreadInv'
    BY <1>1 DEF StartLock, TypeOK, ThreadInv
  <2> QED BY <2>1, <2>2
<1>2. CASE StartWait
  <2>1. TypeOK'
    BY <1>2 DEF StartWait, TypeOK, ThreadInv
  <2>2. ThreadInv'
    BY <1>2 DEF StartWait, TypeOK, ThreadInv
  <2> QED BY <2>1, <2>2
<1>3. ASSUME NEW t \in Threads, AddLock(t) PROVE QueueInv'
  <2>1. TypeOK'
    BY <1>3 DEF AddLock, TypeOK, ThreadInv
  <2>2. ThreadInv'
    BY <1>3 DEF AddLock, TypeOK, ThreadInv
  <2> QED BY <2>1, <2>2
<1>4. ASSUME NEW t \in Threads, AddPush(t) PROVE QueueInv'
  <2>1. TypeOK'
    BY <1>4 DEF AddPush, TypeOK, ThreadInv
  <2>2. ThreadInv'
    BY <1>4 DEF AddPush, TypeOK, ThreadInv
  <2> QED BY <2>1, <2>2
<1>5. ASSUME NEW t \in Threads, AddNotify(t) PROVE QueueInv'
  <2>1. /\ ThreadsAfterNotify(t)
        /\ pc' \in [Threads -> WorkerLabels \cup AddLabels \cup MainLabels]
    BY <1>5, AddNotifyStep
  <2>2. UNCHANGED <<flags, mStartStopMutex, mQueueMutex, queues, counts, item,
                    adding, history>>
    BY <1>5 DEF AddNotify
  <2>3. TypeOK'
    BY <2>1, <2>2 DEF TypeOK, ThreadsAfterNotify
  <2>4. \A v \in Workers :
          /\ pc'[v] \in HoldsQueueMutex <=> pc[v] \in HoldsQueueMutex
          /\ pc'[v] \in HoldsItem <=> pc[v] \in HoldsItem
          /\ pc'[v] \in {"awake", "sleep"} => pc'[v] = pc[v]
    BY <2>1 DEF ThreadsAfterNotify
  <2>5. /\ \A u \in Threads : pc'[u] \in {"addLock", "addPush"} <=>
                              pc[u] \in {"addLock", "addPush"}
        /\ pc'[Main] \in {"notify", "startLock"} => pc'[Main] = pc[Main]
    BY <2>1 DEF ThreadsAfterNotify
  <2>6. pc'[Main] = "startLock" => \A v \in Workers : pc'[v] = "none"
    BY <2>1, <2>5 DEF ThreadsAfterNotify, ThreadInv
  <2>7. ThreadInv'
    BY <2>2, <2>4, <2>5, <2>6 DEF ThreadInv
  <2> QED BY <2>3, <2>7
<1>6. ASSUME NEW t \in Threads, NEW j \in Jobs, AddCheck(t, j)
      PROVE  QueueInv'
  <2>1. pc[t] = AfterAdd(t) /\ given' = given \cup {j}
    BY <1>6 DEF AddCheck
  <2>2. UNCHANGED <<flags, mStartStopMutex, mQueueMutex, queues, counts, item,
                    notified>>
    BY <1>6 DEF AddCheck
  <2>3. CASE UNCHANGED <<pc, adding>>
    <3>1. TypeOK'
      BY <2>1, <2>2, <2>3 DEF TypeOK, ThreadInv
    <3>2. ThreadInv'
      BY <2>1, <2>2, <2>3 DEF TypeOK, ThreadInv
    <3> QED BY <3>1, <3>2
  <2>4. CASE /\ pc' = [pc EXCEPT ![t] = "addLock"]
             /\ adding' = [adding EXCEPT ![t] = j]
    <3>1. TypeOK'
      BY <2>1, <2>2, <2>4 DEF TypeOK, ThreadInv
    <3>2. ThreadInv'
      BY <2>1, <2>2, <2>4 DEF TypeOK, ThreadInv, AfterAdd
    <3> QED BY <3>1, <3>2
  <2> QED
    BY <1>6, <2>3, <2>4 DEF AddCheck
<1>7. CASE PauseLock
  <2>1. TypeOK'
    BY <1>7 DEF PauseLock, TypeOK, ThreadInv
  <2>2. ThreadInv'
    BY <1>7 DEF PauseLock, TypeOK, ThreadInv
  <2> QED BY <2>1, <2>2
<1>8. CASE PauseClear
  <2>1. TypeOK'
    BY <1>8 DEF PauseClear, TypeOK, ThreadInv
  <2>2. ThreadInv'
    BY <1>8 DEF PauseClear, TypeOK, ThreadInv
  <2> QED BY <2>1, <2>2
<1>9. CASE PauseFlag
  <2>1. TypeOK'
    BY <1>9 DEF PauseFlag, WakeAll, TypeOK, ThreadInv
  <2>2. ThreadInv'
    BY <1>9 DEF PauseFlag, WakeAll, TypeOK, ThreadInv
  <2> QED BY <2>1, <2>2
<1>10. CASE StopLock
  <2>1. TypeOK'
    BY <1>10 DEF StopLock, TypeOK, ThreadInv
  <2>2. ThreadInv'
    BY <1>10 DEF StopLock, TypeOK, ThreadInv
  <2> QED BY <2>1, <2>2
<1>11. CASE StopQuit
  <2>1. TypeOK'
    BY <1>11 DEF StopQuit, TypeOK, ThreadInv
  <2>2. ThreadInv'
    BY <1>11 DEF StopQuit, TypeOK, ThreadInv
  <2> QED BY <2>1, <2>2
<1>12. CASE StopFlag
  <2>1. TypeOK'
    BY <1>12 DEF StopFlag, TypeOK, ThreadInv
  <2>2. ThreadInv'
    BY <1>12 DEF StopFlag, TypeOK, ThreadInv
  <2> QED BY <2>1, <2>2
<1>13. CASE StopClear
  <2>1. TypeOK'
    BY <1>13 DEF StopClear, TypeOK, ThreadInv
  <2>2. ThreadInv'
    BY <1>13 DEF StopClear, TypeOK, ThreadInv
  <2> QED BY <2>1, <2>2
<1>14. CASE StopNotify
  <2>1. TypeOK'
    BY <1>14 DEF StopNotify, WakeAll, TypeOK, ThreadInv
  <2>2. ThreadInv'
    BY <1>14 DEF StopNotify, WakeAll, TypeOK, ThreadInv
  <2> QED BY <2>1, <2>2
<1>15. CASE StopJoin
  <2>1. TypeOK'
    BY <1>15 DEF StopJoin, TypeOK, ThreadInv
  <2>2. ThreadInv'
    BY <1>15 DEF StopJoin, TypeOK, ThreadInv
  <2> QED BY <2>1, <2>2
<1>16. ASSUME NEW w \in Workers, WorkerStart(w) PROVE QueueInv'
  <2>1. TypeOK'
    BY <1>16 DEF WorkerStart, TypeOK, ThreadInv
  <2>2. ThreadInv'
    BY <1>16 DEF WorkerStart, TypeOK, ThreadInv
  <2> QED BY <2>1, <2>2
<1>17. ASSUME NEW w \in Workers, WorkerLock(w) PROVE QueueInv'
  <2>1. TypeOK'
    BY <1>17 DEF WorkerLock, TypeOK, ThreadInv
  <2>2. ThreadInv'
    BY <1>17 DEF WorkerLock, TypeOK, ThreadInv
  <2> QED BY <2>1, <2>2
<1>18. ASSUME NEW w \in Workers, WorkerLoop(w) PROVE QueueInv'
  <2>1. pc[w] = "loop"
    BY <1>18 DEF WorkerLoop
  <2>2. UNCHANGED <<flags, mStartStopMutex, queues, counts, item, adding,
                    history>>
    BY <1>18 DEF WorkerLoop
  <2>3. CASE pc' = [pc EXCEPT ![w] = "exited"] /\ mQueueMutex' = None
    <3>1. TypeOK'
      BY <2>1, <2>2, <2>3 DEF TypeOK, ThreadInv
    <3>2. ThreadInv'
      BY <2>1, <2>2, <2>3 DEF TypeOK, ThreadInv
    <3> QED BY <3>1, <3>2
  <2>4. CASE pc' = [pc EXCEPT ![w] = "pred"] /\ mQueueMutex' = mQueueMutex
    <3>1. TypeOK'
      BY <2>1, <2>2, <2>4 DEF TypeOK, ThreadInv
    <3>2. ThreadInv'
      BY <2>1, <2>2, <2>4 DEF TypeOK, ThreadInv
    <3> QED BY <3>1, <3>2
  <2> QED BY <1>18, <2>3, <2>4 DEF WorkerLoop
<1>19. ASSUME NEW w \in Workers, WorkerPred(w) PROVE QueueInv'
  <2>1. TypeOK'
    BY <1>19 DEF WorkerPred, TypeOK, ThreadInv
  <2>2. ThreadInv'
    BY <1>19 DEF WorkerPred, TypeOK, ThreadInv
  <2> QED BY <2>1, <2>2
<1>20. ASSUME NEW w \in Workers, WorkerSleep(w) PROVE QueueInv'
  <2>1. TypeOK'
    BY <1>20 DEF WorkerSleep, TypeOK, ThreadInv
  <2>2. ThreadInv'
    BY <1>20 DEF WorkerSleep, TypeOK, ThreadInv
  <2> QED BY <2>1, <2>2
<1>21. ASSUME NEW w \in Workers, WorkerTake(w) PROVE QueueInv'
  <2>1. /\ pc[w] = "awake" /\ mQueueMutex' = None
        /\ UNCHANGED <<flags, mStartStopMutex, mCompletedWork, completed,
                       counts, adding, history>>
    BY <1>21 DEF WorkerTake
  <2>2. CASE /\ pc' = [pc EXCEPT ![w] = "exited"]
             /\ UNCHANGED <<mWorkQueue, item>>
    <3>1. TypeOK'
      BY <2>1, <2>2 DEF TypeOK, ThreadInv
    <3>2. ThreadInv'
      BY <2>1, <2>2 DEF TypeOK, ThreadInv
    <3> QED BY <3>1, <3>2
  <2>3. CASE /\ item' = [item EXCEPT ![w] = Head(mWorkQueue)]
             /\ mWorkQueue' = Tail(mWorkQueue)
             /\ pc' = [pc EXCEPT ![w] = "popped"]
             /\ mWorkQueue # <<>>
    <3>1. Head(mWorkQueue) \in Jobs /\ Tail(mWorkQueue) \in Seq(Jobs)
      BY <2>3 DEF TypeOK
    <3>2. TypeOK'
      BY <2>1, <2>3, <3>1 DEF TypeOK, ThreadInv
    <3>3. ThreadInv'
      BY <2>1, <2>3, <3>1 DEF TypeOK, ThreadInv
    <3> QED BY <3>2, <3>3
  <2>4. ~mQuit => mWorkQueue # <<>>
    BY <2>1 DEF ThreadInv
  <2> QED
    BY <1>21, <2>2, <2>3, <2>4 DEF WorkerTake
<1>22. ASSUME NEW w \in Workers, WorkerExecute(w) PROVE QueueInv'
  <2>1. TypeOK'
    BY <1>22 DEF WorkerExecute, TypeOK, ThreadInv
  <2>2. ThreadInv'
    BY <1>22 DEF WorkerExecute, TypeOK, ThreadInv
  <2> QED BY <2>1, <2>2
<1>23. ASSUME NEW w \in Workers, WorkerExecuted(w) PROVE QueueInv'
  <2>1. TypeOK'
    BY <1>23 DEF WorkerExecuted, TypeOK, ThreadInv
  <2>2. ThreadInv'
    BY <1>23 DEF WorkerExecuted, TypeOK, ThreadInv
  <2> QED BY <2>1, <2>2
<1>24. ASSUME NEW w \in Workers, WorkerComplete(w) PROVE QueueInv'
  <2>1. TypeOK'
    BY <1>24 DEF WorkerComplete, TypeOK, ThreadInv
  <2>2. ThreadInv'
    BY <1>24 DEF WorkerComplete, TypeOK, ThreadInv
  <2> QED BY <2>1, <2>2
<1>25. ASSUME NEW w \in Workers, WorkerSpuriousWakeup(w) PROVE QueueInv'
  <2>1. TypeOK'
    BY <1>25 DEF WorkerSpuriousWakeup, TypeOK, ThreadInv
  <2>2. ThreadInv'
    BY <1>25 DEF WorkerSpuriousWakeup, TypeOK, ThreadInv
  <2> QED BY <2>1, <2>2
<1>26. CASE UpdateTake
  <2>1. TypeOK'
    BY <1>26 DEF UpdateTake, TypeOK, ThreadInv
  <2>2. ThreadInv'
    BY <1>26 DEF UpdateTake, TypeOK, ThreadInv
  <2> QED BY <2>1, <2>2
<1>27. CASE UpdateNotify
  <2>1. completed # <<>> /\ pc[Main] = "notify"
    BY <1>27 DEF UpdateNotify, TypeOK, ThreadInv
  <2>2. Len(completed) # 1 => Tail(completed) # <<>>
    <3>1. completed \in Seq(Jobs) /\ Len(completed) \in Nat
      BY DEF TypeOK
    <3>2. Len(completed) # 0
      BY <2>1, <3>1
    <3>3. Len(Tail(completed)) = Len(completed) - 1
      BY <3>1, <3>2
    <3>4. Tail(completed) = <<>> => Len(Tail(completed)) = 0
      BY <3>1, <3>2, EmptySeq
    <3> QED
      BY <3>1, <3>2, <3>3, <3>4
  <2>3. \/ pc' = [pc EXCEPT ![Main] = "client"]
        \/ pc' = pc /\ Tail(completed) # <<>>
    BY <1>27, <2>2 DEF UpdateNotify
  <2>4. /\ Head(completed) \in Jobs
        /\ completed' \in Seq(Jobs) /\ notified' \in Seq(Jobs)
    <3>1. completed \in Seq(Jobs) /\ notified \in Seq(Jobs)
      BY DEF TypeOK
    <3>2. Head(completed) \in Jobs /\ Tail(completed) \in Seq(Jobs)
      BY <2>1, <3>1, HeadTailProperties
    <3> QED BY <1>27, <3>1, <3>2, AppendProperties DEF UpdateNotify
  <2>5. /\ pc' \in [Threads -> WorkerLabels \cup AddLabels \cup MainLabels]
        /\ pc'[Main] \in {"client", "notify"}
        /\ \A w \in Workers : pc'[w] = pc[w]
    <3>1. /\ pc \in [Threads -> WorkerLabels \cup AddLabels \cup MainLabels]
          /\ \A w \in Workers : w # Main
      BY Distinct DEF TypeOK
    <3> QED BY <2>1, <2>3, <3>1
  <2>6. TypeOK'
    BY <1>27, <2>4, <2>5 DEF TypeOK, UpdateNotify, flags, counts
  <2>7. ThreadInv'
    BY <1>27, <2>1, <2>3 DEF TypeOK, ThreadInv, UpdateNotify
  <2> QED BY <2>6, <2>7
<1>28. CASE PauseCall
  <2>1. TypeOK'
    BY <1>28 DEF PauseCall, TypeOK, ThreadInv
  <2>2. ThreadInv'
    BY <1>28 DEF PauseCall, TypeOK, ThreadInv
  <2> QED BY <2>1, <2>2
<1>29. CASE UnPause
  <2>1. TypeOK'
    BY <1>29 DEF UnPause, TypeOK, ThreadInv
  <2>2. ThreadInv'
    BY <1>29 DEF UnPause, TypeOK, ThreadInv
  <2> QED BY <2>1, <2>2
<1>30. CASE StopCall
  <2>1. TypeOK'
    BY <1>30 DEF StopCall, TypeOK, ThreadInv
  <2>2. ThreadInv'
    BY <1>30 DEF StopCall, TypeOK, ThreadInv
  <2> QED BY <2>1, <2>2
<1>31. CASE UNCHANGED vars
  BY <1>31 DEF vars, TypeOK, ThreadInv
<1> QED
  BY <1>1, <1>2, <1>3, <1>4, <1>5, <1>6, <1>7, <1>8, <1>9, <1>10, <1>11, <1>12, <1>13, <1>14, <1>15, <1>16, <1>17, <1>18, <1>19, <1>20, <1>21, <1>22, <1>23, <1>24, <1>25, <1>26, <1>27, <1>28, <1>29, <1>30, <1>31 DEF QueueSteps
-----------------------------------------------------------------------------
\* Every variable keeps its type, whatever the jobs, the workers and the calls.
THEOREM TypeCorrect == Spec => []TypeOK
<1>1. QueueInv => TypeOK
  BY DEF QueueInv
<1> QED
  BY InitQueueInv, StepQueueInv, NextCases, <1>1, PTL DEF Spec

LEMMA QueueInvCorrect == Spec => []QueueInv
BY InitQueueInv, StepQueueInv, NextCases, PTL DEF Spec

-----------------------------------------------------------------------------
\* Who owns mStartStopMutex, and what Stop has achieved at each of its steps.
\* From the moment mQuit is set until the last worker was joined the mutex is
\* the main thread's, so nobody adds a job behind the clearing of the queue.
StopInv ==
  /\ \A w \in Workers : pc[w] = "addPush" <=> mStartStopMutex = w
  /\ pc[Main] \in {"startWait", "pauseClear", "pauseFlag", "stopQuit",
                   "stopFlag", "stopClear", "stopNotify", "stopJoin",
                   "addPush"} <=> mStartStopMutex = Main
  /\ pc[Main] \in {"stopFlag", "stopClear", "stopNotify", "stopJoin"}
       => mQuit = TRUE
  /\ pc[Main] \in {"stopNotify", "stopJoin"}
       => mWorkQueue = <<>> /\ \A w \in Workers : pc[w] # "sleep"
  /\ pc[Main] = "stopJoin" => \A w \in Workers : pc[w] # "waiting"
  /\ mQuit = TRUE => pc[Main] \notin AddLabels \cup {"startLock", "startWait"}
  /\ mQuit = TRUE =>
       \/ pc[Main] \in {"stopFlag", "stopClear", "stopNotify", "stopJoin"}
       \/ mWorkQueue = <<>> /\ \A w \in Workers : pc[w] = "exited"

LEMMA InitStopInv == Init => StopInv
<1> SUFFICES ASSUME Init PROVE StopInv
  OBVIOUS
<1>1. pc[Main] = "startLock" /\ \A w \in Workers : pc[w] = "none"
  BY Distinct DEF Init, Threads
<1>2. mQuit # TRUE /\ mStartStopMutex = None
  BY DEF Init
<1> QED
  BY <1>1, <1>2, Distinct DEF StopInv, AddLabels

LEMMA StepStopInv == QueueInv /\ StopInv /\ QueueSteps => StopInv'
<1> SUFFICES ASSUME QueueInv, StopInv, QueueSteps PROVE StopInv'
  OBVIOUS
<1> USE Distinct DEF QueueInv, Threads, flags, counts, queues, history,
      AddLabels, HoldsQueueMutex, Goto
<1>1. CASE StartLock
  BY <1>1 DEF StartLock, TypeOK, ThreadInv, StopInv
<1>2. CASE StartWait
  BY <1>2 DEF StartWait, TypeOK, ThreadInv, StopInv
<1>3. ASSUME NEW t \in Threads, AddLock(t) PROVE StopInv'
  BY <1>3 DEF AddLock, TypeOK, ThreadInv, StopInv
<1>4. ASSUME NEW t \in Threads, AddPush(t) PROVE StopInv'
  BY <1>4 DEF AddPush, TypeOK, ThreadInv, StopInv
<1>5. ASSUME NEW t \in Threads, AddNotify(t) PROVE StopInv'
  <2>1. ThreadsAfterNotify(t)
    BY <1>5, AddNotifyStep
  <2> QED BY <1>5, <2>1 DEF StopInv, ThreadsAfterNotify, AddNotify
<1>6. ASSUME NEW t \in Threads, NEW j \in Jobs, AddCheck(t, j)
      PROVE  StopInv'
  BY <1>6 DEF AddCheck, AfterAdd, TypeOK, ThreadInv, StopInv
<1>7. CASE PauseLock
  BY <1>7 DEF PauseLock, TypeOK, ThreadInv, StopInv
<1>8. CASE PauseClear
  BY <1>8 DEF PauseClear, TypeOK, ThreadInv, StopInv
<1>9. CASE PauseFlag
  BY <1>9 DEF PauseFlag, WakeAll, TypeOK, ThreadInv, StopInv
<1>10. CASE StopLock
  BY <1>10 DEF StopLock, TypeOK, ThreadInv, StopInv
<1>11. CASE StopQuit
  BY <1>11 DEF StopQuit, TypeOK, ThreadInv, StopInv
<1>12. CASE StopFlag
  BY <1>12 DEF StopFlag, TypeOK, ThreadInv, StopInv
<1>13. CASE StopClear
  BY <1>13 DEF StopClear, TypeOK, ThreadInv, StopInv
<1>14. CASE StopNotify
  BY <1>14 DEF StopNotify, WakeAll, TypeOK, ThreadInv, StopInv
<1>15. CASE StopJoin
  BY <1>15 DEF StopJoin, TypeOK, ThreadInv, StopInv
<1>16. ASSUME NEW w \in Workers, WorkerStart(w) PROVE StopInv'
  BY <1>16 DEF WorkerStart, TypeOK, ThreadInv, StopInv
<1>17. ASSUME NEW w \in Workers, WorkerLock(w) PROVE StopInv'
  BY <1>17 DEF WorkerLock, TypeOK, ThreadInv, StopInv
<1>18. ASSUME NEW w \in Workers, WorkerLoop(w) PROVE StopInv'
  BY <1>18 DEF WorkerLoop, TypeOK, ThreadInv, StopInv
<1>19. ASSUME NEW w \in Workers, WorkerPred(w) PROVE StopInv'
  BY <1>19 DEF WorkerPred, TypeOK, ThreadInv, StopInv
<1>20. ASSUME NEW w \in Workers, WorkerSleep(w) PROVE StopInv'
  BY <1>20 DEF WorkerSleep, TypeOK, ThreadInv, StopInv
<1>21. ASSUME NEW w \in Workers, WorkerTake(w) PROVE StopInv'
  BY <1>21 DEF WorkerTake, TypeOK, ThreadInv, StopInv
<1>22. ASSUME NEW w \in Workers, WorkerExecute(w) PROVE StopInv'
  BY <1>22 DEF WorkerExecute, TypeOK, ThreadInv, StopInv
<1>23. ASSUME NEW w \in Workers, WorkerExecuted(w) PROVE StopInv'
  BY <1>23 DEF WorkerExecuted, TypeOK, ThreadInv, StopInv
<1>24. ASSUME NEW w \in Workers, WorkerComplete(w) PROVE StopInv'
  BY <1>24 DEF WorkerComplete, TypeOK, ThreadInv, StopInv
<1>25. ASSUME NEW w \in Workers, WorkerSpuriousWakeup(w) PROVE StopInv'
  BY <1>25 DEF WorkerSpuriousWakeup, TypeOK, ThreadInv, StopInv
<1>26. CASE UpdateTake
  BY <1>26 DEF UpdateTake, TypeOK, ThreadInv, StopInv
<1>27. CASE UpdateNotify
  BY <1>27 DEF UpdateNotify, TypeOK, ThreadInv, StopInv
<1>28. CASE PauseCall
  BY <1>28 DEF PauseCall, TypeOK, ThreadInv, StopInv
<1>29. CASE UnPause
  BY <1>29 DEF UnPause, TypeOK, ThreadInv, StopInv
<1>30. CASE StopCall
  BY <1>30 DEF StopCall, TypeOK, ThreadInv, StopInv
<1>31. CASE UNCHANGED vars
  BY <1>31 DEF vars, TypeOK, ThreadInv, StopInv
<1> QED
  BY <1>1, <1>2, <1>3, <1>4, <1>5, <1>6, <1>7, <1>8, <1>9, <1>10, <1>11, <1>12, <1>13, <1>14, <1>15, <1>16, <1>17, <1>18, <1>19, <1>20, <1>21, <1>22, <1>23, <1>24, <1>25, <1>26, <1>27, <1>28, <1>29, <1>30, <1>31 DEF QueueSteps

LEMMA StopInvCorrect == Spec => [](QueueInv /\ StopInv)
<1>1. Init => QueueInv /\ StopInv
  BY InitQueueInv, InitStopInv
<1>2. QueueInv /\ StopInv /\ [Next]_vars => QueueInv' /\ StopInv'
  BY StepQueueInv, StepStopInv, NextCases
<1> QED
  BY <1>1, <1>2, PTL DEF Spec

\* No worker sleeps through the shutdown: after notify_all none waits or is
\* about to wait, although mQuit is written outside mQueueMutex.
THEOREM QuitSeen == Spec => []QuitIsSeen
<1>1. QueueInv /\ StopInv => QuitIsSeen
  BY DEF StopInv, QuitIsSeen
<1> QED
  BY StopInvCorrect, <1>1, PTL

-----------------------------------------------------------------------------
\* mExecutingJobCount against the workers inside OnExecute.

LEMMA WorkersFinite == ASSUME NEW S, S \subseteq Workers PROVE IsFiniteSet(S)
BY QueueAssumption, FS_Subset

LEMMA StepExecuting ==
  QueueInv /\ ExecutingCountExact /\ QueueSteps => ExecutingCountExact'
<1> SUFFICES ASSUME QueueInv, ExecutingCountExact, QueueSteps
             PROVE  ExecutingCountExact'
  OBVIOUS
<1> USE Distinct DEF Threads
<1>1. ASSUME NEW w \in Workers, WorkerExecute(w) PROVE ExecutingCountExact'
  <2>1. w \notin Executing /\ Executing' = Executing \cup {w}
    BY <1>1 DEF WorkerExecute, Executing, Goto, AddLabels, QueueInv, TypeOK
  <2>2. Cardinality(Executing') = Cardinality(Executing) + 1
    BY <2>1, WorkersFinite, FS_AddElement DEF Executing
  <2> QED BY <1>1, <2>2 DEF WorkerExecute, ExecutingCountExact
<1>2. ASSUME NEW w \in Workers, WorkerExecuted(w) PROVE ExecutingCountExact'
  <2>1. w \in Executing /\ Executing' = Executing \ {w}
    BY <1>2 DEF WorkerExecuted, Executing, Goto, AddLabels, QueueInv, TypeOK
  <2>2. Cardinality(Executing') = Cardinality(Executing) - 1
    BY <2>1, WorkersFinite, FS_RemoveElement DEF Executing
  <2> QED BY <1>2, <2>2 DEF WorkerExecuted, ExecutingCountExact
<1>3. ASSUME mExecutingJobCount' = mExecutingJobCount,
             \A w \in Workers : pc'[w] \in {"execute"} \cup AddLabels <=>
                                pc[w] \in {"execute"} \cup AddLabels
      PROVE  ExecutingCountExact'
  <2>1. Executing' = Executing
    BY <1>3 DEF Executing
  <2> QED BY <1>3, <2>1 DEF ExecutingCountExact
<1>4. CASE StartLock
  BY <1>4, <1>3 DEF StartLock, AddLabels, counts, QueueInv, TypeOK, ThreadInv
<1>5. CASE StartWait
  BY <1>5, <1>3 DEF StartWait, Goto, AddLabels, counts, QueueInv, TypeOK
<1>6. ASSUME NEW t \in Threads, AddLock(t) PROVE ExecutingCountExact'
  BY <1>6, <1>3 DEF AddLock, Goto, AddLabels, counts, QueueInv, TypeOK
<1>7. ASSUME NEW t \in Threads, AddPush(t) PROVE ExecutingCountExact'
  BY <1>7, <1>3 DEF AddPush, Goto, AddLabels, counts, QueueInv, TypeOK
<1>8. ASSUME NEW t \in Threads, AddNotify(t) PROVE ExecutingCountExact'
  BY <1>8, <1>3 DEF AddNotify, AfterAdd, Goto, AddLabels, counts, QueueInv, TypeOK
<1>9. ASSUME NEW t \in Threads, NEW j \in Jobs, AddCheck(t, j)
      PROVE  ExecutingCountExact'
  BY <1>9, <1>3 DEF AddCheck, AfterAdd, Goto, AddLabels, counts, QueueInv, TypeOK
<1>10. CASE PauseLock
  BY <1>10, <1>3 DEF PauseLock, Goto, AddLabels, counts, QueueInv, TypeOK
<1>11. CASE PauseClear
  BY <1>11, <1>3 DEF PauseClear, Goto, AddLabels, counts, QueueInv, TypeOK
<1>12. CASE PauseFlag
  BY <1>12, <1>3 DEF PauseFlag, WakeAll, Goto, AddLabels, counts, QueueInv, TypeOK
<1>13. CASE StopLock
  BY <1>13, <1>3 DEF StopLock, Goto, AddLabels, counts, QueueInv, TypeOK
<1>14. CASE StopQuit
  BY <1>14, <1>3 DEF StopQuit, Goto, AddLabels, counts, QueueInv, TypeOK
<1>15. CASE StopFlag
  BY <1>15, <1>3 DEF StopFlag, Goto, AddLabels, counts, QueueInv, TypeOK
<1>16. CASE StopClear
  BY <1>16, <1>3 DEF StopClear, Goto, AddLabels, counts, QueueInv, TypeOK
<1>17. CASE StopNotify
  BY <1>17, <1>3 DEF StopNotify, WakeAll, Goto, AddLabels, counts, QueueInv, TypeOK
<1>18. CASE StopJoin
  BY <1>18, <1>3 DEF StopJoin, Goto, AddLabels, counts, QueueInv, TypeOK
<1>19. ASSUME NEW w \in Workers, WorkerStart(w) PROVE ExecutingCountExact'
  BY <1>19, <1>3 DEF WorkerStart, Goto, AddLabels, counts, QueueInv, TypeOK
<1>20. ASSUME NEW w \in Workers, WorkerLock(w) PROVE ExecutingCountExact'
  BY <1>20, <1>3 DEF WorkerLock, Goto, AddLabels, counts, QueueInv, TypeOK
<1>21. ASSUME NEW w \in Workers, WorkerLoop(w) PROVE ExecutingCountExact'
  BY <1>21, <1>3 DEF WorkerLoop, Goto, AddLabels, counts, QueueInv, TypeOK
<1>22. ASSUME NEW w \in Workers, WorkerPred(w) PROVE ExecutingCountExact'
  BY <1>22, <1>3 DEF WorkerPred, Goto, AddLabels, counts, QueueInv, TypeOK
<1>23. ASSUME NEW w \in Workers, WorkerSleep(w) PROVE ExecutingCountExact'
  BY <1>23, <1>3 DEF WorkerSleep, Goto, AddLabels, counts, QueueInv, TypeOK
<1>24. ASSUME NEW w \in Workers, WorkerTake(w) PROVE ExecutingCountExact'
  BY <1>24, <1>3 DEF WorkerTake, Goto, AddLabels, counts, QueueInv, TypeOK
<1>25. ASSUME NEW w \in Workers, WorkerComplete(w) PROVE ExecutingCountExact'
  BY <1>25, <1>3 DEF WorkerComplete, Goto, AddLabels, counts, QueueInv, TypeOK
<1>26. ASSUME NEW w \in Workers, WorkerSpuriousWakeup(w) PROVE ExecutingCountExact'
  BY <1>26, <1>3 DEF WorkerSpuriousWakeup, Goto, AddLabels, counts, QueueInv, TypeOK
<1>27. CASE UpdateTake
  BY <1>27, <1>3 DEF UpdateTake, Goto, AddLabels, counts, QueueInv, TypeOK
<1>28. CASE UpdateNotify
  BY <1>28, <1>3 DEF UpdateNotify, Goto, AddLabels, counts, QueueInv, TypeOK
<1>29. CASE PauseCall
  BY <1>29, <1>3 DEF PauseCall, Goto, AddLabels, counts, QueueInv, TypeOK
<1>30. CASE UnPause
  BY <1>30, <1>3 DEF UnPause, Goto, AddLabels, counts, QueueInv, TypeOK
<1>31. CASE StopCall
  BY <1>31, <1>3 DEF StopCall, Goto, AddLabels, counts, QueueInv, TypeOK
<1>32. CASE UNCHANGED vars
  BY <1>32, <1>3 DEF vars, counts
<1> QED
  BY <1>1, <1>2, <1>3, <1>4, <1>5, <1>6, <1>7, <1>8, <1>9, <1>10, <1>11, <1>12, <1>13, <1>14, <1>15, <1>16, <1>17, <1>18, <1>19, <1>20, <1>21, <1>22, <1>23, <1>24, <1>25, <1>26, <1>27, <1>28, <1>29, <1>30, <1>31, <1>32 DEF QueueSteps

LEMMA InitExecuting == Init => ExecutingCountExact
<1> SUFFICES ASSUME Init PROVE ExecutingCountExact
  OBVIOUS
<1>1. Executing = {}
  BY Distinct DEF Init, Executing, Threads, AddLabels
<1> QED
  BY <1>1, FS_EmptySet DEF Init, ExecutingCountExact

\* mExecutingJobCount is exact at every moment, so the unsigned counter never
\* wraps, for any number of workers.
THEOREM ExecutingCount == Spec => []ExecutingCountExact
BY InitQueueInv, StepQueueInv, InitExecuting, StepExecuting, NextCases, PTL DEF Spec

\* When Stop has returned nothing runs, nothing is queued and nothing can be
\* queued any more.
THEOREM StopFinal == Spec => []StopIsFinal
<1>1. QueueInv /\ StopInv /\ ExecutingCountExact => StopIsFinal
  <2> SUFFICES ASSUME QueueInv, StopInv, ExecutingCountExact, mQuit = TRUE,
                      pc[Main] \in {"client", "notify"}
               PROVE  /\ \A w \in Workers : pc[w] = "exited" /\ item[w] = None
                      /\ mWorkQueue = <<>> /\ mExecutingJobCount = 0
                      /\ adding[Main] = None
    BY DEF StopIsFinal
  <2>1. mWorkQueue = <<>> /\ \A w \in Workers : pc[w] = "exited"
    BY DEF StopInv
  <2>2. Executing = {}
    BY <2>1 DEF Executing, AddLabels
  <2>3. mExecutingJobCount = 0
    BY <2>2, FS_EmptySet DEF ExecutingCountExact
  <2>4. /\ \A w \in Workers : item[w] = None
        /\ adding[Main] = None
    BY <2>1 DEF QueueInv, ThreadInv, HoldsItem, AddLabels, Threads
  <2> QED BY <2>1, <2>3, <2>4
<1> QED
  BY StopInvCorrect, ExecutingCount, <1>1, PTL
-----------------------------------------------------------------------------
\* Queued jobs against the workers that will look at the queue.

LEMMA Cards ==
  /\ IsFiniteSet(Awake) /\ Cardinality(Awake) \in Nat
  /\ IsFiniteSet(Notifying) /\ Cardinality(Notifying) \in Nat
  /\ IsFiniteSet(Awake') /\ Cardinality(Awake') \in Nat
  /\ IsFiniteSet(Notifying') /\ Cardinality(Notifying') \in Nat
<1>1. IsFiniteSet(Threads)
  BY QueueAssumption, FS_AddElement DEF Threads
<1>2. /\ IsFiniteSet(Awake) /\ IsFiniteSet(Awake')
      /\ IsFiniteSet(Notifying) /\ IsFiniteSet(Notifying')
  <2>1. Awake \subseteq Workers /\ Awake' \subseteq Workers
    BY DEF Awake
  <2>2. Notifying \subseteq Threads /\ Notifying' \subseteq Threads
    BY DEF Notifying
  <2> QED BY <1>1, <2>1, <2>2, WorkersFinite, FS_Subset
<1> QED
  BY <1>2, FS_CardinalityType

LEMMA StepWorkConserving ==
  QueueInv /\ WorkConserving /\ QueueSteps => WorkConserving'
<1> SUFFICES ASSUME QueueInv, WorkConserving, QueueSteps
             PROVE  WorkConserving'
  OBVIOUS
<1> USE Distinct DEF Threads, QueueInv, TypeOK, flags, queues
<1>a. ASSUME UNCHANGED <<mQuit, mWorkQueue>>, Waiting' \subseteq Waiting,
             Awake \subseteq Awake', Notifying \subseteq Notifying'
      PROVE  WorkConserving'
  <2>1. /\ Cardinality(Awake) <= Cardinality(Awake')
        /\ Cardinality(Notifying) <= Cardinality(Notifying')
    BY <1>a, Cards, FS_Subset
  <2>2. Len(mWorkQueue) \in Nat
    OBVIOUS
  <2>3. Waiting' # {} => Waiting # {}
    BY <1>a
  <2> QED BY <1>a, <2>1, <2>2, <2>3, Cards DEF WorkConserving
<1>b. ASSUME (mWorkQueue = <<>> /\ mWorkQueue' = mWorkQueue) \/ mWorkQueue' = <<>>
      PROVE  WorkConserving'
  <2>1. Len(mWorkQueue') = 0
    BY <1>b
  <2> QED BY <2>1, Cards DEF WorkConserving
<1>1. CASE StartLock
  BY <1>1 DEF StartLock, Waiting, WorkConserving
<1>2. CASE StartWait
  BY <1>2, <1>a DEF StartWait, Waiting, Awake, Notifying, Goto
<1>3. ASSUME NEW t \in Threads, AddLock(t) PROVE WorkConserving'
  BY <1>3, <1>a DEF AddLock, Waiting, Awake, Notifying, Goto
<1>4. ASSUME NEW t \in Threads, AddPush(t) PROVE WorkConserving'
  <2>1. /\ t \notin Notifying /\ Notifying' = Notifying \cup {t}
        /\ Awake' = Awake /\ Waiting' = Waiting
    BY <1>4 DEF AddPush, Notifying, Awake, Waiting, Goto
  <2>2. Cardinality(Notifying') = Cardinality(Notifying) + 1
    BY <2>1, Cards, FS_AddElement
  <2>3. Len(mWorkQueue') = Len(mWorkQueue) + 1
    <3>1. adding[t] \in Jobs
      BY <1>4 DEF AddPush, ThreadInv
    <3> QED BY <1>4, <3>1, AppendProperties DEF AddPush
  <2> QED BY <1>4, <2>1, <2>2, <2>3, Cards DEF AddPush, WorkConserving
<1>5. ASSUME NEW t \in Threads, AddNotify(t) PROVE WorkConserving'
  <2>1. ThreadsAfterNotify(t)
    BY <1>5, AddNotifyStep
  <2>2. UNCHANGED <<mQuit, mWorkQueue>>
    BY <1>5 DEF AddNotify
  <2>3. CASE \A u \in Workers : pc[u] # "waiting"
    <3>1. \A u \in Workers : pc'[u] # "waiting"
      BY <2>1, <2>3 DEF ThreadsAfterNotify
    <3> QED BY <3>1 DEF Waiting, WorkConserving
  <2>4. ASSUME NEW w \in Workers, w # t, pc[w] = "waiting", pc'[w] = "relock",
               \A u \in Threads \ {t, w} : pc'[u] = pc[u]
        PROVE  WorkConserving'
    <3>1. /\ t \in Notifying /\ Notifying' = Notifying \ {t}
          /\ w \notin Awake /\ Awake' = Awake \cup {w}
          /\ w \in Waiting
      BY <2>1, <2>4 DEF Notifying, Awake, Waiting, ThreadsAfterNotify
    <3>2. /\ Cardinality(Notifying') = Cardinality(Notifying) - 1
          /\ Cardinality(Awake') = Cardinality(Awake) + 1
      BY <3>1, Cards, FS_AddElement, FS_RemoveElement
    <3> QED BY <2>2, <3>1, <3>2, Cards DEF WorkConserving
  <2> QED BY <2>1, <2>3, <2>4 DEF ThreadsAfterNotify
<1>6. ASSUME NEW t \in Threads, NEW j \in Jobs, AddCheck(t, j)
      PROVE  WorkConserving'
  BY <1>6, <1>a DEF AddCheck, AfterAdd, Waiting, Awake, Notifying, Goto
<1>7. CASE PauseLock
  BY <1>7, <1>a DEF PauseLock, Waiting, Awake, Notifying, Goto
<1>8. CASE PauseClear
  BY <1>8, <1>b DEF PauseClear
<1>9. CASE PauseFlag
  BY <1>9 DEF PauseFlag, WakeAll, Waiting, WorkConserving
<1>10. CASE StopLock
  BY <1>10, <1>a DEF StopLock, Waiting, Awake, Notifying, Goto
<1>11. CASE StopQuit
  BY <1>11 DEF StopQuit, WorkConserving
<1>12. CASE StopFlag
  BY <1>12, <1>a DEF StopFlag, Waiting, Awake, Notifying, Goto
<1>13. CASE StopClear
  BY <1>13, <1>b DEF StopClear
<1>14. CASE StopNotify
  BY <1>14 DEF StopNotify, WakeAll, Waiting, WorkConserving
<1>15. CASE StopJoin
  BY <1>15, <1>a DEF StopJoin, Waiting, Awake, Notifying, Goto
<1>16. ASSUME NEW w \in Workers, WorkerStart(w) PROVE WorkConserving'
  BY <1>16, <1>a DEF WorkerStart, Waiting, Awake, Notifying, Goto
<1>17. ASSUME NEW w \in Workers, WorkerLock(w) PROVE WorkConserving'
  BY <1>17, <1>a DEF WorkerLock, Waiting, Awake, Notifying, Goto
<1>18. ASSUME NEW w \in Workers, WorkerLoop(w) PROVE WorkConserving'
  <2>1. CASE mQuit
    BY <1>18, <2>1 DEF WorkerLoop, WorkConserving
  <2>2. CASE ~mQuit
    BY <1>18, <2>2, <1>a DEF WorkerLoop, Waiting, Awake, Notifying, Goto
  <2> QED BY <2>1, <2>2
<1>19. ASSUME NEW w \in Workers, WorkerPred(w) PROVE WorkConserving'
  <2>1. CASE mWorkQueue = <<>>
    BY <1>19, <2>1, <1>b DEF WorkerPred
  <2>2. CASE mWorkQueue # <<>>
    BY <1>19, <2>2, <1>a DEF WorkerPred, Waiting, Awake, Notifying, Goto
  <2> QED BY <2>1, <2>2
<1>20. ASSUME NEW w \in Workers, WorkerSleep(w) PROVE WorkConserving'
  BY <1>20, <1>b DEF WorkerSleep, ThreadInv
<1>21. ASSUME NEW w \in Workers, WorkerTake(w) PROVE WorkConserving'
  <2>1. CASE mQuit
    BY <1>21, <2>1 DEF WorkerTake, WorkConserving
  <2>2. CASE ~mQuit
    <3>1. /\ w \in Awake /\ Awake' = Awake \ {w}
          /\ Notifying' = Notifying /\ Waiting' = Waiting
      BY <1>21, <2>2 DEF WorkerTake, Notifying, Awake, Waiting, Goto
    <3>2. Cardinality(Awake') = Cardinality(Awake) - 1
      BY <3>1, Cards, FS_RemoveElement
    <3>3. mWorkQueue # <<>> /\ mWorkQueue' = Tail(mWorkQueue)
      BY <1>21, <2>2 DEF WorkerTake, ThreadInv
    <3>4. Len(mWorkQueue') = Len(mWorkQueue) - 1
      BY <3>3, HeadTailProperties
    <3> QED BY <1>21, <3>1, <3>2, <3>4, Cards DEF WorkerTake, WorkConserving
  <2> QED BY <2>1, <2>2
<1>22. ASSUME NEW w \in Workers, WorkerExecute(w) PROVE WorkConserving'
  BY <1>22, <1>a DEF WorkerExecute, Waiting, Awake, Notifying, Goto
<1>23. ASSUME NEW w \in Workers, WorkerExecuted(w) PROVE WorkConserving'
  BY <1>23, <1>a DEF WorkerExecuted, Waiting, Awake, Notifying, Goto
<1>24. ASSUME NEW w \in Workers, WorkerComplete(w) PROVE WorkConserving'
  BY <1>24, <1>a DEF WorkerComplete, Waiting, Awake, Notifying, Goto
<1>25. ASSUME NEW w \in Workers, WorkerSpuriousWakeup(w) PROVE WorkConserving'
  BY <1>25, <1>a DEF WorkerSpuriousWakeup, Waiting, Awake, Notifying, Goto
<1>26. CASE UpdateTake
  BY <1>26, <1>a DEF UpdateTake, Waiting, Awake, Notifying, Goto
<1>27. CASE UpdateNotify
  BY <1>27, <1>a DEF UpdateNotify, Waiting, Awake, Notifying, Goto
<1>28. CASE PauseCall
  BY <1>28, <1>a DEF PauseCall, Waiting, Awake, Notifying, Goto
<1>29. CASE UnPause
  BY <1>29, <1>a DEF UnPause, Waiting, Awake, Notifying, Goto
<1>30. CASE StopCall
  BY <1>30, <1>a DEF StopCall, Waiting, Awake, Notifying, Goto
<1>31. CASE UNCHANGED vars
  BY <1>31, <1>a DEF vars, Waiting, Awake, Notifying
<1> QED
  BY <1>1, <1>2, <1>3, <1>4, <1>5, <1>6, <1>7, <1>8, <1>9, <1>10, <1>11, <1>12, <1>13, <1>14, <1>15, <1>16, <1>17, <1>18, <1>19, <1>20, <1>21, <1>22, <1>23, <1>24, <1>25, <1>26, <1>27, <1>28, <1>29, <1>30, <1>31 DEF QueueSteps

\* A worker never sleeps on while more jobs are queued than workers and
\* notifications are on their way to them, for any number of workers.
THEOREM Conserving == Spec => []WorkConserving
<1>1. Init => WorkConserving
  <2>1. Init => Waiting = {}
    BY Distinct DEF Init, Waiting, Threads
  <2> QED BY <2>1 DEF WorkConserving
<1> QED
  BY InitQueueInv, StepQueueInv, <1>1, StepWorkConserving, NextCases, PTL DEF Spec

-----------------------------------------------------------------------------
(* Every job is in one place, once. *)

Once(s) == \A i, k \in DOMAIN s : s[i] = s[k] => i = k

OnceInv ==
  /\ Once(mWorkQueue) /\ Once(mCompletedWork) /\ Once(completed)
  /\ \A t, u \in Threads : adding[t] # None /\ adding[t] = adding[u] => t = u
  /\ \A w, v \in Workers : item[w] # None /\ item[w] = item[v] => w = v

\* A job is being added, queued, executed, has run, is about to be notified
\* or was notified: no two of them; and it was given to Add once.
ApartInv ==
  /\ InFlight \cap (Members(mWorkQueue) \cup Taken \cup Members(mCompletedWork)
                      \cup Members(completed) \cup Members(notified)) = {}
  /\ Members(mWorkQueue) \cap (Taken \cup Members(mCompletedWork)
                                 \cup Members(completed) \cup Members(notified)) = {}
  /\ Taken \cap (Members(mCompletedWork) \cup Members(completed) \cup Members(notified)) = {}
  /\ Members(mCompletedWork) \cap (Members(completed) \cup Members(notified)) = {}
  /\ Members(completed) \cap Members(notified) = {}
  /\ (InFlight \cup Members(mWorkQueue) \cup Taken \cup Members(mCompletedWork)
        \cup Members(completed) \cup Members(notified)) \subseteq given

PlaceInv == OnceInv /\ ApartInv

LEMMA NoMembers == Members(<<>>) = {} /\ Once(<<>>)
BY DEF Members, Once

LEMMA AppendMembers ==
  ASSUME NEW S, NEW s \in Seq(S), NEW x \in S
  PROVE  /\ Members(Append(s, x)) = Members(s) \cup {x}
         /\ Once(s) /\ x \notin Members(s) => Once(Append(s, x))
<1>1. /\ DOMAIN Append(s, x) = 1 .. Len(s) + 1 /\ DOMAIN s = 1 .. Len(s) /\ Len(s) \in Nat
      /\ \A i \in 1 .. Len(s) : Append(s, x)[i] = s[i]
      /\ Append(s, x)[Len(s) + 1] = x
  BY AppendProperties
<1>2. Members(Append(s, x)) = Members(s) \cup {x}
  <2>1. ASSUME NEW y \in Members(Append(s, x)) PROVE y \in Members(s) \cup {x}
    BY <1>1, <2>1 DEF Members
  <2>2. Members(s) \subseteq Members(Append(s, x))
    BY <1>1 DEF Members
  <2>3. x \in Members(Append(s, x))
    BY <1>1 DEF Members
  <2> QED
    BY <2>1, <2>2, <2>3
<1>3. ASSUME Once(s), x \notin Members(s) PROVE Once(Append(s, x))
  BY <1>1, <1>3 DEF Once, Members
<1> QED
  BY <1>2, <1>3

LEMMA TailMembers ==
  ASSUME NEW S, NEW s \in Seq(S), s # <<>>
  PROVE  /\ Head(s) \in S /\ Tail(s) \in Seq(S)
         /\ Members(s) = {Head(s)} \cup Members(Tail(s))
         /\ Once(s) => Once(Tail(s)) /\ Head(s) \notin Members(Tail(s))
<1>1. /\ Head(s) \in S /\ Tail(s) \in Seq(S) /\ Head(s) = s[1]
      /\ DOMAIN Tail(s) = 1 .. Len(s) - 1 /\ DOMAIN s = 1 .. Len(s)
      /\ Len(s) \in Nat /\ Len(s) > 0
      /\ \A i \in 1 .. Len(s) - 1 : Tail(s)[i] = s[i + 1]
  BY HeadTailProperties, EmptySeq
<1>2. Members(s) = {Head(s)} \cup Members(Tail(s))
  <2>1. ASSUME NEW i \in DOMAIN s PROVE s[i] \in {Head(s)} \cup Members(Tail(s))
    <3>1. CASE i = 1
      BY <1>1, <3>1
    <3>2. CASE i # 1
      <4>1. i - 1 \in DOMAIN Tail(s) /\ Tail(s)[i - 1] = s[i]
        BY <1>1, <3>2
      <4> QED
        BY <4>1 DEF Members
    <3> QED
      BY <3>1, <3>2
  <2>2. Head(s) \in Members(s)
    BY <1>1 DEF Members
  <2>3. Members(Tail(s)) \subseteq Members(s)
    BY <1>1 DEF Members
  <2> QED
    BY <2>1, <2>2, <2>3 DEF Members
<1>3. ASSUME Once(s) PROVE Once(Tail(s)) /\ Head(s) \notin Members(Tail(s))
  <2>1. Once(Tail(s))
    BY <1>1, <1>3 DEF Once
  <2>2. \A i \in DOMAIN Tail(s) : Tail(s)[i] # Head(s)
    BY <1>1, <1>3 DEF Once
  <2> QED
    BY <2>1, <2>2 DEF Members
<1> QED
  BY <1>1, <1>2, <1>3

LEMMA PlacesStay ==
  ASSUME PlaceInv, UNCHANGED <<adding, item, queues, history>>
  PROVE  PlaceInv'
BY DEF PlaceInv, OnceInv, ApartInv, queues, history, InFlight, Taken

LEMMA CheckPlaces ==
  ASSUME QueueInv, PlaceInv, NEW t \in Threads, NEW j \in Jobs, AddCheck(t, j)
  PROVE  PlaceInv'
<1>1. /\ pc[t] = AfterAdd(t) /\ j \notin given /\ given' = given \cup {j}
      /\ UNCHANGED <<item, queues, notified>>
  BY DEF AddCheck
<1>2. CASE UNCHANGED adding
  BY <1>1, <1>2 DEF PlaceInv, OnceInv, ApartInv, queues, InFlight, Taken
<1>3. CASE adding' = [adding EXCEPT ![t] = j]
  <2>1. adding \in [Threads -> Jobs \cup {None}] /\ adding[t] = None
    BY <1>1 DEF QueueInv, TypeOK, ThreadInv, AfterAdd
  <2>2. \A u \in Threads : adding'[u] = IF u = t THEN j ELSE adding[u]
    BY <1>3, <2>1
  <2>3. \A u \in Threads : adding[u] # j
    BY <1>1, Distinct DEF PlaceInv, ApartInv, InFlight
  <2>4. OnceInv'
    BY <1>1, <2>2, <2>3 DEF PlaceInv, OnceInv, queues
  <2>5. InFlight' = InFlight \cup {j}
    BY <2>1, <2>2, Distinct DEF InFlight
  <2>6. ApartInv'
    BY <1>1, <2>5 DEF PlaceInv, ApartInv, queues, Taken
  <2> QED
    BY <2>4, <2>6 DEF PlaceInv
<1> QED
  BY <1>2, <1>3 DEF AddCheck

\* The job a thread is adding goes to the end of the queue.
LEMMA PushPlaces ==
  ASSUME QueueInv, PlaceInv, NEW t \in Threads, AddPush(t)
  PROVE  PlaceInv' /\ InFlight' = InFlight \ {adding[t]} /\ adding[t] \in InFlight
         /\ Members(mWorkQueue') = Members(mWorkQueue) \cup {adding[t]}
<1>1. /\ pc[t] = "addPush" /\ mWorkQueue' = Append(mWorkQueue, adding[t])
      /\ adding' = [adding EXCEPT ![t] = None]
      /\ UNCHANGED <<mCompletedWork, completed, item, history>>
  BY DEF AddPush
<1>2. PICK j : j = adding[t]
  OBVIOUS
<1>3. /\ adding \in [Threads -> Jobs \cup {None}] /\ j \in Jobs /\ mWorkQueue \in Seq(Jobs)
  BY <1>1, <1>2 DEF QueueInv, TypeOK, ThreadInv
<1>4. /\ \A u \in Threads : adding'[u] = IF u = t THEN None ELSE adding[u]
      /\ \A u \in Threads : u # t => adding[u] # j
  BY <1>1, <1>2, <1>3, Distinct DEF PlaceInv, OnceInv
<1>5. InFlight' = InFlight \ {j} /\ j \in InFlight
  BY <1>2, <1>3, <1>4, Distinct DEF InFlight
<1>6. Members(mWorkQueue') = Members(mWorkQueue) \cup {j} /\ Once(mWorkQueue')
  BY <1>1, <1>2, <1>3, <1>5, AppendMembers DEF PlaceInv, OnceInv, ApartInv
<1>7. OnceInv'
  BY <1>1, <1>4, <1>6 DEF PlaceInv, OnceInv
<1>8. ApartInv'
  BY <1>1, <1>5, <1>6 DEF PlaceInv, ApartInv, history, Taken
<1> QED
  BY <1>2, <1>5, <1>6, <1>7, <1>8 DEF PlaceInv

LEMMA ClearPlaces ==
  ASSUME PlaceInv, mWorkQueue' = <<>>, UNCHANGED <<mCompletedWork, completed, adding, item, history>>
  PROVE  PlaceInv'
BY NoMembers DEF PlaceInv, OnceInv, ApartInv, history, InFlight, Taken

\* The first of the queue is the worker's.
LEMMA TakePlaces ==
  ASSUME QueueInv, PlaceInv, NEW w \in Workers, WorkerTake(w), ~mQuit
  PROVE  PlaceInv' /\ Taken' = Taken \cup {Head(mWorkQueue)} /\ item[w] = None
         /\ Members(mWorkQueue) = {Head(mWorkQueue)} \cup Members(mWorkQueue')
<1>1. /\ pc[w] = "awake" /\ mWorkQueue' = Tail(mWorkQueue)
      /\ item' = [item EXCEPT ![w] = Head(mWorkQueue)]
      /\ UNCHANGED <<mCompletedWork, completed, adding, history>>
  BY DEF WorkerTake
<1>2. PICK j : j = Head(mWorkQueue)
  OBVIOUS
<1>3. /\ item \in [Workers -> Jobs \cup {None}] /\ item[w] = None
      /\ mWorkQueue \in Seq(Jobs) /\ mWorkQueue # <<>>
  BY <1>1 DEF QueueInv, TypeOK, ThreadInv, HoldsItem, AddLabels
<1>4. /\ j \in Jobs /\ Members(mWorkQueue) = {j} \cup Members(mWorkQueue')
      /\ Once(mWorkQueue') /\ j \notin Members(mWorkQueue')
  BY <1>1, <1>2, <1>3, TailMembers DEF PlaceInv, OnceInv
<1>5. \A v \in Workers : item'[v] = IF v = w THEN j ELSE item[v]
  BY <1>1, <1>2, <1>3
<1>6. Taken' = Taken \cup {j} /\ j \notin Taken
  <2>1. j \notin Taken
    BY <1>4 DEF PlaceInv, ApartInv
  <2> QED
    BY <1>3, <1>4, <1>5, <2>1, Distinct DEF Taken
<1>7. OnceInv'
  <2>1. \A v \in Workers : item[v] # j
    BY <1>4, <1>6, Distinct DEF Taken
  <2> QED
    BY <1>1, <1>4, <1>5, <2>1 DEF PlaceInv, OnceInv
<1>8. ApartInv'
  BY <1>1, <1>4, <1>6 DEF PlaceInv, ApartInv, history, InFlight
<1> QED
  BY <1>2, <1>3, <1>4, <1>6, <1>7, <1>8 DEF PlaceInv

\* The job a worker has executed is the last of the completed ones.
LEMMA CompletePlaces ==
  ASSUME QueueInv, PlaceInv, NEW w \in Workers, WorkerComplete(w)
  PROVE  PlaceInv' /\ item[w] \in Jobs /\ item[w] \in Taken /\ Taken' = Taken \ {item[w]}
         /\ Members(mCompletedWork') = Members(mCompletedWork) \cup {item[w]}
<1>1. /\ pc[w] = "executed" /\ mCompletedWork' = Append(mCompletedWork, item[w])
      /\ item' = [item EXCEPT ![w] = None]
      /\ UNCHANGED <<mWorkQueue, completed, adding, history>>
  BY DEF WorkerComplete
<1>2. PICK j : j = item[w]
  OBVIOUS
<1>3. /\ item \in [Workers -> Jobs \cup {None}] /\ j \in Jobs /\ mCompletedWork \in Seq(Jobs)
  BY <1>1, <1>2 DEF QueueInv, TypeOK, ThreadInv, HoldsItem
<1>4. /\ \A v \in Workers : item'[v] = IF v = w THEN None ELSE item[v]
      /\ \A v \in Workers : v # w => item[v] # j
  BY <1>1, <1>2, <1>3, Distinct DEF PlaceInv, OnceInv
<1>5. Taken' = Taken \ {j} /\ j \in Taken
  BY <1>2, <1>3, <1>4, Distinct DEF Taken
<1>6. Members(mCompletedWork') = Members(mCompletedWork) \cup {j} /\ Once(mCompletedWork')
  BY <1>1, <1>2, <1>3, <1>5, AppendMembers DEF PlaceInv, OnceInv, ApartInv
<1>7. OnceInv'
  BY <1>1, <1>4, <1>6 DEF PlaceInv, OnceInv
<1>8. ApartInv'
  BY <1>1, <1>5, <1>6 DEF PlaceInv, ApartInv, history, InFlight
<1> QED
  BY <1>2, <1>3, <1>5, <1>6, <1>7, <1>8 DEF PlaceInv

\* Update takes what has completed once it has notified what it took before.
LEMMA UpdatePlaces ==
  ASSUME QueueInv, PlaceInv, UpdateTake, completed = <<>>
  PROVE  PlaceInv'
<1>1. /\ completed' = mCompletedWork /\ mCompletedWork' = <<>>
      /\ UNCHANGED <<mWorkQueue, adding, item, history>>
  BY DEF UpdateTake
<1>2. Members(completed') = Members(mCompletedWork) /\ Members(mCompletedWork') = {}
      /\ Members(completed) = {} /\ Once(mCompletedWork')
  BY <1>1, NoMembers
<1> QED
  BY <1>1, <1>2 DEF PlaceInv, OnceInv, ApartInv, history, InFlight, Taken

LEMMA NotifyPlaces ==
  ASSUME QueueInv, PlaceInv, UpdateNotify
  PROVE  PlaceInv' /\ Members(completed) = {Head(completed)} \cup Members(completed')
         /\ Head(completed) \notin Members(completed')
         /\ Members(notified') = Members(notified) \cup {Head(completed)}
<1>1. /\ notified' = Append(notified, Head(completed)) /\ completed' = Tail(completed)
      /\ UNCHANGED <<mWorkQueue, mCompletedWork, adding, item, given>>
  BY DEF UpdateNotify
<1>2. completed \in Seq(Jobs) /\ completed # <<>> /\ notified \in Seq(Jobs)
  BY DEF QueueInv, TypeOK, ThreadInv, UpdateNotify
<1>3. /\ Head(completed) \in Jobs /\ Members(completed) = {Head(completed)} \cup Members(completed')
      /\ Once(completed') /\ Head(completed) \notin Members(completed')
  BY <1>1, <1>2, TailMembers DEF PlaceInv, OnceInv
<1>4. Members(notified') = Members(notified) \cup {Head(completed)}
  BY <1>1, <1>2, <1>3, AppendMembers
<1>5. OnceInv'
  BY <1>1, <1>3 DEF PlaceInv, OnceInv
<1>6. ApartInv'
  <2>1. InFlight' = InFlight /\ Taken' = Taken
    BY <1>1 DEF InFlight, Taken
  <2>2. PICK j : j = Head(completed)
    OBVIOUS
  <2> QED
    BY <1>1, <1>3, <1>4, <2>1, <2>2 DEF PlaceInv, ApartInv
<1> QED
  BY <1>3, <1>4, <1>5, <1>6 DEF PlaceInv

\* Update leaves its list empty.
UpdateInv == pc[Main] # "notify" => completed = <<>>

LEMMA StepUpdate == QueueInv /\ UpdateInv /\ QueueSteps => UpdateInv'
<1> SUFFICES ASSUME QueueInv, UpdateInv, QueueSteps PROVE UpdateInv'
  OBVIOUS
<1>0. /\ pc \in [Threads -> WorkerLabels \cup AddLabels \cup MainLabels]
      /\ Main \in Threads /\ \A w \in Workers : w # Main
  BY Distinct DEF QueueInv, TypeOK, Threads
<1>1. CASE StartLock \/ StartWait \/ PauseLock \/ PauseClear \/ PauseCall \/ UnPause \/ StopCall
  BY <1>0, <1>1 DEF UpdateInv, StartLock, StartWait, PauseLock, PauseClear, PauseCall, UnPause,
                    StopCall, Goto, queues
<1>2. CASE PauseFlag \/ StopLock \/ StopQuit \/ StopFlag \/ StopClear \/ StopNotify \/ StopJoin
  BY <1>0, <1>2 DEF UpdateInv, PauseFlag, StopLock, StopQuit, StopFlag, StopClear, StopNotify,
                    StopJoin, WakeAll, Goto, queues
<1>3. ASSUME NEW t \in Threads, AddLock(t) \/ AddPush(t) PROVE UpdateInv'
  <2>1. completed' = completed /\ ((pc[Main] # "notify" /\ pc'[Main] # "notify") \/ pc'[Main] = pc[Main])
    BY <1>0, <1>3 DEF AddLock, AddPush, Goto, queues
  <2> QED
    BY <2>1 DEF UpdateInv
<1>4. ASSUME NEW t \in Threads, AddNotify(t) PROVE UpdateInv'
  <2>1. ThreadsAfterNotify(t)
    BY <1>4, AddNotifyStep DEF QueueInv
  <2>2. completed' = completed /\ pc[t] = "addNotify"
    BY <1>4 DEF AddNotify, queues
  <2> QED
    <3>1. (pc[Main] # "notify" /\ pc'[Main] # "notify") \/ pc'[Main] = pc[Main]
      BY <1>0, <2>1, <2>2 DEF ThreadsAfterNotify
    <3> QED
      BY <2>2, <3>1 DEF UpdateInv
<1>5. ASSUME NEW t \in Threads, NEW j, AddCheck(t, j) PROVE UpdateInv'
  <2>1. completed' = completed /\ ((pc[Main] # "notify" /\ pc'[Main] # "notify") \/ pc'[Main] = pc[Main])
    BY <1>0, <1>5 DEF AddCheck, AfterAdd, Goto, queues
  <2> QED
    BY <2>1 DEF UpdateInv
<1>6. ASSUME NEW w \in Workers,
             WorkerStart(w) \/ WorkerLock(w) \/ WorkerLoop(w) \/ WorkerPred(w) \/ WorkerSleep(w)
      PROVE  UpdateInv'
  BY <1>0, <1>6 DEF UpdateInv, WorkerStart, WorkerLock, WorkerLoop, WorkerPred, WorkerSleep, Goto, queues
<1>7. ASSUME NEW w \in Workers,
             WorkerTake(w) \/ WorkerExecute(w) \/ WorkerExecuted(w) \/ WorkerComplete(w)
               \/ WorkerSpuriousWakeup(w)
      PROVE  UpdateInv'
  BY <1>0, <1>7 DEF UpdateInv, WorkerTake, WorkerExecute, WorkerExecuted, WorkerComplete,
                    WorkerSpuriousWakeup, Goto, queues
<1>8. CASE UpdateTake
  <2>1. pc'[Main] = "notify"
    BY <1>0, <1>8 DEF UpdateTake, Goto
  <2> QED
    BY <2>1 DEF UpdateInv
<1>9. CASE UpdateNotify
  <2>1. completed \in Seq(Jobs) /\ completed # <<>> /\ completed' = Tail(completed)
        /\ (Len(completed) # 1 => pc' = pc) /\ pc[Main] = "notify"
    BY <1>9 DEF QueueInv, TypeOK, ThreadInv, UpdateNotify
  <2>2. Len(completed) = 1 => Tail(completed) = <<>>
    BY <2>1, HeadTailProperties, EmptySeq
  <2> QED
    BY <2>1, <2>2 DEF UpdateInv
<1>10. CASE UNCHANGED vars
  BY <1>10 DEF UpdateInv, vars, queues
<1> QED
  BY <1>1, <1>2, <1>3, <1>4, <1>5, <1>6, <1>7, <1>8, <1>9, <1>10 DEF QueueSteps

\* The steps that move a job are six; the others leave every job where it is.
LEMMA StepPlaces ==
  QueueInv /\ UpdateInv /\ PlaceInv /\ QueueSteps => PlaceInv'
<1> SUFFICES ASSUME QueueInv, UpdateInv, PlaceInv, QueueSteps PROVE PlaceInv'
  OBVIOUS
<1>1. CASE StartLock \/ StartWait \/ PauseLock \/ PauseFlag \/ PauseCall \/ UnPause \/ StopCall
  BY <1>1, PlacesStay DEF StartLock, StartWait, PauseLock, PauseFlag, PauseCall, UnPause, StopCall
<1>2. CASE StopLock \/ StopQuit \/ StopFlag \/ StopNotify \/ StopJoin
  BY <1>2, PlacesStay DEF StopLock, StopQuit, StopFlag, StopNotify, StopJoin
<1>3. ASSUME NEW t \in Threads, AddLock(t) \/ AddNotify(t) PROVE PlaceInv'
  BY <1>3, PlacesStay DEF AddLock, AddNotify
<1>4. ASSUME NEW w \in Workers,
             WorkerStart(w) \/ WorkerLock(w) \/ WorkerLoop(w) \/ WorkerPred(w) \/ WorkerSleep(w)
      PROVE  PlaceInv'
  BY <1>4, PlacesStay DEF WorkerStart, WorkerLock, WorkerLoop, WorkerPred, WorkerSleep
<1>5. ASSUME NEW w \in Workers,
             WorkerExecute(w) \/ WorkerExecuted(w) \/ WorkerSpuriousWakeup(w)
      PROVE  PlaceInv'
  BY <1>5, PlacesStay DEF WorkerExecute, WorkerExecuted, WorkerSpuriousWakeup
<1>6. ASSUME NEW w \in Workers, WorkerTake(w), mQuit PROVE PlaceInv'
  <2>1. UNCHANGED <<adding, item, queues, history>>
    BY <1>6 DEF WorkerTake, queues
  <2> QED
    BY <2>1, PlacesStay
<1>7. CASE PauseClear \/ StopClear
  BY <1>7, ClearPlaces DEF PauseClear, StopClear
<1>8. CASE UpdateTake
  BY <1>8, UpdatePlaces DEF UpdateInv, UpdateTake
<1>9. CASE UNCHANGED vars
  BY <1>9, PlacesStay DEF vars
<1> QED
  BY <1>1, <1>2, <1>3, <1>4, <1>5, <1>6, <1>7, <1>8, <1>9, CheckPlaces, PushPlaces, TakePlaces,
     CompletePlaces, NotifyPlaces DEF QueueSteps

LEMMA InitPlaces == Init => UpdateInv /\ PlaceInv
<1> SUFFICES ASSUME Init PROVE UpdateInv /\ PlaceInv
  OBVIOUS
<1>1. /\ mWorkQueue = <<>> /\ mCompletedWork = <<>> /\ completed = <<>> /\ notified = <<>>
      /\ \A w \in Workers : item[w] = None
      /\ \A t \in Threads : adding[t] = None
  BY DEF Init
<1>2. InFlight = {} /\ Taken = {}
  BY <1>1 DEF InFlight, Taken
<1>3. ApartInv
  BY <1>1, <1>2, NoMembers DEF ApartInv
<1>4. OnceInv
  BY <1>1, NoMembers DEF OnceInv
<1> QED
  BY <1>1, <1>3, <1>4 DEF UpdateInv, PlaceInv

-----------------------------------------------------------------------------
(* The queue is a JobPool. *)

Done == completed \o mCompletedWork
View == <<mWorkQueue, Taken, Done, notified, Dropped>>

LEMMA ConcatMembers ==
  ASSUME NEW S, NEW s \in Seq(S), NEW t \in Seq(S)
  PROVE  Members(s \o t) = Members(s) \cup Members(t)
<1>1. /\ DOMAIN (s \o t) = 1 .. Len(s) + Len(t) /\ DOMAIN s = 1 .. Len(s) /\ DOMAIN t = 1 .. Len(t)
      /\ Len(s) \in Nat /\ Len(t) \in Nat
      /\ \A i \in 1 .. Len(s) + Len(t) : (s \o t)[i] = IF i <= Len(s) THEN s[i] ELSE t[i - Len(s)]
  BY ConcatProperties
<1>2. Members(s \o t) \subseteq Members(s) \cup Members(t)
  <2>1. ASSUME NEW i \in 1 .. Len(s) + Len(t) PROVE (s \o t)[i] \in Members(s) \cup Members(t)
    <3>1. CASE i <= Len(s)
      BY <1>1, <3>1 DEF Members
    <3>2. CASE ~(i <= Len(s))
      <4>1. i - Len(s) \in DOMAIN t /\ (s \o t)[i] = t[i - Len(s)]
        BY <1>1, <3>2
      <4> QED
        BY <4>1 DEF Members
    <3> QED
      BY <3>1, <3>2
  <2> QED
    BY <1>1, <2>1 DEF Members
<1>3. Members(s) \subseteq Members(s \o t)
  BY <1>1 DEF Members
<1>4. Members(t) \subseteq Members(s \o t)
  <2>1. ASSUME NEW i \in DOMAIN t PROVE t[i] \in Members(s \o t)
    <3>1. i + Len(s) \in DOMAIN (s \o t) /\ (s \o t)[i + Len(s)] = t[i]
      BY <1>1
    <3> QED
      BY <3>1 DEF Members
  <2> QED
    BY <2>1 DEF Members
<1> QED
  BY <1>2, <1>3, <1>4

\* Whatever the pool knows of was given to the queue.
LEMMA KnownGiven ==
  ASSUME QueueInv, PlaceInv
  PROVE  Pool!Known = (Members(mWorkQueue) \cup Taken \cup Members(mCompletedWork)
                         \cup Members(completed) \cup Members(notified)) \cup Dropped
         /\ Pool!Known \subseteq given
<1>1. \A s : Pool!Members(s) = Members(s)
  BY DEF Pool!Members, Members
<1>2. Members(completed \o mCompletedWork) = Members(completed) \cup Members(mCompletedWork)
  BY ConcatMembers DEF QueueInv, TypeOK
<1>3. Pool!Known = Members(mWorkQueue) \cup Taken \cup Members(completed \o mCompletedWork)
                     \cup Members(notified) \cup Dropped
  BY <1>1 DEF Pool!Known
<1> QED
  BY <1>2, <1>3 DEF PlaceInv, ApartInv, Dropped

LEMMA PoolStays ==
  ASSUME UNCHANGED <<adding, item, queues, history>>
  PROVE  UNCHANGED View
BY DEF View, Done, queues, history, Dropped, InFlight, Taken

\* A refused job is dropped; an accepted one is the queue's own for a while.
LEMMA CheckPool ==
  ASSUME QueueInv, PlaceInv, NEW t \in Threads, NEW j \in Jobs, AddCheck(t, j)
  PROVE  Pool!Refuse(j) \/ UNCHANGED View
<1>1. /\ pc[t] = AfterAdd(t) /\ j \notin given /\ given' = given \cup {j}
      /\ UNCHANGED <<item, mWorkQueue, mCompletedWork, completed, notified>>
  BY DEF AddCheck, queues
<1>2. UNCHANGED <<mWorkQueue, Taken, Done, notified>>
  BY <1>1 DEF Taken, Done
<1>3. CASE UNCHANGED adding
  <2>1. InFlight' = InFlight
    BY <1>3 DEF InFlight
  <2>2. Dropped' = Dropped \cup {j}
    BY <1>1, <1>2, <2>1 DEF Dropped, PlaceInv, ApartInv
  <2>3. j \notin Pool!Known
    BY <1>1, KnownGiven
  <2> QED
    BY <1>2, <2>2, <2>3 DEF Pool!Refuse, Done
<1>4. CASE adding' = [adding EXCEPT ![t] = j]
  <2>1. adding \in [Threads -> Jobs \cup {None}] /\ adding[t] = None
    BY <1>1 DEF QueueInv, TypeOK, ThreadInv, AfterAdd
  <2>2. \A u \in Threads : adding'[u] = IF u = t THEN j ELSE adding[u]
    BY <1>4, <2>1
  <2>3. InFlight' = InFlight \cup {j}
    BY <2>1, <2>2, Distinct DEF InFlight
  <2>4. Dropped' = Dropped
    BY <1>1, <1>2, <2>3 DEF Dropped
  <2> QED
    BY <1>2, <2>4 DEF View
<1> QED
  BY <1>3, <1>4 DEF AddCheck

LEMMA PushPool ==
  ASSUME QueueInv, PlaceInv, NEW t \in Threads, AddPush(t)
  PROVE  Pool!Submit(adding[t])
<1>1. /\ mWorkQueue' = Append(mWorkQueue, adding[t])
      /\ UNCHANGED <<mCompletedWork, completed, item, given, notified>>
  BY DEF AddPush, history
<1>2. PICK j : j = adding[t]
  OBVIOUS
<1>3. InFlight' = InFlight \ {j} /\ j \in InFlight /\ Members(mWorkQueue') = Members(mWorkQueue) \cup {j}
  BY <1>2, PushPlaces
<1>4. UNCHANGED <<Taken, Done, notified>>
  BY <1>1 DEF Taken, Done
<1>5. Dropped' = Dropped
  BY <1>1, <1>3, <1>4 DEF Dropped
<1>6. j \notin Pool!Known
  BY <1>3, KnownGiven DEF PlaceInv, ApartInv, Dropped
<1> QED
  BY <1>1, <1>2, <1>4, <1>5, <1>6 DEF Pool!Submit, Done

LEMMA ClearPool ==
  ASSUME PlaceInv, mWorkQueue' = <<>>, UNCHANGED <<mCompletedWork, completed, adding, item, given, notified>>
  PROVE  Pool!DropPending
<1>1. UNCHANGED <<Taken, Done, notified, InFlight>>
  BY DEF Taken, Done, InFlight
<1>2. Dropped' = Dropped \cup Members(mWorkQueue)
  BY <1>1, NoMembers DEF Dropped, PlaceInv, ApartInv
<1>3. Pool!Members(mWorkQueue) = Members(mWorkQueue)
  BY DEF Pool!Members, Members
<1> QED
  BY <1>1, <1>2, <1>3 DEF Pool!DropPending, Done

\* A worker that takes a job has none, so fewer jobs run than there are workers.
LEMMA FreeWorker ==
  ASSUME NEW w \in Workers, item \in [Workers -> Jobs \cup {None}], item[w] = None
  PROVE  Cardinality(Taken) < Cardinality(Workers)
<1>1. IsFiniteSet(Holding) /\ Cardinality(Holding) < Cardinality(Workers)
  <2>1. Holding \subseteq Workers /\ w \notin Holding
    BY DEF Holding
  <2>2. Holding # Workers /\ IsFiniteSet(Workers)
    BY <2>1, QueueAssumption
  <2>3. IsFiniteSet(Holding) /\ Cardinality(Holding) <= Cardinality(Workers)
        /\ Cardinality(Holding) # Cardinality(Workers)
    BY <2>1, <2>2, FS_Subset
  <2>4. Cardinality(Holding) \in Nat /\ Cardinality(Workers) \in Nat
    BY <2>2, <2>3, FS_CardinalityType
  <2> QED
    BY <2>3, <2>4
<1>2. PICK f : f = [v \in Holding |-> item[v]]
  OBVIOUS
<1>3. f \in [Holding -> Taken] /\ \A j \in Taken : \E v \in Holding : f[v] = j
  BY <1>2 DEF Holding, Taken
<1>4. f \in Surjection(Holding, Taken)
  BY <1>3 DEF Surjection
<1>5. IsFiniteSet(Taken) /\ Cardinality(Taken) <= Cardinality(Holding)
  BY <1>1, <1>4, FS_Surjection
<1>6. Cardinality(Taken) \in Nat /\ Cardinality(Holding) \in Nat /\ Cardinality(Workers) \in Nat
  BY <1>1, <1>5, QueueAssumption, FS_CardinalityType
<1> QED
  BY <1>1, <1>5, <1>6

LEMMA TakePool ==
  ASSUME QueueInv, PlaceInv, NEW w \in Workers, WorkerTake(w), ~mQuit
  PROVE  Pool!Dispatch
<1>1. /\ pc[w] = "awake" /\ mWorkQueue' = Tail(mWorkQueue)
      /\ UNCHANGED <<mCompletedWork, completed, adding, given, notified>>
  BY DEF WorkerTake, history
<1>2. mWorkQueue # <<>> /\ item \in [Workers -> Jobs \cup {None}]
  BY <1>1 DEF QueueInv, TypeOK, ThreadInv
<1>3. PICK j : j = Head(mWorkQueue)
  OBVIOUS
<1>4. Taken' = Taken \cup {j} /\ item[w] = None
      /\ Members(mWorkQueue) = {j} \cup Members(mWorkQueue')
  BY <1>3, TakePlaces
<1>5. UNCHANGED <<Done, notified, InFlight>>
  BY <1>1 DEF Done, InFlight
<1>6. Dropped' = Dropped
  BY <1>1, <1>4, <1>5 DEF Dropped
<1>7. Cardinality(Taken) < Cardinality(Workers)
  BY <1>2, <1>4, FreeWorker
<1>8. Taken' = Taken \cup {Head(mWorkQueue)}
  BY <1>3, <1>4
<1>9. completed' \o mCompletedWork' = completed \o mCompletedWork
  BY <1>1
<1>10. Pool!Cardinality(Taken) = Cardinality(Taken)
  BY DEF Pool!Cardinality, Cardinality
<1> QED
  BY <1>1, <1>2, <1>6, <1>7, <1>8, <1>9, <1>10 DEF Pool!Dispatch

LEMMA ConcatAppend ==
  ASSUME NEW S, NEW s \in Seq(S), NEW t \in Seq(S), NEW x \in S
  PROVE  s \o Append(t, x) = Append(s \o t, x)
<1>1. <<x>> \in Seq(S)
  OBVIOUS
<1>2. s \o t \in Seq(S)
  BY ConcatProperties
<1>3. Append(t, x) = t \o <<x>> /\ Append(s \o t, x) = (s \o t) \o <<x>>
  BY <1>2, AppendIsConcat
<1> QED
  BY <1>1, <1>3, ConcatAssociative

LEMMA CompletePool ==
  ASSUME QueueInv, PlaceInv, NEW w \in Workers, WorkerComplete(w)
  PROVE  Pool!Complete(item[w])
<1>1. /\ mCompletedWork' = Append(mCompletedWork, item[w])
      /\ UNCHANGED <<mWorkQueue, completed, adding, given, notified>>
  BY DEF WorkerComplete, history
<1>2. PICK j : j = item[w]
  OBVIOUS
<1>3. /\ j \in Jobs /\ j \in Taken /\ Taken' = Taken \ {j}
      /\ Members(mCompletedWork') = Members(mCompletedWork) \cup {j}
  BY <1>2, CompletePlaces
<1>4. Done' = Append(Done, j)
  BY <1>1, <1>2, <1>3, ConcatAppend DEF Done, QueueInv, TypeOK
<1>5. InFlight' = InFlight
  BY <1>1 DEF InFlight
<1>6. Dropped' = Dropped
  BY <1>1, <1>3, <1>5 DEF Dropped
<1> QED
  BY <1>1, <1>2, <1>3, <1>4, <1>6 DEF Pool!Complete, Done

LEMMA UpdatePool ==
  ASSUME QueueInv, UpdateTake, completed = <<>>
  PROVE  UNCHANGED View
<1>1. /\ completed' = mCompletedWork /\ mCompletedWork' = <<>>
      /\ UNCHANGED <<mWorkQueue, adding, item, given, notified>>
  BY DEF UpdateTake, history
<1>2. Done' = Done
  BY <1>1, ConcatEmptySeq DEF Done, QueueInv, TypeOK
<1>3. InFlight' = InFlight /\ Taken' = Taken
  BY <1>1 DEF InFlight, Taken
<1>4. Members(completed') = Members(mCompletedWork) /\ Members(mCompletedWork') = {}
      /\ Members(completed) = {}
  BY <1>1, NoMembers
<1>5. Dropped' = Dropped
  BY <1>1, <1>3, <1>4 DEF Dropped
<1> QED
  BY <1>1, <1>2, <1>3, <1>5 DEF View

LEMMA ConcatHeadTail ==
  ASSUME NEW S, NEW s \in Seq(S), NEW t \in Seq(S), s # <<>>
  PROVE  /\ s \o t # <<>> /\ Head(s \o t) = Head(s) /\ Tail(s \o t) = Tail(s) \o t
<1>1. PICK c : c = s \o t
  OBVIOUS
<1>2. /\ c \in Seq(S) /\ Len(c) = Len(s) + Len(t) /\ Len(s) \in Nat /\ Len(t) \in Nat /\ Len(s) > 0
      /\ \A i \in 1 .. Len(s) + Len(t) : c[i] = IF i <= Len(s) THEN s[i] ELSE t[i - Len(s)]
  BY <1>1, ConcatProperties, EmptySeq
<1>3. c # <<>>
  BY <1>2, EmptySeq
<1>4. Head(c) = Head(s)
  <2>1. Head(c) = c[1] /\ Head(s) = s[1]
    BY <1>2, <1>3, HeadTailProperties
  <2> QED
    BY <1>2, <2>1
<1>5. /\ Tail(s) \in Seq(S) /\ Len(Tail(s)) = Len(s) - 1
      /\ \A i \in 1 .. Len(s) - 1 : Tail(s)[i] = s[i + 1]
      /\ Tail(c) \in Seq(S) /\ Len(Tail(c)) = Len(c) - 1
      /\ \A i \in 1 .. Len(c) - 1 : Tail(c)[i] = c[i + 1]
  BY <1>2, <1>3, HeadTailProperties
<1>6. PICK d : d = Tail(s) \o t
  OBVIOUS
<1>7. /\ d \in Seq(S) /\ Len(d) = Len(c) - 1
      /\ \A i \in 1 .. Len(c) - 1 : d[i] = IF i <= Len(s) - 1 THEN Tail(s)[i] ELSE t[i - (Len(s) - 1)]
  BY <1>2, <1>5, <1>6, ConcatProperties
<1>8. \A i \in 1 .. Len(c) - 1 : Tail(c)[i] = d[i]
  <2> TAKE i \in 1 .. Len(c) - 1
  <2>1. i \in Int /\ i + 1 \in 1 .. Len(s) + Len(t) /\ i + 1 - Len(s) = i - (Len(s) - 1)
    BY <1>2
  <2>2. Tail(c)[i] = c[i + 1]
    BY <1>5
  <2>3. CASE i <= Len(s) - 1
    <3>1. i + 1 <= Len(s) /\ i \in 1 .. Len(s) - 1
      BY <1>2, <2>1, <2>3
    <3>2. c[i + 1] = s[i + 1]
      BY <1>2, <2>1, <3>1
    <3> QED
      BY <1>5, <1>7, <2>2, <2>3, <3>1, <3>2
  <2>4. CASE ~(i <= Len(s) - 1)
    <3>1. ~(i + 1 <= Len(s))
      BY <1>2, <2>1, <2>4
    <3>2. c[i + 1] = t[i + 1 - Len(s)]
      BY <1>2, <2>1, <3>1
    <3>3. d[i] = t[i - (Len(s) - 1)]
      BY <1>7, <2>4
    <3> QED
      BY <2>1, <2>2, <3>2, <3>3
  <2> QED
    BY <2>3, <2>4
<1>9. Tail(c) = d
  BY <1>5, <1>7, <1>8, SeqEqual
<1> QED
  BY <1>1, <1>3, <1>4, <1>6, <1>9

LEMMA NotifyPool ==
  ASSUME QueueInv, PlaceInv, UpdateNotify
  PROVE  Pool!Notify
<1>1. /\ notified' = Append(notified, Head(completed)) /\ completed' = Tail(completed)
      /\ UNCHANGED <<mWorkQueue, mCompletedWork, adding, item, given>>
  BY DEF UpdateNotify
<1>2. completed \in Seq(Jobs) /\ completed # <<>> /\ mCompletedWork \in Seq(Jobs)
  BY DEF QueueInv, TypeOK, ThreadInv, UpdateNotify
<1>3. /\ Done # <<>> /\ Head(Done) = Head(completed) /\ Done' = Tail(Done)
  BY <1>1, <1>2, ConcatHeadTail DEF Done
<1>4. InFlight' = InFlight /\ Taken' = Taken
  BY <1>1 DEF InFlight, Taken
<1>5. /\ Members(completed) = {Head(completed)} \cup Members(completed')
      /\ Members(notified') = Members(notified) \cup {Head(completed)}
  BY NotifyPlaces
<1>6. Dropped' = Dropped
  <2>1. PICK j : j = Head(completed)
    OBVIOUS
  <2> QED
    BY <1>1, <1>4, <1>5, <2>1 DEF Dropped
<1> QED
  BY <1>1, <1>3, <1>4, <1>6 DEF Pool!Notify, Done

LEMMA StepPool ==
  QueueInv /\ UpdateInv /\ PlaceInv /\ QueueSteps => Pool!Next \/ UNCHANGED View
<1> SUFFICES ASSUME QueueInv, UpdateInv, PlaceInv, QueueSteps PROVE Pool!Next \/ UNCHANGED View
  OBVIOUS
<1>1. CASE StartLock \/ StartWait \/ PauseLock \/ PauseFlag \/ PauseCall \/ UnPause \/ StopCall
  BY <1>1, PoolStays DEF StartLock, StartWait, PauseLock, PauseFlag, PauseCall, UnPause, StopCall
<1>2. CASE StopLock \/ StopQuit \/ StopFlag \/ StopNotify \/ StopJoin
  BY <1>2, PoolStays DEF StopLock, StopQuit, StopFlag, StopNotify, StopJoin
<1>3. ASSUME NEW t \in Threads, AddLock(t) \/ AddNotify(t) PROVE UNCHANGED View
  BY <1>3, PoolStays DEF AddLock, AddNotify
<1>4. ASSUME NEW w \in Workers,
             WorkerStart(w) \/ WorkerLock(w) \/ WorkerLoop(w) \/ WorkerPred(w) \/ WorkerSleep(w)
      PROVE  UNCHANGED View
  BY <1>4, PoolStays DEF WorkerStart, WorkerLock, WorkerLoop, WorkerPred, WorkerSleep
<1>5. ASSUME NEW w \in Workers,
             WorkerExecute(w) \/ WorkerExecuted(w) \/ WorkerSpuriousWakeup(w)
      PROVE  UNCHANGED View
  BY <1>5, PoolStays DEF WorkerExecute, WorkerExecuted, WorkerSpuriousWakeup
<1>6. ASSUME NEW w \in Workers, WorkerTake(w), mQuit PROVE UNCHANGED View
  <2>1. UNCHANGED <<adding, item, queues, history>>
    BY <1>6 DEF WorkerTake, queues
  <2> QED
    BY <2>1, PoolStays
<1>7. CASE UpdateTake
  BY <1>7, UpdatePool DEF UpdateInv, UpdateTake
<1>8. CASE UNCHANGED vars
  BY <1>8, PoolStays DEF vars
<1>9. CASE PauseClear \/ StopClear
  <2>1. mWorkQueue' = <<>> /\ UNCHANGED <<mCompletedWork, completed, adding, item, given, notified>>
    BY <1>9 DEF PauseClear, StopClear, history
  <2> QED
    BY <2>1, ClearPool DEF Pool!Next
<1>10. ASSUME NEW t \in Threads, NEW j \in Jobs, AddCheck(t, j) PROVE Pool!Next \/ UNCHANGED View
  BY <1>10, CheckPool DEF Pool!Next
<1>11. ASSUME NEW t \in Threads, AddPush(t) PROVE Pool!Next
  <2>1. adding[t] \in Jobs
    BY <1>11, PushPlaces DEF AddPush, QueueInv, TypeOK, InFlight
  <2> QED
    BY <1>11, <2>1, PushPool DEF Pool!Next
<1>12. ASSUME NEW w \in Workers, WorkerTake(w), ~mQuit PROVE Pool!Next
  BY <1>12, TakePool DEF Pool!Next
<1>13. ASSUME NEW w \in Workers, WorkerComplete(w) PROVE Pool!Next
  BY <1>13, CompletePool, CompletePlaces DEF Pool!Next
<1>14. UpdateNotify => Pool!Next
  BY NotifyPool DEF Pool!Next
<1> QED
  BY <1>1, <1>2, <1>3, <1>4, <1>5, <1>6, <1>7, <1>8, <1>9, <1>10, <1>11, <1>12, <1>13, <1>14
     DEF QueueSteps

LEMMA InitPool == Init => Pool!Init
<1> SUFFICES ASSUME Init PROVE Pool!Init
  OBVIOUS
<1>1. /\ mWorkQueue = <<>> /\ mCompletedWork = <<>> /\ completed = <<>> /\ notified = <<>> /\ given = {}
      /\ \A w \in Workers : item[w] = None
  BY DEF Init
<1>2. Taken = {} /\ Dropped = {}
  BY <1>1 DEF Taken, Dropped
<1>3. completed \o mCompletedWork = <<>>
  <2>1. <<>> \in Seq(Jobs)
    OBVIOUS
  <2> QED
    BY <1>1, <2>1, ConcatEmptySeq
<1> QED
  BY <1>1, <1>2, <1>3 DEF Pool!Init

\* For any jobs, workers and calls the queue is a JobPool: every job runs and
\* is notified at most once, in the order of the queue, at most one a worker
\* at a time, and none is lost but a refused or a cleared one.
THEOREM Implements == Spec => ImplementsJobPool
<1>1. Init => QueueInv /\ UpdateInv /\ PlaceInv /\ Pool!Init
  BY InitQueueInv, InitPlaces, InitPool
<1>2. QueueInv /\ UpdateInv /\ PlaceInv /\ [Next]_vars => QueueInv' /\ UpdateInv' /\ PlaceInv'
  BY StepQueueInv, StepUpdate, StepPlaces, NextCases
<1>3. QueueInv /\ UpdateInv /\ PlaceInv /\ [Next]_vars => [Pool!Next]_(Pool!poolVars)
  BY StepPool, NextCases DEF Pool!poolVars, View, Done
<1> QED
  BY <1>1, <1>2, <1>3, PTL DEF Spec, ImplementsJobPool, Pool!Spec
-----------------------------------------------------------------------------
(* The tracker, on top of the queue.                                       *)

TrackerTypes ==
  /\ mOutstandingJobs \subseteq Jobs
  /\ access \in [Threads -> {"none", "insert", "add", "erase", "scan"}]
  /\ tracking \in [Threads -> Jobs \cup {None}]

\* A job that is being started was not added yet, and is started by one thread.
StartInv ==
  /\ \A t \in Threads : tracking[t] # None <=> access[t] \in {"insert", "add"}
  /\ \A t \in Threads : tracking[t] # None => tracking[t] \notin given
  /\ \A t, u \in Threads : tracking[t] # None /\ tracking[t] = tracking[u] => t = u

\* The set is accessed by one thread at a time, and a job is in it before it
\* is added.
AccessInv ==
  /\ \A t, u \in Threads : Touching(t) /\ Touching(u) => t = u
  /\ \A t \in Threads : access[t] = "add" => tracking[t] \in mOutstandingJobs

QueueFacts == QueueInv /\ UpdateInv /\ PlaceInv
TrackerInv ==
  /\ QueueFacts /\ TrackerTypes /\ StartInv
  /\ Serialized => AccessInv /\ OutstandingCoversWork

\* What must be outstanding.
Work == InFlight \cup Taken \cup Members(mWorkQueue) \cup Members(mCompletedWork) \cup Members(completed)

-----------------------------------------------------------------------------
(* The queue's own steps *)

\* The steps a thread makes outside the tracker's calls add no job and notify
\* none.
QuietSteps ==
  \/ StartLock \/ StartWait
  \/ \E t \in Threads : AddLock(t) \/ AddPush(t) \/ AddNotify(t)
  \/ StopLock \/ StopQuit \/ StopFlag \/ StopClear \/ StopNotify \/ StopJoin
  \/ \E w \in Workers :
       \/ WorkerStart(w) \/ WorkerLock(w) \/ WorkerLoop(w)
       \/ WorkerPred(w) \/ WorkerSleep(w) \/ WorkerTake(w)
       \/ WorkerExecute(w) \/ WorkerExecuted(w) \/ WorkerComplete(w)
       \/ WorkerSpuriousWakeup(w)
  \/ UpdateTake \/ StopCall

LEMMA QuietCases == QueueStep => QuietSteps /\ UNCHANGED trackerVars
BY DEF QueueStep, Quiet, QuietSteps, StopStep, AddStep, WorkerStep, Threads

LEMMA FactsStay == QueueFacts /\ QueueSteps => QueueFacts'
BY StepQueueInv, StepUpdate, StepPlaces DEF QueueFacts

LEMMA WorkStays ==
  ASSUME UNCHANGED <<adding, item, queues, history>>
  PROVE  Work' = Work /\ given' = given
BY DEF Work, queues, history, InFlight, Taken

LEMMA QuietWork ==
  ASSUME QueueFacts, QuietSteps
  PROVE  Work' \subseteq Work /\ given' = given
<1> USE DEF QueueFacts
<1>1. CASE StartLock \/ StartWait \/ StopCall
  BY <1>1, WorkStays DEF StartLock, StartWait, StopCall
<1>2. CASE StopLock \/ StopQuit \/ StopFlag \/ StopNotify \/ StopJoin
  BY <1>2, WorkStays DEF StopLock, StopQuit, StopFlag, StopNotify, StopJoin
<1>3. ASSUME NEW t \in Threads, AddLock(t) \/ AddNotify(t)
      PROVE  Work' \subseteq Work /\ given' = given
  BY <1>3, WorkStays DEF AddLock, AddNotify
<1>4. ASSUME NEW w \in Workers,
             WorkerStart(w) \/ WorkerLock(w) \/ WorkerLoop(w) \/ WorkerPred(w) \/ WorkerSleep(w)
      PROVE  Work' \subseteq Work /\ given' = given
  BY <1>4, WorkStays DEF WorkerStart, WorkerLock, WorkerLoop, WorkerPred, WorkerSleep
<1>5. ASSUME NEW w \in Workers,
             WorkerExecute(w) \/ WorkerExecuted(w) \/ WorkerSpuriousWakeup(w)
      PROVE  Work' \subseteq Work /\ given' = given
  BY <1>5, WorkStays DEF WorkerExecute, WorkerExecuted, WorkerSpuriousWakeup
<1>6. ASSUME NEW w \in Workers, WorkerTake(w)
      PROVE  Work' \subseteq Work /\ given' = given
  <2>1. CASE mQuit
    <3>1. UNCHANGED <<adding, item, queues, history>>
      BY <1>6, <2>1 DEF WorkerTake, queues
    <3> QED
      BY <3>1, WorkStays
  <2>2. CASE ~mQuit
    <3>1. PICK j : j = Head(mWorkQueue)
      OBVIOUS
    <3>2. Taken' = Taken \cup {j} /\ Members(mWorkQueue) = {j} \cup Members(mWorkQueue')
      BY <1>6, <2>2, <3>1, TakePlaces
    <3>3. UNCHANGED <<mCompletedWork, completed, given, InFlight>>
      BY <1>6 DEF WorkerTake, InFlight, history
    <3> QED
      BY <3>2, <3>3 DEF Work
  <2> QED
    BY <2>1, <2>2
<1>7. CASE StopClear
  <2>1. mWorkQueue' = <<>> /\ UNCHANGED <<mCompletedWork, completed, given, InFlight, Taken>>
    BY <1>7 DEF StopClear, history, InFlight, Taken
  <2> QED
    BY <2>1, NoMembers DEF Work
<1>8. CASE UpdateTake
  <2>1. completed' = mCompletedWork /\ mCompletedWork' = <<>>
        /\ UNCHANGED <<mWorkQueue, given, InFlight, Taken>>
    BY <1>8 DEF UpdateTake, history, InFlight, Taken
  <2>2. Members(completed') = Members(mCompletedWork) /\ Members(mCompletedWork') = {}
    BY <2>1, NoMembers
  <2> QED
    BY <2>1, <2>2 DEF Work
<1>9. ASSUME NEW t \in Threads, AddPush(t)
      PROVE  Work' \subseteq Work /\ given' = given
  <2>1. PICK j : j = adding[t]
    OBVIOUS
  <2>2. InFlight' = InFlight \ {j} /\ j \in InFlight
        /\ Members(mWorkQueue') = Members(mWorkQueue) \cup {j}
    BY <1>9, <2>1, PushPlaces
  <2>3. UNCHANGED <<mCompletedWork, completed, given, Taken>>
    BY <1>9 DEF AddPush, history, Taken
  <2> QED
    BY <2>2, <2>3 DEF Work
<1>10. ASSUME NEW w \in Workers, WorkerComplete(w)
       PROVE  Work' \subseteq Work /\ given' = given
  <2>1. PICK j : j = item[w]
    OBVIOUS
  <2>2. Taken' = Taken \ {j} /\ j \in Taken
        /\ Members(mCompletedWork') = Members(mCompletedWork) \cup {j}
    BY <1>10, <2>1, CompletePlaces
  <2>3. UNCHANGED <<mWorkQueue, completed, given, InFlight>>
    BY <1>10 DEF WorkerComplete, history, InFlight
  <2> QED
    BY <2>2, <2>3 DEF Work
<1> QED
  BY <1>1, <1>2, <1>3, <1>4, <1>5, <1>6, <1>7, <1>8, <1>9, <1>10 DEF QuietSteps

-----------------------------------------------------------------------------
(* The tracker's steps *)

\* Steps that leave the queue and the set alone need only keep the accesses.
LEMMA AccessStep ==
  ASSUME TrackerInv, UNCHANGED <<vars, mOutstandingJobs>>, TrackerTypes', StartInv',
         Serialized => AccessInv'
  PROVE  TrackerInv'
<1>1. QueueFacts'
  BY FactsStay DEF TrackerInv, QueueSteps
<1>2. OutstandingCoversWork => OutstandingCoversWork'
  BY DEF OutstandingCoversWork, vars, queues, InFlight, Taken
<1> QED
  BY <1>1, <1>2 DEF TrackerInv

LEMMA BeginStep ==
  ASSUME TrackerInv, NEW t \in Threads, NEW j \in Jobs, StartBegin(t, j)
  PROVE  TrackerInv'
<1>1. /\ access[t] = "none" /\ access' = [access EXCEPT ![t] = "insert"]
      /\ Serialized => \A u \in Threads : ~Touching(u)
      /\ j \notin given /\ \A u \in Threads : tracking[u] # j
      /\ tracking' = [tracking EXCEPT ![t] = j] /\ UNCHANGED <<vars, mOutstandingJobs>>
  BY DEF StartBegin, Begin
<1>2. TrackerTypes'
  BY <1>1 DEF TrackerInv, TrackerTypes
<1>3. /\ \A u \in Threads : access'[u] = IF u = t THEN "insert" ELSE access[u]
      /\ \A u \in Threads : tracking'[u] = IF u = t THEN j ELSE tracking[u]
  BY <1>1 DEF TrackerInv, TrackerTypes
<1>4. given' = given
  BY <1>1 DEF vars, history
<1>5. StartInv'
  BY <1>1, <1>3, <1>4, Distinct DEF TrackerInv, StartInv
<1>6. Serialized => AccessInv'
  BY <1>1, <1>3 DEF TrackerInv, AccessInv, Touching
<1> QED
  BY <1>1, <1>2, <1>5, <1>6, AccessStep

LEMMA InsertedStep ==
  ASSUME TrackerInv, NEW t \in Threads, StartInserted(t)
  PROVE  TrackerInv'
<1>1. /\ access[t] = "insert" /\ access' = [access EXCEPT ![t] = "add"]
      /\ Commit(t, mOutstandingJobs \cup {tracking[t]}) /\ UNCHANGED <<vars, tracking>>
  BY DEF StartInserted
<1>2. QueueFacts'
  BY <1>1, FactsStay DEF TrackerInv, QueueSteps
<1>3. tracking[t] \in Jobs
  BY <1>1 DEF TrackerInv, TrackerTypes, StartInv
<1>4. /\ mOutstandingJobs' = mOutstandingJobs \cup {tracking[t]} \/ mOutstandingJobs' = mOutstandingJobs
      /\ Serialized => mOutstandingJobs' = mOutstandingJobs \cup {tracking[t]}
  BY <1>1 DEF Commit, TrackerInv, AccessInv, Touching
<1>5. TrackerTypes'
  BY <1>1, <1>3, <1>4 DEF TrackerInv, TrackerTypes
<1>6. \A u \in Threads : access'[u] = IF u = t THEN "add" ELSE access[u]
  BY <1>1 DEF TrackerInv, TrackerTypes
<1>7. given' = given
  BY <1>1 DEF vars, history
<1>8. StartInv'
  BY <1>1, <1>6, <1>7 DEF TrackerInv, StartInv
<1>9. Serialized => AccessInv'
  BY <1>1, <1>4, <1>6 DEF TrackerInv, AccessInv, Touching
<1>10. Work' = Work
  BY <1>1, WorkStays DEF vars
<1>11. Serialized => OutstandingCoversWork'
  BY <1>4, <1>10 DEF TrackerInv, OutstandingCoversWork, Work
<1> QED
  BY <1>2, <1>5, <1>8, <1>9, <1>11 DEF TrackerInv

\* The job is in the set before it is added.
LEMMA AddedStep ==
  ASSUME TrackerInv, NEW t \in Threads, StartAdd(t)
  PROVE  TrackerInv'
<1>1. PICK j : j = tracking[t]
  OBVIOUS
<1>2. /\ access[t] = "add" /\ access' = [access EXCEPT ![t] = "none"] /\ AddCheck(t, j)
      /\ tracking' = [tracking EXCEPT ![t] = None] /\ UNCHANGED mOutstandingJobs
  BY <1>1 DEF StartAdd
<1>3. j \in Jobs
  BY <1>1, <1>2 DEF TrackerInv, TrackerTypes, StartInv
<1>4. QueueFacts'
  BY <1>2, <1>3, FactsStay DEF TrackerInv, QueueSteps
<1>5. TrackerTypes'
  BY <1>2 DEF TrackerInv, TrackerTypes
<1>6. /\ \A u \in Threads : access'[u] = IF u = t THEN "none" ELSE access[u]
      /\ \A u \in Threads : tracking'[u] = IF u = t THEN None ELSE tracking[u]
  BY <1>2 DEF TrackerInv, TrackerTypes
<1>7. given' = given \cup {j}
  BY <1>2 DEF AddCheck
<1>8. StartInv'
  BY <1>1, <1>2, <1>3, <1>6, <1>7, Distinct DEF TrackerInv, StartInv
<1>9. Serialized => AccessInv' /\ j \in mOutstandingJobs
  BY <1>1, <1>2, <1>6 DEF TrackerInv, AccessInv, Touching
<1>10. InFlight' \subseteq InFlight \cup {j}
  <2>1. adding' = adding \/ adding' = [adding EXCEPT ![t] = j]
    BY <1>2 DEF AddCheck
  <2>2. adding \in [Threads -> Jobs \cup {None}]
    BY DEF TrackerInv, QueueFacts, QueueInv, TypeOK
  <2> QED
    BY <2>1, <2>2 DEF InFlight
<1>11. UNCHANGED <<mWorkQueue, mCompletedWork, completed, Taken>>
  BY <1>2 DEF AddCheck, queues, Taken
<1>12. Serialized => OutstandingCoversWork'
  BY <1>2, <1>9, <1>10, <1>11 DEF TrackerInv, OutstandingCoversWork
<1> QED
  BY <1>4, <1>5, <1>8, <1>9, <1>12 DEF TrackerInv

\* What is erased is notified, and is nowhere else.
LEMMA ErasedStep ==
  ASSUME TrackerInv, FinishErased
  PROVE  TrackerInv'
<1>1. PICK j : j = Head(completed)
  OBVIOUS
<1>2. /\ access[Main] = "erase" /\ access' = [access EXCEPT ![Main] = "none"]
      /\ Commit(Main, mOutstandingJobs \ {j}) /\ UpdateNotify /\ UNCHANGED tracking
  BY <1>1 DEF FinishErased
<1>3. QueueFacts'
  BY <1>2, FactsStay DEF TrackerInv, QueueSteps
<1>4. mOutstandingJobs' \in {mOutstandingJobs, mOutstandingJobs \ {j}}
  BY <1>2 DEF Commit
<1>5. TrackerTypes'
  BY <1>2, <1>4 DEF TrackerInv, TrackerTypes
<1>6. Main \in Threads /\ \A u \in Threads : access'[u] = IF u = Main THEN "none" ELSE access[u]
  BY <1>2 DEF TrackerInv, TrackerTypes, Threads
<1>7. given' = given /\ UNCHANGED <<mWorkQueue, mCompletedWork, InFlight, Taken>>
  BY <1>2 DEF UpdateNotify, InFlight, Taken
<1>8. StartInv'
  BY <1>2, <1>6, <1>7 DEF TrackerInv, StartInv
<1>9. /\ Members(completed) = {j} \cup Members(completed') /\ j \notin Members(completed')
  BY <1>1, <1>2, NotifyPlaces DEF TrackerInv, QueueFacts
<1>10. j \notin Work' /\ Work' \subseteq Work /\ j \in given
  BY <1>7, <1>9 DEF TrackerInv, QueueFacts, PlaceInv, ApartInv, Work
<1>11. Serialized => AccessInv'
  <2>1. \A t \in Threads : tracking[t] # None => tracking[t] # j
    BY <1>10 DEF TrackerInv, StartInv
  <2> QED
    BY <1>2, <1>4, <1>6, <2>1 DEF TrackerInv, AccessInv, StartInv, Touching
<1>12. Serialized => OutstandingCoversWork'
  BY <1>4, <1>10 DEF TrackerInv, OutstandingCoversWork, Work
<1> QED
  BY <1>3, <1>5, <1>8, <1>11, <1>12 DEF TrackerInv

\* Looking at the set and asking for its cancellation.
LEMMA LookStep ==
  ASSUME TrackerInv, FinishBegin \/ ScanBegin \/ CancelOutstandingJobs \/ OutstandingJobCount
  PROVE  TrackerInv'
<1>1. /\ UNCHANGED <<vars, mOutstandingJobs, tracking>>
      /\ \E how \in {"none", "erase", "scan"} :
           /\ access' = [access EXCEPT ![Main] = how]
           /\ access[Main] \in {"none", "scan"}
           /\ how # "none" /\ Serialized => \A u \in Threads : ~Touching(u)
  BY DEF FinishBegin, ScanBegin, CancelOutstandingJobs, OutstandingJobCount, Begin
<1>2. PICK how \in {"none", "erase", "scan"} :
           /\ access' = [access EXCEPT ![Main] = how]
           /\ access[Main] \in {"none", "scan"}
           /\ how # "none" /\ Serialized => \A u \in Threads : ~Touching(u)
  BY <1>1
<1>3. Main \in Threads /\ \A u \in Threads : access'[u] = IF u = Main THEN how ELSE access[u]
  BY <1>2 DEF TrackerInv, TrackerTypes, Threads
<1>4. TrackerTypes'
  BY <1>1, <1>2 DEF TrackerInv, TrackerTypes
<1>5. given' = given
  BY <1>1 DEF vars, history
<1>6. StartInv'
  BY <1>1, <1>2, <1>3, <1>5 DEF TrackerInv, StartInv
<1>7. Serialized => AccessInv'
  BY <1>1, <1>2, <1>3 DEF TrackerInv, AccessInv, Touching
<1> QED
  BY <1>1, <1>4, <1>6, <1>7, AccessStep

LEMMA TrackerInvStep == TrackerInv /\ [TrackerNext]_allVars => TrackerInv'
<1> SUFFICES ASSUME TrackerInv, [TrackerNext]_allVars PROVE TrackerInv'
  OBVIOUS
<1>1. CASE QueueStep
  <2>1. QuietSteps /\ UNCHANGED trackerVars
    BY <1>1, QuietCases
  <2>2. QueueFacts'
    BY <2>1, FactsStay DEF TrackerInv, QuietSteps, QueueSteps
  <2>3. Work' \subseteq Work /\ given' = given
    BY <2>1, QuietWork DEF TrackerInv
  <2>4. TrackerTypes' /\ StartInv' /\ (AccessInv => AccessInv')
    BY <2>1, <2>3 DEF TrackerInv, TrackerTypes, StartInv, AccessInv, Touching, trackerVars
  <2>5. OutstandingCoversWork => OutstandingCoversWork'
    BY <2>1, <2>3 DEF OutstandingCoversWork, Work, trackerVars
  <2> QED
    BY <2>2, <2>4, <2>5 DEF TrackerInv
<1>2. ASSUME NEW j \in Jobs, OwnerStart(j) PROVE TrackerInv'
  BY <1>2, BeginStep DEF OwnerStart, Threads
<1>3. ASSUME NEW w \in Workers, JobStart(w) PROVE TrackerInv'
  <2>1. PICK j \in Spawns[item[w]] : pc[w] = "execute" /\ StartBegin(w, j)
    BY <1>3 DEF JobStart
  <2>2. item[w] \in Jobs
    BY <2>1 DEF TrackerInv, QueueFacts, QueueInv, TypeOK, ThreadInv, HoldsItem
  <2>3. j \in Jobs /\ w \in Threads
    BY <2>1, <2>2, QueueAssumption DEF Threads
  <2> QED
    BY <2>1, <2>3, BeginStep
<1>4. CASE TrackerStep \/ ScanBegin \/ OutstandingJobCount
  BY <1>4, InsertedStep, AddedStep, ErasedStep, LookStep DEF TrackerStep
<1>5. CASE UNCHANGED allVars
  <2>1. UNCHANGED <<vars, mOutstandingJobs>> /\ UNCHANGED trackerVars
    BY <1>5 DEF allVars, trackerVars
  <2>2. TrackerTypes' /\ StartInv' /\ (AccessInv => AccessInv')
    BY <2>1 DEF TrackerInv, TrackerTypes, StartInv, AccessInv, Touching, trackerVars, vars, history
  <2> QED
    BY <2>1, <2>2, AccessStep DEF TrackerInv
<1> QED
  BY <1>1, <1>2, <1>3, <1>4, <1>5 DEF TrackerNext

LEMMA InitTracker == TrackerInit => TrackerInv
<1> SUFFICES ASSUME TrackerInit PROVE TrackerInv
  OBVIOUS
<1>1. QueueFacts
  BY InitQueueInv, InitPlaces DEF TrackerInit, QueueFacts
<1>2. /\ mOutstandingJobs = {} /\ \A t \in Threads : access[t] = "none" /\ tracking[t] = None
  BY DEF TrackerInit
<1>3. TrackerTypes /\ StartInv
  BY <1>2 DEF TrackerInit, TrackerTypes, StartInv
<1>4. AccessInv
  BY <1>2 DEF AccessInv, Touching
<1>5. Init
  BY DEF TrackerInit
<1>6. Work = {}
  BY <1>5, NoMembers DEF Init, Work, InFlight, Taken
<1> QED
  BY <1>1, <1>3, <1>4, <1>6 DEF TrackerInv, OutstandingCoversWork, Work

\* While the accesses of the set are kept apart, IsBusy does not turn FALSE
\* before everything that was started is over (TrackedJobWrapper).
THEOREM Covers == ASSUME Serialized PROVE TrackerSpec => []OutstandingCoversWork
<1>1. TrackerInv => OutstandingCoversWork
  BY DEF TrackerInv
<1> QED
  BY <1>1, InitTracker, TrackerInvStep, PTL DEF TrackerSpec

-----------------------------------------------------------------------------
(* What the owner concludes from IsBusy *)

\* Who starts jobs from a worker is itself executing, and a job that was given
\* is outstanding until it is notified, the dropped ones for ever.
OwedInv ==
  /\ \A w \in Workers : access[w] # "none" => pc[w] = "execute"
  /\ Serialized => given \subseteq mOutstandingJobs \cup Members(notified)

\* A worker that is in a call of the tracker executes its job on, whoever else
\* does something.
LEMMA ExecutesOn ==
  ASSUME QueueInv, QueueStep, NEW w \in Workers, access[w] # "none", pc[w] = "execute"
  PROVE  pc'[w] = "execute" /\ access'[w] = access[w]
<1>0. /\ DOMAIN pc = Threads
      /\ w # Main
      /\ w \in Threads
      /\ Main \in Threads
      /\ pc[Main] # "startLock"
  BY Distinct DEF QueueInv, TypeOK, ThreadInv, Threads
<1>1. access'[w] = access[w]
  BY QuietCases DEF trackerVars
<1>2. CASE StartLock \/ StartWait \/ StopStep \/ UpdateTake \/ StopCall
  <2>1. CASE StartLock \/ StartWait \/ UpdateTake \/ StopCall
    BY <1>0, <1>1, <2>1 DEF StartLock, StartWait, UpdateTake, StopCall, Goto
  <2>2. CASE StopLock \/ StopQuit \/ StopFlag \/ StopClear \/ StopJoin
    BY <1>0, <1>1, <2>2 DEF StopLock, StopQuit, StopFlag, StopClear, StopJoin, Goto
  <2>3. CASE StopNotify
    BY <1>0, <1>1, <2>3 DEF StopNotify, WakeAll
  <2> QED
    BY <1>2, <2>1, <2>2, <2>3 DEF StopStep
<1>3. ASSUME NEW t \in Threads, t # w, AddStep(t) PROVE pc'[w] = "execute"
  <2>1. CASE AddLock(t) \/ AddPush(t)
    BY <1>0, <1>3, <2>1 DEF AddLock, AddPush, Goto
  <2>2. CASE AddNotify(t)
    BY <1>0, <1>3, <2>2, AddNotifyStep DEF QueueInv, ThreadsAfterNotify
  <2> QED
    BY <1>3, <2>1, <2>2 DEF AddStep
<1>4. ASSUME NEW v \in Workers, v # w, WorkerStep(v) \/ WorkerSpuriousWakeup(v)
      PROVE  pc'[w] = "execute"
  <2>1. CASE WorkerStart(v) \/ WorkerLock(v) \/ WorkerLoop(v) \/ WorkerPred(v) \/ WorkerSleep(v)
    BY <1>0, <1>4, <2>1 DEF WorkerStart, WorkerLock, WorkerLoop, WorkerPred, WorkerSleep, Goto
  <2>2. CASE WorkerTake(v) \/ WorkerExecute(v) \/ WorkerExecuted(v) \/ WorkerComplete(v)
    BY <1>0, <1>4, <2>2 DEF WorkerTake, WorkerExecute, WorkerExecuted, WorkerComplete, Goto
  <2>3. CASE WorkerSpuriousWakeup(v)
    BY <1>0, <1>4, <2>3 DEF WorkerSpuriousWakeup, Goto
  <2> QED
    BY <1>4, <2>1, <2>2, <2>3 DEF WorkerStep
<1>5. ASSUME NEW t \in Threads, Quiet(t) PROVE t # w
  BY <1>5 DEF Quiet
<1> QED
  BY <1>0, <1>1, <1>2, <1>3, <1>4, <1>5 DEF QueueStep, Threads

LEMMA NotifiedStays == QuietSteps => notified' = notified
BY DEF QuietSteps, StartLock, StartWait, AddLock, AddPush, AddNotify, StopLock, StopQuit, StopFlag,
       StopClear, StopNotify, StopJoin, WorkerStart, WorkerLock, WorkerLoop, WorkerPred, WorkerSleep,
       WorkerTake, WorkerExecute, WorkerExecuted, WorkerComplete, WorkerSpuriousWakeup, UpdateTake,
       StopCall, history

LEMMA OwedStep == TrackerInv /\ OwedInv /\ [TrackerNext]_allVars => OwedInv'
<1> SUFFICES ASSUME TrackerInv, OwedInv, [TrackerNext]_allVars PROVE OwedInv'
  OBVIOUS
<1>0. access \in [Threads -> {"none", "insert", "add", "erase", "scan"}] /\ Workers \subseteq Threads
      /\ Main \notin Workers
  BY Distinct DEF TrackerInv, TrackerTypes, Threads
<1>1. CASE QueueStep
  <2>1. UNCHANGED <<access, mOutstandingJobs, given, notified>>
    BY <1>1, QuietCases, QuietWork, NotifiedStays DEF TrackerInv, trackerVars
  <2>2. QueueInv
    BY DEF TrackerInv, QueueFacts
  <2> QED
    BY <1>1, <2>1, <2>2, ExecutesOn DEF OwedInv
<1>2. ASSUME NEW j \in Jobs, OwnerStart(j) PROVE OwedInv'
  <2>1. access' = [access EXCEPT ![Main] = "insert"] /\ UNCHANGED <<vars, mOutstandingJobs>>
    BY <1>2 DEF OwnerStart, StartBegin, Begin
  <2> QED
    BY <1>0, <2>1 DEF OwedInv, vars, history
<1>3. ASSUME NEW w \in Workers, JobStart(w) PROVE OwedInv'
  <2>1. pc[w] = "execute" /\ access' = [access EXCEPT ![w] = "insert"] /\ UNCHANGED <<vars, mOutstandingJobs>>
    BY <1>3 DEF JobStart, StartBegin, Begin
  <2> QED
    BY <1>0, <2>1 DEF OwedInv, vars, history
<1>4. ASSUME NEW t \in Threads, StartInserted(t) PROVE OwedInv'
  <2>1. access[t] = "insert" /\ access' = [access EXCEPT ![t] = "add"] /\ UNCHANGED vars
        /\ Commit(t, mOutstandingJobs \cup {tracking[t]})
    BY <1>4 DEF StartInserted
  <2>2. mOutstandingJobs \subseteq mOutstandingJobs'
    BY <2>1 DEF Commit
  <2> QED
    BY <1>0, <2>1, <2>2 DEF OwedInv, vars, history
<1>5. ASSUME NEW t \in Threads, StartAdd(t) PROVE OwedInv'
  <2>1. /\ access[t] = "add" /\ access' = [access EXCEPT ![t] = "none"] /\ AddCheck(t, tracking[t])
        /\ UNCHANGED <<mOutstandingJobs, notified>>
    BY <1>5 DEF StartAdd, AddCheck
  <2>2. given' = given \cup {tracking[t]} /\ \A w \in Workers : w # t => pc'[w] = pc[w]
    BY <1>0, <2>1 DEF AddCheck, Goto, TrackerInv, QueueFacts, QueueInv, TypeOK
  <2>3. Serialized => tracking[t] \in mOutstandingJobs
    BY <2>1 DEF TrackerInv, AccessInv
  <2> QED
    BY <1>0, <2>1, <2>2, <2>3 DEF OwedInv
<1>6. CASE FinishErased
  <2>1. PICK j : j = Head(completed)
    OBVIOUS
  <2>2. /\ access' = [access EXCEPT ![Main] = "none"] /\ UpdateNotify
        /\ Commit(Main, mOutstandingJobs \ {j})
    BY <1>6, <2>1 DEF FinishErased
  <2>3. mOutstandingJobs \ {j} \subseteq mOutstandingJobs'
    BY <2>2 DEF Commit
  <2>4. Members(notified') = Members(notified) \cup {j} /\ given' = given
    BY <2>1, <2>2, NotifyPlaces DEF TrackerInv, QueueFacts, UpdateNotify
  <2>5. \A w \in Workers : pc'[w] = pc[w]
    BY <1>0, <2>2 DEF UpdateNotify, Goto, TrackerInv, QueueFacts, QueueInv, TypeOK
  <2> QED
    BY <1>0, <2>2, <2>3, <2>4, <2>5 DEF OwedInv
<1>7. CASE FinishBegin \/ ScanBegin \/ CancelOutstandingJobs \/ OutstandingJobCount
  <2>1. UNCHANGED <<vars, mOutstandingJobs>> /\ \A w \in Workers : access'[w] = access[w]
    BY <1>0, <1>7 DEF FinishBegin, ScanBegin, CancelOutstandingJobs, OutstandingJobCount, Begin
  <2> QED
    BY <2>1 DEF OwedInv, vars, history
<1>8. CASE UNCHANGED allVars
  BY <1>8 DEF OwedInv, allVars, trackerVars, vars, history
<1> QED
  BY <1>1, <1>2, <1>3, <1>4, <1>5, <1>6, <1>7, <1>8 DEF TrackerNext, TrackerStep

LEMMA InitOwed == TrackerInit => OwedInv
<1> SUFFICES ASSUME TrackerInit PROVE OwedInv
  OBVIOUS
<1> QED
  BY DEF TrackerInit, Init, OwedInv, Threads

\* Once the tracker reports it is not busy every job that was given to the
\* queue was notified (SoundCache::IsBusy, Sound::Update).
THEOREM NotBusyDone == ASSUME Serialized PROVE TrackerSpec => []NotBusyMeansDone
<1>1. OwedInv => NotBusyMeansDone
  BY DEF OwedInv, NotBusyMeansDone, IsBusy
<1> QED
  BY <1>1, InitTracker, TrackerInvStep, InitOwed, OwedStep, PTL DEF TrackerSpec

\* From not busy to busy by the owner's own call only: a job that starts
\* another is outstanding itself.
THEOREM NotBusyStable == ASSUME Serialized PROVE TrackerSpec => NotBusyIsStable
<1>1. TrackerInv /\ OwedInv /\ [TrackerNext]_allVars
        => [~IsBusy /\ IsBusy' => access[Main] = "insert"]_allVars
  <2> SUFFICES ASSUME TrackerInv, OwedInv, TrackerNext, ~IsBusy, IsBusy'
               PROVE  access[Main] = "insert"
    OBVIOUS
  <2>1. mOutstandingJobs = {} /\ mOutstandingJobs' # {}
    BY DEF IsBusy
  <2>2. ~QueueStep
    BY <2>1, QuietCases DEF trackerVars
  <2>3. \E t \in Threads : StartInserted(t)
    BY <2>1, <2>2 DEF TrackerNext, TrackerStep, OwnerStart, JobStart, StartBegin, StartAdd, FinishBegin,
                     FinishErased, Commit, CancelOutstandingJobs, ScanBegin, OutstandingJobCount
  <2>4. PICK t \in Threads : access[t] = "insert"
    BY <2>3 DEF StartInserted
  <2>5. CASE t \in Workers
    <3>1. item[t] \in Taken
      BY <2>4, <2>5 DEF OwedInv, TrackerInv, QueueFacts, QueueInv, TypeOK, ThreadInv, HoldsItem, Taken
    <3> QED
      BY <2>1, <3>1 DEF TrackerInv, OutstandingCoversWork
  <2> QED
    BY <2>4, <2>5 DEF Threads
<1> QED
  BY <1>1, InitTracker, TrackerInvStep, InitOwed, OwedStep, PTL DEF TrackerSpec, NotBusyIsStable
=============================================================================
