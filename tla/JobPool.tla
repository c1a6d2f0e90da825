------------------------------ MODULE JobPool ------------------------------
(***************************************************************************)
(* What a client of the job queue may rely on: a job handed over is either *)
(* refused or queued; queued jobs are started in the order they were       *)
(* queued, at most MaxRunning at a time; a job that has run is notified    *)
(* exactly once, in the order the jobs completed; only queued jobs can be  *)
(* dropped.  AsyncQueue implements this specification.                     *)
(***************************************************************************)
EXTENDS Integers, Sequences, FiniteSets

CONSTANTS Jobs,        \* the job objects, each handed over at most once
          MaxRunning   \* how many jobs may run at the same time

VARIABLES pending,     \* jobs accepted and not started, oldest first
          running,     \* jobs a worker has taken
          done,        \* jobs that have run and wait for their notification
          notified,    \* jobs whose OnFinished was called, in that order
          dropped      \* jobs refused, or removed before they were started

poolVars == <<pending, running, done, notified, dropped>>

Members(s) == {s[i] : i \in DOMAIN s}

Known == Members(pending) \cup running \cup Members(done)
           \cup Members(notified) \cup dropped

Init ==
  /\ pending = <<>> /\ done = <<>> /\ notified = <<>>
  /\ running = {} /\ dropped = {}

Submit(j) ==
  /\ j \notin Known
  /\ pending' = Append(pending, j)
  /\ UNCHANGED <<running, done, notified, dropped>>

Refuse(j) ==
  /\ j \notin Known
  /\ dropped' = dropped \cup {j}
  /\ UNCHANGED <<pending, running, done, notified>>

Dispatch ==
  /\ pending # <<>>
  /\ Cardinality(running) < MaxRunning
  /\ running' = running \cup {Head(pending)}
  /\ pending' = Tail(pending)
  /\ UNCHANGED <<done, notified, dropped>>

Complete(j) ==
  /\ j \in running
  /\ running' = running \ {j}
  /\ done' = Append(done, j)
  /\ UNCHANGED <<pending, notified, dropped>>

Notify ==
  /\ done # <<>>
  /\ notified' = Append(notified, Head(done))
  /\ done' = Tail(done)
  /\ UNCHANGED <<pending, running, dropped>>

DropPending ==
  /\ pending' = <<>>
  /\ dropped' = dropped \cup Members(pending)
  /\ UNCHANGED <<running, done, notified>>

Next ==
  \/ \E j \in Jobs : Submit(j) \/ Refuse(j) \/ Complete(j)
  \/ Dispatch
  \/ Notify
  \/ DropPending

Spec == Init /\ [][Next]_poolVars
=============================================================================
