\* The whole interface, with a job that adds a job, with a tracker and without.
CONSTANTS
  j1 = j1  j2 = j2  j3 = j3  w1 = w1  w2 = w2
  Jobs = {j1, j2, j3}
  Workers = {w1, w2}
  Main = Main
  None = None
  Spawns <- OneSpawns
  Calls = {"Add", "Update", "Pause", "Stop"}
  Serialized = TRUE
SPECIFICATION FairSystemSpec
INVARIANTS ExecutingCountExact WorkConserving StopIsFinal TrackedWorkIsOutstanding
PROPERTIES ImplementsJobPool AcceptedJobsNotified StopReturnsUnlessAdding BusyEnds
\* Stop and a worker inside Add can block each other (AsyncQueueStop).
CHECK_DEADLOCK FALSE
