\* The owner stops the queue while a job adds a job from its worker.
CONSTANTS
  j1 = j1  j2 = j2  j3 = j3  w1 = w1  w2 = w2
  Jobs = {j1, j2}
  Workers = {w1, w2}
  Main = Main
  None = None
  Spawns <- OneSpawns
  Calls = {"Add", "Update", "Stop"}
SPECIFICATION FairSpec
PROPERTY StopReturns
\* Stop and the worker block each other.
CHECK_DEADLOCK FALSE
