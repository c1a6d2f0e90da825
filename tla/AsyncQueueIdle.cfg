\* test/asyncqueue_tests.cpp: jobs are added, IsIdle is polled, then Update.
CONSTANTS
  j1 = j1  j2 = j2  j3 = j3  w1 = w1  w2 = w2
  Jobs = {j1, j2}
  Workers = {w1, w2}
  Main = Main
  None = None
  Spawns <- NoSpawns
  Calls = {"Add", "Update"}
SPECIFICATION Spec
INVARIANT IdleMeansAllCompleted
