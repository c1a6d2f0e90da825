\* The set as it is, without a lock.
CONSTANTS
  j1 = j1  j2 = j2  j3 = j3  w1 = w1  w2 = w2
  Jobs = {j1, j2}
  Workers = {w1, w2}
  Main = Main
  None = None
  Spawns <- OneSpawns
  Calls = {"Add", "Update"}
  Serialized = FALSE
SPECIFICATION TrackerSpec
INVARIANT NoConcurrentAccess
