CONSTANTS
  Main = "main"
  SoundJobs = {"j1", "j2"}
  Animations = {"a1", "a2", "a3"}
  Resources = {"walk", "run", "bird", "ghost"}
  Sounds = {"ring"}
  Locations <- Files
  SetOf <- Sets
  Present = {"s1", "r1"}
  InArchive <- Found
  Objects = {"o1", "o2", "o3", "o4", "o5", "o6", "o7", "o8"}
SPECIFICATION CacheSpec
INVARIANT AddFindsNothing
