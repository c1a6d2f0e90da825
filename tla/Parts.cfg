\* Two controllers and one plugged in later; two lines, with stacks of one
\* command and without a limit, there three commands at most; frames of two
\* drawing commands and the user interface; two jobs that locate sounds and
\* three animations; an archive that two threads read, and a file and a movie
\* that one reads; two sounds cached by jobs that are killed anywhere.
CONSTANTS
  Acts <- RunAndSpeak
  Keys = {"lshift"}
  KeyConfig <- KeyMap
  Buttons = {"rb", "y"}
  PadConfig <- PadMap
  AtStart = 2
  MaxId = 3
  MaxQueue = 1
  Lines = {0, 1}
  PosCount = 3
  PressAt = {0}
  P1 <- Starts
  P2 <- Stops
  StackLimits <- Limits
  MaxCommands = 3
  LastAstray = {"history", "map"}
  Main = "main"
  SoundJobs = {"j1", "j2"}
  Animations = {"a1", "a2", "a3"}
  Resources = {"walk", "run", "bird", "ghost"}
  Sounds = {"ring"}
  Locations <- Files
  SetOf <- Sets
  Present = {"s1", "r1"}
  InArchive <- Found
  Objects = {"o1", "o2", "o3", "o4", "o5", "o6", "o7", "o8"}
  Callers = {"main", "job"}
  Records <- OnDisk
  Places = {0, 2047, 3100}
  Amounts = {0, 1024, 2049}
  SubFiles <- Cut
  Lvl <- Archive
  Browsers = {}
  n1 = n1  n2 = n2  j1 = j1  j2 = j2
  Names = {n1, n2}
  Resident = {n1}
  Locatable = {n1, n2}
  Jobs = {j1, j2}
  NameOf <- OneEach
  MaxRunning = 2
  Textures = {"ui", "t1", "t2", "t3", "t4", "t5", "t6", "t7", "t8", "t9"}
  Blends = {"eNormal"}
  Ui = "ui"
  Layers = {2000, 8000}
  FmvLayer = 7000
  MaxCells = 3
SPECIFICATION PartSpec
INVARIANTS
  NoDanglingController
  HistoryIsConsistent SelectionIsCoherent UndoRevertsWholeDrag
  MapAndObjectsAgree ChunksAreWhole
  SoundsAreWhole
  NoTextureLeaks DrawnAsAsked
PROPERTIES ActionsFollowDevices ImplementsFile LayersDecideOrder
