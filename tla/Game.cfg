\* Three sets of definitions and a program started twice; a ledge, a floor
\* and nothing beyond; three movies played one after another; three maps asked
\* for after the first, one of which may be missing.
CONSTANTS
  Games <- GameNames
  Mods = {"mod"}
  Hidden = {"cd1", "cd2"}
  Graphs <- AllGraphs
  Meta = {"psx"}
  IdOrder <- IdentifiedSets
  Rules <- IdRules
  Dirs <- DirNames
  Contents <- DirFiles
  Parent <- DirParent
  SavedPaths <- FirstPaths
  MaxRequired = 8
  MaxRuns = 2
  Frames <- FrameCounts
  Fps = 2
  Looping <- Loops
  LoopStart <- LoopStarts
  Columns <- Places
  Inputs <- Keys
  MaxRise = 30
  MaxDepth = 300
  Movies = {"ddv", "mov"}
  NotFound = {"none"}
  Stream <- MCStream
  EndsByFailing = {"ddv"}
  BytesPerFrame = 2
  Required = 3
  CallbackLens = {1, 3}
  MaxPlays = 3
  m1 = m1  m2 = m2
  Maps = {m1, m2}
  Missing = {m3}
  Size <- Sizes
  Objects <- MapObjects
  Blank <- BlankScreens
  Accepted = {"door", "slig"}
  Anims <- AnimCounts
  MaxLoads = 4
SPECIFICATION GameSpec
INVARIANTS RunsWholeGame PathsSurviveRestart GroundIsStill InSync ExclusiveIsAlive
           LoadsWholeMap NothingDangles
PROPERTIES EngineStarts NoFallThrough UpdateReturns ActionsEnd MovieEnds LoadingEnds
