\* Themes asked for in any state, events between loads; sounds with and
\* without an end.
CONSTANTS
  r = r  a = a  b = b  jr = jr  ja = ja  jb = jb  A = A  B = B
  Names = {r, a, b}
  Resident = {r}
  Locatable = {r, a, b}
  Jobs = {jr, ja, jb}
  NameOf <- JobNames
  MaxRunning = 2
  Themes = {A, B}
  NoTheme = NoTheme
  Entries <- TwoThemes
  Events = {"AMBIANCE", "BASE_LINE"}
  MaxCalls = 2
  UiEvents = FALSE
  Songs <- AllSongs
  Tones <- Bank
  Rate <- Steps
  Pitches = {0, 1}
  FullLevel = 3
  FramesPerTick = 2
  Bars = 2
  BufferFrames = 3
  MaxAhead = 1
  MaxSample = 30
SPECIFICATION SoundsSpec
INVARIANTS MemoryMatchesTheme LastThemeWins KeysGoUpOnTime EndsWithItsSound
PROPERTIES UsesCacheRightly LoadingEnds SoundsEnd
