\* The players are reset while the audio thread plays.
CONSTANTS
  r = r  a = a  b = b  jr = jr  ja = ja  jb = jb  A = A  B = B
  Names = {r, a}
  Resident = {r}
  Locatable = {r, a}
  Jobs = {jr, ja}
  NameOf <- SmallJobNames
  MaxRunning = 1
  Themes = {A}
  NoTheme = NoTheme
  Entries <- OneTheme
  Events = {"AMBIANCE", "BASE_LINE"}
  MaxCalls = 1
  UiEvents = FALSE
SPECIFICATION SoundSpec
PROPERTY PlayersChangeUnderMutex
