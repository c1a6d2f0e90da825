\* One of two controllers is unplugged and plugged in again.
CONSTANTS
  Acts <- RunAndSpeak
  Keys = {"lshift"}
  KeyConfig <- KeyMap
  Buttons = {"rb", "y"}
  PadConfig <- PadMap
  AtStart = 2
  MaxId = 3
  MaxQueue = 1
SPECIFICATION InputSpec
INVARIANT AttachedAreKnown
