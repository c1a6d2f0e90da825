\* A map is loaded when a line has been selected.
CONSTANTS
  Lines = {0, 1}
  PosCount = 2
  PressAt = {0, 1}
  P1 <- Starts
  P2 <- Stops
  StackLimits <- NoLimit
  MaxCommands = 2
  LastAstray = {}
SPECIFICATION EditorSpec
INVARIANT CommandIndexInRange
