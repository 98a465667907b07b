SPECIFICATION ProgramSpec
CONSTANTS
  BoardName = "engine"
  BoardVersion = "v1"
  Firmwares <- WithFunction
  Values <- MCValues
  MaxLost = 0
  MaxFlashes = 0
INVARIANTS
  FunctionsAccepted
CHECK_DEADLOCK FALSE
