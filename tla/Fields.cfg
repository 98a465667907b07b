SPECIFICATION ProgramSpec
CONSTANTS
  BoardName = "engine"
  BoardVersion = "v1"
  Firmwares <- MCFirmwares
  Values <- MCValues
  MaxLost = 2
  MaxFlashes = 1
INVARIANTS
  TypeOK
  SpeaksTheSameLanguage
  RightTopic
  RightField
  ServicesMatchTopics
  OnlyDamageKills
  FakesAreShown
PROPERTIES
  WakeIsLearned
CHECK_DEADLOCK FALSE
