SPECIFICATION LoopSpec
CONSTANTS
  Cans <- MCCans
  NodeIds <- MCNodeIds
  DeadAfter = 5
  Ids <- MCIds
  NoId = NoId
  NoHandler = NoHandler
  NoPointer = NoPointer
  MaxFlight = 3
  MaxErrors = 1
  Second = 2
  AnswerTime = 1
  MaxTurn = 4
INVARIANTS
  TypeOK
  CountersExact
  DeathJustified
  MissesNeedCause
PROPERTIES
  DeathIsFinal
  SilenceIsNoticed
  ImplementsKeepAlive
