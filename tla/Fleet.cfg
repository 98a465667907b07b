SPECIFICATION Spec
CONSTANTS
  e1 = e1
  e2 = e2
  Devices <- Pair
  BusOf <- OneBus
  NameOf <- OneName
  BodyOf <- OneBody
  IdOf <- TwoIds
  Cans <- Cans1
  NodeIds <- Nodes3
  DeadAfter = 2
  Names <- MCNames
  Bodies <- MCBodies
  Ids <- MCIds
  NoName = NoName
  NoBody = NoBody
  NoId = NoId
  NoNode = NoNode
  NoHandler = NoHandler
  NoPointer = NoPointer
  Chatter <- Talkative
  EarlyFrames = FALSE
  Timely = TRUE
  QueueLimit = 1
  MaxFailures = 1
  MaxLost = 0
  MaxPanics = 1
INVARIANTS
  RightBoard
  RightSource
  OneFrontEnd
CHECK_DEADLOCK FALSE
