SPECIFICATION FairSpec
CONSTANTS
  e1 = e1
  e2 = e2
  Devices <- Solo
  BusOf <- SoloBus
  NameOf <- SoloName
  BodyOf <- SoloBody
  IdOf <- SoloId
  Cans <- Cans1
  NodeIds <- Nodes3
  DeadAfter = 2
  Names <- MCNames
  Bodies <- MCBodies
  Ids <- MCIds
  NoName = NoName
  NoBody = NoBody
  NoId = NoId
  NoNode = NoNode
  NoHandler = NoHandler
  NoPointer = NoPointer
  Chatter <- Silent
  EarlyFrames = TRUE
  Timely = TRUE
  QueueLimit = 3
  MaxFailures = 2
  MaxLost = 0
  MaxPanics = 1
PROPERTIES
  AllComeOnline
  StaysAcquainted
CHECK_DEADLOCK FALSE
