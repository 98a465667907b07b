SPECIFICATION Spec
CONSTANTS
  e1 = e1
  e2 = e2
  Devices <- Solo
  BusOf <- SoloBus
  NameOf <- SoloName
  BodyOf <- SoloBody
  IdOf <- SoloId
  Cans <- Cans1
  NodeIds <- Nodes3
  DeadAfter = 2
  Names <- MCNames
  Bodies <- MCBodies
  Ids <- MCIds
  NoName = NoName
  NoBody = NoBody
  NoId = NoId
  NoNode = NoNode
  NoHandler = NoHandler
  NoPointer = NoPointer
  Chatter <- Silent
  EarlyFrames = TRUE
  Timely = FALSE
  QueueLimit = 2
  MaxFailures = 0
  MaxLost = 0
  MaxPanics = 1
INVARIANTS
  AddressesKnown
CHECK_DEADLOCK FALSE
