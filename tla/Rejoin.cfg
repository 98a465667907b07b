SPECIFICATION Spec
CONSTANTS
  e1 = e1
  e2 = e2
  Devices <- Solo
  BusOf <- SoloBus
  NameOf <- SoloName
  BodyOf <- SoloBody
  IdOf <- SoloId
  Cans <- Cans1
  NodeIds <- Nodes3
  DeadAfter = 2
  Names <- MCNames
  Bodies <- MCBodies
  Ids <- MCIds
  NoName = NoName
  NoBody = NoBody
  NoId = NoId
  NoNode = NoNode
  NoHandler = NoHandler
  NoPointer = NoPointer
  Chatter <- Data
  EarlyFrames = FALSE
  Timely = FALSE
  QueueLimit = 2
  MaxFailures = 2
  MaxLost = 2
  MaxPanics = 0
INVARIANTS
  TypeOK
  CopiesAgree
  OneLiveBackend
  OneFrontEnd
  SlotsAccounted
  OperationalIffServed
  NoFault
PROPERTIES
  ImplementsDirectory
CHECK_DEADLOCK FALSE
