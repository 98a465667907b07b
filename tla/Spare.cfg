SPECIFICATION Spec
CONSTANTS
  e1 = e1
  e2 = e2
  Devices <- Pair
  BusOf <- OneBus
  NameOf <- OneName
  BodyOf <- OneBody
  IdOf <- NoIds
  Cans <- Cans1
  NodeIds <- Nodes3
  DeadAfter = 2
  Names <- MCNames
  Bodies <- MCBodies
  Ids <- MCIds
  NoName = NoName
  NoBody = NoBody
  NoId = NoId
  NoNode = NoNode
  NoHandler = NoHandler
  NoPointer = NoPointer
  Chatter <- Silent
  EarlyFrames = FALSE
  Timely = FALSE
  QueueLimit = 1
  MaxFailures = 1
  MaxLost = 0
  MaxPanics = 0
SYMMETRY Interchangeable
INVARIANTS
  CopiesAgree
  OneLiveBackend
PROPERTIES
  ImplementsDirectory
CHECK_DEADLOCK FALSE
