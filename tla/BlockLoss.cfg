SPECIFICATION Spec
CONSTANTS
  Inline = 2
  Chunk = 3
  Lengths <- MCLengths
  SizeLimit = 8
  InitialCounts <- Uninitialized
  MaxMessages = 4
  MaxLost = 5
INVARIANTS
  TypeOK
  OnlyLossFillsBuffer
PROPERTIES
  IntactIsDelivered
  DamageIsNoticed
CHECK_DEADLOCK FALSE
