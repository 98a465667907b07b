SPECIFICATION Spec
CONSTANTS
  Inline = 2
  Chunk = 3
  Lengths <- ShortLengths
  SizeLimit = 8
  InitialCounts <- Zeroed
  MaxMessages = 2
  MaxLost = 4
INVARIANTS
  OnlyMessagesDelivered
CHECK_DEADLOCK FALSE
