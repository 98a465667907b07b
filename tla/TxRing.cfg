SPECIFICATION Spec
CONSTANTS
  Inline = 2
  Chunk = 3
  Size = 11
  HeaderSize = 2
  MaxData = 7
  Tags <- MCTags
INVARIANTS
  TypeOK
  CursorsExact
  WireIsMessage
