CONSTANTS
  Shapes = {"plain", "tagged", "other", "long"}
  MaxLines = 6
  BufferSize = 25
  ChunkSize = 2
  HeaderTime <- Times
  LineEnd <- CRLF
SPECIFICATION FairSpec
INVARIANTS TypeOK NothingDropped ChunksWellFormed TimestampsKept
PROPERTIES AllRead
CHECK_DEADLOCK FALSE
