CONSTANTS
  Shapes = {"plain"}
  MaxLines = 3
  BufferSize = 10
  ChunkSize = 2
  HeaderTime <- Times
  LineEnd <- LF
SPECIFICATION Spec
INVARIANTS NothingDropped
CHECK_DEADLOCK FALSE
