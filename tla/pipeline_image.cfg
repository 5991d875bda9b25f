CONSTANTS
  NumChunks = 1
  NoMessages = {}
  NoPayloads = {}
  PerChunk = 1
  Capacity = 2
  MAX_PROC_COUNT = 2
SPECIFICATION Spec
INVARIANTS ImageComplete
CHECK_DEADLOCK FALSE
