\* Queues of one slot; chunk 2 gives no messages.
CONSTANTS
  NumChunks = 3
  NoMessages = {2}
  NoPayloads = {}
  PerChunk = 1
  Capacity = 1
  MAX_PROC_COUNT = 2
SPECIFICATION MemorySpec
INVARIANTS OneOwner ContentIntact MemoryBounded
\* The threads return: a finished program has no successor state.
CHECK_DEADLOCK FALSE
