CONSTANTS
  NumChunks = 2
  NoMessages = {}
  NoPayloads = {}
  PerChunk = 1
  Capacity = 2
  MAX_PROC_COUNT = 2
SPECIFICATION FairSpec
PROPERTIES StatusEnds
CHECK_DEADLOCK FALSE
