\* More chunks than a queue holds; chunk 2 gives no messages, 3 no payloads.
CONSTANTS
  NumChunks = 4
  NoMessages = {2}
  NoPayloads = {3}
  PerChunk = 2
  Capacity = 2
  MAX_PROC_COUNT = 2
SPECIFICATION FairSpec
INVARIANTS TypeOK InOrder NothingLost FragmentsDrained NeverOvercounts
PROPERTIES ReaderFinishes StagesStop OrderlyShutdown
\* The threads return: a finished program has no successor state.
CHECK_DEADLOCK FALSE
