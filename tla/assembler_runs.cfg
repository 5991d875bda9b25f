\* Two ids with an entry of the table and one without; numbers up to and beyond the
\* limit: messages of two fragments are completed, those of three are not.
CONSTANTS
  MAX_FRAGMENTS = 3
  Ids = {0, 1, 10}
  Counts = {1, 2, 3}
  Nums = {1, 2, 3, 4}
  MaxHeard = 4
SPECIFICATION Spec
INVARIANTS TypeOK CollectsRun MessageFromRun
