\* MAX_FRAGMENTS as in the code.
CONSTANTS
  MAX_FRAGMENTS = 2
  Ids = {0, 1}
  Counts = {1, 2}
  Nums = {0, 1, 2}
  MaxHeard = 2
SPECIFICATION Spec
PROPERTIES PairDecoded
