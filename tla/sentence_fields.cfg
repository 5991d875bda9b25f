\* Every payload up to 72 characters (a stored sentence of 82 holds 64), and those
\* around 160, where the last word leaves m_payload, and 164.
CONSTANTS
  MAX_CHARS_PER_MESSAGE = 164
  MAX_CHARS_PER_FRAGMENT = 82
  PayloadOffset = 13
  PayloadSizes = {0, 1, 2, 3, 4, 5, 6, 7, 8, 9, 10, 11, 12, 13, 14, 15, 16, 17, 18,
                  19, 20, 21, 22, 23, 24, 25, 26, 27, 28, 29, 30, 31, 32, 33, 34, 35,
                  36, 37, 38, 39, 40, 41, 42, 43, 44, 45, 46, 47, 48, 49, 50, 51, 52,
                  53, 54, 55, 56, 57, 58, 59, 60, 61, 62, 63, 64, 65, 66, 67, 68, 69,
                  70, 71, 72, 157, 158, 159, 160, 161, 162, 163, 164, 165, 166}
  FillBits = {0, 2, 168}
  Alignments = {0, 1, 2, 3}
SPECIFICATION SentenceSpec
INVARIANTS TypeOK BitsInOrder StoresInBounds FieldIsSlice
  SumsSentence ReadsInside SoundAccepted
\* A message is read to its end and nothing follows.
CHECK_DEADLOCK FALSE
