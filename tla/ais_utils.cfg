CONSTANTS
  HeadDigits = {0, 1, 2, 4, 7, 8, 9}
  TailDigits = {0, 8}
  Letters = {"a", " ", "@"}
  MaxName = 6
SPECIFICATION Spec
INVARIANTS MdiAgree CountryBehindPrefix ClassRoundTrip NameClean
\* The arguments are bounded.
CHECK_DEADLOCK FALSE
