SPECIFICATION FilterSpec
CONSTANTS
  Alphabets <- MCAlphabets
  MarksMax = 2
  MaxStringSequence = 3
  MaxChunk = 3
  MaxText = 6
INVARIANT BoundariesDoNotFool
CHECK_DEADLOCK FALSE
