SPECIFICATION FilterSpec
CONSTANTS
  Alphabets <- MCAlphabets
  MarksMax = 2
  MaxStringSequence = 3
  MaxChunk = 3
  MaxText = 6
INVARIANTS
  ChunksDoNotMatter
  StringsAreSwallowed
  FilterIsIdempotent
  MarksAreFew
CHECK_DEADLOCK FALSE
