CONSTANTS
  Limit = 2
  Buffer = 1
  PtyCap = 3
  Room = 1
  Growth = 1
  MaxOutput = 4
  MaxInput = 2
  Resizes = FALSE
SPECIFICATION Spec
INVARIANTS
  NothingLeftToForward
CHECK_DEADLOCK FALSE
