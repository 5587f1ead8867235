CONSTANTS
  Limit = 1
  Buffer = 1
  PtyCap = 2
  Room = 1
  Growth = 1
  MaxOutput = 2
  MaxInput = 1
  Resizes = TRUE
SPECIFICATION FairSpec
PROPERTIES
  GuestExitEndsLoop
  TermEndsLoop
  ResizeReachesPty
CHECK_DEADLOCK FALSE
