CONSTANTS
  Limit = 2
  Buffer = 1
  PtyCap = 2
  Room = 1
  Growth = 2
  MaxOutput = 2
  MaxInput = 3
  Resizes = FALSE
SPECIFICATION Spec
INVARIANTS
  OutputConserved
  QueuesBounded
  NeverSleepsOnWork
  NothingLeftUnlessRejected
  ModesOnlyWhileMasked
CHECK_DEADLOCK FALSE
