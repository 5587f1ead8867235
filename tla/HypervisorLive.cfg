SPECIFICATION Spec
CONSTANTS
  Cmd = {c1, c2}
  Rootfs = {r1}
  MaxCreates = 1
  MaxCommands = 2
  MaxWrites = 0
  MaxPieces = 2
PROPERTY EveryCommandEnds
CHECK_DEADLOCK FALSE
