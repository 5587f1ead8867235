SPECIFICATION Spec
CONSTANTS
  Cmd = {c1, c2}
  Rootfs = {r1, r2}
  MaxCreates = 2
  MaxCommands = 2
  MaxWrites = 1
  MaxPieces = 1
SYMMETRY Symmetry
INVARIANT PickedRuns
CHECK_DEADLOCK FALSE
