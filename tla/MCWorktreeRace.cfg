SPECIFICATION Spec
CONSTANTS
  old = old
  new = new
  slashed = slashed
  d1 = d1
  d2 = d2
  d3 = d3
  Run = {a, b, c}
  Branch = {old, new, slashed}
  Destination = {d1, d2, d3}
  DestOf <- MCDestOf
  Preexisting = {old}
  MaxStarts = 4
SYMMETRY Symmetry
INVARIANTS
  WorktreeHasBranch
CHECK_DEADLOCK FALSE
