CONSTANTS
  a = a
  b = b
  c = c
  Client <- MCClient
  Boot = Boot
  Stale = Stale
  None = None
  Configured = FALSE
SPECIFICATION Spec
SYMMETRY MCSymmetry
INVARIANTS
  AddedShareIsServed
