SPECIFICATION Spec
CONSTANTS
  root = root
  git = git
  hooks = hooks
  sub = sub
  subGit = subGit
  key = key
  vendor = vendor
  lib = lib
  Path <- MCPath
  Root = root
  Above <- MCAbove
  Git = {git, subGit}
  Foreign = {vendor}
  Settings <- MCSettings
  MaxEntries = 2
INVARIANTS
  NearestSourceWins
  SeenUnlessHidden
  WrittenUnlessReadOnly
CHECK_DEADLOCK FALSE
