CONSTANTS
  r1 = r1
  r2 = r2
  r3 = r3
  i1 = i1
  i2 = i2
  i3 = i3
  i4 = i4
  None = None
  Run <- MCRun
  Inode <- MCInode
SPECIFICATION LockSpec
INVARIANT Exclusive
