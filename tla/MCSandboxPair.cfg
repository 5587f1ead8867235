CONSTANTS
  r1 = r1
  r2 = r2
  i1 = i1
  i2 = i2
  i3 = i3
  None = None
  Run <- MCRun
  Inode <- MCInode
  Commands <- MCAll
SPECIFICATION FairSpec
INVARIANTS
  OneSandboxPerName
  PlainDeleteSparesRunning
PROPERTIES
  DeleteLeavesNothing
  PowerOffEndsRun
