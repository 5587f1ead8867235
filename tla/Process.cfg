SPECIFICATION FairSpec
INVARIANTS
  NeverRunsWithoutHook
  DropLeavesNothing
PROPERTIES
  SignalsOnlyOwnChild
  DiesWithParent
CHECK_DEADLOCK FALSE
