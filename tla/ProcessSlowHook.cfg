SPECIFICATION FairSpec
INVARIANT FailingHookFailsSpawn
CHECK_DEADLOCK FALSE
