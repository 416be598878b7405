CONSTANTS
  Launches = {l1, l2}
  NoLimit = NoLimit
SPECIFICATION FairSpec
INVARIANTS RunsRestricted CleanExit
PROPERTY EveryLaunchEnds
CHECK_DEADLOCK FALSE
