CONSTANTS
  c1 = c1
  Clients = {c1, c2, c3}
  MAX_BUF = 3
  CommandLength <- MCCommandLength
  DEFAULT_BACKLOG = 2
SPECIFICATION FairSpec
INVARIANT RunsWholeCommands
PROPERTY EveryClientServed
CHECK_DEADLOCK FALSE
