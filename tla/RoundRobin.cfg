SPECIFICATION FairSpec
CONSTANTS
  MAX_THREAD_NUM = 5
  MaxSleep = 2
PROPERTIES
  ReadyLeavesQueue
  SleepEnds
