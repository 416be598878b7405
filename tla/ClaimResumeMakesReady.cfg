SPECIFICATION HistorySpec
CONSTANTS
  MAX_THREAD_NUM = 3
  INT_MAX = 10
  MaxQuanta = 7
  SleepRequests = {1}
PROPERTY ResumeMakesReady
