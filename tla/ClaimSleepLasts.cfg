SPECIFICATION HistorySpec
CONSTANTS
  MAX_THREAD_NUM = 3
  INT_MAX = 7
  MaxQuanta = 7
  SleepRequests = {1, 7}
PROPERTY SleepLastsAsRequested
