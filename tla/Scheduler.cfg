SPECIFICATION HistorySpec
CONSTANTS
  MAX_THREAD_NUM = 4
  INT_MAX = 9
  MaxQuanta = 6
  SleepRequests = {0, 1, 3}
INVARIANTS
  TypeOK
  OnePlace
  NoUndefinedBehaviour
  SleepOrder
  AwakeIsDue
  WakeUpLag
  QuantumAccounting
PROPERTIES
  NoOvertaking
  ImplementsRoundRobin
