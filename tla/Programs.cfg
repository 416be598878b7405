CONSTANTS
  MAX_THREAD_NUM = 7
  INT_MAX = 127
  MaxQuanta = 50
  SleepRequests = {0, 1, 2}
  Signals = {"SIGVTALRM", "SIGBUS", "SIGTERM", "SIGUSR1", "SIGTSTP"}
  SIGVTALRM = "SIGVTALRM"
  SignalSets <- MCSignalSets
  Code <- MCCode
  MinSteps <- MCMinSteps
  Horizon <- MCHorizon
SPECIFICATION PSpec
INVARIANTS MethodsAreAtomic MaskFollowsThread TickCutsOneQuantum
           ExpectedResults AwaitedCanFinish WaitsForItsOwn
