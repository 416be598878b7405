CONSTANTS
  numOfThreads_ = 2
  NumInputs = 1
  Jobs <- AtMostOnePair
SPECIFICATION FairSpec
PROPERTY PollingEnds
