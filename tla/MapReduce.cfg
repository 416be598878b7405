CONSTANTS
  numOfThreads_ = 3
  NumInputs = 2
  Jobs <- MCJobs
SPECIFICATION FairSpec
INVARIANTS GroupsPartitionThePairs ProgressIsHonest EndIsReported
           JoinedOnceThenDeleted PhasesDoNotOverlap ContextsAssigned ReducedOnce
PROPERTIES JobFinishes ProgressNeverFallsBack
