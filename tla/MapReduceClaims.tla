-------------------------- MODULE MapReduceClaims ---------------------------
(***************************************************************************)
(* What the comments and the sample client say of a job, and where the     *)
(* code does otherwise.                                                    *)
(***************************************************************************)
EXTENDS MapReduce

\* Jobs that emit at most one pair: one of them emits none.
AtMostOnePair == [Inputs -> {<<>>, <<1>>}]

\* SampleClient.cpp:86 polls until the reduce stage is at 100.0%, and
\* MapReduceFramework.h:21 says that the percentage is that of the elements
\* processed: a client that polls gets there. With no pair at all the fraction
\* is 0/0, which is not a number and never 100.
PollingEnds ==
  <>(/\ getJobState.stage = REDUCE_STAGE
     /\ getJobState.total > 0 /\ getJobState.processed = getJobState.total)
=============================================================================
