------------------------- MODULE SchedulerRefinement -------------------------
(***************************************************************************)
(* Scheduler implements RoundRobin, when no wake-up time overflows.        *)
(***************************************************************************)
EXTENDS SchedulerHistory

\* The sleeps that are asked for end within the range of an int.
NoOverflow == \A n \in SleepRequests : MaxQuanta + n <= INT_MAX

\* Quanta of sleep a thread has left; none once its time is over.
SleepLeft(t) ==
  LET until == threads_[t].sleepUntil_
  IN  IF until = NotSleeping THEN NotSleeping
      ELSE IF until > total_quantum_ THEN until - total_quantum_ ELSE 0

RR == INSTANCE RoundRobin WITH
        MaxSleep <- INT_MAX,
        ready    <- readyQueue_,
        running  <- currentRunningThread_,
        blocked  <- blockedThreads_,
        asleep   <- Sleeping,
        left     <- [t \in Live |-> SleepLeft(t)],
        up       <- process = "up"

\* Every step of the code is a step of the round-robin scheduler or changes
\* nothing that it shows: the lazy freeing of terminated threads, the absolute
\* wake-up times and the order of the multiset are invisible.
ImplementsRoundRobin == RR!Spec
=============================================================================
