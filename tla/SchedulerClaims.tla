--------------------------- MODULE SchedulerClaims ---------------------------
(***************************************************************************)
(* What comments of Project-Ex2 say of the scheduler and the code does not *)
(* do. Each is checked by a run of its own, which finds it violated.       *)
(***************************************************************************)
EXTENDS SchedulerHistory

\* uthreads.h:66 on uthread_resume: "Resumes a blocked thread with ID tid and
\* moves it to the READY state". Stated only for threads whose sleeping time,
\* if they ever slept, was over when _sleepToReady last ran.
ResumeMakesReady ==
  [][\A t \in (blockedThreads_ \ blockedThreads_') \cap Live' :
       threads_[t].sleepUntil_ <= lastWakeUp => t \in Ready']_vars

\* uthreads.h:76 on uthread_sleep: "Blocks the RUNNING thread for num_quantums
\* quantums". The wake-up time is an int sum that can overflow.
SleepLastsAsRequested ==
  [][\A n \in SleepRequests :
       (n > 0 /\ currentRunningThread_ # 0 /\ sleepThread(n))
         => threads_'[currentRunningThread_].sleepUntil_ >= total_quantum_ + n]_vars
=============================================================================
