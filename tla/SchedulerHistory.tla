-------------------------- MODULE SchedulerHistory --------------------------
(***************************************************************************)
(* Scheduler with history variables: what the bound on the lateness of     *)
(* wake-ups and the accounting of quanta are stated over. They record and  *)
(* never constrain a step.                                                 *)
(***************************************************************************)
EXTENDS Scheduler

VARIABLES
  lastWakeUp,    \* total_quantum_ when _sleepToReady last ran
  freedQuanta    \* quanta of the threads that have been freed

history == <<lastWakeUp, freedQuanta>>

Quanta == [t \in DOMAIN threads_ |-> threads_[t].numOfQuantum_]

HistoryInit ==
  /\ Init
  /\ lastWakeUp = 1
  /\ freedQuanta = 0

Record ==
  freedQuanta' = IF tidToTerminate_ \in DOMAIN threads_ /\ tidToTerminate_' # tidToTerminate_
                 THEN freedQuanta + Quanta[tidToTerminate_]
                 ELSE freedQuanta

HistoryNext ==
  \/ timerHandler /\ Record /\ lastWakeUp' = total_quantum_
  \/ apiCall /\ Record /\ UNCHANGED lastWakeUp
  \/ stopped /\ UNCHANGED history

HistorySpec == HistoryInit /\ [][HistoryNext]_<<vars, history>>

-----------------------------------------------------------------------------
\* _sleepToReady runs only when a quantum expires, not when one ends by a block,
\* a sleep or a termination. It still runs at least once in MAX_THREAD_NUM
\* quanta, because main's quantum can end in no other way.
WakeUpLag == total_quantum_ - lastWakeUp <= MAX_THREAD_NUM

\* Every quantum that started is charged to exactly one thread: total_quantum_
\* is the sum of the threads' own counts, the freed ones included, across
\* terminations and the reuse of their ids.
QuantumAccounting == total_quantum_ = freedQuanta + SumFunction(Quanta)
=============================================================================
