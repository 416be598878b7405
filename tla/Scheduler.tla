------------------------------ MODULE Scheduler ------------------------------
(***************************************************************************)
(* The user-level thread library of Project-Ex2: class Scheduler and the   *)
(* uthread_* calls that forward to it.                                     *)
(*                                                                         *)
(* Every API call runs with SIGVTALRM masked (SigMask in uthreads.cpp) and *)
(* the timer handler runs with it masked by sigaction, so one call or one  *)
(* timer expiration is one atomic step: the interleaving is that of the    *)
(* timer with the calls of whichever thread is running.                    *)
(*                                                                         *)
(* Left out: the machine context of a thread (env_, stack_, the jump       *)
(* itself), stderr messages and system calls that fail (they end the       *)
(* process).                                                               *)
(***************************************************************************)
EXTENDS Integers, Sequences, FiniteSets, SequencesExt

CONSTANTS
  MAX_THREAD_NUM,  \* the library's limit on threads (uthreads.h: 100)
  INT_MAX,         \* the largest int
  MaxQuanta,       \* bound: the model follows a process for so many quanta
  SleepRequests    \* the arguments threads pass to uthread_sleep

ASSUME MaxThreadNumAssumption == MAX_THREAD_NUM \in Nat \ {0}
ASSUME IntMaxAssumption == INT_MAX \in Nat \ {0}
ASSUME MaxQuantaAssumption == MaxQuanta \in 1 .. INT_MAX
ASSUME SleepRequestsAssumption == SleepRequests \subseteq (-INT_MAX - 1) .. INT_MAX

VARIABLES
  threads_,               \* tid -> Thread, for every tid the library knows
  readyQueue_,            \* tids, the front runs next
  blockedThreads_,        \* tids under uthread_block
  sleepThreads_,          \* the multiset of (tid, until), in its iteration order
  currentRunningThread_,
  tidToTerminate_,        \* a thread that is dead but not yet freed, or -1
  total_quantum_,
  process                 \* "up"; "exited"; "undefined" after undefined behaviour

vars == <<threads_, readyQueue_, blockedThreads_, sleepThreads_,
          currentRunningThread_, tidToTerminate_, total_quantum_, process>>

Tids == 0 .. MAX_THREAD_NUM - 1
NoTid == -1
NotSleeping == -1
TidArguments == -1 .. MAX_THREAD_NUM  \* what callers pass: in and out of range

\* What a signed addition leaves in an int of this width on the build's
\* two's-complement target when the sum does not fit.
Wrapped(n) == ((n + INT_MAX + 1) % (2 * (INT_MAX + 1))) - INT_MAX - 1

Thread == [numOfQuantum_ : Nat, sleepUntil_ : Int]
NewThread == [numOfQuantum_ |-> 0, sleepUntil_ |-> NotSleeping]

-----------------------------------------------------------------------------
(* Helpers on the containers *)

\* The position of a thread in a queue that holds it once.
IndexOf(queue, tid) == CHOOSE i \in DOMAIN queue : queue[i] = tid

\* readyQueue_ without tid. std::remove drops every occurrence; OnePlace says
\* that there is never more than one.
deleteReadyThread(queue, tid) ==
  IF tid \in ToSet(queue) THEN RemoveAt(queue, IndexOf(queue, tid)) ELSE queue

SleepingTids(sleepers) == {sleepers[i].tid : i \in DOMAIN sleepers}

DistinctTids(sleepers) ==
  \A i, j \in DOMAIN sleepers : sleepers[i].tid = sleepers[j].tid => i = j

\* Mistake: a list in order of arrival instead of the sorted multiset.
insertSleeperLast(sleepers, tid, until) ==
  Append(sleepers, [tid |-> tid, until |-> until])

\* multiset::insert puts an entry after the entries that compare equal.
insertSleeper(sleepers, tid, until) ==
  LET upper == Cardinality({i \in DOMAIN sleepers : sleepers[i].until <= until})
  IN  InsertAt(sleepers, upper + 1, [tid |-> tid, until |-> until])

eraseSleeper(sleepers, tid) ==
  RemoveAt(sleepers, CHOOSE i \in DOMAIN sleepers : sleepers[i].tid = tid)

\* Mistake: upper_bound instead of lower_bound.
dueCountUpperBound(sleepers, now) ==
  Cardinality({i \in DOMAIN sleepers : sleepers[i].until <= now + 1})

\* How many entries lie before lower_bound({0, now + 1}).
dueCount(sleepers, now) ==
  Cardinality({i \in DOMAIN sleepers : sleepers[i].until < now + 1})

\* Mistake: the number of threads taken for the lowest free id.
getNextIdBySize(known) == Cardinality(known)

getLowestAvailableId(known) ==
  LET free == (1 .. MAX_THREAD_NUM - 1) \ known
  IN  IF free = {} THEN NoTid ELSE Min(free)

-----------------------------------------------------------------------------
(* _deleteTerminatedThread: the first thing every call below does. *)

Remaining == Restrict(threads_, DOMAIN threads_ \ {tidToTerminate_})

ToTerminateAfterDelete ==
  IF tidToTerminate_ \in DOMAIN threads_ THEN NoTid ELSE tidToTerminate_

\* A call that returns an error, or has nothing to do, after the deletion.
deleteTerminatedThread ==
  /\ threads_' = Remaining
  /\ tidToTerminate_' = ToTerminateAfterDelete
  /\ UNCHANGED <<readyQueue_, blockedThreads_, sleepThreads_,
                 currentRunningThread_, total_quantum_, process>>

\* Mistake: the counter is only incremented on the way to the jump.
preemptCountsOnJump(threads, queue, reason) ==
  IF queue = <<>> \/ Head(queue) \notin DOMAIN threads
  THEN /\ process' = "undefined"
       /\ UNCHANGED <<threads_, readyQueue_, currentRunningThread_,
                      tidToTerminate_, total_quantum_>>
  ELSE /\ total_quantum_ < MaxQuanta
       /\ readyQueue_' = Tail(queue)
       /\ total_quantum_' = total_quantum_ + 1
       /\ threads_' = IF Head(queue) = currentRunningThread_ THEN threads
                      ELSE [threads EXCEPT ![Head(queue)].numOfQuantum_ = @ + 1]
       /\ currentRunningThread_' = Head(queue)
       /\ tidToTerminate_' = IF reason = "Termination" /\ Head(queue) # currentRunningThread_
                             THEN currentRunningThread_
                             ELSE ToTerminateAfterDelete
       /\ UNCHANGED process

(* _preempt and _applySigJmp: switch to the front of the queue. An empty   *)
(* queue (front() of an empty deque) or a tid without a thread is          *)
(* undefined behaviour.                                                    *)
preempt(threads, queue, reason) ==
  IF queue = <<>> \/ Head(queue) \notin DOMAIN threads
  THEN /\ process' = "undefined"
       /\ UNCHANGED <<threads_, readyQueue_, currentRunningThread_,
                      tidToTerminate_, total_quantum_>>
  ELSE /\ total_quantum_ < MaxQuanta
       /\ readyQueue_' = Tail(queue)
       /\ total_quantum_' = total_quantum_ + 1
       /\ threads_' = [threads EXCEPT ![Head(queue)].numOfQuantum_ = @ + 1]
       /\ currentRunningThread_' = Head(queue)
       /\ tidToTerminate_' = IF reason = "Termination" /\ Head(queue) # currentRunningThread_
                             THEN currentRunningThread_
                             ELSE ToTerminateAfterDelete
       /\ UNCHANGED process

-----------------------------------------------------------------------------
(* The API and the timer *)

Init ==
  /\ threads_ = [t \in {0} |-> [NewThread EXCEPT !.numOfQuantum_ = 1]]
  /\ readyQueue_ = <<>>
  /\ blockedThreads_ = {}
  /\ sleepThreads_ = <<>>
  /\ currentRunningThread_ = 0
  /\ tidToTerminate_ = NoTid
  /\ total_quantum_ = 1
  /\ process = "up"

timerHandler ==
  LET due == dueCount(sleepThreads_, total_quantum_)
      woken == [i \in 1 .. due |-> sleepThreads_[i].tid]
      queue == Append(readyQueue_ \o woken, currentRunningThread_)
  IN  /\ process = "up"
      /\ sleepThreads_' = SubSeq(sleepThreads_, due + 1, Len(sleepThreads_))
      /\ preempt(Remaining, queue, "QuantumExpiration")
      /\ UNCHANGED blockedThreads_

\* Mistake: only the function is checked, not the limit nor the id found.
spawnRefusedWithoutFunction(hasFunction) == ~hasFunction

spawnRefused(hasFunction) ==
  \/ ~hasFunction
  \/ Cardinality(DOMAIN Remaining) = MAX_THREAD_NUM
  \/ getLowestAvailableId(DOMAIN Remaining) = NoTid

spawnThread(hasFunction) ==
  /\ process = "up"
  /\ \/ spawnRefused(hasFunction) /\ deleteTerminatedThread
     \/ LET nextTid == getLowestAvailableId(DOMAIN Remaining)
        IN  /\ ~spawnRefused(hasFunction)
            /\ readyQueue_' = Append(readyQueue_, nextTid)
            /\ threads_' = [t \in DOMAIN Remaining \cup {nextTid} |->
                              IF t = nextTid THEN NewThread ELSE threads_[t]]
            /\ tidToTerminate_' = ToTerminateAfterDelete
            /\ UNCHANGED <<blockedThreads_, sleepThreads_, currentRunningThread_,
                           total_quantum_, process>>

\* Terminating main is std::exit: the structures go with the process, and the
\* model keeps their last value.
exitProcess ==
  /\ process' = "exited"
  /\ threads_' = Remaining
  /\ tidToTerminate_' = ToTerminateAfterDelete
  /\ UNCHANGED <<readyQueue_, blockedThreads_, sleepThreads_,
                 currentRunningThread_, total_quantum_>>

\* Mistake: a terminated thread is left among the sleepers.
terminateOtherAwakeThread(tid) ==
  /\ threads_' = Remaining
  /\ tidToTerminate_' = tid
  /\ blockedThreads_' = blockedThreads_ \ {tid}
  /\ readyQueue_' = deleteReadyThread(readyQueue_, tid)
  /\ UNCHANGED <<sleepThreads_, currentRunningThread_, total_quantum_, process>>

terminateOtherThread(tid) ==
  /\ threads_' = Remaining
  /\ tidToTerminate_' = tid
  /\ IF tid \in SleepingTids(sleepThreads_)
     THEN /\ sleepThreads_' = eraseSleeper(sleepThreads_, tid)
          /\ UNCHANGED <<blockedThreads_, readyQueue_>>
     ELSE /\ blockedThreads_' = blockedThreads_ \ {tid}
          /\ readyQueue_' = IF tid \in blockedThreads_ THEN readyQueue_
                            ELSE deleteReadyThread(readyQueue_, tid)
          /\ UNCHANGED sleepThreads_
  /\ UNCHANGED <<currentRunningThread_, total_quantum_, process>>

terminateThread(tid) ==
  /\ process = "up"
  /\ \/ tid = 0 /\ exitProcess
     \/ tid # 0 /\ tid \notin DOMAIN Remaining /\ deleteTerminatedThread
     \/ /\ tid # 0 /\ tid \in DOMAIN Remaining /\ tid = currentRunningThread_
        /\ preempt(Remaining, readyQueue_, "Termination")
        /\ UNCHANGED <<blockedThreads_, sleepThreads_>>
     \/ /\ tid # 0 /\ tid \in DOMAIN Remaining /\ tid # currentRunningThread_
        /\ terminateOtherThread(tid)

\* The calling thread learns a count; only the deletion changes state.
getThreadQuantums ==
  process = "up" /\ deleteTerminatedThread

blockOtherThread(tid) ==
  /\ threads_' = Remaining
  /\ tidToTerminate_' = ToTerminateAfterDelete
  /\ blockedThreads_' = blockedThreads_ \cup {tid}
  /\ IF tid \in SleepingTids(sleepThreads_)
     THEN /\ sleepThreads_' = eraseSleeper(sleepThreads_, tid)
          /\ UNCHANGED readyQueue_
     ELSE /\ readyQueue_' = deleteReadyThread(readyQueue_, tid)
          /\ UNCHANGED sleepThreads_
  /\ UNCHANGED <<currentRunningThread_, total_quantum_, process>>

\* Mistake: main may be blocked.
blockRefusedUnknown(tid) == tid \notin DOMAIN Remaining

blockRefused(tid) == tid = 0 \/ tid \notin DOMAIN Remaining

blockThread(tid) ==
  /\ process = "up"
  /\ \/ blockRefused(tid) /\ deleteTerminatedThread
     \/ ~blockRefused(tid) /\ tid \in blockedThreads_ /\ deleteTerminatedThread
     \/ /\ ~blockRefused(tid) /\ tid \notin blockedThreads_ /\ tid = currentRunningThread_
        /\ blockedThreads_' = blockedThreads_ \cup {tid}
        /\ preempt(Remaining, readyQueue_, "Blocking")
        /\ UNCHANGED sleepThreads_
     \/ /\ ~blockRefused(tid) /\ tid \notin blockedThreads_ /\ tid # currentRunningThread_
        /\ blockOtherThread(tid)

\* Mistake: resuming cuts a sleep short.
unblockToReady(tid) ==
  /\ threads_' = Remaining
  /\ tidToTerminate_' = ToTerminateAfterDelete
  /\ blockedThreads_' = blockedThreads_ \ {tid}
  /\ readyQueue_' = Append(readyQueue_, tid)
  /\ UNCHANGED <<sleepThreads_, currentRunningThread_, total_quantum_, process>>

\* Mistake: a resumed thread is queued in front of the others.
unblockInFront(tid) ==
  LET until == threads_[tid].sleepUntil_
  IN  /\ threads_' = Remaining
      /\ tidToTerminate_' = ToTerminateAfterDelete
      /\ blockedThreads_' = blockedThreads_ \ {tid}
      /\ IF until # NotSleeping
         THEN /\ sleepThreads_' = insertSleeper(sleepThreads_, tid, until)
              /\ UNCHANGED readyQueue_
         ELSE /\ readyQueue_' = <<tid>> \o readyQueue_
              /\ UNCHANGED sleepThreads_
      /\ UNCHANGED <<currentRunningThread_, total_quantum_, process>>

\* Mistake: a thread that slept is taken for asleep still, and not queued again.
unblockForgetsSleeper(tid) ==
  /\ threads_' = Remaining
  /\ tidToTerminate_' = ToTerminateAfterDelete
  /\ blockedThreads_' = blockedThreads_ \ {tid}
  /\ readyQueue_' = IF threads_[tid].sleepUntil_ # NotSleeping THEN readyQueue_
                    ELSE Append(readyQueue_, tid)
  /\ UNCHANGED <<sleepThreads_, currentRunningThread_, total_quantum_, process>>

\* A resumed thread that has ever slept goes back to the sleepers, whether or
\* not its time is over: sleepUntil_ is never reset.
unblock(tid) ==
  LET until == threads_[tid].sleepUntil_
  IN  /\ threads_' = Remaining
      /\ tidToTerminate_' = ToTerminateAfterDelete
      /\ blockedThreads_' = blockedThreads_ \ {tid}
      /\ IF until # NotSleeping
         THEN /\ sleepThreads_' = IF tid \in SleepingTids(sleepThreads_) THEN sleepThreads_
                                  ELSE insertSleeper(sleepThreads_, tid, until)
              /\ UNCHANGED readyQueue_
         ELSE /\ readyQueue_' = Append(readyQueue_, tid)
              /\ UNCHANGED sleepThreads_
      /\ UNCHANGED <<currentRunningThread_, total_quantum_, process>>

resumeThread(tid) ==
  /\ process = "up"
  /\ \/ tid \notin DOMAIN Remaining /\ deleteTerminatedThread
     \/ tid \in DOMAIN Remaining /\ tid \notin blockedThreads_ /\ deleteTerminatedThread
     \/ tid \in DOMAIN Remaining /\ tid \in blockedThreads_ /\ unblock(tid)

\* Mistake: main may sleep.
sleepThreadEvenMain(num_quantums) ==
  /\ process = "up"
  /\ \/ num_quantums <= 0 /\ deleteTerminatedThread
     \/ LET until == Wrapped(total_quantum_ + num_quantums)
        IN  /\ num_quantums > 0
            /\ sleepThreads_' = insertSleeper(sleepThreads_, currentRunningThread_, until)
            /\ preempt([Remaining EXCEPT ![currentRunningThread_].sleepUntil_ = until],
                       readyQueue_, "Blocking")
            /\ UNCHANGED blockedThreads_

sleepThread(num_quantums) ==
  /\ process = "up"
  /\ \/ (currentRunningThread_ = 0 \/ num_quantums <= 0) /\ deleteTerminatedThread
     \/ LET until == Wrapped(total_quantum_ + num_quantums)
        IN  /\ currentRunningThread_ # 0 /\ num_quantums > 0
            /\ sleepThreads_' = insertSleeper(sleepThreads_, currentRunningThread_, until)
            /\ preempt([Remaining EXCEPT ![currentRunningThread_].sleepUntil_ = until],
                       readyQueue_, "Blocking")
            /\ UNCHANGED blockedThreads_

\* After exit or undefined behaviour nothing is said to happen.
stopped == process # "up" /\ UNCHANGED vars

apiCall ==
  \/ \E hasFunction \in BOOLEAN : spawnThread(hasFunction)
  \/ \E tid \in TidArguments : terminateThread(tid)
  \/ getThreadQuantums
  \/ \E tid \in TidArguments : blockThread(tid)
  \/ \E tid \in TidArguments : resumeThread(tid)
  \/ \E num_quantums \in SleepRequests : sleepThread(num_quantums)

Next == timerHandler \/ apiCall \/ stopped

Spec == Init /\ [][Next]_vars

-----------------------------------------------------------------------------
(* Properties *)

Ready == ToSet(readyQueue_)
Sleeping == SleepingTids(sleepThreads_)
Live == DOMAIN threads_ \ {tidToTerminate_}

\* Type invariant.
TypeOK ==
  /\ DOMAIN threads_ \subseteq Tids
  /\ threads_ \in [DOMAIN threads_ -> Thread]
  /\ readyQueue_ \in Seq(Tids)
  /\ blockedThreads_ \subseteq Tids
  /\ sleepThreads_ \in Seq([tid : Tids, until : Int])
  /\ currentRunningThread_ \in Tids
  /\ tidToTerminate_ \in Tids \cup {NoTid}
  /\ total_quantum_ \in 1 .. MaxQuanta
  /\ process \in {"up", "exited", "undefined"}

\* Every thread that has not been terminated is in exactly one of: running,
\* the ready queue (once), the blocked set, the sleepers (once). A thread in
\* two of them would run while blocked or be scheduled twice; one in none of
\* them would never run again; a dead one left in any of them would be
\* scheduled after its stack is freed or be met again when its id is reused.
\* A dead thread not yet freed is still among the threads known.
OnePlace ==
  /\ tidToTerminate_ \in DOMAIN threads_ \cup {NoTid}
  /\ IsInjective(readyQueue_)
  /\ DistinctTids(sleepThreads_)
  /\ currentRunningThread_ \notin Ready \cup blockedThreads_ \cup Sleeping
  /\ Ready \cap blockedThreads_ = {}
  /\ Ready \cap Sleeping = {}
  /\ blockedThreads_ \cap Sleeping = {}
  /\ Live = {currentRunningThread_} \cup Ready \cup blockedThreads_ \cup Sleeping

\* The main thread can always be scheduled: it is running or ready whatever
\* the calls made so far (blockThread and sleepThread refuse it).
MainSchedulable == 0 \in {currentRunningThread_} \cup Ready

\* "Assumption: the readyQueue_ is never empty" (Scheduler.cpp:99), for every
\* way of giving up the processor: _preempt never reads the front of an empty
\* queue and never meets a tid that has no thread.
NoUndefinedBehaviour == process # "undefined"

\* The sleepers are in the order of their wake-up times, each the time kept in
\* its thread: what lets _sleepToReady take the due ones as a prefix.
SleepOrder ==
  /\ \A i, j \in DOMAIN sleepThreads_ :
       i < j => sleepThreads_[i].until <= sleepThreads_[j].until
  /\ \A i \in DOMAIN sleepThreads_ :
       threads_[sleepThreads_[i].tid].sleepUntil_ = sleepThreads_[i].until

\* No thread runs, or is queued to run, before the quantum it sleeps until,
\* whatever blocks and resumes happened while it slept.
AwakeIsDue ==
  \A t \in Ready \cup {currentRunningThread_} :
    threads_[t].sleepUntil_ <= total_quantum_

\* Round robin: nobody gets ahead of a thread that stays in the ready queue,
\* neither one queued behind it nor one that is queued now, and a ready thread
\* that starts to run was at the front.
NoOvertaking ==
  [][/\ \A a \in Ready \cap Ready', b \in Ready' :
          IndexOf(readyQueue_', b) < IndexOf(readyQueue_', a)
            => b \in Ready /\ IndexOf(readyQueue_, b) < IndexOf(readyQueue_, a)
     /\ currentRunningThread_' \in Ready => currentRunningThread_' = Head(readyQueue_)]_vars
=============================================================================
