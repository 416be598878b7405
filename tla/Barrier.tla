------------------------------ MODULE Barrier -------------------------------
(***************************************************************************)
(* Class Barrier of Project-Ex3: a mutex, a condition variable and a       *)
(* counter. One call of barrier() is four steps, each what happens between *)
(* two points at which another thread can be seen: Lock, Arrive (the if    *)
(* and its branches), Relock (the end of pthread_cond_wait) and Unlock.    *)
(*                                                                         *)
(* POSIX lets pthread_cond_wait return without a broadcast. SpuriousWakeup *)
(* is that step; Next leaves it out, and BarrierClaims adds it. A pthread  *)
(* call that fails ends the process (systemError) and is left out.         *)
(***************************************************************************)
EXTENDS Integers, FiniteSets

CONSTANTS Threads, NoThread

ASSUME ThreadsAssumption ==
  IsFiniteSet(Threads) /\ Threads # {} /\ NoThread \notin Threads

VARIABLES
  mutex,   \* its holder, or NoThread
  count,
  at       \* where each thread is in barrier()

vars == <<mutex, count, at>>

numThreads == Cardinality(Threads)

Places == {"out", "locked", "waiting", "woken", "unlocking"}
AtPlace(place) == {t \in Threads : at[t] = place}

Init ==
  /\ mutex = NoThread
  /\ count = 0
  /\ at = [t \in Threads |-> "out"]

\* Getting the mutex, which must be free.
lockAt(t, from, to) ==
  /\ at[t] = from /\ mutex = NoThread
  /\ mutex' = t
  /\ at' = [at EXCEPT ![t] = to]
  /\ UNCHANGED count

\* Entry: pthread_mutex_lock.
Lock(t) == lockAt(t, "out", "locked")

\* Mistake: the counter is not reset for the next round.
ArriveNoReset(t) ==
  /\ at[t] = "locked"
  /\ count' = count + 1
  /\ IF count + 1 < numThreads
     THEN mutex' = NoThread /\ at' = [at EXCEPT ![t] = "waiting"]
     ELSE /\ UNCHANGED mutex
          /\ at' = [u \in Threads |-> IF u = t THEN "unlocking"
                                      ELSE IF at[u] = "waiting" THEN "woken" ELSE at[u]]

\* Mistake: pthread_cond_signal for pthread_cond_broadcast.
ArriveSignal(t) ==
  /\ at[t] = "locked"
  /\ IF count + 1 < numThreads
     THEN /\ count' = count + 1
          /\ mutex' = NoThread
          /\ at' = [at EXCEPT ![t] = "waiting"]
     ELSE /\ count' = 0
          /\ UNCHANGED mutex
          /\ \E first \in AtPlace("waiting") \union {t} :
               /\ AtPlace("waiting") # {} => first # t
               /\ at' = [at EXCEPT ![first] = "woken", ![t] = "unlocking"]

\* Mistake: the waiters of the round are counted with <=, not <.
ArriveOneMore(t) ==
  /\ at[t] = "locked"
  /\ IF count + 1 <= numThreads
     THEN count' = count + 1 /\ mutex' = NoThread /\ at' = [at EXCEPT ![t] = "waiting"]
     ELSE /\ count' = 0
          /\ UNCHANGED mutex
          /\ at' = [u \in Threads |-> IF u = t THEN "unlocking"
                                      ELSE IF at[u] = "waiting" THEN "woken" ELSE at[u]]

\* The if: all but the last thread of a round wait, giving up the mutex in the
\* same step; the last one resets the counter and wakes every waiter.
Arrive(t) ==
  /\ at[t] = "locked"
  /\ IF count + 1 < numThreads
     THEN /\ count' = count + 1
          /\ mutex' = NoThread
          /\ at' = [at EXCEPT ![t] = "waiting"]
     ELSE /\ count' = 0
          /\ UNCHANGED mutex
          /\ at' = [u \in Threads |-> IF u = t THEN "unlocking"
                                      ELSE IF at[u] = "waiting" THEN "woken" ELSE at[u]]

\* pthread_cond_wait returns with the mutex held; an if, not a while, guards it.
Relock(t) == lockAt(t, "woken", "unlocking")

Unlock(t) ==
  /\ at[t] = "unlocking"
  /\ mutex' = NoThread
  /\ at' = [at EXCEPT ![t] = "out"]
  /\ UNCHANGED count

\* pthread_cond_wait wakes up without a broadcast.
SpuriousWakeup(t) ==
  /\ at[t] = "waiting"
  /\ at' = [at EXCEPT ![t] = "woken"]
  /\ UNCHANGED <<mutex, count>>

Step(t) == Lock(t) \/ Arrive(t) \/ Relock(t) \/ Unlock(t)

Next == \E t \in Threads : Step(t)

Spec == Init /\ [][Next]_vars

\* Every thread keeps calling barrier() and the operating system runs it.
FairSpec == Spec /\ \A t \in Threads : WF_vars(Step(t))
-----------------------------------------------------------------------------
(* Properties *)

TypeOK ==
  /\ mutex \in Threads \union {NoThread}
  /\ count \in 0 .. numThreads - 1
  /\ at \in [Threads -> Places]

\* The mutex is held by exactly the thread in the critical section.
MutexHeld == \A t \in Threads : at[t] \in {"locked", "unlocking"} <=> mutex = t

\* The counter counts the threads held in this round: a thread woken from the
\* last round, and not back yet, is no longer in it. This is what makes the
\* barrier reusable although fast threads re-enter before slow ones leave.
CountsTheWaiters == count = Cardinality(AtPlace("waiting"))

\* Barrier() implements the reusable barrier: nobody leaves a round that some
\* thread has not entered, whoever is late in leaving the round before, and
\* every held thread is let go.
CB == INSTANCE CyclicBarrier WITH
  arrived <- AtPlace("waiting"), released <- AtPlace("woken") \union AtPlace("unlocking")

ImplementsCyclicBarrier == CB!FairSpec

\* Two threads are never more than one round apart: when a round ends nobody
\* stays held, and nobody is still on the way out of the round before.
RoundsDoNotOverlap == CB!RoundsDoNotOverlap
=============================================================================
