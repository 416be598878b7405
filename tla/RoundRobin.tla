----------------------------- MODULE RoundRobin -----------------------------
(***************************************************************************)
(* What the thread library promises: round robin among the ready threads,  *)
(* with blocking and sleeping. It has no clock: a sleeper holds the number *)
(* of quanta it has left, which is all that the scheduling depends on, so  *)
(* its state space is finite however long the process runs and liveness    *)
(* can be checked without a bound on time. SchedulerRefinement maps        *)
(* Scheduler to it.                                                        *)
(***************************************************************************)
EXTENDS Integers, Sequences, FiniteSets, SequencesExt

CONSTANTS MAX_THREAD_NUM, MaxSleep

ASSUME RoundRobinAssumption == MAX_THREAD_NUM \in Nat \ {0} /\ MaxSleep \in Nat

VARIABLES
  ready,     \* the queue
  running,
  blocked,
  asleep,
  left,      \* live tid -> quanta of sleep left; Never if it has never slept
  up

vars == <<ready, running, blocked, asleep, left, up>>

Never == -1
Tids == 0 .. MAX_THREAD_NUM - 1
Live == DOMAIN left

\* The orders in which the threads of a set can be queued.
Orders(S) == {s \in [1 .. Cardinality(S) -> S] : IsInjective(s)}

Without(queue, t) ==
  IF t \in ToSet(queue) THEN RemoveAt(queue, CHOOSE i \in DOMAIN queue : queue[i] = t)
  ELSE queue

\* The front of the queue starts a quantum, which every sleep counts.
Dispatch(queue, remaining) ==
  /\ queue # <<>>
  /\ running' = Head(queue)
  /\ ready' = Tail(queue)
  /\ left' = [t \in DOMAIN remaining |-> IF remaining[t] > 0 THEN remaining[t] - 1
                                         ELSE remaining[t]]

-----------------------------------------------------------------------------
Init ==
  /\ ready = <<>>
  /\ running = 0
  /\ blocked = {}
  /\ asleep = {}
  /\ left = [t \in {0} |-> Never]
  /\ up = TRUE

\* Mistake: waiting for the time left to pass zero.
DueLater == {t \in asleep : left[t] < 0}

Due == {t \in asleep : left[t] = 0}

\* Mistake: the interrupted thread is queued in front.
TickQueuesInFront ==
  /\ up
  /\ \E woken \in Orders(Due) : Dispatch(<<running>> \o ready \o woken, left)
  /\ asleep' = asleep \ Due
  /\ UNCHANGED <<blocked, up>>

Tick ==
  /\ up
  /\ \E woken \in Orders(Due) :
       Dispatch(Append(ready \o woken, running), left)
  /\ asleep' = asleep \ Due
  /\ UNCHANGED <<blocked, up>>

Spawn(t) ==
  /\ up
  /\ t \notin Live
  /\ ready' = Append(ready, t)
  /\ left' = [u \in Live \cup {t} |-> IF u = t THEN Never ELSE left[u]]
  /\ UNCHANGED <<running, blocked, asleep, up>>

Exit == up /\ up' = FALSE /\ UNCHANGED <<ready, running, blocked, asleep, left>>

Terminate(t) ==
  LET rest == Restrict(left, Live \ {t})
  IN  /\ up
      /\ t \in Live \ {0}
      /\ blocked' = blocked \ {t}
      /\ asleep' = asleep \ {t}
      /\ \/ t = running /\ Dispatch(ready, rest)
         \/ /\ t # running
            /\ ready' = Without(ready, t)
            /\ left' = rest
            /\ UNCHANGED running
      /\ UNCHANGED up

Block(t) ==
  /\ up
  /\ t \in Live \ {0}
  /\ t \notin blocked
  /\ blocked' = blocked \cup {t}
  /\ asleep' = asleep \ {t}
  /\ \/ t = running /\ Dispatch(ready, left)
     \/ t # running /\ ready' = Without(ready, t) /\ UNCHANGED <<running, left>>
  /\ UNCHANGED up

\* A thread that has slept is put among the sleepers even if nothing is left
\* of its sleep, and the next Tick queues it.
Resume(t) ==
  /\ up
  /\ t \in blocked
  /\ blocked' = blocked \ {t}
  /\ \/ left[t] # Never /\ asleep' = asleep \cup {t} /\ UNCHANGED ready
     \/ left[t] = Never /\ ready' = Append(ready, t) /\ UNCHANGED asleep
  /\ UNCHANGED <<running, left, up>>

Sleep(n) ==
  /\ up
  /\ running # 0
  /\ asleep' = asleep \cup {running}
  /\ Dispatch(ready, [left EXCEPT ![running] = n])
  /\ UNCHANGED <<blocked, up>>

Next ==
  \/ Tick
  \/ \E t \in Tids : Spawn(t) \/ Terminate(t) \/ Block(t) \/ Resume(t)
  \/ \E n \in 1 .. MaxSleep : Sleep(n)
  \/ Exit
  \/ ~up /\ UNCHANGED vars

Spec == Init /\ [][Next]_vars

\* The timer counts the processor time of the thread that runs and is set again
\* at every switch, so a thread that keeps the processor is interrupted; one
\* that keeps giving it up by itself may never be.
Fairness == \A t \in Tids : WF_vars(running = t /\ Tick)

FairSpec == Spec /\ Fairness

-----------------------------------------------------------------------------
\* Type invariant.
TypeOK ==
  /\ ready \in Seq(Live) /\ IsInjective(ready)
  /\ running \in Live
  /\ blocked \subseteq Live /\ asleep \subseteq Live
  /\ left \in [Live -> Never .. MaxSleep]
  /\ Live \subseteq Tids
  /\ up \in BOOLEAN

\* No starvation: a ready thread is not left in the queue for ever, whatever
\* the other threads call.
ReadyLeavesQueue == \A t \in Tids : (t \in ToSet(ready)) ~> (t \notin ToSet(ready) \/ ~up)

\* Every sleep ends, though only an expired quantum wakes sleepers and threads
\* may give up the processor before theirs expires.
SleepEnds == \A t \in Tids : (t \in asleep) ~> (t \notin asleep \/ ~up)

=============================================================================
