--------------------------- MODULE BarrierProofs ----------------------------
(***************************************************************************)
(* For every finite set of threads: barrier() keeps its counter equal to   *)
(* the number of threads held, and implements the abstract barrier, so     *)
(* that nobody leaves a round that some thread has not entered.            *)
(***************************************************************************)
EXTENDS Barrier, TLAPS, FiniteSetTheorems

Inv == TypeOK /\ MutexHeld /\ CountsTheWaiters

Held == AtPlace("waiting")
LetGo == AtPlace("woken") \union AtPlace("unlocking")

\* The number of threads, and of those held, is a number; when all but one are
\* held, that one completes the round.
LEMMA HeldFacts ==
  ASSUME NEW t \in Threads, at[t] # "waiting"
  PROVE  /\ numThreads \in Nat \ {0}
         /\ IsFiniteSet(Held) /\ Cardinality(Held) \in Nat
         /\ Cardinality(Held \union {t}) = Cardinality(Held) + 1
         /\ Cardinality(Held) + 1 <= numThreads
         /\ Cardinality(Held) + 1 = numThreads <=> Held \union {t} = Threads
<1>1. Held \in SUBSET Threads /\ Held \union {t} \in SUBSET Threads /\ t \notin Held
  BY DEF Held, AtPlace
<1>2. IsFiniteSet(Threads) /\ Threads # {}
  BY ThreadsAssumption
<1>3. Cardinality(Threads) \in Nat /\ Cardinality(Threads) # 0
  BY <1>2, FS_CardinalityType, FS_EmptySet
<1>4. IsFiniteSet(Held) /\ Cardinality(Held) \in Nat
  BY <1>1, <1>2, FS_Subset, FS_CardinalityType
<1>5. Cardinality(Held \union {t}) = Cardinality(Held) + 1
  BY <1>1, <1>4, FS_AddElement
<1>6. /\ Cardinality(Held \union {t}) <= Cardinality(Threads)
      /\ Cardinality(Threads) = Cardinality(Held \union {t}) => Threads = Held \union {t}
  BY <1>1, <1>2, FS_Subset
<1> QED
  BY <1>3, <1>4, <1>5, <1>6 DEF numThreads

\* What a step of Arrive does to those held and those let go: either the round
\* is not complete and t is held too, or it is and everybody is let go.
LEMMA ArriveFacts ==
  ASSUME Inv, NEW t \in Threads, Arrive(t)
  PROVE  /\ t \notin Held \union LetGo
         /\ \/ /\ Held \union {t} # Threads
               /\ count' = count + 1 /\ count + 1 < numThreads
               /\ mutex' = NoThread /\ at' = [at EXCEPT ![t] = "waiting"]
               /\ Held' = Held \union {t} /\ LetGo' = LetGo
            \/ /\ Held \union {t} = Threads
               /\ count' = 0 /\ mutex' = mutex
               /\ at' = [u \in Threads |-> IF u = t THEN "unlocking" ELSE "woken"]
               /\ Held' = {} /\ LetGo' = Threads
<1>1. at[t] = "locked" /\ at \in [Threads -> Places] /\ count \in Nat
  BY DEF Arrive, Inv, TypeOK
<1>2. /\ numThreads \in Nat \ {0} /\ count = Cardinality(Held)
      /\ count + 1 <= numThreads
      /\ count + 1 = numThreads <=> Held \union {t} = Threads
  BY <1>1, HeldFacts DEF Inv, CountsTheWaiters, Held
<1>3. t \notin Held \union LetGo
  BY <1>1 DEF Held, LetGo, AtPlace
<1>4. CASE count + 1 < numThreads
  <2>1. Held \union {t} # Threads
    BY <1>1, <1>2, <1>4
  <2>2. /\ count' = count + 1 /\ mutex' = NoThread /\ at' = [at EXCEPT ![t] = "waiting"]
    BY <1>4 DEF Arrive
  <2>3. Held' = Held \union {t} /\ LetGo' = LetGo
    BY <1>1, <2>2 DEF Held, LetGo, AtPlace
  <2> QED
    BY <1>3, <1>4, <2>1, <2>2, <2>3
<1>5. CASE ~(count + 1 < numThreads)
  <2>1. Held \union {t} = Threads
    BY <1>1, <1>2, <1>5
  <2>2. /\ count' = 0 /\ mutex' = mutex
        /\ at' = [u \in Threads |-> IF u = t THEN "unlocking"
                                    ELSE IF at[u] = "waiting" THEN "woken" ELSE at[u]]
    BY <1>5 DEF Arrive
  <2>3. \A u \in Threads : u # t => at[u] = "waiting"
    BY <2>1 DEF Held, AtPlace
  <2>4. at' = [u \in Threads |-> IF u = t THEN "unlocking" ELSE "woken"]
    BY <2>2, <2>3
  <2>5. Held' = {} /\ LetGo' = Threads
    BY <2>4 DEF Held, LetGo, AtPlace
  <2> QED
    BY <1>3, <2>1, <2>2, <2>4, <2>5
<1> QED
  BY <1>4, <1>5

\* No other step holds anybody or lets anybody go; Unlock ends a call.
LEMMA LockFacts ==
  ASSUME Inv, NEW t \in Threads, Lock(t) \/ Relock(t)
  PROVE  Held' = Held /\ LetGo' = LetGo
BY DEF Inv, TypeOK, Lock, Relock, lockAt, Held, LetGo, AtPlace

\* Unlock takes one thread from those let go.
LEMMA UnlockFacts ==
  ASSUME Inv, NEW t \in Threads, Unlock(t)
  PROVE  t \in LetGo /\ Held' = Held /\ LetGo' = LetGo \ {t}
BY DEF Inv, TypeOK, Unlock, Held, LetGo, AtPlace

\* Outside barrier() nobody holds the mutex and nobody is counted.
LEMMA InitInv == Init => Inv
<1> SUFFICES ASSUME Init PROVE Inv
  OBVIOUS
<1>1. Held = {}
  BY DEF Init, Held, AtPlace
<1>2. PICK t \in Threads : TRUE
  BY ThreadsAssumption
<1>3. numThreads \in Nat \ {0} /\ Cardinality({}) = 0
  BY <1>2, HeldFacts, FS_EmptySet DEF Init
<1>4. TypeOK
  BY <1>3 DEF Init, TypeOK, Places
<1>5. MutexHeld
  BY ThreadsAssumption DEF Init, MutexHeld
<1>6. CountsTheWaiters
  BY <1>1, <1>3 DEF Init, CountsTheWaiters, Held
<1> QED
  BY <1>4, <1>5, <1>6 DEF Inv

\* Every step of barrier() keeps the counter and the holder true.
LEMMA NextInv == Inv /\ [Next]_vars => Inv'
<1> SUFFICES ASSUME Inv, [Next]_vars PROVE Inv'
  OBVIOUS
<1> USE ThreadsAssumption
<1>1. ASSUME NEW t \in Threads, Lock(t) \/ Relock(t) PROVE Inv'
  <2>1. Held' = Held /\ count' = count
    BY <1>1, LockFacts DEF Lock, Relock, lockAt
  <2>2. TypeOK'
    BY <1>1 DEF Inv, TypeOK, Lock, Relock, lockAt, Places, numThreads
  <2>3. MutexHeld'
    BY <1>1 DEF Inv, TypeOK, MutexHeld, Lock, Relock, lockAt
  <2>4. CountsTheWaiters'
    BY <2>1 DEF Inv, CountsTheWaiters, Held
  <2> QED
    BY <2>2, <2>3, <2>4 DEF Inv
<1>2. ASSUME NEW t \in Threads, Arrive(t) PROVE Inv'
  <2>1. at[t] = "locked" /\ mutex = t /\ at \in [Threads -> Places] /\ count \in Nat
    BY <1>2 DEF Arrive, Inv, TypeOK, MutexHeld
  <2>2. /\ numThreads \in Nat \ {0} /\ count = Cardinality(Held)
        /\ Cardinality(Held \union {t}) = count + 1
    BY <2>1, HeldFacts DEF Inv, CountsTheWaiters, Held
  <2>3. CASE /\ count' = count + 1 /\ count + 1 < numThreads
             /\ mutex' = NoThread /\ at' = [at EXCEPT ![t] = "waiting"]
             /\ Held' = Held \union {t}
    <3>1. TypeOK'
      BY <2>1, <2>2, <2>3 DEF TypeOK, Places, numThreads
    <3>2. MutexHeld'
      BY <2>1, <2>3 DEF Inv, MutexHeld
    <3>3. CountsTheWaiters'
      BY <2>2, <2>3 DEF CountsTheWaiters, Held
    <3> QED
      BY <3>1, <3>2, <3>3 DEF Inv
  <2>4. CASE /\ count' = 0 /\ mutex' = mutex
             /\ at' = [u \in Threads |-> IF u = t THEN "unlocking" ELSE "woken"]
             /\ Held' = {}
    <3>1. TypeOK'
      BY <2>1, <2>2, <2>4 DEF TypeOK, Places, numThreads
    <3>2. MutexHeld'
      BY <2>1, <2>4 DEF MutexHeld
    <3>3. CountsTheWaiters'
      BY <2>4, FS_EmptySet DEF CountsTheWaiters, Held
    <3> QED
      BY <3>1, <3>2, <3>3 DEF Inv
  <2> QED
    BY <1>2, <2>3, <2>4, ArriveFacts
<1>3. ASSUME NEW t \in Threads, Unlock(t) PROVE Inv'
  <2>1. Held' = Held /\ count' = count
    BY <1>3, UnlockFacts DEF Unlock
  <2>2. TypeOK'
    BY <1>3 DEF Inv, TypeOK, Unlock, Places, numThreads
  <2>3. MutexHeld'
    BY <1>3 DEF Inv, TypeOK, MutexHeld, Unlock
  <2>4. CountsTheWaiters'
    BY <2>1 DEF Inv, CountsTheWaiters, Held
  <2> QED
    BY <2>2, <2>3, <2>4 DEF Inv
<1>4. CASE UNCHANGED vars
  BY <1>4 DEF Inv, TypeOK, MutexHeld, CountsTheWaiters, AtPlace, vars, numThreads
<1> QED
  BY <1>1, <1>2, <1>3, <1>4 DEF Next, Step

\* The invariant holds in every reachable state.
THEOREM BarrierInvariant == Spec => []Inv
<1>1. Init => Inv
  BY InitInv
<1>2. Inv /\ [Next]_vars => Inv'
  BY NextInv
<1> QED
  BY <1>1, <1>2, PTL DEF Spec

\* The counter of barrier() is the number of threads held in the round, however
\* late the threads of the round before are in leaving.
THEOREM CounterCountsTheWaiters == Spec => []CountsTheWaiters
<1>1. Inv => CountsTheWaiters
  BY DEF Inv
<1> QED
  BY <1>1, BarrierInvariant, PTL

\* The mutex of barrier() has the holder that the steps assume.
THEOREM MutexIsHeld == Spec => []MutexHeld
<1>1. Inv => MutexHeld
  BY DEF Inv
<1> QED
  BY <1>1, BarrierInvariant, PTL
-----------------------------------------------------------------------------
(* No deadlock *)

\* The guards of Step: whether t, given the processor, has a step to take.
CanStep(t) ==
  \/ at[t] \in {"locked", "unlocking"}
  \/ mutex = NoThread /\ at[t] \in {"out", "woken"}

\* Somebody in the barrier, or somebody still to come, can always go on: never
\* does everybody wait for a broadcast that nobody is left to make (the last
\* thread of a round does not wait, barrier.cpp).
SomebodyCanStep == \E t \in Threads : CanStep(t)

\* Not all of the threads are held, as the counter, which counts them, is less
\* than their number; and the holder of the mutex can always go on.
THEOREM BarrierNeverDeadlocks == Spec => []SomebodyCanStep
<1>1. Inv => SomebodyCanStep
  <2> SUFFICES ASSUME Inv PROVE SomebodyCanStep
    OBVIOUS
  <2>1. CASE mutex = NoThread
    <3>1. Held # Threads
      <4>1. count = Cardinality(Held) /\ count \in 0 .. numThreads - 1
        BY DEF Inv, TypeOK, CountsTheWaiters, Held
      <4>2. numThreads \in Nat
        BY ThreadsAssumption, FS_CardinalityType DEF numThreads
      <4> QED
        BY <4>1, <4>2 DEF numThreads
    <3>2. PICK t \in Threads : at[t] # "waiting"
      BY <3>1 DEF Held, AtPlace
    <3>3. at[t] \in {"out", "locked", "woken", "unlocking"}
      BY <3>2 DEF Inv, TypeOK, Places
    <3> QED
      BY <2>1, <3>3 DEF SomebodyCanStep, CanStep
  <2>2. CASE mutex # NoThread
    <3>1. mutex \in Threads /\ at[mutex] \in {"locked", "unlocking"}
      BY <2>2 DEF Inv, TypeOK, MutexHeld
    <3> QED
      BY <3>1 DEF SomebodyCanStep, CanStep
  <2> QED
    BY <2>1, <2>2
<1> QED
  BY <1>1, BarrierInvariant, PTL
-----------------------------------------------------------------------------
(* The refinement *)

\* Every step of barrier() is a step of the abstract barrier, or none.
LEMMA StepRefines ==
  ASSUME Inv, [Next]_vars
  PROVE  [CB!Next]_(CB!vars)
<1> USE DEF CB!Next, CB!vars, CB!Arrive, CB!Return
<1>1. ASSUME NEW t \in Threads, Lock(t) \/ Relock(t) PROVE UNCHANGED CB!vars
  BY <1>1, LockFacts DEF Held, LetGo
<1>2. ASSUME NEW t \in Threads, Arrive(t) PROVE CB!Arrive(t)
  BY <1>2, ArriveFacts DEF Held, LetGo
<1>3. ASSUME NEW t \in Threads, Unlock(t) PROVE CB!Return(t)
  BY <1>3, UnlockFacts DEF Held, LetGo
<1>4. CASE UNCHANGED vars
  BY <1>4 DEF vars, AtPlace
<1> QED
  BY <1>1, <1>2, <1>3, <1>4 DEF Next, Step

\* The code's barrier is a barrier: nobody leaves a round before every thread
\* has entered it, and the last to enter lets all of them go.
THEOREM BarrierRefinesCyclicBarrier == Spec => CB!Spec
<1>1. Init => CB!Init
  BY DEF Init, CB!Init, AtPlace
<1>2. Inv /\ [Next]_vars => [CB!Next]_(CB!vars)
  BY StepRefines
<1> QED
  BY <1>1, <1>2, BarrierInvariant, PTL DEF Spec, CB!Spec

\* In the abstract barrier the threads held and those let go are different
\* ones, and a round in progress is not complete.
LEMMA CyclicBarrierTypeCorrect == CB!Spec => []CB!TypeOK
<1>1. CB!Init => CB!TypeOK
  BY ThreadsAssumption DEF CB!Init, CB!TypeOK
<1>2. CB!TypeOK /\ [CB!Next]_(CB!vars) => CB!TypeOK'
  BY ThreadsAssumption DEF CB!TypeOK, CB!Next, CB!vars, CB!Arrive, CB!Return
<1> QED
  BY <1>1, <1>2, PTL DEF CB!Spec

\* When barrier() ends a round everybody has been let go of the last one, and
\* nobody stays held.
THEOREM BarrierRoundsDoNotOverlap == Spec => RoundsDoNotOverlap
<1>1. CB!TypeOK /\ [CB!Next]_(CB!vars) =>
        [CB!LetGoOnlyBetweenRounds]_(CB!vars)
  BY DEF CB!TypeOK, CB!Next, CB!vars, CB!Arrive, CB!Return, CB!LetGoOnlyBetweenRounds
<1> QED
  BY <1>1, BarrierRefinesCyclicBarrier, CyclicBarrierTypeCorrect, PTL
  DEF CB!Spec, RoundsDoNotOverlap, CB!RoundsDoNotOverlap
=============================================================================
