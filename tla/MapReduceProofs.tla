--------------------------- MODULE MapReduceProofs ---------------------------
(***************************************************************************)
(* For every number of workers and inputs and every map the client gives:  *)
(*                                                                         *)
(* - the barrier keeps the phases of the job apart, thread 0 shuffles only *)
(*   what the constructor has stored, and each worker is joined once,      *)
(*   before the job is deleted (the invariant MInv);                       *)
(* - the workers never all wait for each other;                            *)
(* - every pair ends in one group and every group is reduced once, and     *)
(*   what getJobState reports is never ahead of the work and never taken   *)
(*   back (the invariant DInv of the data, with MInv).                     *)
(***************************************************************************)
EXTENDS MapReduce, FiniteSetTheorems, SequenceTheorems, TLAPS

-----------------------------------------------------------------------------
(* The barrier *)

Held == {t \in Threads : barrierAt[t] = "waiting"}

\* The counter counts the workers that wait. (It is CountsTheWaiters of Barrier,
\* which BarrierProofs proves of a barrier by itself.)
BarrierInv ==
  /\ barrierAt \in [Threads -> {"out", "locked", "waiting", "woken", "unlocking"}]
  /\ barrierCount = Cardinality(Held)

\* The workers are as many as the barrier waits for, and thread 0 is one.
LEMMA ThreadsFacts ==
  /\ IsFiniteSet(Threads) /\ Cardinality(Threads) \in Nat /\ 0 \in Threads
  /\ threadsBarrier_!numThreads = Cardinality(Threads)
<1>1. 0 \in Threads
  BY NumOfThreadsAssumption DEF Threads
<1>2. IsFiniteSet(Threads) /\ Cardinality(Threads) \in Nat
  BY NumOfThreadsAssumption, FS_Interval, FS_CardinalityType DEF Threads
<1>3. threadsBarrier_!numThreads = Cardinality(Threads)
  BY DEF threadsBarrier_!numThreads, threadsBarrier_!Cardinality, Cardinality
<1> QED BY <1>1, <1>2, <1>3

\* The moves of worker t in barrier(); after the last arrival of a round
\* everybody else has been waiting.
Moves(t, from, to) == barrierAt[t] = from /\ barrierAt' = [barrierAt EXCEPT ![t] = to]
LetsGo(t) ==
  /\ barrierAt[t] = "locked" /\ \A u \in Threads \ {t} : barrierAt[u] = "waiting"
  /\ barrierAt' = [u \in Threads |-> IF u = t THEN "unlocking" ELSE "woken"]

\* An arrival is held, unless all the others are.
LEMMA ArriveFacts ==
  ASSUME BarrierInv, NEW t \in Threads, threadsBarrier_!Arrive(t)
  PROVE  BarrierInv' /\ (Moves(t, "locked", "waiting") \/ LetsGo(t))
<1>1. barrierAt[t] = "locked" /\ t \notin Held /\ Held \union {t} \subseteq Threads
  BY DEF threadsBarrier_!Arrive, Held
<1>2. IsFiniteSet(Held) /\ Cardinality(Held) \in Nat
  BY <1>1, ThreadsFacts, FS_Subset, FS_CardinalityType
<1>3. Cardinality(Held \union {t}) = barrierCount + 1
  BY <1>1, <1>2, FS_AddElement DEF BarrierInv
<1>4. CASE barrierCount + 1 < threadsBarrier_!numThreads
  <2>1. Moves(t, "locked", "waiting") /\ barrierCount' = barrierCount + 1
    BY <1>1, <1>4 DEF threadsBarrier_!Arrive, Moves
  <2>2. Held' = Held \union {t}
    BY <2>1 DEF Held, BarrierInv, Moves
  <2>3. BarrierInv'
    BY <1>3, <2>1, <2>2 DEF BarrierInv, Moves
  <2> QED BY <2>1, <2>3
<1>5. CASE ~(barrierCount + 1 < threadsBarrier_!numThreads)
  <2>1. Held \union {t} = Threads
    BY <1>1, <1>2, <1>3, <1>5, ThreadsFacts, FS_Subset DEF BarrierInv
  <2>2. \A u \in Threads \ {t} : barrierAt[u] = "waiting"
    BY <2>1 DEF Held
  <2>3. barrierCount' = 0 /\ barrierAt' = [u \in Threads |-> IF u = t THEN "unlocking" ELSE "woken"]
    BY <1>5, <2>2 DEF threadsBarrier_!Arrive
  <2>4. Held' = {}
    BY <2>3 DEF Held
  <2>5. BarrierInv'
    BY <2>3, <2>4, FS_EmptySet DEF BarrierInv
  <2> QED BY <1>1, <2>2, <2>3, <2>5 DEF LetsGo
<1> QED BY <1>4, <1>5

\* The other steps of barrier() leave those that wait as they are.
LEMMA BarrierFacts ==
  ASSUME BarrierInv, NEW t \in Threads,
         threadsBarrier_!Lock(t) \/ threadsBarrier_!Relock(t) \/ threadsBarrier_!Unlock(t)
  PROVE  /\ BarrierInv'
         /\ \/ Moves(t, "out", "locked") /\ threadsBarrier_!Lock(t)
            \/ Moves(t, "woken", "unlocking") /\ threadsBarrier_!Relock(t)
            \/ Moves(t, "unlocking", "out") /\ threadsBarrier_!Unlock(t)
<1>1. /\ UNCHANGED barrierCount
      /\ \/ Moves(t, "out", "locked") /\ threadsBarrier_!Lock(t)
         \/ Moves(t, "woken", "unlocking") /\ threadsBarrier_!Relock(t)
         \/ Moves(t, "unlocking", "out") /\ threadsBarrier_!Unlock(t)
  BY DEF threadsBarrier_!Lock, threadsBarrier_!Relock, threadsBarrier_!Unlock,
         threadsBarrier_!lockAt, Moves
<1>2. Held' = Held
  BY <1>1 DEF Held, BarrierInv, Moves
<1> QED BY <1>1, <1>2 DEF BarrierInv, Moves

-----------------------------------------------------------------------------
(* The inductive invariant *)

ClientPlaces == {"creating", "assigning", "idle", "waiting", "closing", "closed"}
Constructing == {"creating", "assigning"}

\* Type invariant, of what the proofs need.
MTypeOK ==
  /\ pc \in [Threads -> Labels]
  /\ client \in [at : ClientPlaces, i : 0 .. numOfThreads_]
  /\ areThreadsJoined_ \in BOOLEAN
  /\ joined \subseteq Threads

\* All workers are in the same one of three phases: a worker has gone through a
\* round of the barrier when it is let go, not when it is back.
Entering == {"out", "locked", "waiting"}
Leaving == {"woken", "unlocking"}
Phase1(t) ==
  \/ pc[t] \in Mapping /\ barrierAt[t] = "out"
  \/ pc[t] = "barrier1" /\ barrierAt[t] \in Entering
Phase2(t) ==
  \/ pc[t] = "barrier1" /\ barrierAt[t] \in Leaving
  \/ pc[t] \in Shuffling /\ t = 0 /\ barrierAt[t] = "out"
  \/ pc[t] = "barrier2" /\ barrierAt[t] \in Entering
Phase3(t) ==
  \/ pc[t] = "barrier2" /\ barrierAt[t] \in Leaving
  \/ pc[t] \in Reducing /\ barrierAt[t] = "out"
SamePhase ==
  \/ \A t \in Threads : Phase1(t)
  \/ \A t \in Threads : Phase2(t)
  \/ \A t \in Threads : Phase3(t)

\* The constructor holds its mutex until every pointer is stored, so nobody
\* shuffles before; and it creates each worker once.
Constructor ==
  /\ client.at \in Constructing =>
       /\ pthreadCreateMutex_ = Client /\ threadContexts_ = 0 .. client.i - 1
       /\ client.i \in Threads
       /\ \A t \in Threads : pc[t] \notin {"shuffleCopy", "shuffle"}
       /\ \A t \in Threads : t > client.i => pc[t] = "none"
       /\ client.at = "creating" => pc[client.i] = "none"
  /\ client.at \notin Constructing => threadContexts_ = Threads

\* The workers that are joined have returned, and are those before client.i
\* unless an earlier call has joined them all.
Joining ==
  /\ client.at \in Constructing => joined = {} /\ ~areThreadsJoined_
  /\ areThreadsJoined_ => joined = Threads
  /\ client.at = "idle" /\ ~areThreadsJoined_ => joined = {}
  /\ client.at \in {"waiting", "closing"} =>
       IF areThreadsJoined_ THEN client.i = numOfThreads_ ELSE joined = 0 .. client.i - 1
  /\ client.at = "closed" => areThreadsJoined_
  /\ \A t \in joined : pc[t] = "done"

MInv == MTypeOK /\ BarrierInv /\ SamePhase /\ Constructor /\ Joining

\* Before the first pthread_create all workers are in the first phase.
LEMMA MInitial == Init => MInv
<1> SUFFICES ASSUME Init PROVE MInv
  OBVIOUS
<1> USE NumOfThreadsAssumption DEF Init
<1>1. MTypeOK
  <2>1. client \in [at : ClientPlaces, i : 0 .. numOfThreads_]
    BY DEF ClientPlaces
  <2>2. pc \in [Threads -> Labels]
    BY DEF Labels
  <2> QED BY <2>1, <2>2 DEF MTypeOK
<1>2. BarrierInv
  <2>1. Held = {} /\ barrierCount = 0
    BY DEF Held, threadsBarrier_!Init
  <2> QED BY <2>1, FS_EmptySet DEF BarrierInv, threadsBarrier_!Init
<1>3. SamePhase
  BY DEF SamePhase, Phase1, Mapping, threadsBarrier_!Init
<1>4. Constructor
  BY ThreadsFacts DEF Constructor, Constructing, Threads
<1>5. Joining
  BY DEF Joining, Constructing
<1> QED BY <1>1, <1>2, <1>3, <1>4, <1>5 DEF MInv
-----------------------------------------------------------------------------
(* The workers *)

\* What a step of worker t does to the phases: outside the barrier it moves
\* within its phase or to the barrier at the end of it.
OwnMove(t, from, to) == pc[t] \in from /\ \E l \in to : pc' = [pc EXCEPT ![t] = l]
InPhase(t) ==
  \/ OwnMove(t, Mapping, (Mapping \ {"none"}) \union {"barrier1"})
  \/ OwnMove(t, Shuffling, Shuffling \union {"barrier2"})
  \/ OwnMove(t, Reducing \ {"done"}, Reducing)

\* A step outside the barrier stays in its phase.
LEMMA PhaseStays ==
  ASSUME MTypeOK, NEW t \in Threads, InPhase(t), UNCHANGED barrierAt
  PROVE  /\ (\A u \in Threads : Phase1(u)) => (\A u \in Threads : Phase1(u)')
         /\ (\A u \in Threads : Phase2(u)) => (\A u \in Threads : Phase2(u)')
         /\ (\A u \in Threads : Phase3(u)) => (\A u \in Threads : Phase3(u)')
<1>1. \A u \in Threads \ {t} : pc'[u] = pc[u]
  BY DEF InPhase, OwnMove, MTypeOK
<1>2. /\ Phase1(t) => Phase1(t)'
      /\ Phase2(t) => Phase2(t)'
      /\ Phase3(t) => Phase3(t)'
  BY DEF InPhase, OwnMove, MTypeOK, Phase1, Phase2, Phase3, Mapping, Shuffling, Reducing,
         Entering, Leaving
<1>3. \A u \in Threads \ {t} : /\ Phase1(u) => Phase1(u)'
                               /\ Phase2(u) => Phase2(u)'
                               /\ Phase3(u) => Phase3(u)'
  BY <1>1 DEF Phase1, Phase2, Phase3
<1> QED BY <1>2, <1>3

\* ... so that all workers stay in the same one.
LEMMA InPhaseKeeps ==
  ASSUME MTypeOK, SamePhase, NEW t \in Threads, InPhase(t), UNCHANGED barrierAt
  PROVE  SamePhase'
  BY PhaseStays DEF SamePhase

\* A step in the barrier: the last arrival takes everybody to the next phase.
LEMMA BarrierKeepsPhases ==
  ASSUME MTypeOK, SamePhase, BarrierInv, NEW t \in Threads,
         firstBarrier(t) \/ secondBarrier(t)
  PROVE  BarrierInv' /\ SamePhase' /\ (pc' = pc \/ \E l \in {"toShuffle", "barrier2", "reduceStage"} :
           pc' = [pc EXCEPT ![t] = l]) /\ pc[t] \in {"barrier1", "barrier2"}
<1>1. pc[t] \in {"barrier1", "barrier2"}
  BY DEF firstBarrier, secondBarrier, barrier
<1>2. CASE threadsBarrier_!Arrive(t) /\ UNCHANGED pc
  <2>1. BarrierInv' /\ (Moves(t, "locked", "waiting") \/ LetsGo(t))
    BY <1>2, ArriveFacts
  <2>2. CASE Moves(t, "locked", "waiting")
    <3>1. \A u \in Threads : /\ Phase1(u) => Phase1(u)'
                             /\ Phase2(u) => Phase2(u)'
                             /\ Phase3(u) => Phase3(u)'
      BY <1>1, <1>2, <2>2 DEF BarrierInv, Moves, Phase1, Phase2, Phase3, Entering, Leaving,
         Mapping, Shuffling, Reducing
    <3> QED BY <1>1, <1>2, <2>1, <3>1 DEF SamePhase
  <2>3. CASE LetsGo(t)
    <3>1. \A u \in Threads : barrierAt[u] \in {"locked", "waiting"} /\ barrierAt'[u] \in Leaving
      BY <2>3 DEF LetsGo, Leaving
    <3>2. \A u \in Threads : /\ Phase1(u) => Phase2(u)'
                             /\ Phase2(u) => Phase3(u)'
                             /\ ~Phase3(u)
      BY <1>2, <3>1 DEF Phase1, Phase2, Phase3, Entering, Leaving
    <3> QED BY <1>1, <1>2, <2>1, <3>2, ThreadsFacts DEF SamePhase
  <2> QED BY <2>1, <2>2, <2>3
<1>3. CASE (threadsBarrier_!Lock(t) \/ threadsBarrier_!Relock(t)) /\ UNCHANGED pc
  <2>1. BarrierInv' /\ (Moves(t, "out", "locked") \/ Moves(t, "woken", "unlocking"))
    BY <1>3, BarrierFacts DEF threadsBarrier_!Lock, threadsBarrier_!Relock, threadsBarrier_!Unlock,
       threadsBarrier_!lockAt
  <2>2. \A u \in Threads : /\ Phase1(u) => Phase1(u)'
                           /\ Phase2(u) => Phase2(u)'
                           /\ Phase3(u) => Phase3(u)'
    BY <1>1, <1>3, <2>1 DEF BarrierInv, Moves, Phase1, Phase2, Phase3, Entering, Leaving,
       Mapping, Shuffling, Reducing
  <2> QED BY <1>1, <1>3, <2>1, <2>2 DEF SamePhase
<1>4. CASE /\ threadsBarrier_!Unlock(t)
           /\ \/ pc[t] = "barrier1" /\ go(t, IF t = 0 THEN "toShuffle" ELSE "barrier2")
              \/ pc[t] = "barrier2" /\ go(t, "reduceStage")
  <2>1. BarrierInv' /\ Moves(t, "unlocking", "out")
    BY <1>4, BarrierFacts DEF threadsBarrier_!Lock, threadsBarrier_!Relock, threadsBarrier_!Unlock,
       threadsBarrier_!lockAt
  <2>2. \/ pc[t] = "barrier1" /\ pc' = [pc EXCEPT ![t] = IF t = 0 THEN "toShuffle" ELSE "barrier2"]
        \/ pc[t] = "barrier2" /\ pc' = [pc EXCEPT ![t] = "reduceStage"]
    BY <1>4 DEF go
  <2>3. \A u \in Threads \ {t} : pc'[u] = pc[u] /\ barrierAt'[u] = barrierAt[u]
    BY <2>1, <2>2 DEF MTypeOK, BarrierInv, Moves
  <2>4. \A u \in Threads \ {t} : /\ Phase1(u) => Phase1(u)'
                                 /\ Phase2(u) => Phase2(u)'
                                 /\ Phase3(u) => Phase3(u)'
    BY <2>3 DEF Phase1, Phase2, Phase3
  <2>5. ~Phase1(t) /\ (Phase2(t) => Phase2(t)') /\ (Phase3(t) => Phase3(t)')
    BY <2>1, <2>2 DEF MTypeOK, BarrierInv, Moves, Phase1, Phase2, Phase3, Entering, Leaving,
       Mapping, Shuffling, Reducing
  <2>6. SamePhase'
    BY <2>4, <2>5 DEF SamePhase
  <2> QED BY <1>1, <2>1, <2>2, <2>6
<1> QED BY <1>2, <1>3, <1>4 DEF firstBarrier, secondBarrier, barrier

\* What no worker's step does: touch the client's variables, start or end another
\* worker, or enter the shuffle while somebody holds the constructor's mutex.
WorkerActs(t) ==
  /\ UNCHANGED clientVars
  /\ pc[t] \notin {"none", "done"}
  /\ pc' = pc \/ \E l \in Labels \ {"none"} : pc' = [pc EXCEPT ![t] = l]
  /\ pc'[t] \in {"shuffleCopy", "shuffle"} =>
       pthreadCreateMutex_ = Nobody \/ pc[t] \in {"shuffleCopy", "shuffle"}
  /\ pthreadCreateMutex_' # pthreadCreateMutex_ =>
       pthreadCreateMutex_ = Nobody \/ pc[t] \in {"shuffleCopy", "shuffle"}

\* A worker's step outside the barrier.
LEMMA WorkerFacts ==
  ASSUME MTypeOK, NEW t \in Threads, threadStep(t), ~firstBarrier(t), ~secondBarrier(t)
  PROVE  WorkerActs(t) /\ InPhase(t) /\ UNCHANGED barrierVars
<1> USE DEF WorkerActs, InPhase, OwnMove, MTypeOK, Labels, Mapping, Shuffling, Reducing, go
<1>1. CASE mapStage(t) \/ mapFetch(t) \/ invokeMap(t) \/ mapCount(t) \/ invokeSortPhase(t)
  BY <1>1 DEF mapStage, mapFetch, fetch, invokeMap, mapCount, invokeSortPhase
<1>2. CASE toShuffle(t) \/ toReduce(t)
  BY <1>2 DEF toShuffle, toReduce, nextPhase
<1>3. CASE shuffleLock(t) \/ shuffleCopy(t) \/ shufflePair(t) \/ shuffleDone(t)
  BY <1>3 DEF shuffleLock, shuffleCopy, shufflePair, shuffleDone
<1>4. CASE reduceStage(t) \/ copyQueue(t) \/ reduceFetch(t) \/ invokeReduce(t) \/ reduceCount(t)
  BY <1>4 DEF reduceStage, copyQueue, reduceFetch, fetch, invokeReduce, reduceCount
<1> QED BY <1>1, <1>2, <1>3, <1>4 DEF threadStep

\* In the barrier a worker touches neither the client nor its mutex.
LEMMA BarrierActs ==
  ASSUME MTypeOK, SamePhase, BarrierInv, NEW t \in Threads,
         firstBarrier(t) \/ secondBarrier(t)
  PROVE  WorkerActs(t)
<1>1. UNCHANGED <<clientVars, pthreadCreateMutex_>>
  BY DEF firstBarrier, secondBarrier, barrier, clientVars
<1>2. /\ pc[t] \in {"barrier1", "barrier2"}
      /\ pc' = pc \/ \E l \in {"toShuffle", "barrier2", "reduceStage"} : pc' = [pc EXCEPT ![t] = l]
  BY BarrierKeepsPhases
<1> QED BY <1>1, <1>2 DEF WorkerActs, MTypeOK, Labels

\* No worker's step undoes what the constructor and the joins have done.
LEMMA WorkerKeeps ==
  ASSUME MInv, NEW t \in Threads, WorkerActs(t)
  PROVE  MTypeOK' /\ Constructor' /\ Joining'
<1> USE DEF WorkerActs, clientVars
<1>1. MTypeOK'
  BY DEF MInv, MTypeOK
<1>2. \A u \in Threads : /\ u # t => pc'[u] = pc[u]
                         /\ pc[u] \in {"none", "done"} => pc'[u] = pc[u]
  BY DEF MInv, MTypeOK
<1>3. Constructor'
  <2>1. CASE client.at \in Constructing
    <3>1. pthreadCreateMutex_ = Client /\ Client # Nobody /\ pc[t] \notin {"shuffleCopy", "shuffle"}
      BY <2>1, NumOfThreadsAssumption DEF MInv, Constructor, Client, Nobody
    <3>2. UNCHANGED pthreadCreateMutex_ /\ pc'[t] \notin {"shuffleCopy", "shuffle"}
      BY <3>1
    <3> QED BY <1>2, <2>1, <3>1, <3>2 DEF MInv, Constructor
  <2>2. CASE client.at \notin Constructing
    BY <2>2 DEF MInv, Constructor
  <2> QED BY <2>1, <2>2
<1>4. Joining'
  BY <1>2 DEF MInv, Joining, MTypeOK
<1> QED BY <1>1, <1>3, <1>4
-----------------------------------------------------------------------------
(* The client's thread *)

\* The constructor creates a worker and stores its pointer, one after the other.
LEMMA ConstructKeeps ==
  ASSUME MInv, construct PROVE MInv'
<1>1. client.at \in Constructing /\ client.i \in Threads
  BY DEF construct, createThread, assignContext, Constructing, MInv, Constructor
<1>2. UNCHANGED <<barrierVars, joined, areThreadsJoined_>>
  BY DEF construct, createThread, assignContext
<1>3. BarrierInv'
  BY <1>2 DEF MInv, BarrierInv, Held, barrierVars
<1>4. CASE createThread
  <2>1. /\ pc[client.i] = "none" /\ pc' = [pc EXCEPT ![client.i] = "start"]
        /\ client' = [at |-> "assigning", i |-> client.i]
        /\ UNCHANGED <<pthreadCreateMutex_, threadContexts_>>
    BY <1>1, <1>4 DEF createThread, go, clientAt, MInv, Constructor
  <2>2. MTypeOK'
    BY <1>1, <1>2, <2>1, NumOfThreadsAssumption
       DEF MInv, MTypeOK, Labels, ClientPlaces, Threads
  <2>3. SamePhase'
    <3>1. InPhase(client.i) /\ UNCHANGED barrierAt
      BY <1>2, <2>1 DEF InPhase, OwnMove, Mapping, barrierVars
    <3> QED BY <1>1, <3>1, InPhaseKeeps DEF MInv
  <2>4. Constructor'
    BY <1>1, <2>1 DEF MInv, MTypeOK, Constructor, Constructing
  <2>5. Joining'
    BY <1>1, <1>2, <2>1 DEF MInv, Joining, Constructing
  <2> QED BY <1>3, <2>2, <2>3, <2>4, <2>5 DEF MInv
<1>5. CASE assignContext
  <2>1. /\ client.at = "assigning" /\ UNCHANGED pc
        /\ threadContexts_' = threadContexts_ \union {client.i}
        /\ IF client.i + 1 < numOfThreads_
           THEN client' = [at |-> "creating", i |-> client.i + 1] /\ UNCHANGED pthreadCreateMutex_
           ELSE client' = [at |-> "idle", i |-> 0] /\ pthreadCreateMutex_' = Nobody
    BY <1>5 DEF assignContext, clientAt
  <2>2. client.i \in Nat /\ client.i < numOfThreads_ /\ numOfThreads_ \in Nat
    BY <1>1, NumOfThreadsAssumption DEF Threads
  <2>3. threadContexts_' = 0 .. client.i
    BY <1>1, <2>1, <2>2 DEF MInv, Constructor
  <2>4. MTypeOK'
    BY <1>2, <2>1, <2>2 DEF MInv, MTypeOK, ClientPlaces
  <2>5. SamePhase'
    BY <1>2, <2>1 DEF MInv, SamePhase, Phase1, Phase2, Phase3, barrierVars
  <2>6. Constructor'
    BY <1>1, <2>1, <2>2, <2>3 DEF MInv, Constructor, Constructing, Threads
  <2>7. Joining'
    BY <1>1, <1>2, <2>1 DEF MInv, Joining, Constructing
  <2> QED BY <1>3, <2>4, <2>5, <2>6, <2>7 DEF MInv
<1> QED BY <1>4, <1>5 DEF construct

\* waitForJob and closeJobHandle join the workers in the order of their index.
LEMMA ClientKeeps ==
  ASSUME MInv, waitForJob \/ closeJobHandle \/ join PROVE MInv'
<1> USE NumOfThreadsAssumption
<1>1. UNCHANGED <<barrierVars, pc, threadContexts_, pthreadCreateMutex_>>
  BY DEF waitForJob, closeJobHandle, join, pthreadJoin, joinedAll
<1>2. client.at \in {"idle", "waiting", "closing"}
  BY DEF waitForJob, closeJobHandle, join, pthreadJoin, joinedAll
<1>3. client'.at \in {"idle", "waiting", "closing", "closed"}
  BY <1>2 DEF waitForJob, closeJobHandle, join, pthreadJoin, joinedAll, getJobDone, clientAt
<1>4. BarrierInv' /\ SamePhase' /\ Constructor'
  <2>1. BarrierInv' /\ SamePhase'
    BY <1>1 DEF MInv, BarrierInv, Held, SamePhase, Phase1, Phase2, Phase3, barrierVars
  <2>2. Constructor'
    BY <1>1, <1>2, <1>3 DEF MInv, Constructor, Constructing
  <2> QED BY <2>1, <2>2
<1>5. client.i \in 0 .. numOfThreads_ /\ areThreadsJoined_ \in BOOLEAN /\ joined \subseteq Threads
  BY DEF MInv, MTypeOK
<1>6. CASE waitForJob \/ closeJobHandle
  <2>1. /\ client.at = "idle" /\ UNCHANGED <<joined, areThreadsJoined_>>
        /\ \E after \in {"waiting", "closing"} :
             client' = [at |-> after, i |-> IF areThreadsJoined_ THEN numOfThreads_ ELSE 0]
    BY <1>6 DEF waitForJob, closeJobHandle, getJobDone, clientAt
  <2>2. MTypeOK'
    BY <1>1, <2>1 DEF MInv, MTypeOK, ClientPlaces
  <2>3. Joining'
    BY <1>1, <2>1 DEF MInv, Joining, Constructing
  <2> QED BY <1>4, <2>2, <2>3 DEF MInv
<1>7. CASE pthreadJoin
  <2>1. /\ client.at \in {"waiting", "closing"} /\ client.i < numOfThreads_
        /\ pc[client.i] = "done" /\ joined' = joined \union {client.i}
        /\ client' = [at |-> client.at, i |-> client.i + 1] /\ UNCHANGED areThreadsJoined_
    BY <1>7 DEF pthreadJoin, joinable, clientAt
  <2>2. ~areThreadsJoined_ /\ joined = 0 .. client.i - 1 /\ client.i \in Threads
    BY <1>5, <2>1 DEF MInv, Joining, Threads
  <2>3. joined' = 0 .. client.i /\ joined' \subseteq Threads
    BY <1>5, <2>1, <2>2
  <2>4. MTypeOK'
    BY <1>1, <1>5, <2>1, <2>3 DEF MInv, MTypeOK, ClientPlaces
  <2>5. Joining'
    BY <1>1, <1>5, <2>1, <2>2, <2>3 DEF MInv, Joining, Constructing
  <2> QED BY <1>4, <2>4, <2>5 DEF MInv
<1>8. CASE joinedAll
  <2>1. /\ client.at \in {"waiting", "closing"} /\ client.i = numOfThreads_
        /\ areThreadsJoined_' = TRUE /\ UNCHANGED joined
        /\ \E place \in {"closed", "idle"} : client' = [at |-> place, i |-> 0]
    BY <1>5, <1>8 DEF joinedAll, joinable, clientAt
  <2>2. joined = Threads
    BY <2>1 DEF MInv, Joining, Threads
  <2>3. MTypeOK'
    BY <1>1, <2>1 DEF MInv, MTypeOK, ClientPlaces
  <2>4. Joining'
    BY <1>1, <2>1, <2>2 DEF MInv, Joining, Constructing
  <2> QED BY <1>4, <2>3, <2>4 DEF MInv
<1> QED BY <1>6, <1>7, <1>8 DEF join

\* Nor does a step that changes nothing.
LEMMA MStutter ==
  ASSUME MInv, UNCHANGED vars PROVE MInv'
<1> USE DEF vars, clientVars, barrierVars
<1>1. MTypeOK' /\ BarrierInv' /\ SamePhase'
  BY DEF MInv, MTypeOK, BarrierInv, Held, SamePhase, Phase1, Phase2, Phase3
<1>2. Constructor' /\ Joining'
  BY DEF MInv, Constructor, Joining
<1> QED BY <1>1, <1>2 DEF MInv
-----------------------------------------------------------------------------

\* The job of job_context.cpp and thread_context.cpp: the inductive invariant.
THEOREM JobInvariant == Spec => []MInv
<1>1. ASSUME MInv, NEW t \in Threads, threadStep(t) PROVE MInv'
  <2>1. CASE firstBarrier(t) \/ secondBarrier(t)
    BY <1>1, <2>1, BarrierKeepsPhases, BarrierActs, WorkerKeeps DEF MInv
  <2>2. CASE ~firstBarrier(t) /\ ~secondBarrier(t)
    <3>1. WorkerActs(t) /\ InPhase(t) /\ UNCHANGED barrierVars
      BY <1>1, <2>2, WorkerFacts DEF MInv
    <3>2. SamePhase'
      BY <1>1, <3>1, InPhaseKeeps DEF MInv, barrierVars
    <3>3. BarrierInv'
      BY <1>1, <3>1 DEF MInv, BarrierInv, Held, barrierVars
    <3> QED BY <1>1, <3>1, <3>2, <3>3, WorkerKeeps DEF MInv
  <2> QED BY <2>1, <2>2
<1>2. ASSUME MInv, [Next]_vars PROVE MInv'
  BY <1>1, <1>2, ConstructKeeps, ClientKeeps, MStutter DEF Next, finished
<1> QED BY <1>2, MInitial, PTL DEF Spec

\* The two barriers of threadEntryPoint: while thread 0 shuffles nobody maps or
\* sorts, and nobody reduces before the shuffle is over.
THEOREM BarriersKeepPhasesApart == Spec => []PhasesDoNotOverlap
<1>1. MInv => PhasesDoNotOverlap
  <2> SUFFICES ASSUME MInv PROVE PhasesDoNotOverlap
    OBVIOUS
  <2> USE ThreadsFacts DEF Phase1, Phase2, Phase3, Mapping, Shuffling, Reducing
  <2>1. CASE \A t \in Threads : Phase1(t)
    BY <2>1 DEF PhasesDoNotOverlap
  <2>2. CASE \A t \in Threads : Phase2(t)
    BY <2>2 DEF PhasesDoNotOverlap
  <2>3. CASE \A t \in Threads : Phase3(t)
    BY <2>3 DEF PhasesDoNotOverlap
  <2> QED BY <2>1, <2>2, <2>3 DEF MInv, SamePhase
<1> QED BY <1>1, JobInvariant, PTL

\* pthreadCreateMutex_: thread 0 reads threadContexts_ only when the constructor
\* has stored every pointer.
THEOREM ShuffleSeesEveryContext == Spec => []ContextsAssigned
<1>1. MInv => ContextsAssigned
  BY ThreadsFacts DEF MInv, Constructor, ContextsAssigned
<1> QED BY <1>1, JobInvariant, PTL

\* getJobDone and closeJobHandle: no worker is joined twice, and the job is
\* deleted only when every worker has returned and was joined.
THEOREM WorkersJoinedOnceThenDeleted == Spec => []JoinedOnceThenDeleted
<1>1. MInv => JoinedOnceThenDeleted
  <2> SUFFICES ASSUME MInv PROVE JoinedOnceThenDeleted
    OBVIOUS
  <2>1. client.i \in 0 .. numOfThreads_ /\ numOfThreads_ \in Nat
    BY NumOfThreadsAssumption DEF MInv, MTypeOK
  <2>2. client.at \in {"waiting", "closing"} => client.i \notin joined
    BY <2>1 DEF MInv, Joining, Threads
  <2>3. client.at = "closed" => AllDone /\ joined = Threads
    BY DEF MInv, Joining, AllDone
  <2> QED BY <2>2, <2>3 DEF JoinedOnceThenDeleted
<1> QED BY <1>1, JobInvariant, PTL

-----------------------------------------------------------------------------
(* No deadlock *)

\* Who holds the two mutexes that are held for more than one step.
Locks ==
  /\ barrierMutex \in Threads \union {Nobody}
  /\ \A t \in Threads : barrierAt[t] \in {"locked", "unlocking"} <=> barrierMutex = t
  /\ pthreadCreateMutex_ \in {Nobody, Client, 0}
  /\ pthreadCreateMutex_ = Client => client.at \in Constructing
  /\ pthreadCreateMutex_ = 0 => pc[0] \in {"shuffleCopy", "shuffle"}

\* Which workers the constructor has not created yet.
Created ==
  \A t \in Threads : pc[t] = "none" =>
    /\ client.at \in Constructing /\ t >= client.i
    /\ client.at = "assigning" => t # client.i

\* The last worker of a round is not held.
LEMMA NotAllHeld ==
  ASSUME MInv, Held # Threads, NEW t \in Threads, firstBarrier(t) \/ secondBarrier(t)
  PROVE  Held' # Threads
<1>1. CASE threadsBarrier_!Lock(t) \/ threadsBarrier_!Relock(t) \/ threadsBarrier_!Unlock(t)
  BY <1>1, BarrierFacts DEF Held, MInv, BarrierInv, Moves
<1>2. CASE threadsBarrier_!Arrive(t)
  <2>1. CASE LetsGo(t)
    BY <2>1 DEF LetsGo, Held
  <2>2. CASE Moves(t, "locked", "waiting")
    <3>1. Held' = Held \union {t} /\ t \notin Held /\ Held \subseteq Threads
      BY <2>2 DEF Held, MInv, BarrierInv, Moves
    <3>2. barrierCount + 1 < threadsBarrier_!numThreads
      BY <1>2, <2>2 DEF threadsBarrier_!Arrive, Moves, MInv, BarrierInv
    <3>3. IsFiniteSet(Held) /\ Cardinality(Held) \in Nat
      BY <3>1, ThreadsFacts, FS_Subset, FS_CardinalityType
    <3>4. Cardinality(Held \union {t}) = barrierCount + 1
      BY <3>1, <3>3, FS_AddElement DEF MInv, BarrierInv
    <3>5. barrierCount + 1 # Cardinality(Threads)
      BY <3>2, <3>3, ThreadsFacts DEF MInv, BarrierInv
    <3> QED
      BY <3>1, <3>4, <3>5
  <2> QED
    BY <1>2, <2>1, <2>2, ArriveFacts DEF MInv
<1> QED
  BY <1>1, <1>2 DEF firstBarrier, secondBarrier, barrier

\* The constructor creates the workers in order.
LEMMA CreatedStays ==
  ASSUME MInv, Created, [Next]_vars PROVE Created'
<1>1. pc \in [Threads -> Labels] /\ numOfThreads_ \in Nat
  BY NumOfThreadsAssumption DEF MInv, MTypeOK
<1>2. ASSUME NEW t \in Threads, threadStep(t) PROVE Created'
  <2>1. WorkerActs(t)
    BY <1>2, WorkerFacts, BarrierActs DEF MInv
  <2> QED
    BY <1>1, <2>1 DEF WorkerActs, clientVars, Created
<1>3. CASE createThread
  <2>1. client.i \in Threads /\ pc' = [pc EXCEPT ![client.i] = "start"]
        /\ client' = [at |-> "assigning", i |-> client.i] /\ client.at \in Constructing
    BY <1>3 DEF createThread, go, clientAt, MInv, Constructor, Constructing
  <2> QED
    BY <1>1, <2>1 DEF Created, Constructing
<1>4. CASE assignContext
  <2>1. /\ client.at = "assigning" /\ UNCHANGED pc /\ client.i \in Threads
        /\ IF client.i + 1 < numOfThreads_ THEN client' = [at |-> "creating", i |-> client.i + 1]
                                           ELSE client' = [at |-> "idle", i |-> 0]
    BY <1>4 DEF assignContext, clientAt, MInv, Constructor, Constructing
  <2>2. \A t \in Threads : pc[t] = "none" => t >= client.i + 1
    BY <2>1 DEF Created, Threads
  <2> QED
    BY <1>1, <2>1, <2>2 DEF Created, Constructing, Threads
<1>5. CASE waitForJob \/ closeJobHandle \/ join
  <2>1. client.at \notin Constructing /\ UNCHANGED pc
    BY <1>5 DEF waitForJob, closeJobHandle, join, pthreadJoin, joinedAll, Constructing
  <2> QED
    BY <2>1 DEF Created
<1>6. CASE UNCHANGED vars
  BY <1>6 DEF vars, clientVars, Created
<1> QED
  BY <1>2, <1>3, <1>4, <1>5, <1>6 DEF Next, construct, finished

\* The barrier's mutex is the one its steps take and give back.
LEMMA BarrierKeepsLocks ==
  ASSUME MInv, Locks, NEW t \in Threads, firstBarrier(t) \/ secondBarrier(t)
  PROVE  Locks'
<1>1. /\ t # Nobody /\ pc[t] \in {"barrier1", "barrier2"}
      /\ UNCHANGED <<client, pthreadCreateMutex_>>
  BY NumOfThreadsAssumption DEF Threads, Nobody, firstBarrier, secondBarrier, barrier, clientVars
<1>2. \A u \in Threads : barrierAt'[u] \in {"locked", "unlocking"} <=> barrierMutex' = u
  <2>0. /\ barrierAt \in [Threads -> {"out", "locked", "waiting", "woken", "unlocking"}]
        /\ \A u \in Threads : barrierAt[u] \in {"locked", "unlocking"} <=> barrierMutex = u
    BY DEF MInv, BarrierInv, Locks
  <2>1. ASSUME NEW from, NEW to \in {"locked", "unlocking"}, threadsBarrier_!lockAt(t, from, to)
        PROVE  \A u \in Threads : barrierAt'[u] \in {"locked", "unlocking"} <=> barrierMutex' = u
    <3>1. /\ \A u \in Threads : barrierMutex # u
          /\ barrierMutex' = t /\ barrierAt' = [barrierAt EXCEPT ![t] = to]
      BY <1>1, <2>1 DEF threadsBarrier_!lockAt, Nobody, Threads
    <3> QED
      BY <2>0, <3>1
  <2>2. ASSUME barrierMutex = t, barrierMutex' = Nobody, NEW to \in {"waiting", "out"},
               barrierAt' = [barrierAt EXCEPT ![t] = to]
        PROVE  \A u \in Threads : barrierAt'[u] \in {"locked", "unlocking"} <=> barrierMutex' = u
    <3>1. \A u \in Threads : u # Nobody
      BY NumOfThreadsAssumption DEF Threads, Nobody
    <3> QED
      BY <2>0, <2>2, <3>1
  <2>3. CASE threadsBarrier_!Lock(t) \/ threadsBarrier_!Relock(t)
    BY <2>1, <2>3 DEF threadsBarrier_!Lock, threadsBarrier_!Relock, threadsBarrier_!lockAt
  <2>4. CASE threadsBarrier_!Unlock(t)
    BY <2>0, <2>2, <2>4 DEF threadsBarrier_!Unlock
  <2>5. CASE threadsBarrier_!Arrive(t)
    <3>1. barrierMutex = t
      BY <2>0, <2>5 DEF threadsBarrier_!Arrive
    <3>2. \/ barrierMutex' = Nobody /\ barrierAt' = [barrierAt EXCEPT ![t] = "waiting"]
          \/ barrierMutex' = barrierMutex /\ barrierAt'[t] = "unlocking"
      BY <2>0, <2>5 DEF threadsBarrier_!Arrive
    <3>3. Moves(t, "locked", "waiting") \/ LetsGo(t)
      BY <2>5, ArriveFacts DEF MInv
    <3>4. Moves(t, "locked", "waiting") => barrierAt'[t] = "waiting"
      BY <2>0 DEF Moves
    <3>5. CASE LetsGo(t) /\ barrierMutex' = barrierMutex
      BY <3>1, <3>5 DEF LetsGo
    <3>6. CASE barrierMutex' = Nobody /\ barrierAt' = [barrierAt EXCEPT ![t] = "waiting"]
      BY <2>2, <3>1, <3>6
    <3> QED
      BY <2>0, <3>1, <3>2, <3>3, <3>4, <3>5, <3>6
  <2> QED
    BY <2>3, <2>4, <2>5 DEF firstBarrier, secondBarrier, barrier
<1>3. barrierMutex' \in Threads \union {Nobody}
  BY DEF firstBarrier, secondBarrier, barrier, threadsBarrier_!Lock, threadsBarrier_!Relock,
     threadsBarrier_!lockAt, threadsBarrier_!Unlock, threadsBarrier_!Arrive, Locks
<1>4. pc' = pc \/ \E l \in {"toShuffle", "barrier2", "reduceStage"} : pc' = [pc EXCEPT ![t] = l]
  BY BarrierKeepsPhases DEF MInv
<1>5. pthreadCreateMutex_ = 0 => pc'[0] \in {"shuffleCopy", "shuffle"}
  BY <1>1, <1>4, ThreadsFacts DEF Locks, MInv, MTypeOK
<1> QED
  BY <1>1, <1>2, <1>3, <1>5 DEF Locks

\* The constructor's mutex passes to thread 0, which gives it back.
LEMMA WorkerKeepsLocks ==
  ASSUME MInv, Locks, NEW t \in Threads, threadStep(t), ~firstBarrier(t), ~secondBarrier(t)
  PROVE  Locks'
<1>1. UNCHANGED <<client, barrierMutex, barrierAt>>
  BY WorkerFacts DEF WorkerActs, clientVars, barrierVars, MInv
<1>2. pc[t] \in Shuffling => t = 0
  BY DEF MInv, SamePhase, Phase1, Phase2, Phase3, Mapping, Shuffling, Reducing
<1>3. 0 \in Threads /\ 0 # Nobody /\ 0 # Client /\ pc \in [Threads -> Labels]
  BY ThreadsFacts, NumOfThreadsAssumption DEF Nobody, Client, MInv, MTypeOK
<1>4. CASE shuffleLock(t) \/ shuffleCopy(t) \/ shufflePair(t) \/ shuffleDone(t)
  BY <1>1, <1>2, <1>3, <1>4
  DEF Locks, shuffleLock, shuffleCopy, shufflePair, shuffleDone, go, Shuffling, Nobody
<1>5. CASE ~(shuffleLock(t) \/ shuffleCopy(t) \/ shufflePair(t) \/ shuffleDone(t))
  <2>1. /\ UNCHANGED pthreadCreateMutex_ /\ pc[t] \notin {"shuffleCopy", "shuffle"}
        /\ \E l \in Labels : pc' = [pc EXCEPT ![t] = l]
    <3> USE DEF go, Labels
    <3>1. CASE mapStage(t) \/ mapFetch(t) \/ invokeMap(t) \/ mapCount(t) \/ invokeSortPhase(t)
      BY <3>1 DEF mapStage, mapFetch, fetch, invokeMap, mapCount, invokeSortPhase
    <3>2. CASE toShuffle(t) \/ toReduce(t)
      BY <3>2 DEF toShuffle, toReduce, nextPhase
    <3>3. CASE reduceStage(t) \/ copyQueue(t) \/ reduceFetch(t) \/ invokeReduce(t) \/ reduceCount(t)
      BY <3>3 DEF reduceStage, copyQueue, reduceFetch, fetch, invokeReduce, reduceCount
    <3> QED
      BY <1>5, <3>1, <3>2, <3>3 DEF threadStep
  <2> QED
    BY <1>1, <1>3, <2>1 DEF Locks
<1> QED
  BY <1>4, <1>5

\* The client's thread gives the constructor's mutex up with the last pointer.
LEMMA ClientKeepsLocks ==
  ASSUME MInv, Locks, construct \/ waitForJob \/ closeJobHandle \/ join
  PROVE  Locks'
<1>1. UNCHANGED <<barrierMutex, barrierAt>>
  BY DEF construct, createThread, assignContext, waitForJob, closeJobHandle, join, pthreadJoin,
     joinedAll, barrierVars
<1>2. 0 \in Threads /\ Nobody # 0 /\ Client # 0 /\ Nobody # Client /\ pc \in [Threads -> Labels]
  BY ThreadsFacts, NumOfThreadsAssumption DEF Nobody, Client, MInv, MTypeOK
<1>3. CASE construct
  <2>1. pthreadCreateMutex_ = Client
    BY <1>3 DEF construct, createThread, assignContext, MInv, Constructor, Constructing
  <2>2. pthreadCreateMutex_' = Nobody \/ (pthreadCreateMutex_' = Client /\ client'.at \in Constructing)
    BY <1>3, <2>1 DEF construct, createThread, assignContext, clientAt, Constructing
  <2> QED
    BY <1>1, <1>2, <2>2 DEF Locks
<1>4. CASE waitForJob \/ closeJobHandle \/ join
  <2>1. client.at \notin Constructing /\ UNCHANGED <<pc, pthreadCreateMutex_>>
    BY <1>4 DEF waitForJob, closeJobHandle, join, pthreadJoin, joinedAll, Constructing
  <2> QED
    BY <1>1, <2>1 DEF Locks
<1> QED
  BY <1>3, <1>4

\* The guards of threadStep: whether worker t, given a processor, has a step to
\* take. It waits to be created, for the constructor's mutex or in the barrier.
CanStep(t) ==
  \/ pc[t] \in Labels \ {"none", "shuffleLock", "barrier1", "barrier2", "done"}
  \/ pc[t] = "shuffleLock" /\ pthreadCreateMutex_ = Nobody
  \/ /\ pc[t] \in {"barrier1", "barrier2"}
     /\ \/ barrierAt[t] \in {"locked", "unlocking"}
        \/ barrierMutex = Nobody /\ barrierAt[t] \in {"out", "woken"}

\* Until the workers have all returned, one of them can go on, or the constructor
\* can: they never all wait for each other at the barriers and the mutexes.
SomebodyCanStep == client.at \in Constructing \/ AllDone \/ \E t \in Threads : CanStep(t)

\* At a barrier the workers that are not held are on their way to it or out of it.
LEMMA SomebodyAtTheBarrier ==
  ASSUME MInv, Locks, Created, Held # Threads, barrierMutex = Nobody,
         client.at \notin Constructing,
         \A t \in Threads : pc[t] \in {"none", "barrier1", "barrier2", "done"}
  PROVE  SomebodyCanStep
<1> USE DEF Phase1, Phase2, Phase3, Mapping, Shuffling, Reducing, Entering, Leaving
<1>2. PICK t \in Threads : barrierAt[t] # "waiting"
  BY DEF Held
<1>3. \A u \in Threads : barrierAt[u] \in {"out", "waiting", "woken"}
  <2>1. \A u \in Threads : u # Nobody
    BY NumOfThreadsAssumption DEF Threads, Nobody
  <2> QED
    BY <2>1 DEF Locks, MInv, BarrierInv
<1>4. ASSUME NEW u \in Threads, pc[u] \in {"barrier1", "barrier2"}, barrierAt[u] # "waiting"
      PROVE  SomebodyCanStep
  BY <1>3, <1>4 DEF SomebodyCanStep, CanStep
<1>5. CASE \A u \in Threads : Phase1(u)
  <2>1. pc[t] # "none"
    BY DEF Created
  <2> QED
    BY <1>2, <1>4, <1>5, <2>1
<1>6. CASE \A u \in Threads : Phase2(u)
  BY <1>2, <1>4, <1>6
<1>7. CASE \A u \in Threads : Phase3(u)
  <2>1. CASE AllDone
    BY <2>1 DEF SomebodyCanStep
  <2>2. CASE ~AllDone
    <3>1. PICK u \in Threads : pc[u] # "done"
      BY <2>2 DEF AllDone
    <3> QED
      BY <1>4, <1>7, <3>1
  <2> QED
    BY <2>1, <2>2
<1> QED
  BY <1>5, <1>6, <1>7 DEF MInv, SamePhase

\* What keeps the workers going.
Going == Locks /\ Created /\ Held # Threads

\* No worker waits for ever for the others: the last one at a barrier does not
\* wait, and who holds a mutex can go on (Barrier.cpp, thread_context.cpp).
THEOREM WorkersNeverDeadlock == Spec => []SomebodyCanStep
<1>1. MInv /\ Going => SomebodyCanStep
  <2> SUFFICES ASSUME MInv, Locks, Created, Held # Threads, client.at \notin Constructing PROVE SomebodyCanStep
    BY DEF SomebodyCanStep, Going
  <2>1. CASE \E t \in Threads : pc[t] \in Labels \ {"none", "shuffleLock", "barrier1", "barrier2", "done"}
    BY <2>1 DEF SomebodyCanStep, CanStep
  <2>2. CASE \E t \in Threads : pc[t] = "shuffleLock"
    <3>1. pthreadCreateMutex_ = 0 => pc[0] \in {"shuffleCopy", "shuffle"}
      BY DEF Locks
    <3>2. pthreadCreateMutex_ \in {0, Nobody}
      BY DEF Locks
    <3>3. CASE pthreadCreateMutex_ = 0
      BY <3>1, <3>3, ThreadsFacts DEF SomebodyCanStep, CanStep, Labels
    <3> QED
      BY <2>2, <3>2, <3>3 DEF SomebodyCanStep, CanStep
  <2>3. CASE \A t \in Threads : pc[t] \in {"none", "barrier1", "barrier2", "done"}
    <3>1. CASE barrierMutex = Nobody
      BY <2>3, <3>1, SomebodyAtTheBarrier
    <3>2. CASE barrierMutex # Nobody
      <4>1. barrierMutex \in Threads /\ barrierAt[barrierMutex] \in {"locked", "unlocking"}
        BY <3>2 DEF Locks
      <4>2. pc[barrierMutex] \in {"barrier1", "barrier2"}
        BY <4>1 DEF MInv, SamePhase, Phase1, Phase2, Phase3, Entering, Leaving
      <4> QED
        BY <4>1, <4>2 DEF SomebodyCanStep, CanStep
    <3> QED
      BY <3>1, <3>2
  <2> QED
    BY <2>1, <2>2, <2>3 DEF MInv, MTypeOK
<1>2. Init => Going
  <2> SUFFICES ASSUME Init PROVE Going
    OBVIOUS
  <2> USE NumOfThreadsAssumption DEF Init, threadsBarrier_!Init
  <2>1. Locks
    BY DEF Locks, Constructing, Client, Nobody, Threads
  <2>2. Created
    BY DEF Created, Constructing, Threads
  <2>3. Held # Threads
    BY ThreadsFacts DEF Held
  <2> QED
    BY <2>1, <2>2, <2>3 DEF Going
<1>3. MInv /\ Going /\ [Next]_vars => Going'
  <2> SUFFICES ASSUME MInv, Going, [Next]_vars PROVE Going'
    OBVIOUS
  <2>1. CASE UNCHANGED vars
    BY <2>1, CreatedStays DEF vars, clientVars, barrierVars, Locks, Held, Going
  <2>2. ASSUME NEW t \in Threads, threadStep(t) PROVE Going'
    <3>1. CASE firstBarrier(t) \/ secondBarrier(t)
      BY <2>2, <3>1, BarrierKeepsLocks, NotAllHeld, CreatedStays DEF Going
    <3>2. CASE ~firstBarrier(t) /\ ~secondBarrier(t)
      <4>1. Held' = Held
        BY <2>2, <3>2, WorkerFacts DEF MInv, Held, barrierVars
      <4> QED
        BY <2>2, <3>2, <4>1, WorkerKeepsLocks, CreatedStays DEF Going
    <3> QED
      BY <3>1, <3>2
  <2>3. CASE construct \/ waitForJob \/ closeJobHandle \/ join
    <3>1. Held' = Held
      BY <2>3 DEF construct, createThread, assignContext, waitForJob, closeJobHandle, join,
         pthreadJoin, joinedAll, barrierVars, Held
    <3> QED
      BY <2>3, <3>1, ClientKeepsLocks, CreatedStays DEF Going
  <2> QED
    BY <2>1, <2>2, <2>3 DEF Next, finished
<1> QED
  BY <1>1, <1>2, <1>3, JobInvariant, PTL DEF Spec

-----------------------------------------------------------------------------
(* Numbers and sequences *)

\* A set of natural numbers has a least one.
LEMMA LeastNumber ==
  ASSUME NEW S \in SUBSET Nat, S # {}
  PROVE  \E m \in S : \A x \in S : m <= x
<1>1. PICK x \in S : \A y \in S : ~(y < x)
  <2>1. IsWellFoundedOn(OpToRel(<, Nat), Nat)
    BY NatLessThanWellFounded
  <2>2. PICK x \in S : \A y \in S : ~(<<y, x>> \in OpToRel(<, Nat))
    BY <2>1, WFMin
  <2>3. \A y \in S : y < x => <<y, x>> \in OpToRel(<, Nat)
    BY <2>2 DEF OpToRel
  <2> QED
    BY <2>2, <2>3
<1> QED
  BY <1>1

\* A set of natural numbers with a bound has a greatest one.
LEMMA MaxFacts ==
  ASSUME NEW S \in SUBSET Nat, S # {}, NEW n \in Nat, \A x \in S : x <= n
  PROVE  /\ Max(S) \in S
         /\ \A x \in S : x <= Max(S)
<1> DEFINE bounds == {b \in Nat : \A x \in S : x <= b}
<1>1. bounds \in SUBSET Nat /\ n \in bounds
  OBVIOUS
<1>2. PICK m \in bounds : \A b \in bounds : m <= b
  BY <1>1, LeastNumber
<1>3. m \in Nat /\ \A x \in S : x <= m
  BY <1>2
<1>4. m \in S
  <2> SUFFICES ASSUME m \notin S PROVE FALSE
    OBVIOUS
  <2>1. PICK x : x \in S
    OBVIOUS
  <2>2. m > 0
    BY <1>3, <2>1
  <2>3. \A y \in S : y <= m - 1
    BY <1>3
  <2>4. m - 1 \in bounds
    BY <1>3, <2>2, <2>3
  <2> QED
    BY <1>2, <1>3, <2>4
<1> QED
  BY <1>3, <1>4 DEF Max

\* A function may be given by its first value and by each value from the one
\* before: there is no shortest one that does not exist.
Recursive(T, a, n, g) == a \in T /\ n \in Nat /\ g \in [(1 .. n) \X T -> T]
Follows(T, a, n, g, f) ==
  f \in [0 .. n -> T] /\ f[0] = a /\ \A i \in 1 .. n : f[i] = g[<<i, f[i - 1]>>]

\* The function that is given so exists, for any length.
LEMMA Recursion ==
  ASSUME NEW T, NEW a, NEW n, NEW g, Recursive(T, a, n, g)
  PROVE  \E f : Follows(T, a, n, g, f)
<1>0. a \in T /\ n \in Nat /\ g \in [(1 .. n) \X T -> T]
  BY DEF Recursive
<1> DEFINE defines(f, k) == f[0] = a /\ \A i \in 1 .. k : f[i] = g[<<i, f[i - 1]>>]
           without == {k \in 0 .. n : ~ \E f \in [0 .. k -> T] : defines(f, k)}
<1>1. without = {}
  <2> SUFFICES ASSUME without # {} PROVE FALSE
    OBVIOUS
  <2>1. PICK m \in without : \A k \in without : m <= k
    <3>1. without \in SUBSET Nat
      BY <1>0
    <3> QED
      BY <3>1, LeastNumber
  <2>2. CASE m = 0
    <3> DEFINE f == [i \in 0 .. 0 |-> a]
    <3>1. f \in [0 .. 0 -> T] /\ f[0] = a /\ 1 .. 0 = {}
      BY <1>0
    <3>2. defines(f, 0)
      BY <3>1
    <3> QED
      BY <1>0, <2>1, <2>2, <3>1, <3>2
  <2>3. CASE m # 0
    <3>1. m - 1 \in 0 .. n /\ m \in 1 .. n
      BY <1>0, <2>1, <2>3
    <3>2. PICK f \in [0 .. m - 1 -> T] : defines(f, m - 1)
      BY <2>1, <3>1
    <3> DEFINE value == g[<<m, f[m - 1]>>]
               h == [i \in 0 .. m |-> IF i = m THEN value ELSE f[i]]
    <3>3. f[m - 1] \in T
      BY <3>1
    <3>4. value \in T
      BY <1>0, <3>1, <3>3
    <3> HIDE DEF value
    <3>5. \A i \in 0 .. m : h[i] = IF i = m THEN value ELSE f[i]
      OBVIOUS
    <3>6. h \in [0 .. m -> T]
      BY <3>1, <3>4
    <3> HIDE DEF h
    <3>7. h[0] = a
      BY <2>3, <3>1, <3>2, <3>5
    <3>8. ASSUME NEW i \in 1 .. m PROVE h[i] = g[<<i, h[i - 1]>>]
      <4>1. h[i - 1] = f[i - 1]
        BY <3>1, <3>5
      <4>2. CASE i = m
        BY <3>1, <3>5, <4>1, <4>2 DEF value
      <4>3. CASE i # m
        BY <3>1, <3>2, <3>5, <4>1, <4>3
      <4> QED
        BY <4>2, <4>3
    <3>9. defines(h, m)
      BY <3>7, <3>8
    <3> QED
      BY <1>0, <2>1, <3>6, <3>9
  <2> QED
    BY <2>2, <2>3
<1>2. n \notin without
  BY <1>1
<1>3. PICK f \in [0 .. n -> T] : defines(f, n)
  BY <1>0, <1>2
<1> QED
  BY <1>3 DEF Follows

\* A sequence that repeats nothing is as long as its range is large.
LEMMA InjectiveFacts ==
  ASSUME NEW S, NEW s \in Seq(S)
  PROVE  /\ IsFiniteSet(Range(s)) /\ Range(s) \subseteq S
         /\ Range(s) = {} <=> s = <<>>
         /\ IsInjective(s) => Cardinality(Range(s)) = Len(s)
<1>1. Len(s) \in Nat /\ DOMAIN s = 1 .. Len(s)
  BY LenProperties
<1>2. IsFiniteSet(1 .. Len(s)) /\ Cardinality(1 .. Len(s)) = Len(s)
  <2>1. \A a, b \in Int : IsFiniteSet(a .. b) /\ Cardinality(a .. b) = IF a > b THEN 0 ELSE b - a + 1
    BY FS_Interval, Zenon
  <2>2. 1 \in Int /\ Len(s) \in Int
    BY <1>1
  <2>3. IsFiniteSet(1 .. Len(s)) /\ Cardinality(1 .. Len(s)) = IF 1 > Len(s) THEN 0 ELSE Len(s) - 1 + 1
    BY <2>1, <2>2, Zenon
  <2> QED
    BY <1>1, <2>3
<1>3. s \in Surjection(1 .. Len(s), Range(s))
  BY <1>1 DEF Surjection, Range
<1>4. IsInjective(s) => s \in Injection(1 .. Len(s), Range(s))
  BY <1>3 DEF Surjection, Injection
<1>5. IsFiniteSet(Range(s)) /\ (IsInjective(s) => Cardinality(Range(s)) = Len(s))
  BY <1>2, <1>3, <1>4, FS_Surjection
<1>6. Range(s) \subseteq S
  BY <1>1, ElementOfSeq DEF Range
<1>7. Range(s) = {} <=> s = <<>>
  <2>1. Len(s) = 0 <=> s = <<>>
    BY EmptySeq, <1>1
  <2>2. Len(s) = 0 => Range(s) = {}
    BY <1>1 DEF Range
  <2>3. Len(s) # 0 => 1 \in DOMAIN s /\ s[1] \in Range(s)
    BY <1>1 DEF Range
  <2> QED
    BY <2>1, <2>2, <2>3
<1> QED
  BY <1>5, <1>6, <1>7

\* Two sequences one after the other.
LEMMA ConcatFacts ==
  ASSUME NEW S, NEW s \in Seq(S), NEW t \in Seq(S)
  PROVE  /\ s \o t \in Seq(S) /\ Len(s \o t) = Len(s) + Len(t)
         /\ Range(s \o t) = Range(s) \union Range(t)
         /\ IsInjective(s) /\ IsInjective(t) /\ Range(s) \intersect Range(t) = {} => IsInjective(s \o t)
<1> DEFINE r == s \o t
<1>1. /\ r \in Seq(S) /\ Len(r) = Len(s) + Len(t)
      /\ \A i \in 1 .. Len(s) + Len(t) : r[i] = IF i <= Len(s) THEN s[i] ELSE t[i - Len(s)]
  BY ConcatProperties
<1> HIDE DEF r
<1>2. /\ Len(s) \in Nat /\ Len(t) \in Nat
      /\ DOMAIN s = 1 .. Len(s) /\ DOMAIN t = 1 .. Len(t) /\ DOMAIN r = 1 .. Len(s) + Len(t)
  BY <1>1, LenProperties
<1>3. ASSUME NEW x \in Range(s) PROVE x \in Range(r)
  <2>1. PICK i \in 1 .. Len(s) : s[i] = x
    BY <1>2 DEF Range
  <2>2. i \in DOMAIN r /\ r[i] = x
    BY <1>1, <1>2, <2>1
  <2> QED
    BY <2>2 DEF Range
<1>4. ASSUME NEW x \in Range(t) PROVE x \in Range(r)
  <2>1. PICK i \in 1 .. Len(t) : t[i] = x
    BY <1>2 DEF Range
  <2>2. i + Len(s) \in 1 .. Len(s) + Len(t) /\ ~(i + Len(s) <= Len(s)) /\ (i + Len(s)) - Len(s) = i
    BY <1>2
  <2>3. i + Len(s) \in DOMAIN r /\ r[i + Len(s)] = x
    BY <1>1, <1>2, <2>1, <2>2
  <2> QED
    BY <2>3 DEF Range
<1>5. ASSUME NEW i \in DOMAIN r
      PROVE  \/ i \in DOMAIN s /\ r[i] = s[i] /\ s[i] \in Range(s)
             \/ i - Len(s) \in DOMAIN t /\ r[i] = t[i - Len(s)] /\ t[i - Len(s)] \in Range(t) /\ i \in Nat
  BY <1>1, <1>2 DEF Range
<1>6. Range(r) = Range(s) \union Range(t)
  BY <1>3, <1>4, <1>5 DEF Range
<1>7. IsInjective(s) /\ IsInjective(t) /\ Range(s) \intersect Range(t) = {} => IsInjective(r)
  <2> SUFFICES ASSUME IsInjective(s), IsInjective(t), Range(s) \intersect Range(t) = {},
                      NEW i \in DOMAIN r, NEW j \in DOMAIN r, r[i] = r[j]
               PROVE  i = j
    BY DEF IsInjective
  <2>1. \/ i \in DOMAIN s /\ j \in DOMAIN s /\ s[i] = s[j]
        \/ i - Len(s) \in DOMAIN t /\ j - Len(s) \in DOMAIN t /\ t[i - Len(s)] = t[j - Len(s)] /\ i \in Nat /\ j \in Nat
    BY <1>5
  <2>2. i = j \/ (i - Len(s) = j - Len(s) /\ i \in Nat /\ j \in Nat)
    BY <2>1 DEF IsInjective
  <2> QED
    BY <1>2, <2>2
<1> QED
  BY <1>1, <1>6, <1>7 DEF r

\* One more element at the end.
LEMMA AppendOneFacts ==
  ASSUME NEW S, NEW s \in Seq(S), NEW e \in S
  PROVE  /\ Append(s, e) \in Seq(S) /\ Range(Append(s, e)) = Range(s) \union {e}
         /\ IsInjective(s) /\ e \notin Range(s) => IsInjective(Append(s, e))
<1>1. PICK r : r = Append(s, e)
  OBVIOUS
<1>2. /\ r \in Seq(S) /\ Len(s) \in Nat /\ DOMAIN s = 1 .. Len(s) /\ DOMAIN r = 1 .. Len(s) + 1
      /\ \A n \in 1 .. Len(s) : r[n] = s[n]
      /\ r[Len(s) + 1] = e
  <2>1. r \in Seq(S) /\ Len(r) = Len(s) + 1 /\ r[Len(s) + 1] = e /\ \A n \in 1 .. Len(s) : r[n] = s[n]
    BY <1>1, AppendProperties
  <2> QED
    BY <2>1, LenProperties
<1>3. \A n \in 1 .. Len(s) + 1 : n \in 1 .. Len(s) \/ n = Len(s) + 1
  BY <1>2
<1>4. 1 .. Len(s) \subseteq 1 .. Len(s) + 1 /\ Len(s) + 1 \in 1 .. Len(s) + 1
  BY <1>2
<1>5. Range(r) = Range(s) \union {e}
  BY <1>2, <1>3, <1>4 DEF Range
<1>6. ASSUME IsInjective(s), e \notin Range(s) PROVE IsInjective(r)
  <2>1. \A n \in 1 .. Len(s) : r[n] # e
    BY <1>2, <1>6 DEF Range
  <2>2. \A m, n \in 1 .. Len(s) : r[m] = r[n] => m = n
    BY <1>2, <1>6 DEF IsInjective
  <2> QED
    BY <1>2, <1>3, <2>1, <2>2 DEF IsInjective
<1> QED
  BY <1>1, <1>2, <1>5, <1>6

-----------------------------------------------------------------------------
(* The vectors of the threads *)

\* The pairs of a vector of vectors.
AllOf(vectors) == UNION {Range(vectors[t]) : t \in Threads}

\* Each pair is in one place only.
Apart(vectors) ==
  /\ vectors \in [Threads -> Seq(Pairs)]
  /\ \A t \in Threads : IsInjective(vectors[t])
  /\ \A t, u \in Threads : t # u => Range(vectors[t]) \intersect Range(vectors[u]) = {}

\* The lengths of the vectors, summed.
LEMMA TotalSteps ==
  ASSUME NEW vectors \in [Threads -> Seq(Pairs)], vectors = intermediateVec_
  PROVE  \E f \in [0 .. numOfThreads_ -> Nat] :
           /\ f[0] = 0 /\ getNumOfIntermediatePairs = f[numOfThreads_]
           /\ \A i \in 1 .. numOfThreads_ : f[i] = f[i - 1] + Len(vectors[i - 1])
<1> DEFINE n == numOfThreads_
           g == [pair \in (1 .. n) \X Nat |-> pair[2] + Len(vectors[pair[1] - 1])]
<1>1. n \in Nat \ {0} /\ \A i \in 1 .. n : i - 1 \in Threads
  BY NumOfThreadsAssumption DEF Threads
<1>2. \A i \in 1 .. n : Len(vectors[i - 1]) \in Nat
  <2>1. \A v \in Seq(Pairs) : Len(v) \in Nat
    BY LenProperties
  <2>2. \A i \in 1 .. n : vectors[i - 1] \in Seq(Pairs)
    BY <1>1
  <2> QED
    BY <2>1, <2>2
<1>3. g \in [(1 .. n) \X Nat -> Nat] /\ \A i \in 1 .. n, s \in Nat : g[<<i, s>>] = s + Len(vectors[i - 1])
  BY <1>2
<1> HIDE DEF g
<1>4. PICK f \in [0 .. n -> Nat] : f[0] = 0 /\ \A i \in 1 .. n : f[i] = g[<<i, f[i - 1]>>]
  <2>1. Recursive(Nat, 0, n, g)
    BY <1>1, <1>3 DEF Recursive
  <2>2. PICK f : Follows(Nat, 0, n, g, f)
    BY <2>1, Recursion, Zenon
  <2> QED
    BY <2>2 DEF Follows
<1>5. ASSUME NEW i \in 1 .. n PROVE f[i - 1] \in Nat /\ f[i] = f[i - 1] + Len(vectors[i - 1])
  <2>1. i - 1 \in 0 .. n
    BY <1>1
  <2>2. f[i - 1] \in Nat
    BY <2>1
  <2> QED
    BY <1>3, <1>4, <2>2
<1> DEFINE sums(h) == h = [i \in 0 .. n |-> IF i = 0 THEN 0 ELSE h[i - 1] + Len(vectors[i - 1])]
<1>6. getNumOfIntermediatePairs = (CHOOSE h : sums(h))[n]
  BY Zenon DEF getNumOfIntermediatePairs
<1>7. sums(f)
  <2> DEFINE k == [i \in 0 .. n |-> IF i = 0 THEN 0 ELSE f[i - 1] + Len(vectors[i - 1])]
  <2>1. \A i \in 0 .. n : k[i] = IF i = 0 THEN 0 ELSE f[i - 1] + Len(vectors[i - 1])
    OBVIOUS
  <2>2. ASSUME NEW i \in 0 .. n PROVE f[i] = k[i]
    <3> HIDE DEF k
    <3>1. i = 0 \/ i \in 1 .. n
      BY <1>1
    <3> QED
      BY <1>4, <1>5, <2>1, <3>1
  <2>3. f = k
    BY <2>2
  <2> QED
    BY <2>3
<1>8. PICK h : sums(h) /\ getNumOfIntermediatePairs = h[n]
  BY <1>6, <1>7
<1>9. \A i \in 0 .. n : h[i] = IF i = 0 THEN 0 ELSE h[i - 1] + Len(vectors[i - 1])
  BY <1>8
<1> HIDE DEF sums
<1> DEFINE differ == {i \in 0 .. n : h[i] # f[i]}
<1>10. differ = {}
  <2> SUFFICES ASSUME differ # {} PROVE FALSE
    OBVIOUS
  <2>1. PICK m \in differ : \A k \in differ : m <= k
    <3>1. differ \in SUBSET Nat
      OBVIOUS
    <3> QED
      BY <3>1, LeastNumber
  <2>2. CASE m = 0
    BY <1>1, <1>4, <1>9, <2>1, <2>2
  <2>3. CASE m # 0
    <3>1. m - 1 \in 0 .. n /\ m \in 1 .. n
      BY <1>1, <2>1, <2>3
    <3>2. h[m - 1] = f[m - 1]
      BY <2>1, <3>1
    <3> QED
      BY <1>5, <1>9, <2>1, <2>3, <3>1, <3>2
  <2> QED
    BY <2>2, <2>3
<1>11. getNumOfIntermediatePairs = f[n]
  BY <1>1, <1>8, <1>10
<1> QED
  BY <1>4, <1>5, <1>11

\* getNumOfIntermediatePairs counts the pairs, as no pair is in two vectors.
LEMMA TotalFacts ==
  ASSUME Apart(intermediateVec_)
  PROVE  /\ IsFiniteSet(AllOf(intermediateVec_))
         /\ getNumOfIntermediatePairs = Cardinality(AllOf(intermediateVec_))
<1>1. PICK vectors \in [Threads -> Seq(Pairs)] : vectors = intermediateVec_
  BY DEF Apart
<1>2. /\ \A t \in Threads : IsInjective(vectors[t])
      /\ \A t, u \in Threads : t # u => Range(vectors[t]) \intersect Range(vectors[u]) = {}
  BY <1>1 DEF Apart
<1> DEFINE n == numOfThreads_
           upTo(i) == UNION {Range(vectors[t]) : t \in 0 .. i - 1}
<1>3. PICK f \in [0 .. n -> Nat] :
        /\ f[0] = 0 /\ getNumOfIntermediatePairs = f[n]
        /\ \A i \in 1 .. n : f[i] = f[i - 1] + Len(vectors[i - 1])
  BY <1>1, TotalSteps
<1>4. n \in Nat /\ \A i \in 1 .. n : i - 1 \in Threads
  BY NumOfThreadsAssumption DEF Threads
<1> DEFINE good(k) == IsFiniteSet(upTo(k)) /\ f[k] = Cardinality(upTo(k))
           bad == {k \in 0 .. n : ~good(k)}
<1> HIDE DEF good
<1>5. bad = {}
  <2> SUFFICES ASSUME bad # {} PROVE FALSE
    OBVIOUS
  <2>1. PICK m \in bad : \A k \in bad : m <= k
    <3>1. bad \in SUBSET Nat
      OBVIOUS
    <3> QED
      BY <3>1, LeastNumber
  <2>2. CASE m = 0
    <3>1. upTo(0) = {}
      OBVIOUS
    <3>2. good(0)
      BY <1>3, <3>1, FS_EmptySet DEF good
    <3> QED
      BY <2>1, <2>2, <3>2
  <2>3. CASE m # 0
    <3>1. m - 1 \in 0 .. n /\ m \in 1 .. n /\ m - 1 \in Threads
      BY <1>4, <2>1, <2>3
    <3>2. good(m - 1)
      BY <2>1, <3>1
    <3> DEFINE before == upTo(m - 1)
               last == Range(vectors[m - 1])
    <3>3. upTo(m) = before \union last
      <4>1. \A t \in 0 .. m - 1 : t \in 0 .. m - 1 - 1 \/ t = m - 1
        BY <1>4, <3>1
      <4>2. m - 1 \in 0 .. m - 1 /\ \A t \in 0 .. m - 1 - 1 : t \in 0 .. m - 1
        BY <1>4, <3>1
      <4> QED
        BY <4>1, <4>2
    <3>4. before \intersect last = {}
      <4>1. \A t \in 0 .. m - 1 - 1 : t \in Threads /\ t # m - 1
        BY <1>4, <3>1 DEF Threads
      <4>2. \A t \in 0 .. m - 1 - 1 : Range(vectors[t]) \intersect last = {}
        BY <1>2, <3>1, <4>1
      <4> QED
        BY <4>2
    <3>5. IsFiniteSet(last) /\ Cardinality(last) = Len(vectors[m - 1])
      BY <1>2, <3>1, InjectiveFacts
    <3> HIDE DEF before, last
    <3>6. /\ IsFiniteSet(before \union last)
          /\ Cardinality(before \union last)
               = Cardinality(before) + Cardinality(last) - Cardinality(before \intersect last)
      BY <3>2, <3>5, FS_Union DEF before, good
    <3>7. f[m] = Cardinality(before) + Cardinality(last)
      BY <1>3, <3>1, <3>2, <3>5 DEF before, good
    <3>8. Cardinality(before \intersect last) = 0 /\ Cardinality(before) \in Nat /\ Cardinality(last) \in Nat
      BY <3>2, <3>4, <3>5, FS_EmptySet, FS_CardinalityType DEF before, good
    <3>9. good(m)
      <4>1. f[m] = Cardinality(before \union last)
        BY <3>6, <3>7, <3>8
      <4> HIDE DEF upTo
      <4> QED
        BY <3>3, <3>6, <4>1, Zenon DEF good
    <3> QED
      BY <2>1, <3>9
  <2> QED
    BY <2>2, <2>3
<1>6. good(n)
  <2>1. n \in 0 .. n
    BY <1>4
  <2> QED
    BY <1>5, <2>1
<1>7. upTo(n) = AllOf(intermediateVec_)
  BY <1>1 DEF AllOf, Threads
<1> QED
  BY <1>3, <1>6, <1>7 DEF good

\* The pairs that map emits for an input.
LEMMA PairFacts ==
  ASSUME inputVec_ \in Jobs
  PROVE  /\ \A i \in Inputs : /\ EmittedBy(i) \in Seq(Pairs) /\ IsInjective(EmittedBy(i))
                              /\ \A p \in Range(EmittedBy(i)) : p.input = i
         /\ \A p \in Pairs : p.key \in Nat /\ p.input \in Inputs /\ p \in Range(EmittedBy(p.input))
<1>1. ASSUME NEW i \in Inputs
      PROVE  /\ EmittedBy(i) \in Seq(Pairs) /\ IsInjective(EmittedBy(i))
             /\ \A p \in Range(EmittedBy(i)) : p.input = i /\ p.key \in Nat
  <2>1. inputVec_[i] \in Seq(Nat)
    BY <1>1, JobsAssumption DEF Inputs
  <2> DEFINE n == Len(inputVec_[i])
             e == [j \in 1 .. n |-> [key |-> inputVec_[i][j], input |-> i, nth |-> j]]
  <2>2. n \in Nat /\ DOMAIN inputVec_[i] = 1 .. n /\ \A j \in 1 .. n : inputVec_[i][j] \in Nat
    BY <2>1, LenProperties, ElementOfSeq
  <2>3. EmittedBy(i) = e
    BY <2>2 DEF EmittedBy, Pair
  <2>4. DOMAIN e = 1 .. n /\ \A j \in 1 .. n : e[j] = [key |-> inputVec_[i][j], input |-> i, nth |-> j]
    OBVIOUS
  <2> HIDE DEF e
  <2>5. ASSUME NEW j \in 1 .. n PROVE e[j].nth = j /\ e[j].input = i /\ e[j].key \in Nat
    <3>1. PICK key \in Nat : key = inputVec_[i][j]
      BY <2>2
    <3>2. e[j] = [key |-> key, input |-> i, nth |-> j]
      BY <2>4, <3>1
    <3> QED
      BY <3>2
  <2>6. IsInjective(e) /\ \A p \in Range(e) : p.input = i /\ p.key \in Nat
    BY <2>4, <2>5 DEF IsInjective, Range
  <2>7. \A j \in 1 .. n : e[j] \in Pairs
    BY <2>3, <2>4 DEF Pairs, Range
  <2>8. e \in Seq(Pairs)
    <3>1. e \in [1 .. n -> Pairs]
      BY <2>4, <2>7 DEF e
    <3> QED
      BY <2>2, <3>1
  <2> QED
    BY <2>3, <2>6, <2>8
<1>2. \A p \in Pairs : p.key \in Nat /\ p.input \in Inputs /\ p \in Range(EmittedBy(p.input))
  BY <1>1 DEF Pairs
<1> QED
  BY <1>1, <1>2

\* Sorting keeps what is in a vector.
LEMMA SortingFacts ==
  ASSUME NEW S, NEW v \in Seq(S), NEW s \in Sortings(v)
  PROVE  /\ s \in Seq(S) /\ Range(s) = Range(v) /\ SortedByKey(s)
         /\ IsInjective(v) => IsInjective(s)
<1>1. /\ Len(v) \in Nat /\ DOMAIN v = 1 .. Len(v) /\ Range(v) \subseteq S
      /\ \A n \in 1 .. Len(v) : v[n] \in Range(v)
  BY LenProperties, InjectiveFacts DEF Range
<1>2. /\ s \in [1 .. Len(v) -> Range(v)] /\ SortedByKey(s)
      /\ \A pair \in Range(v) : Count(s, pair) = Count(v, pair)
  BY <1>1 DEF Sortings
<1>3. s \in Seq(S)
  <2>1. s \in [1 .. Len(v) -> S]
    BY <1>1, <1>2
  <2> QED
    BY <1>1, <2>1
<1> DEFINE At(f, pair) == {n \in 1 .. Len(v) : f[n] = pair}
<1>4. \A pair : Count(s, pair) = Cardinality(At(s, pair)) /\ Count(v, pair) = Cardinality(At(v, pair))
  BY <1>1, <1>2 DEF Count
<1>5. \A pair : IsFiniteSet(At(s, pair)) /\ IsFiniteSet(At(v, pair))
  <2>1. \A a, b \in Int : IsFiniteSet(a .. b)
    BY FS_Interval, Zenon
  <2>2. IsFiniteSet(1 .. Len(v))
    BY <1>1, <2>1
  <2>3. \A T \in SUBSET (1 .. Len(v)) : IsFiniteSet(T)
    BY <2>2, FS_Subset, Zenon
  <2>4. \A pair : At(s, pair) \in SUBSET (1 .. Len(v)) /\ At(v, pair) \in SUBSET (1 .. Len(v))
    OBVIOUS
  <2> HIDE DEF At
  <2> QED
    BY <2>3, <2>4
<1>6. Range(s) = Range(v)
  <2>1. Range(s) \subseteq Range(v)
    BY <1>2 DEF Range
  <2>2. ASSUME NEW pair \in Range(v) PROVE pair \in Range(s)
    <3>1. At(v, pair) # {}
      BY <1>1 DEF Range
    <3>2. Cardinality(At(v, pair)) # 0
      BY <1>5, <3>1, FS_EmptySet
    <3>3. Cardinality(At(s, pair)) # 0
      BY <1>2, <1>4, <3>2
    <3>4. At(s, pair) # {}
      BY <3>3, FS_EmptySet
    <3> QED
      BY <1>2, <3>4 DEF Range
  <2> QED
    BY <2>1, <2>2
<1>7. ASSUME IsInjective(v) PROVE IsInjective(s)
  <2> SUFFICES ASSUME NEW a \in 1 .. Len(v), NEW b \in 1 .. Len(v), s[a] = s[b] PROVE a = b
    BY <1>2 DEF IsInjective
  <2>1. PICK n \in 1 .. Len(v) : v[n] = s[a]
    BY <1>1, <1>2 DEF Range
  <2>2. At(v, s[a]) = {n}
    BY <1>1, <1>7, <2>1 DEF IsInjective
  <2>3. Cardinality(At(v, s[a])) = 1
    BY <2>2, FS_Singleton
  <2>4. Cardinality(At(s, s[a])) = 1
    BY <1>1, <1>2, <1>4, <2>1, <2>3
  <2>5. PICK x : At(s, s[a]) = {x}
    <3>1. PICK T : T = At(s, s[a])
      OBVIOUS
    <3>2. IsFiniteSet(T) /\ Cardinality(T) = 1
      BY <1>5, <2>4, <3>1
    <3> HIDE DEF At
    <3> QED
      BY <3>1, <3>2, FS_Singleton
  <2>6. a \in At(s, s[a]) /\ b \in At(s, s[a])
    OBVIOUS
  <2> QED
    BY <2>5, <2>6
<1> QED
  BY <1>2, <1>3, <1>6, <1>7

\* Finitely many numbers have a bound.
LEMMA BoundFacts ==
  ASSUME NEW n \in Nat, NEW a \in [0 .. n - 1 -> Nat]
  PROVE  \E b \in Nat : \A i \in 0 .. n - 1 : a[i] <= b
<1> DEFINE bounds(k, b) == \A i \in 0 .. k - 1 : a[i] <= b
           without == {k \in 0 .. n : ~ \E b \in Nat : bounds(k, b)}
<1> HIDE DEF bounds
<1>1. without = {}
  <2> SUFFICES ASSUME without # {} PROVE FALSE
    OBVIOUS
  <2>1. PICK m \in without : \A k \in without : m <= k
    <3>1. without \in SUBSET Nat
      OBVIOUS
    <3> QED
      BY <3>1, LeastNumber
  <2>2. CASE m = 0
    <3>1. bounds(0, 0)
      BY DEF bounds
    <3> QED
      BY <2>1, <2>2, <3>1
  <2>3. CASE m # 0
    <3>1. m - 1 \in 0 .. n /\ m \in 1 .. n /\ m - 1 \in 0 .. n - 1
      BY <2>1, <2>3
    <3>2. PICK b \in Nat : bounds(m - 1, b)
      BY <2>1, <3>1
    <3>3. PICK x \in Nat : a[m - 1] = x
      BY <3>1
    <3>4. PICK c \in Nat : b <= c /\ x <= c
      <4>1. b <= b + x /\ x <= b + x /\ b + x \in Nat
        OBVIOUS
      <4> QED
        BY <4>1
    <3>5. ASSUME NEW i \in 0 .. m - 1 PROVE a[i] <= c
      <4>1. i = m - 1 \/ i \in 0 .. m - 1 - 1
        BY <3>1
      <4>2. i \in 0 .. n - 1
        BY <3>1
      <4>3. CASE i = m - 1
        BY <3>3, <3>4, <4>3
      <4>4. CASE i \in 0 .. m - 1 - 1
        <5>1. a[i] \in Nat /\ a[i] <= b
          BY <3>2, <4>2, <4>4 DEF bounds
        <5> QED
          BY <3>4, <5>1
      <4> QED
        BY <4>1, <4>3, <4>4
    <3>6. bounds(m, c)
      BY <3>5 DEF bounds
    <3> QED
      BY <2>1, <3>6
  <2> QED
    BY <2>2, <2>3
<1>2. n \notin without
  BY <1>1
<1> QED
  BY <1>2 DEF bounds

\* The vectors the shuffle takes its groups from.
Stack(v) == v \in Seq(Pairs) /\ IsInjective(v) /\ SortedByKey(v)

\* maxKey is the largest key there is.
LEMMA MaxKeyFacts ==
  ASSUME inputVec_ \in Jobs, \A t \in Threads : Stack(interVecs[t]),
         NEW u \in Threads, interVecs[u] # <<>>
  PROVE  /\ maxKey \in Nat
         /\ \E t \in Threads : interVecs[t] # <<>> /\ Last(interVecs[t]).key = maxKey
         /\ \A p \in AllOf(interVecs) : p.key <= maxKey
<1> DEFINE keys == {Last(interVecs[t]).key : t \in {w \in Threads : interVecs[w] # <<>>}}
<1>1. ASSUME NEW t \in Threads, interVecs[t] # <<>>
      PROVE  /\ Last(interVecs[t]) \in Range(interVecs[t]) /\ Last(interVecs[t]).key \in Nat
             /\ \A p \in Range(interVecs[t]) : p.key <= Last(interVecs[t]).key
  <2>1. PICK v \in Seq(Pairs) : v = interVecs[t] /\ SortedByKey(v)
    BY DEF Stack
  <2>2. Len(v) \in Nat \ {0} /\ DOMAIN v = 1 .. Len(v) /\ \A n \in 1 .. Len(v) : v[n] \in Pairs
    BY <1>1, <2>1, EmptySeq, LenProperties, ElementOfSeq
  <2>3. \A n \in 1 .. Len(v) : v[n].key \in Nat
    BY <2>2, PairFacts
  <2>4. \A n \in 1 .. Len(v) : v[n].key <= v[Len(v)].key
    <3>1. ASSUME NEW n \in 1 .. Len(v) PROVE v[n].key <= v[Len(v)].key
      <4>1. CASE n = Len(v)
        BY <2>3, <4>1
      <4>2. CASE n # Len(v)
        BY <2>1, <2>2, <4>2 DEF SortedByKey
      <4> QED
        BY <4>1, <4>2
    <3> QED
      BY <3>1
  <2>5. Last(v) = v[Len(v)] /\ Len(v) \in 1 .. Len(v)
    BY <2>2 DEF Last
  <2> QED
    BY <2>1, <2>2, <2>3, <2>4, <2>5 DEF Range
<1>2. keys \in SUBSET Nat /\ keys # {}
  BY <1>1
<1>3. PICK n \in Nat : \A x \in keys : x <= n
  <2> DEFINE a == [t \in 0 .. numOfThreads_ - 1 |-> IF interVecs[t] # <<>> THEN Last(interVecs[t]).key ELSE 0]
  <2>1. a \in [0 .. numOfThreads_ - 1 -> Nat]
    BY <1>1 DEF Threads
  <2>2. \A t \in Threads : interVecs[t] # <<>> => a[t] = Last(interVecs[t]).key
    BY DEF Threads
  <2> HIDE DEF a
  <2>3. PICK b \in Nat : \A i \in 0 .. numOfThreads_ - 1 : a[i] <= b
    BY <2>1, NumOfThreadsAssumption, BoundFacts
  <2> QED
    BY <2>2, <2>3 DEF Threads
<1>4. maxKey = Max(keys)
  BY DEF maxKey
<1>5. maxKey \in keys /\ \A x \in keys : x <= maxKey
  BY <1>2, <1>3, <1>4, MaxFacts
<1>6. maxKey \in Nat
  BY <1>2, <1>5
<1>7. \E t \in Threads : interVecs[t] # <<>> /\ Last(interVecs[t]).key = maxKey
  BY <1>5
<1>8. ASSUME NEW p \in AllOf(interVecs) PROVE p.key <= maxKey
  <2>1. PICK t \in Threads : p \in Range(interVecs[t])
    BY DEF AllOf
  <2>2. interVecs[t] # <<>>
    BY <2>1 DEF Range
  <2>3. p.key <= Last(interVecs[t]).key /\ Last(interVecs[t]).key <= maxKey /\ Last(interVecs[t]).key \in Nat
    BY <1>1, <1>5, <2>1, <2>2
  <2>4. p.key \in Nat
    <3>1. p \in Pairs
      BY <2>1, InjectiveFacts DEF Stack
    <3> QED
      BY <3>1, PairFacts
  <2> QED
    BY <1>6, <2>3, <2>4
<1> QED
  BY <1>6, <1>7, <1>8

\* A vector without its last pair.
LEMMA FrontFacts ==
  ASSUME NEW v, Stack(v), v # <<>>
  PROVE  /\ Stack(Front(v)) /\ Last(v) \in Pairs
         /\ Last(v) \in Range(v) /\ Last(v) \notin Range(Front(v))
         /\ \A p : p \in Range(Front(v)) <=> p \in Range(v) /\ p # Last(v)
<1>1. PICK n : n = Len(v) - 1
  OBVIOUS
<1>2. PICK r : r = Front(v)
  OBVIOUS
<1>3. v \in Seq(Pairs) /\ IsInjective(v) /\ SortedByKey(v)
  BY DEF Stack
<1>4. n \in Nat /\ Len(v) = n + 1 /\ DOMAIN v = 1 .. n + 1 /\ \A i \in 1 .. n + 1 : v[i] \in Pairs
  <2>1. Len(v) \in Nat /\ Len(v) # 0 /\ DOMAIN v = 1 .. Len(v) /\ \A i \in 1 .. Len(v) : v[i] \in Pairs
    BY <1>3, LenProperties, ElementOfSeq, EmptySeq
  <2>2. n \in Nat /\ Len(v) = n + 1
    BY <1>1, <2>1
  <2> QED
    BY <2>1, <2>2
<1>5. Last(v) = v[n + 1] /\ n + 1 \in 1 .. n + 1
  BY <1>4 DEF Last
<1>6. r \in Seq(Pairs) /\ DOMAIN r = 1 .. n /\ \A i \in 1 .. n : r[i] = v[i]
  <2>1. r = SubSeq(v, 1, n)
    BY <1>1, <1>2 DEF Front
  <2>2. \A i \in 1 .. n : v[i] \in Pairs
    BY <1>4
  <2>3. 1 \in Int /\ n \in Int
    BY <1>4
  <2>4. r \in Seq(Pairs) /\ Len(r) = IF 1 <= n THEN n - 1 + 1 ELSE 0
    BY <2>1, <2>2, <2>3, SubSeqProperties
  <2>5. \A i \in 1 .. n - 1 + 1 : r[i] = v[1 + i - 1]
    BY <2>1, <2>2, <2>3, SubSeqProperties
  <2>6. Len(r) = n
    BY <1>4, <2>4
  <2>7. \A i \in 1 .. n : r[i] = v[i]
    BY <1>4, <2>5
  <2> QED
    BY <2>4, <2>6, <2>7, LenProperties
<1>7. \A i \in 1 .. n + 1 : i \in 1 .. n \/ i = n + 1
  BY <1>4
<1>8. \A i \in 1 .. n : i \in 1 .. n + 1 /\ i # n + 1
  BY <1>4
<1>9. \A i, j \in 1 .. n + 1 : v[i] = v[j] => i = j
  BY <1>3, <1>4 DEF IsInjective
<1>10. IsInjective(r)
  BY <1>6, <1>8, <1>9 DEF IsInjective
<1>11. SortedByKey(r)
  <2>1. \A i, j \in 1 .. n + 1 : i < j => v[i].key <= v[j].key
    BY <1>3, <1>4 DEF SortedByKey
  <2>2. \A i, j \in 1 .. n : i < j => r[i].key <= r[j].key
    BY <1>6, <1>8, <2>1
  <2> QED
    BY <1>6, <2>2 DEF SortedByKey
<1>12. \A p : p \in Range(r) <=> p \in Range(v) /\ p # v[n + 1]
  <2>1. ASSUME NEW p, p \in Range(r) PROVE p \in Range(v) /\ p # v[n + 1]
    <3>1. PICK i \in 1 .. n : r[i] = p
      BY <1>6, <2>1 DEF Range
    <3>2. i \in 1 .. n + 1 /\ v[i] = p /\ i # n + 1
      BY <1>6, <1>8, <3>1
    <3> QED
      BY <1>4, <1>5, <1>9, <3>2 DEF Range
  <2>2. ASSUME NEW p, p \in Range(v), p # v[n + 1] PROVE p \in Range(r)
    <3>1. PICK i \in 1 .. n + 1 : v[i] = p
      BY <1>4, <2>2 DEF Range
    <3>2. i \in 1 .. n /\ r[i] = p
      BY <1>6, <1>7, <2>2, <3>1
    <3> QED
      BY <1>6, <3>2 DEF Range
  <2> QED
    BY <2>1, <2>2
<1>13. v[n + 1] \in Pairs /\ v[n + 1] \in Range(v)
  BY <1>4, <1>5 DEF Range
<1> QED
  BY <1>2, <1>5, <1>6, <1>10, <1>11, <1>12, <1>13 DEF Stack


-----------------------------------------------------------------------------
(* The inductive invariant of the data *)

\* The groups: never empty, each of one key, largest key first, no pair twice.
Grouped == UNION {Range(shuffledQueue_[g]) : g \in DOMAIN shuffledQueue_}
Groups ==
  /\ shuffledQueue_ \in Seq(Seq(Pairs))
  /\ \A g \in DOMAIN shuffledQueue_ :
       /\ shuffledQueue_[g] # <<>> /\ IsInjective(shuffledQueue_[g])
       /\ \A p, q \in Range(shuffledQueue_[g]) : p.key = q.key
  /\ \A g, h \in DOMAIN shuffledQueue_ : g < h =>
       \A p \in Range(shuffledQueue_[g]), q \in Range(shuffledQueue_[h]) : p.key > q.key

\* The key of the group that is item g of the reduce.
keyOf(g) == shuffledQueue_[g + 1][1].key

Reported(stage, count) == jobStateBitwise_ = stage + 4 * count
Busy(labels) == {t \in Threads : pc[t] \in labels}

\* While the workers map: an input below the counter has been mapped or is in
\* the hands of one worker.
Fetched ==
  \A t \in Busy({"map"}) :
    /\ ix[t] \in Inputs /\ ix[t] < atomicNextItemToProcess_
    /\ \A p \in AllOf(intermediateVec_) : p.input # ix[t]
    /\ \A u \in Busy({"map"}) : ix[u] = ix[t] => u = t
Emitted ==
  /\ \A p \in AllOf(intermediateVec_) : p.input < atomicNextItemToProcess_
  /\ \A i \in Inputs : i < atomicNextItemToProcess_ =>
       (\E t \in Busy({"map"}) : ix[t] = i) \/ Range(EmittedBy(i)) \subseteq AllOf(intermediateVec_)
Sorted ==
  /\ Busy({"sort", "barrier1"}) # {} => atomicNextItemToProcess_ >= NumInputs
  /\ \A t \in Busy({"barrier1"}) : SortedByKey(intermediateVec_[t])
MapReported ==
  \E count \in 0 .. NumInputs :
    /\ count + Cardinality(Busy({"map", "mapCount"}))
         = IF atomicNextItemToProcess_ < NumInputs THEN atomicNextItemToProcess_ ELSE NumInputs
    /\ \/ Reported(MAP_STAGE, count)
       \/ jobStateBitwise_ = 0 /\ count = 0 /\ Busy({"none", "start"}) = Threads
MapData ==
  /\ shuffledQueue_ = <<>> /\ outputVec_ = <<>>
  /\ Fetched /\ Emitted /\ Sorted /\ MapReported

\* While thread 0 shuffles: a pair is in a group or in a vector, and the keys in
\* the vectors are not above those of the groups.
Unshuffled ==
  /\ Apart(interVecs) /\ \A t \in Threads : SortedByKey(interVecs[t])
  /\ AllOf(interVecs) \union Grouped = Pairs
  /\ AllOf(interVecs) \intersect Grouped = {}
  /\ \A p \in AllOf(interVecs), q \in Grouped : p.key <= q.key
ShuffleData ==
  /\ AllOf(intermediateVec_) = Pairs /\ \A t \in Threads : SortedByKey(intermediateVec_[t])
  /\ outputVec_ = <<>>
  /\ pc[0] \in {"barrier1", "toShuffle"} => Reported(MAP_STAGE, NumInputs)
  /\ pc[0] \in {"barrier1", "toShuffle", "shuffleLock", "shuffleCopy"} => shuffledQueue_ = <<>>
  /\ pc[0] \in {"shuffleLock", "shuffleCopy", "shuffle", "toReduce"} =>
       Reported(SHUFFLE_STAGE, Cardinality(Grouped))
  /\ pc[0] = "shuffle" => Unshuffled
  /\ pc[0] \in {"toReduce", "barrier2"} => Grouped = Pairs /\ atomicNextItemToProcess_ = 0
  /\ pc[0] = "barrier2" => Reported(REDUCE_STAGE, 0)

\* While the workers reduce: a group below the counter has been reduced or is in
\* the hands of one worker.
Copied ==
  \A t \in Busy({"reduceFetch", "reduce", "reduceCount", "done"}) : shuffleQueue[t] = shuffledQueue_
InHand ==
  \A t \in Busy({"reduce", "reduceCount"}) :
    /\ ix[t] < Len(shuffledQueue_) /\ ix[t] < atomicNextItemToProcess_
    /\ \A u \in Busy({"reduce", "reduceCount"}) : ix[u] = ix[t] => u = t
    /\ pc[t] = "reduce" <=> keyOf(ix[t]) \notin Range(outputVec_)
Output ==
  /\ IsInjective(outputVec_)
  /\ \A key \in Range(outputVec_) :
       \E g \in 0 .. Len(shuffledQueue_) - 1 : g < atomicNextItemToProcess_ /\ key = keyOf(g)
  /\ \A g \in 0 .. Len(shuffledQueue_) - 1 : g < atomicNextItemToProcess_ =>
       (\E t \in Busy({"reduce"}) : ix[t] = g) \/ keyOf(g) \in Range(outputVec_)
  /\ Busy({"done"}) # {} => atomicNextItemToProcess_ >= Len(shuffledQueue_)
Counted ==
  {p \in Pairs : p.key \in Range(outputVec_) /\ \A t \in Busy({"reduceCount"}) : p.key # keyOf(ix[t])}
ReduceData ==
  /\ AllOf(intermediateVec_) = Pairs /\ Grouped = Pairs
  /\ Copied /\ InHand /\ Output
  /\ Reported(REDUCE_STAGE, Cardinality(Counted))

Basic ==
  /\ inputVec_ \in Jobs /\ atomicNextItemToProcess_ \in Nat
  /\ ix \in [Threads -> Nat] /\ outputVec_ \in Seq(Nat) /\ DOMAIN shuffleQueue = Threads
  /\ Apart(intermediateVec_) /\ Groups
DInv ==
  /\ Basic
  /\ (\A t \in Threads : Phase1(t)) => MapData
  /\ (\A t \in Threads : Phase2(t)) => ShuffleData
  /\ (\A t \in Threads : Phase3(t)) => ReduceData

-----------------------------------------------------------------------------
(* Phases and steps *)

\* The workers in one phase are in no other, and a worker's label tells the phase.
LEMMA PhaseFacts ==
  ASSUME SamePhase
  PROVE  /\ (\A u \in Threads : Phase1(u)) => ~(\A u \in Threads : Phase2(u)) /\ ~(\A u \in Threads : Phase3(u))
         /\ (\A u \in Threads : Phase2(u)) => ~(\A u \in Threads : Phase1(u)) /\ ~(\A u \in Threads : Phase3(u))
         /\ (\A u \in Threads : Phase3(u)) => ~(\A u \in Threads : Phase1(u)) /\ ~(\A u \in Threads : Phase2(u))
         /\ \A t \in Threads :
              /\ pc[t] \in Mapping => \A u \in Threads : Phase1(u)
              /\ pc[t] \in Shuffling => t = 0 /\ \A u \in Threads : Phase2(u)
              /\ pc[t] \in Reducing => \A u \in Threads : Phase3(u)
<1>1. \A t \in Threads : ~(Phase1(t) /\ Phase2(t)) /\ ~(Phase1(t) /\ Phase3(t)) /\ ~(Phase2(t) /\ Phase3(t))
  BY DEF Phase1, Phase2, Phase3, Mapping, Shuffling, Reducing, Entering, Leaving
<1>2. \A t \in Threads : /\ pc[t] \in Mapping => ~Phase2(t) /\ ~Phase3(t)
                         /\ pc[t] \in Shuffling => ~Phase1(t) /\ ~Phase3(t) /\ (Phase2(t) => t = 0)
                         /\ pc[t] \in Reducing => ~Phase1(t) /\ ~Phase2(t)
  BY DEF Phase1, Phase2, Phase3, Mapping, Shuffling, Reducing, Entering, Leaving
<1> QED
  BY <1>1, <1>2, ThreadsFacts DEF SamePhase

\* The labels of a phase.
LEMMA LabelFacts ==
  /\ (\A u \in Threads : Phase1(u)) => \A u \in Threads : pc[u] \in Mapping \union {"barrier1"}
  /\ (\A u \in Threads : Phase2(u)) => \A u \in Threads : pc[u] \in Shuffling \union {"barrier1", "barrier2"}
  /\ (\A u \in Threads : Phase3(u)) => \A u \in Threads : pc[u] \in Reducing \union {"barrier2"}
  BY DEF Phase1, Phase2, Phase3

\* A set of workers after a step of one of them.
LEMMA BusyFacts ==
  ASSUME MTypeOK, NEW t \in Threads, NEW l, pc' = [pc EXCEPT ![t] = l]
  PROVE  /\ pc'[t] = l /\ \A u \in Threads : u # t => pc'[u] = pc[u]
         /\ \A labels : /\ IsFiniteSet(Busy(labels)) /\ Cardinality(Busy(labels)) \in Nat
                        /\ Busy(labels)' = IF l \in labels THEN Busy(labels) \union {t} ELSE Busy(labels) \ {t}
                        /\ Cardinality(Busy(labels)') =
                             CASE l \in labels /\ pc[t] \notin labels -> Cardinality(Busy(labels)) + 1
                               [] l \notin labels /\ pc[t] \in labels -> Cardinality(Busy(labels)) - 1
                               [] OTHER -> Cardinality(Busy(labels))
<1>1. pc'[t] = l /\ \A u \in Threads : u # t => pc'[u] = pc[u]
  BY DEF MTypeOK
<1>2. ASSUME NEW labels
      PROVE  /\ IsFiniteSet(Busy(labels)) /\ Cardinality(Busy(labels)) \in Nat
             /\ Busy(labels)' = IF l \in labels THEN Busy(labels) \union {t} ELSE Busy(labels) \ {t}
             /\ Cardinality(Busy(labels)') =
                  CASE l \in labels /\ pc[t] \notin labels -> Cardinality(Busy(labels)) + 1
                    [] l \notin labels /\ pc[t] \in labels -> Cardinality(Busy(labels)) - 1
                    [] OTHER -> Cardinality(Busy(labels))
  <2>1. IsFiniteSet(Busy(labels)) /\ Cardinality(Busy(labels)) \in Nat
    <3>1. Busy(labels) \in SUBSET Threads
      BY DEF Busy
    <3> QED
      BY <3>1, ThreadsFacts, FS_Subset, FS_CardinalityType
  <2>2. Busy(labels)' = IF l \in labels THEN Busy(labels) \union {t} ELSE Busy(labels) \ {t}
    BY <1>1 DEF Busy
  <2>3. t \in Busy(labels) <=> pc[t] \in labels
    BY DEF Busy
  <2>4. PICK B : B = Busy(labels)
    OBVIOUS
  <2>5. Cardinality(B \union {t}) = IF t \in B THEN Cardinality(B) ELSE Cardinality(B) + 1
    BY <2>1, <2>4, FS_AddElement
  <2>6. Cardinality(B \ {t}) = IF t \in B THEN Cardinality(B) - 1 ELSE Cardinality(B)
    BY <2>1, <2>4, FS_RemoveElement
  <2>7. CASE l \in labels
    BY <2>2, <2>3, <2>4, <2>5, <2>1, <2>7
  <2>8. CASE l \notin labels
    BY <2>2, <2>3, <2>4, <2>6, <2>1, <2>8
  <2> QED
    BY <2>7, <2>8
<1> QED
  BY <1>1, <1>2

\* A vector in the place of another.
Fits(vs, t, v) ==
  /\ Apart(vs) /\ t \in Threads /\ v \in Seq(Pairs) /\ IsInjective(v)
  /\ \A u \in Threads : u # t => Range(v) \intersect Range(vs[u]) = {}
Replaced(vs, t, v, ws) ==
  /\ Apart(ws) /\ ws[t] = v /\ \A u \in Threads : u # t => ws[u] = vs[u]
  /\ \A p : p \in AllOf(ws) <=> p \in Range(v) \/ \E u \in Threads : u # t /\ p \in Range(vs[u])

\* Giving one worker another vector keeps the vectors apart.
LEMMA ReplaceFacts ==
  ASSUME NEW vs, NEW t, NEW v, NEW ws, Fits(vs, t, v), ws = [vs EXCEPT ![t] = v]
  PROVE  Replaced(vs, t, v, ws)
<1>0. /\ Apart(vs) /\ t \in Threads /\ v \in Seq(Pairs) /\ IsInjective(v)
      /\ \A u \in Threads : u # t => Range(v) \intersect Range(vs[u]) = {}
  BY DEF Fits
<1>1. vs \in [Threads -> Seq(Pairs)]
  BY <1>0 DEF Apart
<1>2. ws \in [Threads -> Seq(Pairs)] /\ ws[t] = v /\ \A u \in Threads : u # t => ws[u] = vs[u]
  BY <1>0, <1>1
<1>3. \A u \in Threads : IsInjective(ws[u])
  BY <1>0, <1>2 DEF Apart
<1>4. ASSUME NEW a \in Threads, NEW b \in Threads, a # b PROVE Range(ws[a]) \intersect Range(ws[b]) = {}
  <2>1. CASE a = t
    BY <1>0, <1>2, <1>4, <2>1
  <2>2. CASE b = t
    BY <1>0, <1>2, <1>4, <2>2
  <2>3. CASE a # t /\ b # t
    BY <1>0, <1>2, <1>4, <2>3 DEF Apart
  <2> QED
    BY <2>1, <2>2, <2>3
<1>5. Apart(ws)
  BY <1>2, <1>3, <1>4 DEF Apart
<1>6. \A p : p \in AllOf(ws) <=> p \in Range(v) \/ \E u \in Threads : u # t /\ p \in Range(vs[u])
  BY <1>0, <1>2 DEF AllOf
<1> QED
  BY <1>2, <1>5, <1>6 DEF Replaced

\* What a step does to the counts: the packed state in its two parts.
LEMMA StateFacts ==
  ASSUME NEW stage \in {MAP_STAGE, SHUFFLE_STAGE, REDUCE_STAGE}, NEW count \in Nat
  PROVE  /\ stageOf(stage + 4 * count) = stage
         /\ processedOf(stage + 4 * count) = count
<1> USE DEF MAP_STAGE, SHUFFLE_STAGE, REDUCE_STAGE
<1>1. stageOf(stage + 4 * count) = stage
  BY DEF stageOf
<1>2. processedOf(stage + 4 * count) = count
  BY DEF processedOf
<1> QED
  BY <1>1, <1>2

-----------------------------------------------------------------------------
(* The workers map *)

\* The inputs' pairs stay what they are.
LEMMA SameInputs ==
  ASSUME UNCHANGED inputVec_
  PROVE  Pairs' = Pairs /\ \A i : EmittedBy(i)' = EmittedBy(i)
  BY DEF Pairs, EmittedBy

\* setJobStage: the first worker starts the map stage, the others find it started.
LEMMA MapStageKeeps ==
  ASSUME MTypeOK, Basic, MapData, NEW t \in Threads, mapStage(t)
  PROVE  MapData'
<1>1. /\ pc[t] = "start" /\ setJobStage(MAP_STAGE) /\ pc' = [pc EXCEPT ![t] = "mapFetch"]
      /\ UNCHANGED <<inputVec_, atomicNextItemToProcess_, intermediateVec_, shuffledQueue_, outputVec_, ix>>
  BY DEF mapStage, go, data
<1>2. /\ Busy({"map"})' = Busy({"map"}) /\ Busy({"sort", "barrier1"})' = Busy({"sort", "barrier1"})
      /\ Busy({"barrier1"})' = Busy({"barrier1"}) /\ Busy({"map", "mapCount"})' = Busy({"map", "mapCount"})
  BY <1>1, BusyFacts DEF Busy, MTypeOK
<1>3. Fetched' /\ Emitted' /\ Sorted'
  BY <1>1, <1>2, SameInputs DEF MapData, Fetched, Emitted, Sorted, AllOf
<1>4. MapReported'
  <2>1. PICK count \in 0 .. NumInputs :
          /\ count + Cardinality(Busy({"map", "mapCount"}))
               = IF atomicNextItemToProcess_ < NumInputs THEN atomicNextItemToProcess_ ELSE NumInputs
          /\ Reported(MAP_STAGE, count) \/ (jobStateBitwise_ = 0 /\ count = 0)
    BY DEF MapData, MapReported
  <2>2. jobStateBitwise_' = MAP_STAGE + 4 * count
    <3>1. CASE Reported(MAP_STAGE, count)
      <4>1. stageOf(MAP_STAGE + 4 * count) = MAP_STAGE
        BY StateFacts
      <4> QED
        BY <1>1, <3>1, <4>1 DEF Reported, setJobStage
    <3>2. CASE jobStateBitwise_ = 0 /\ count = 0
      BY <1>1, <3>2 DEF setJobStage, stageOf, MAP_STAGE
    <3> QED
      BY <2>1, <3>1, <3>2
  <2> QED
    BY <1>1, <1>2, <2>1, <2>2 DEF MapReported, Reported
<1> QED
  BY <1>1, <1>3, <1>4 DEF MapData

\* The fetch-and-add gives every input to one worker.
LEMMA MapFetchKeeps ==
  ASSUME MTypeOK, Basic, MapData, NEW t \in Threads, mapFetch(t)
  PROVE  MapData'
<1> DEFINE n == atomicNextItemToProcess_
           l == IF n < NumInputs THEN "map" ELSE "sort"
<1>1. /\ pc[t] = "mapFetch" /\ pc' = [pc EXCEPT ![t] = l] /\ n' = n + 1
      /\ ix' = [ix EXCEPT ![t] = n]
      /\ UNCHANGED <<inputVec_, jobStateBitwise_, intermediateVec_, shuffledQueue_, outputVec_>>
  BY DEF mapFetch, fetch, go, data
<1>2. n \in Nat /\ NumInputs \in Nat /\ ix \in [Threads -> Nat]
  BY NumInputsAssumption DEF Basic
<1>3. ix'[t] = n /\ \A u \in Threads : u # t => ix'[u] = ix[u]
  BY <1>1, <1>2
<1>4. pc'[t] = l /\ \A u \in Threads : u # t => pc'[u] = pc[u]
  BY <1>1, BusyFacts
<1> HIDE DEF l
<1>5. \A u \in Busy({"map"}) : /\ u # t /\ ix[u] \in Inputs /\ ix[u] < n
                               /\ \A p \in AllOf(intermediateVec_) : p.input # ix[u]
                               /\ \A w \in Busy({"map"}) : ix[w] = ix[u] => w = u
  BY <1>1 DEF MapData, Fetched, Busy
<1>6. \A u \in Busy({"map"})' : u \in Busy({"map"}) \/ (u = t /\ n < NumInputs)
  BY <1>4 DEF Busy, l
<1>7. /\ \A p \in AllOf(intermediateVec_) : p.input < n
      /\ \A i \in Inputs : i < n =>
           (\E u \in Busy({"map"}) : ix[u] = i) \/ Range(EmittedBy(i)) \subseteq AllOf(intermediateVec_)
  BY DEF MapData, Emitted
<1>8. Pairs' = Pairs /\ \A i : EmittedBy(i)' = EmittedBy(i)
  BY <1>1, SameInputs
<1>9. AllOf(intermediateVec_)' = AllOf(intermediateVec_) /\ AllOf(intermediateVec_) \subseteq Pairs
  <2>1. \A u \in Threads : Range(intermediateVec_[u]) \subseteq Pairs
    BY InjectiveFacts DEF Basic, Apart
  <2> QED
    BY <1>1, <2>1 DEF AllOf
<1>10. Fetched'
  <2>1. ASSUME NEW u \in Busy({"map"})'
        PROVE  /\ ix'[u] \in Inputs /\ ix'[u] < n + 1
               /\ \A p \in AllOf(intermediateVec_) : p.input # ix'[u]
               /\ \A w \in Busy({"map"})' : ix'[w] = ix'[u] => w = u
    <3>0. u \in Threads
      BY DEF Busy
    <3>1. CASE u \in Busy({"map"})
      <4>1. ix'[u] = ix[u] /\ ix[u] \in Inputs /\ ix[u] < n /\ ix[u] \in Nat
        BY <1>2, <1>3, <1>5, <3>0, <3>1
      <4>2. ASSUME NEW w \in Busy({"map"})', ix'[w] = ix'[u] PROVE w = u
        <5>1. CASE w \in Busy({"map"})
          <6>1. ix'[w] = ix[w]
            BY <1>3, <1>5, <5>1 DEF Busy
          <6> QED
            BY <1>5, <3>1, <4>1, <4>2, <5>1, <6>1
        <5>2. CASE w = t
          BY <1>2, <1>3, <4>1, <4>2, <5>2
        <5> QED
          BY <1>6, <5>1, <5>2
      <4> QED
        BY <1>2, <1>5, <3>1, <4>1, <4>2
    <3>2. CASE u = t /\ n < NumInputs
      <4>1. ix'[u] = n /\ n \in Inputs
        BY <1>2, <1>3, <3>2 DEF Inputs
      <4>2. ASSUME NEW w \in Busy({"map"})', ix'[w] = ix'[u] PROVE w = u
        <5>1. CASE w \in Busy({"map"})
          <6>1. ix'[w] = ix[w] /\ ix[w] < n /\ ix[w] \in Nat
            BY <1>2, <1>3, <1>5, <5>1 DEF Busy
          <6> QED
            BY <1>2, <4>1, <4>2, <6>1
        <5> QED
          BY <1>6, <3>2, <5>1
      <4>3. \A p \in AllOf(intermediateVec_) : p.input # n
        <5>1. \A p \in AllOf(intermediateVec_) : p.input < n /\ p.input \in Int
          BY <1>7, <1>9, PairFacts DEF Basic, Inputs
        <5> QED
          BY <1>2, <5>1
      <4> QED
        BY <1>2, <4>1, <4>2, <4>3
    <3> QED
      BY <1>6, <3>1, <3>2
  <2> QED
    BY <1>1, <1>9, <2>1 DEF Fetched, Inputs
<1>11. Emitted'
  <2>1. \A p \in AllOf(intermediateVec_) : p.input < n + 1
    <3>1. \A p \in AllOf(intermediateVec_) : p.input < n /\ p.input \in Int
      BY <1>7, <1>9, PairFacts DEF Basic, Inputs
    <3> QED
      BY <1>2, <3>1
  <2>2. ASSUME NEW i \in Inputs, i < n + 1
        PROVE  (\E u \in Busy({"map"})' : ix'[u] = i) \/ Range(EmittedBy(i)) \subseteq AllOf(intermediateVec_)
    <3>1. i \in Int
      BY DEF Inputs
    <3>2. CASE i < n
      <4>1. CASE \E u \in Busy({"map"}) : ix[u] = i
        <5>1. PICK u \in Busy({"map"}) : ix[u] = i
          BY <4>1
        <5>2. u \in Threads /\ u # t /\ pc'[u] = "map" /\ ix'[u] = i
          BY <1>3, <1>4, <1>5, <5>1 DEF Busy
        <5> QED
          BY <5>2 DEF Busy
      <4> QED
        BY <1>7, <3>2, <4>1
    <3>3. CASE i = n
      <4>1. n < NumInputs
        BY <1>2, <3>3 DEF Inputs
      <4>2. t \in Busy({"map"})' /\ ix'[t] = i
        BY <1>3, <1>4, <3>3, <4>1 DEF Busy, l
      <4> QED
        BY <4>2
    <3> QED
      BY <1>2, <2>2, <3>1, <3>2, <3>3
  <2> QED
    BY <1>1, <1>8, <1>9, <2>1, <2>2 DEF Emitted, Inputs
<1>12. Sorted'
  <2>1. n < NumInputs => Busy({"sort", "barrier1"})' = Busy({"sort", "barrier1"})
    BY <1>1, <1>4 DEF Busy, l
  <2>2. Busy({"barrier1"})' = Busy({"barrier1"})
    BY <1>1, <1>4 DEF Busy, l
  <2>3. Busy({"sort", "barrier1"}) # {} => n >= NumInputs
    BY DEF MapData, Sorted
  <2>4. Busy({"sort", "barrier1"})' # {} => n + 1 >= NumInputs
    BY <1>2, <2>1, <2>3
  <2> QED
    BY <1>1, <2>2, <2>4 DEF MapData, Sorted, SortedByKey
<1>13. MapReported'
  <2> DEFINE B == Busy({"map", "mapCount"})
  <2>1. PICK count \in 0 .. NumInputs :
          /\ count + Cardinality(B) = IF n < NumInputs THEN n ELSE NumInputs
          /\ Reported(MAP_STAGE, count)
    BY <1>1 DEF MapData, MapReported, Busy
  <2>2. Cardinality(B) \in Nat /\ Cardinality(B') = IF n < NumInputs THEN Cardinality(B) + 1 ELSE Cardinality(B)
    <3>1. IsFiniteSet(B) /\ Cardinality(B) \in Nat
      BY <1>1, BusyFacts
    <3>2. CASE n < NumInputs
      <4>1. B' = B \union {t} /\ t \notin B
        BY <1>1, <1>4, <3>2 DEF Busy, l
      <4>2. PICK b : b = B
        OBVIOUS
      <4>3. Cardinality(b \union {t}) = Cardinality(b) + 1
        BY <3>1, <4>1, <4>2, FS_AddElement
      <4> QED
        BY <3>1, <3>2, <4>1, <4>2, <4>3
    <3>3. CASE ~(n < NumInputs)
      <4>1. B' = B
        BY <1>1, <1>4, <3>3 DEF Busy, l
      <4> QED
        BY <3>1, <3>3, <4>1
    <3> QED
      BY <3>2, <3>3
  <2>3. count + Cardinality(B') = IF n + 1 < NumInputs THEN n + 1 ELSE NumInputs
    BY <1>2, <2>1, <2>2
  <2>4. Reported(MAP_STAGE, count)'
    BY <1>1, <2>1 DEF Reported
  <2> QED
    BY <1>1, <2>1, <2>3, <2>4 DEF MapReported
<1> QED
  BY <1>1, <1>10, <1>11, <1>12, <1>13 DEF MapData

\* What is known of a worker that maps, from the parts of MapData.
LEMMA VectorFacts ==
  ASSUME Apart(intermediateVec_)
  PROVE  /\ \A t \in Threads : /\ intermediateVec_[t] \in Seq(Pairs) /\ IsInjective(intermediateVec_[t])
                               /\ Range(intermediateVec_[t]) \subseteq AllOf(intermediateVec_)
         /\ AllOf(intermediateVec_) \subseteq Pairs
<1>1. \A t \in Threads : intermediateVec_[t] \in Seq(Pairs) /\ IsInjective(intermediateVec_[t])
  BY DEF Apart
<1>2. \A t \in Threads : Range(intermediateVec_[t]) \subseteq Pairs
  BY <1>1, InjectiveFacts
<1> QED
  BY <1>1, <1>2 DEF AllOf

\* What the client's map emits for an input is in one worker's vector, once.
LEMMA InvokeMapKeeps ==
  ASSUME MTypeOK, Basic, MapData, NEW t \in Threads, invokeMap(t)
  PROVE  MapData' /\ Apart(intermediateVec_)'
<1> DEFINE n == atomicNextItemToProcess_
           i == ix[t]
           v == intermediateVec_[t]
           w == v \o EmittedBy(i)
<1>1. /\ pc[t] = "map" /\ pc' = [pc EXCEPT ![t] = "mapCount"]
      /\ intermediateVec_' = [intermediateVec_ EXCEPT ![t] = w]
      /\ UNCHANGED <<inputVec_, jobStateBitwise_, atomicNextItemToProcess_, shuffledQueue_, outputVec_, ix>>
  BY DEF invokeMap, go, jobState
<1>2. /\ pc'[t] = "mapCount" /\ \A u \in Threads : u # t => pc'[u] = pc[u]
      /\ t \in Busy({"map"})
  BY <1>1, BusyFacts DEF Busy
<1>3. /\ i \in Inputs /\ i < n /\ \A p \in AllOf(intermediateVec_) : p.input # i
      /\ \A u \in Busy({"map"}) : u # t => ix[u] # i
  BY <1>2 DEF MapData, Fetched
<1>4. /\ EmittedBy(i) \in Seq(Pairs) /\ IsInjective(EmittedBy(i))
      /\ \A p \in Range(EmittedBy(i)) : p.input = i
  BY <1>3, PairFacts DEF Basic
<1>5. /\ v \in Seq(Pairs) /\ IsInjective(v) /\ Apart(intermediateVec_)
      /\ \A u \in Threads : Range(intermediateVec_[u]) \subseteq AllOf(intermediateVec_)
  BY VectorFacts DEF Basic
<1> HIDE DEF v, i
<1>6. Range(v) \intersect Range(EmittedBy(i)) = {}
  BY <1>3, <1>4, <1>5 DEF v
<1>7. w \in Seq(Pairs) /\ IsInjective(w) /\ Range(w) = Range(v) \union Range(EmittedBy(i))
  BY <1>4, <1>5, <1>6, ConcatFacts
<1> HIDE DEF w
<1>8. \A u \in Threads : u # t => Range(w) \intersect Range(intermediateVec_[u]) = {}
  <2>1. \A u \in Threads : u # t => Range(v) \intersect Range(intermediateVec_[u]) = {}
    BY DEF v, Basic, Apart
  <2>2. \A u \in Threads : Range(EmittedBy(i)) \intersect Range(intermediateVec_[u]) = {}
    BY <1>3, <1>4, <1>5
  <2> QED
    BY <1>7, <2>1, <2>2
<1>9. PICK ws : ws = intermediateVec_'
  OBVIOUS
<1>10. /\ Apart(ws) /\ ws[t] = w /\ \A u \in Threads : u # t => ws[u] = intermediateVec_[u]
       /\ \A p : p \in AllOf(ws) <=>
            p \in Range(w) \/ \E u \in Threads : u # t /\ p \in Range(intermediateVec_[u])
  <2>1. Fits(intermediateVec_, t, w)
    BY <1>5, <1>7, <1>8 DEF Fits
  <2>2. Replaced(intermediateVec_, t, w, ws)
    BY <1>1, <1>9, <2>1, ReplaceFacts, Zenon
  <2> QED
    BY <2>2 DEF Replaced
<1>11. \A p : p \in AllOf(ws) <=> p \in AllOf(intermediateVec_) \/ p \in Range(EmittedBy(i))
  <2>1. \A p : p \in AllOf(intermediateVec_) <=>
          p \in Range(v) \/ \E u \in Threads : u # t /\ p \in Range(intermediateVec_[u])
    BY DEF AllOf, v
  <2> QED
    BY <1>7, <1>10, <2>1
<1>12. Pairs' = Pairs /\ \A j : EmittedBy(j)' = EmittedBy(j)
  BY <1>1, SameInputs
<1>13. AllOf(intermediateVec_)' = AllOf(ws)
  BY <1>9 DEF AllOf
<1>14. Apart(intermediateVec_)'
  BY <1>9, <1>10, <1>12 DEF Apart
<1>15. Fetched'
  <2>1. ASSUME NEW u \in Busy({"map"})'
        PROVE  /\ u \in Busy({"map"}) /\ u # t
               /\ ix[u] \in Inputs /\ ix[u] < n /\ \A p \in AllOf(ws) : p.input # ix[u]
               /\ \A x \in Busy({"map"})' : ix[x] = ix[u] => x = u
    <3>1. u \in Busy({"map"}) /\ u # t
      BY <1>2 DEF Busy
    <3>2. /\ ix[u] \in Inputs /\ ix[u] < n /\ \A p \in AllOf(intermediateVec_) : p.input # ix[u]
          /\ \A x \in Busy({"map"}) : ix[x] = ix[u] => x = u
      BY <3>1 DEF MapData, Fetched
    <3>3. ix[u] # i
      BY <1>3, <3>1
    <3>4. \A p \in AllOf(ws) : p.input # ix[u]
      BY <1>4, <1>11, <3>2, <3>3
    <3>5. \A x \in Busy({"map"})' : x \in Busy({"map"})
      BY <1>2 DEF Busy
    <3> QED
      BY <3>1, <3>2, <3>4, <3>5
  <2> QED
    BY <1>1, <1>13, <2>1 DEF Fetched, Inputs
<1>16. Emitted'
  <2>1. \A p \in AllOf(ws) : p.input < n
    BY <1>3, <1>4, <1>11 DEF MapData, Emitted
  <2>2. ASSUME NEW j \in Inputs, j < n
        PROVE  (\E u \in Busy({"map"})' : ix[u] = j) \/ Range(EmittedBy(j)) \subseteq AllOf(ws)
    <3>1. CASE j = i
      BY <1>11, <3>1
    <3>2. CASE j # i
      <4>1. (\E u \in Busy({"map"}) : ix[u] = j) \/ Range(EmittedBy(j)) \subseteq AllOf(intermediateVec_)
        BY <2>2 DEF MapData, Emitted
      <4>2. ASSUME NEW u \in Busy({"map"}), ix[u] = j PROVE u \in Busy({"map"})'
        BY <1>2, <3>2, <4>2 DEF Busy, i
      <4> QED
        BY <1>11, <4>1, <4>2
    <3> QED
      BY <3>1, <3>2
  <2> QED
    BY <1>1, <1>12, <1>13, <2>1, <2>2 DEF Emitted, Inputs
<1>17. Sorted'
  <2>1. Busy({"sort", "barrier1"})' = Busy({"sort", "barrier1"}) /\ Busy({"barrier1"})' = Busy({"barrier1"})
    BY <1>1, <1>2 DEF Busy
  <2>2. \A u \in Busy({"barrier1"}) : ws[u] = intermediateVec_[u] /\ SortedByKey(intermediateVec_[u])
    BY <1>1, <1>10 DEF Busy, MapData, Sorted
  <2>3. \A u \in Busy({"barrier1"})' : SortedByKey(ws[u])
    BY <2>1, <2>2
  <2> QED
    BY <1>1, <1>9, <2>1, <2>3 DEF MapData, Sorted, SortedByKey
<1>18. MapReported'
  <2>1. Cardinality(Busy({"map", "mapCount"})') = Cardinality(Busy({"map", "mapCount"}))
    BY <1>1, BusyFacts
  <2>2. PICK count \in 0 .. NumInputs :
          /\ count + Cardinality(Busy({"map", "mapCount"})) = IF n < NumInputs THEN n ELSE NumInputs
          /\ Reported(MAP_STAGE, count)
    BY <1>1 DEF MapData, MapReported, Busy
  <2> QED
    BY <1>1, <2>1, <2>2 DEF MapReported, Reported
<1> QED
  BY <1>1, <1>14, <1>15, <1>16, <1>17, <1>18 DEF MapData

\* An input is counted after its pairs are there.
LEMMA MapCountKeeps ==
  ASSUME MTypeOK, Basic, MapData, NEW t \in Threads, mapCount(t)
  PROVE  MapData'
<1> DEFINE n == atomicNextItemToProcess_
           B == Busy({"map", "mapCount"})
<1>1. /\ pc[t] = "mapCount" /\ pc' = [pc EXCEPT ![t] = "mapFetch"]
      /\ addNumberOfProcessedItems(MAP_STAGE, 1)
      /\ UNCHANGED <<inputVec_, atomicNextItemToProcess_, intermediateVec_, shuffledQueue_, outputVec_, ix>>
  BY DEF mapCount, go, data
<1>2. /\ Busy({"map"})' = Busy({"map"}) /\ Busy({"sort", "barrier1"})' = Busy({"sort", "barrier1"})
      /\ Busy({"barrier1"})' = Busy({"barrier1"})
  BY <1>1, BusyFacts DEF Busy, MTypeOK
<1>3. Fetched' /\ Emitted' /\ Sorted'
  BY <1>1, <1>2, SameInputs DEF MapData, Fetched, Emitted, Sorted, AllOf
<1>4. MapReported'
  <2>1. PICK count \in 0 .. NumInputs :
          /\ count + Cardinality(B) = IF n < NumInputs THEN n ELSE NumInputs
          /\ Reported(MAP_STAGE, count)
    BY <1>1 DEF MapData, MapReported, Busy
  <2>2. Cardinality(B) \in Nat /\ Cardinality(B') = Cardinality(B) - 1
    <3>1. pc[t] \in {"map", "mapCount"} /\ "mapFetch" \notin {"map", "mapCount"}
      BY <1>1
    <3> QED
      BY <1>1, <3>1, BusyFacts
  <2>3. Cardinality(B') \in Nat
    <3>1. B' \in SUBSET Threads
      BY DEF Busy
    <3> QED
      BY <3>1, ThreadsFacts, FS_Subset, FS_CardinalityType
  <2>4. n \in Nat /\ NumInputs \in Nat
    BY NumInputsAssumption DEF Basic
  <2>5. count + 1 \in 0 .. NumInputs /\ count + 1 + Cardinality(B') = IF n < NumInputs THEN n ELSE NumInputs
    BY <2>1, <2>2, <2>3, <2>4
  <2>6. stageOf(MAP_STAGE + 4 * count) = MAP_STAGE
    <3>1. count \in Nat
      BY <2>4
    <3> QED
      BY <3>1, StateFacts
  <2>7. jobStateBitwise_' = MAP_STAGE + 4 * count + 4
    BY <1>1, <2>1, <2>6 DEF Reported, addNumberOfProcessedItems
  <2>8. Reported(MAP_STAGE, count + 1)'
    BY <2>4, <2>7 DEF Reported, MAP_STAGE
  <2> QED
    BY <1>1, <2>5, <2>8 DEF MapReported
<1> QED
  BY <1>1, <1>3, <1>4 DEF MapData

\* Sorting a worker's vector keeps its pairs.
LEMMA SortKeeps ==
  ASSUME MTypeOK, Basic, MapData, NEW t \in Threads, invokeSortPhase(t)
  PROVE  MapData' /\ Apart(intermediateVec_)'
<1>1. PICK s \in Sortings(intermediateVec_[t]) : intermediateVec_' = [intermediateVec_ EXCEPT ![t] = s]
  BY DEF invokeSortPhase
<1>2. /\ pc[t] = "sort" /\ pc' = [pc EXCEPT ![t] = "barrier1"]
      /\ UNCHANGED <<inputVec_, jobStateBitwise_, atomicNextItemToProcess_, shuffledQueue_, outputVec_, ix>>
  BY DEF invokeSortPhase, go, jobState
<1>3. pc'[t] = "barrier1" /\ \A u \in Threads : u # t => pc'[u] = pc[u]
  BY <1>2, BusyFacts
<1>4. /\ intermediateVec_[t] \in Seq(Pairs) /\ IsInjective(intermediateVec_[t]) /\ Apart(intermediateVec_)
  BY VectorFacts DEF Basic
<1>5. s \in Seq(Pairs) /\ IsInjective(s) /\ Range(s) = Range(intermediateVec_[t]) /\ SortedByKey(s)
  BY <1>4, SortingFacts
<1>6. \A u \in Threads : u # t => Range(s) \intersect Range(intermediateVec_[u]) = {}
  BY <1>4, <1>5 DEF Apart
<1>7. PICK ws : ws = intermediateVec_'
  OBVIOUS
<1>8. /\ Apart(ws) /\ ws[t] = s /\ \A u \in Threads : u # t => ws[u] = intermediateVec_[u]
      /\ \A p : p \in AllOf(ws) <=>
           p \in Range(s) \/ \E u \in Threads : u # t /\ p \in Range(intermediateVec_[u])
  <2>1. Fits(intermediateVec_, t, s)
    BY <1>4, <1>5, <1>6 DEF Fits
  <2>2. Replaced(intermediateVec_, t, s, ws)
    BY <1>1, <1>7, <2>1, ReplaceFacts, Zenon
  <2> QED
    BY <2>2 DEF Replaced
<1>9. AllOf(ws) = AllOf(intermediateVec_)
  BY <1>5, <1>8 DEF AllOf
<1>10. Apart(intermediateVec_)' /\ AllOf(intermediateVec_)' = AllOf(intermediateVec_)
  <2>1. Pairs' = Pairs
    BY <1>2, SameInputs
  <2>2. Apart(intermediateVec_)'
    BY <1>7, <1>8, <2>1 DEF Apart
  <2>3. AllOf(intermediateVec_)' = AllOf(ws)
    BY <1>7 DEF AllOf
  <2> QED
    BY <1>9, <2>2, <2>3
<1>11. /\ Busy({"map"})' = Busy({"map"}) /\ Busy({"sort", "barrier1"})' = Busy({"sort", "barrier1"})
       /\ Busy({"map", "mapCount"})' = Busy({"map", "mapCount"}) /\ t \in Busy({"sort", "barrier1"})
  BY <1>2, <1>3 DEF Busy
<1>12. Fetched' /\ Emitted'
  BY <1>2, <1>10, <1>11, SameInputs DEF MapData, Fetched, Emitted
<1>13. Sorted'
  <2>1. \A u \in Busy({"barrier1"})' : u = t \/ (u # t /\ u \in Busy({"barrier1"}))
    BY <1>3 DEF Busy
  <2>2. \A u \in Busy({"barrier1"})' : SortedByKey(ws[u])
    BY <1>5, <1>8, <2>1 DEF MapData, Sorted, Busy
  <2>3. atomicNextItemToProcess_ >= NumInputs
    BY <1>11 DEF MapData, Sorted
  <2> QED
    BY <1>2, <1>7, <2>2, <2>3 DEF Sorted, SortedByKey
<1>14. MapReported'
  <2>1. PICK count \in 0 .. NumInputs :
          /\ count + Cardinality(Busy({"map", "mapCount"}))
               = IF atomicNextItemToProcess_ < NumInputs THEN atomicNextItemToProcess_ ELSE NumInputs
          /\ Reported(MAP_STAGE, count)
    BY <1>2 DEF MapData, MapReported, Busy
  <2> QED
    BY <1>2, <1>11, <2>1 DEF MapReported, Reported
<1> QED
  BY <1>2, <1>10, <1>12, <1>13, <1>14 DEF MapData

\* A worker that is created maps next.
LEMMA CreateKeeps ==
  ASSUME MTypeOK, MapData, NEW t \in Threads, pc[t] = "none", pc' = [pc EXCEPT ![t] = "start"],
         UNCHANGED <<inputVec_, jobState, data, ix>>
  PROVE  MapData'
<1>1. /\ Busy({"map"})' = Busy({"map"}) /\ Busy({"sort", "barrier1"})' = Busy({"sort", "barrier1"})
      /\ Busy({"barrier1"})' = Busy({"barrier1"}) /\ Busy({"map", "mapCount"})' = Busy({"map", "mapCount"})
      /\ Busy({"none", "start"})' = Busy({"none", "start"})
  BY BusyFacts DEF Busy, MTypeOK
<1>2. Fetched' /\ Emitted' /\ Sorted'
  BY <1>1, SameInputs DEF MapData, Fetched, Emitted, Sorted, AllOf, data, jobState
<1>3. MapReported'
  <2>1. PICK count \in 0 .. NumInputs :
          /\ count + Cardinality(Busy({"map", "mapCount"}))
               = IF atomicNextItemToProcess_ < NumInputs THEN atomicNextItemToProcess_ ELSE NumInputs
          /\ \/ Reported(MAP_STAGE, count)
             \/ jobStateBitwise_ = 0 /\ count = 0 /\ Busy({"none", "start"}) = Threads
    BY DEF MapData, MapReported
  <2> QED
    BY <1>1, <2>1 DEF MapReported, Reported, jobState
<1> QED
  BY <1>2, <1>3 DEF MapData, data

-----------------------------------------------------------------------------
(* Thread 0 shuffles *)

\* A group of smaller keys after the others.
LEMMA AppendKeeps ==
  ASSUME Groups, UNCHANGED inputVec_, NEW newVec \in Seq(Pairs), newVec # <<>>, IsInjective(newVec),
         \A p \in Range(newVec) : p.key \in Nat,
         \A p, q \in Range(newVec) : p.key = q.key,
         \A p \in Range(newVec), q \in Grouped : p.key < q.key /\ q.key \in Nat,
         shuffledQueue_' = Append(shuffledQueue_, newVec)
  PROVE  Groups' /\ Grouped' = Grouped \union Range(newVec)
<1> DEFINE n == Len(shuffledQueue_)
<1>1. /\ shuffledQueue_ \in Seq(Seq(Pairs)) /\ n \in Nat /\ DOMAIN shuffledQueue_ = 1 .. n
      /\ shuffledQueue_' \in Seq(Seq(Pairs)) /\ DOMAIN shuffledQueue_' = 1 .. n + 1
      /\ \A g \in 1 .. n : shuffledQueue_'[g] = shuffledQueue_[g]
      /\ shuffledQueue_'[n + 1] = newVec
  <2>1. shuffledQueue_ \in Seq(Seq(Pairs))
    BY DEF Groups
  <2>2. PICK q : q = shuffledQueue_'
    OBVIOUS
  <2>3. /\ q \in Seq(Seq(Pairs)) /\ Len(q) = n + 1 /\ q[n + 1] = newVec
        /\ \A g \in 1 .. n : q[g] = shuffledQueue_[g]
    BY <2>1, <2>2, AppendProperties
  <2> QED
    BY <2>1, <2>2, <2>3, LenProperties
<1>2. Pairs' = Pairs
  BY SameInputs
<1>3. \A g \in 1 .. n + 1 : g \in 1 .. n \/ g = n + 1
  BY <1>1
<1>4. \A g \in 1 .. n : \A p \in Range(shuffledQueue_[g]) : p \in Grouped
  BY <1>1 DEF Grouped
<1>5. ASSUME NEW g \in 1 .. n + 1
      PROVE  /\ shuffledQueue_'[g] # <<>> /\ IsInjective(shuffledQueue_'[g])
             /\ \A p, q \in Range(shuffledQueue_'[g]) : p.key = q.key
  <2>1. CASE g \in 1 .. n
    BY <1>1, <2>1 DEF Groups
  <2>2. CASE g = n + 1
    BY <1>1, <2>2
  <2> QED
    BY <1>3, <2>1, <2>2
<1>6. ASSUME NEW g \in 1 .. n + 1, NEW h \in 1 .. n + 1, g < h,
             NEW p \in Range(shuffledQueue_'[g]), NEW q \in Range(shuffledQueue_'[h])
      PROVE  p.key > q.key
  <2>1. g \in 1 .. n /\ shuffledQueue_'[g] = shuffledQueue_[g]
    BY <1>1, <1>6
  <2>2. CASE h \in 1 .. n
    BY <1>1, <1>6, <2>1, <2>2 DEF Groups
  <2>3. CASE h = n + 1
    <3>1. q \in Range(newVec) /\ p \in Grouped
      BY <1>1, <1>4, <1>6, <2>1, <2>3
    <3>2. q.key < p.key /\ q.key \in Nat /\ p.key \in Nat
      BY <3>1
    <3> QED
      BY <3>2
  <2> QED
    BY <1>3, <2>2, <2>3
<1>7. Groups'
  BY <1>1, <1>2, <1>5, <1>6 DEF Groups
<1>8. Grouped' = Grouped \union Range(newVec)
  <2>1. ASSUME NEW p, p \in Grouped' PROVE p \in Grouped \/ p \in Range(newVec)
    <3>1. PICK g \in 1 .. n + 1 : p \in Range(shuffledQueue_'[g])
      BY <1>1, <2>1 DEF Grouped
    <3> QED
      BY <1>1, <1>3, <1>4, <3>1
  <2>2. ASSUME NEW p, p \in Grouped PROVE p \in Grouped'
    <3>1. PICK g \in 1 .. n : p \in Range(shuffledQueue_[g])
      BY <1>1, <2>2 DEF Grouped
    <3>2. g \in 1 .. n + 1 /\ p \in Range(shuffledQueue_'[g])
      BY <1>1, <3>1
    <3> QED
      BY <1>1, <3>2 DEF Grouped
  <2>3. ASSUME NEW p, p \in Range(newVec) PROVE p \in Grouped'
    <3>1. n + 1 \in 1 .. n + 1 /\ p \in Range(shuffledQueue_'[n + 1])
      BY <1>1, <2>3
    <3> QED
      BY <1>1, <3>1 DEF Grouped
  <2> QED
    BY <2>1, <2>2, <2>3
<1> QED
  BY <1>7, <1>8

\* The last group has the smallest key of all.
LastKey == Last(shuffledQueue_)[1].key
\* It is a number, and the key of all pairs of that group.
LEMMA LastGroupFacts ==
  ASSUME Groups, inputVec_ \in Jobs, shuffledQueue_ # <<>>
  PROVE  LET n == Len(shuffledQueue_)
         IN  /\ n \in Nat \ {0} /\ DOMAIN shuffledQueue_ = 1 .. n
             /\ Last(shuffledQueue_) = shuffledQueue_[n] /\ shuffledQueue_[n] \in Seq(Pairs)
             /\ LastKey \in Nat /\ \E q \in Grouped : q.key = LastKey
             /\ \A p \in Range(shuffledQueue_[n]) : p.key = LastKey
             /\ \A q \in Grouped : LastKey <= q.key /\ q.key \in Nat /\ q \in Pairs
<1>1. PICK n : n = Len(shuffledQueue_)
  OBVIOUS
<1>2. shuffledQueue_ \in Seq(Seq(Pairs)) /\ n \in Nat \ {0} /\ DOMAIN shuffledQueue_ = 1 .. n
  <2>1. shuffledQueue_ \in Seq(Seq(Pairs))
    BY DEF Groups
  <2> QED
    BY <1>1, <2>1, LenProperties, EmptySeq
<1>3. \A g \in 1 .. n : shuffledQueue_[g] \in Seq(Pairs) /\ shuffledQueue_[g] # <<>>
  BY <1>1, <1>2, ElementOfSeq DEF Groups
<1>4. n \in 1 .. n /\ Last(shuffledQueue_) = shuffledQueue_[n]
  BY <1>1, <1>2 DEF Last
<1>5. PICK last \in Seq(Pairs) : last = shuffledQueue_[n] /\ last # <<>>
  BY <1>3, <1>4
<1>6. last[1] \in Pairs /\ last[1] \in Range(last) /\ LastKey = last[1].key
  <2>1. Len(last) \in Nat /\ Len(last) # 0 /\ DOMAIN last = 1 .. Len(last)
    BY <1>5, LenProperties, EmptySeq
  <2>2. 1 \in 1 .. Len(last)
    BY <2>1
  <2> QED
    BY <1>4, <1>5, <2>1, <2>2, ElementOfSeq DEF Range, LastKey
<1>7. \A p \in Range(last) : p.key = LastKey
  BY <1>2, <1>4, <1>5, <1>6 DEF Groups
<1>8. \A p \in Pairs : p.key \in Nat
  BY PairFacts
<1>9. ASSUME NEW q \in Grouped PROVE LastKey <= q.key /\ q.key \in Nat /\ q \in Pairs
  <2>1. PICK g \in 1 .. n : q \in Range(shuffledQueue_[g])
    BY <1>2 DEF Grouped
  <2>2. q \in Pairs
    BY <1>3, <2>1, InjectiveFacts
  <2>3. CASE g = n
    BY <1>5, <1>7, <1>8, <2>1, <2>2, <2>3
  <2>4. CASE g # n
    <3>1. g < n
      BY <1>2, <2>4
    <3>2. q.key > last[1].key
      BY <1>2, <1>4, <1>5, <1>6, <2>1, <3>1 DEF Groups
    <3> QED
      BY <1>6, <1>8, <2>2, <3>2
  <2> QED
    BY <2>3, <2>4
<1>10. last[1] \in Grouped
  BY <1>2, <1>4, <1>5, <1>6 DEF Grouped
<1> QED
  BY <1>1, <1>2, <1>3, <1>4, <1>5, <1>6, <1>7, <1>8, <1>9, <1>10

\* One more pair of its key in the last group.
LEMMA ExtendKeeps ==
  ASSUME Groups, UNCHANGED inputVec_, inputVec_ \in Jobs, shuffledQueue_ # <<>>,
         NEW pair \in Pairs, pair \notin Grouped, pair.key = LastKey,
         shuffledQueue_' = [shuffledQueue_ EXCEPT ![Len(shuffledQueue_)] = Append(@, pair)]
  PROVE  Groups' /\ Grouped' = Grouped \union {pair}
<1>1. PICK n : n = Len(shuffledQueue_)
  OBVIOUS
<1>2. PICK last : last = shuffledQueue_[n]
  OBVIOUS
<1>3. /\ n \in Nat \ {0} /\ DOMAIN shuffledQueue_ = 1 .. n /\ last \in Seq(Pairs)
      /\ \A p \in Range(last) : p.key = LastKey
      /\ \A q \in Grouped : LastKey <= q.key
  BY <1>1, <1>2, LastGroupFacts
<1>4. PICK more : more = Append(last, pair)
  OBVIOUS
<1>5. n \in 1 .. n /\ IsInjective(last) /\ shuffledQueue_ \in Seq(Seq(Pairs))
  BY <1>2, <1>3 DEF Groups
<1>6. pair \notin Range(last)
  BY <1>2, <1>3, <1>5 DEF Grouped
<1>7. /\ more \in Seq(Pairs) /\ IsInjective(more) /\ Range(more) = Range(last) \union {pair}
      /\ more # <<>>
  <2>1. more \in Seq(Pairs) /\ IsInjective(more) /\ Range(more) = Range(last) \union {pair}
    BY <1>3, <1>4, <1>5, <1>6, AppendOneFacts
  <2>2. Range(more) # {}
    BY <2>1
  <2> QED
    BY <2>1, <2>2, InjectiveFacts
<1>8. PICK q : q = shuffledQueue_'
  OBVIOUS
<1>9. /\ q \in Seq(Seq(Pairs)) /\ DOMAIN q = 1 .. n /\ q[n] = more
      /\ \A g \in 1 .. n : g # n => q[g] = shuffledQueue_[g]
  <2>1. q = [shuffledQueue_ EXCEPT ![n] = more]
    BY <1>1, <1>2, <1>3, <1>4, <1>5, <1>8
  <2>2. /\ DOMAIN q = 1 .. n /\ q[n] = more
        /\ \A g \in 1 .. n : g # n => q[g] = shuffledQueue_[g]
    BY <1>3, <1>5, <2>1
  <2>3. \A g \in 1 .. n : shuffledQueue_[g] \in Seq(Pairs)
    BY <1>3, <1>5, ElementOfSeq
  <2>4. q \in Seq(Seq(Pairs))
    BY <1>3, <1>5, <1>7, <2>1, ExceptSeq
  <2> QED
    BY <2>2, <2>4
<1>10. ASSUME NEW g \in 1 .. n
       PROVE  /\ q[g] # <<>> /\ IsInjective(q[g])
              /\ \A p, r \in Range(q[g]) : p.key = r.key
  <2>1. CASE g = n
    BY <1>3, <1>7, <1>9, <2>1
  <2>2. CASE g # n
    BY <1>3, <1>9, <2>2 DEF Groups
  <2> QED
    BY <2>1, <2>2
<1>11. ASSUME NEW g \in 1 .. n, NEW h \in 1 .. n, g < h, NEW p \in Range(q[g]), NEW r \in Range(q[h])
       PROVE  p.key > r.key
  <2>1. g # n /\ p \in Range(shuffledQueue_[g])
    BY <1>3, <1>9, <1>11
  <2>2. CASE h # n
    BY <1>3, <1>9, <1>11, <2>1, <2>2 DEF Groups
  <2>3. CASE h = n
    <3>1. r.key = LastKey
      BY <1>3, <1>7, <1>9, <2>3
    <3>2. PICK first \in Range(last) : TRUE
      <4>1. last # <<>>
        BY <1>2, <1>3, <1>5 DEF Groups
      <4> QED
        BY <1>3, <4>1, InjectiveFacts
    <3>3. p.key > first.key
      BY <1>2, <1>3, <1>5, <1>11, <2>1, <2>3, <3>2 DEF Groups
    <3> QED
      BY <1>3, <3>1, <3>2, <3>3
  <2> QED
    BY <2>2, <2>3
<1>12. Pairs' = Pairs
  BY SameInputs
<1>13. Groups'
  BY <1>8, <1>9, <1>10, <1>11, <1>12 DEF Groups
<1>14. UNION {Range(q[g]) : g \in 1 .. n} = Grouped \union {pair}
  <2>1. ASSUME NEW p, NEW g \in 1 .. n, p \in Range(q[g]) PROVE p \in Grouped \union {pair}
    <3>1. CASE g = n
      BY <1>2, <1>3, <1>5, <1>7, <1>9, <2>1, <3>1 DEF Grouped
    <3>2. CASE g # n
      BY <1>3, <1>9, <2>1, <3>2 DEF Grouped
    <3> QED
      BY <3>1, <3>2
  <2>2. ASSUME NEW p \in Grouped PROVE \E g \in 1 .. n : p \in Range(q[g])
    <3>1. PICK g \in 1 .. n : p \in Range(shuffledQueue_[g])
      BY <1>3 DEF Grouped
    <3>2. CASE g = n
      BY <1>2, <1>7, <1>9, <3>1, <3>2
    <3>3. CASE g # n
      BY <1>9, <3>1, <3>3
    <3> QED
      BY <3>2, <3>3
  <2>3. \E g \in 1 .. n : pair \in Range(q[g])
    BY <1>5, <1>7, <1>9
  <2> QED
    BY <2>1, <2>2, <2>3
<1>15. Grouped' = Grouped \union {pair}
  BY <1>8, <1>9, <1>14 DEF Grouped
<1> QED
  BY <1>13, <1>15

\* The pair that goes next: no vector has a larger key; while a group is open it
\* has the group's key, and when none is all the groups' keys are larger.
Taken(v, pair) ==
  /\ v \in Threads /\ interVecs[v] # <<>> /\ pair = Last(interVecs[v]) /\ pair.key = groupKey
  /\ groupKey \in Nat /\ \A p \in AllOf(interVecs) : p.key <= groupKey
  /\ IF groupOpen THEN shuffledQueue_ # <<>> /\ groupKey = LastKey
     ELSE \A q \in Grouped : groupKey < q.key /\ q.key \in Nat

\* The search of shuffle finds such a pair while there is one left.
LEMMA NextPairFacts ==
  ASSUME Groups, inputVec_ \in Jobs, Unshuffled, \E u \in Threads : interVecs[u] # <<>>
  PROVE  Taken(Min(endingWith(groupKey)), Last(interVecs[Min(endingWith(groupKey))]))
<1>1. /\ \A t \in Threads : Stack(interVecs[t])
      /\ \A p \in AllOf(interVecs), q \in Grouped : p.key <= q.key
  BY DEF Unshuffled, Apart, Stack
<1>2. /\ maxKey \in Nat /\ \A p \in AllOf(interVecs) : p.key <= maxKey
      /\ \E t \in Threads : interVecs[t] # <<>> /\ Last(interVecs[t]).key = maxKey
  BY <1>1, MaxKeyFacts
<1>3. ASSUME NEW t \in Threads, interVecs[t] # <<>>
      PROVE  Last(interVecs[t]) \in AllOf(interVecs) /\ Last(interVecs[t]).key \in Nat
  <2>1. Last(interVecs[t]) \in Range(interVecs[t]) /\ Last(interVecs[t]) \in Pairs
    BY <1>1, <1>3, FrontFacts
  <2> QED
    BY <2>1, PairFacts DEF AllOf
<1>4. ASSUME NEW k \in Nat
      PROVE  endingWith(k) = {u \in Threads : interVecs[u] # <<>> /\ Last(interVecs[u]).key = k}
  <2>1. \A u \in Threads : interVecs[u] # <<>> => (sameKey(Last(interVecs[u]).key, k) <=> Last(interVecs[u]).key = k)
    BY <1>3, <1>4 DEF sameKey
  <2> QED
    BY <2>1 DEF endingWith
<1>5. /\ groupKey \in Nat /\ endingWith(groupKey) # {} /\ \A p \in AllOf(interVecs) : p.key <= groupKey
      /\ IF groupOpen THEN shuffledQueue_ # <<>> /\ groupKey = LastKey
         ELSE \A q \in Grouped : groupKey < q.key /\ q.key \in Nat
  <2>1. CASE groupOpen
    <3>1. shuffledQueue_ # <<>> /\ groupKey = LastKey /\ endingWith(LastKey) # {}
      BY <2>1 DEF groupOpen, groupKey, LastKey
    <3>2. LastKey \in Nat /\ \E q \in Grouped : q.key = LastKey
      BY <3>1, LastGroupFacts
    <3>3. \A p \in AllOf(interVecs) : p.key <= LastKey
      BY <1>1, <3>2
    <3> QED
      BY <2>1, <3>1, <3>2, <3>3
  <2>2. CASE ~groupOpen
    <3>1. groupKey = maxKey /\ endingWith(maxKey) # {}
      BY <1>2, <1>4, <2>2 DEF groupKey
    <3>2. ASSUME NEW q \in Grouped PROVE maxKey < q.key /\ q.key \in Nat
      <4>1. shuffledQueue_ # <<>>
        BY DEF Grouped
      <4>2. LastKey \in Nat /\ LastKey <= q.key /\ q.key \in Nat /\ \E r \in Grouped : r.key = LastKey
        BY <4>1, LastGroupFacts
      <4>3. maxKey <= LastKey
        BY <1>1, <1>2, <1>3, <4>2
      <4>4. endingWith(LastKey) = {}
        BY <2>2, <4>1 DEF groupOpen, LastKey
      <4>5. maxKey # LastKey
        BY <3>1, <4>4
      <4> QED
        BY <1>2, <4>2, <4>3, <4>5
    <3> QED
      BY <1>2, <2>2, <3>1, <3>2
  <2> QED
    BY <2>1, <2>2
<1>6. PICK E : E = endingWith(groupKey)
  OBVIOUS
<1>7. E \in SUBSET Nat /\ E # {}
  BY <1>5, <1>6 DEF endingWith, Threads
<1>8. Min(E) \in E
  BY <1>7, LeastNumber DEF Min
<1>9. /\ Min(endingWith(groupKey)) \in Threads
      /\ interVecs[Min(endingWith(groupKey))] # <<>>
      /\ Last(interVecs[Min(endingWith(groupKey))]).key = groupKey
  BY <1>4, <1>5, <1>6, <1>8
<1> QED
  BY <1>5, <1>9 DEF Taken

\* A turn of the shuffle's innermost loop moves a pair from a vector to a group.
LEMMA ShufflePairKeeps ==
  ASSUME Basic, ShuffleData, pc[0] = "shuffle", shufflePair(0)
  PROVE  ShuffleData' /\ Groups'
<1>1. PICK v : v = Min(endingWith(groupKey))
  OBVIOUS
<1>2. PICK pair : pair = Last(interVecs[v])
  OBVIOUS
<1>3. /\ IF groupOpen
         THEN shuffledQueue_' = [shuffledQueue_ EXCEPT ![Len(shuffledQueue_)] = Append(@, pair)]
         ELSE shuffledQueue_' = Append(shuffledQueue_, <<pair>>)
      /\ interVecs' = [interVecs EXCEPT ![v] = Front(@)]
      /\ addNumberOfProcessedItems(SHUFFLE_STAGE, 1)
      /\ \E u \in Threads : interVecs[u] # <<>>
      /\ UNCHANGED <<inputVec_, intermediateVec_, outputVec_, pc>>
  BY <1>1, <1>2 DEF shufflePair
<1>4. /\ inputVec_ \in Jobs /\ Groups /\ Unshuffled
      /\ Apart(interVecs) /\ \A t \in Threads : SortedByKey(interVecs[t])
      /\ AllOf(interVecs) \union Grouped = Pairs /\ AllOf(interVecs) \intersect Grouped = {}
      /\ \A p \in AllOf(interVecs), q \in Grouped : p.key <= q.key
  BY DEF Basic, ShuffleData, Unshuffled
<1>5. Taken(v, pair)
  BY <1>1, <1>2, <1>3, <1>4, NextPairFacts
<1>6. v \in Threads /\ interVecs[v] # <<>> /\ Stack(interVecs[v])
  BY <1>4, <1>5 DEF Taken, Apart, Stack
<1>7. PICK rest : rest = Front(interVecs[v])
  OBVIOUS
<1>8. /\ Stack(rest) /\ pair \in Pairs /\ pair \in Range(interVecs[v]) /\ pair \notin Range(rest)
      /\ \A p : p \in Range(rest) <=> p \in Range(interVecs[v]) /\ p # pair
  BY <1>2, <1>6, <1>7, FrontFacts
<1>9. PICK ws : ws = interVecs'
  OBVIOUS
<1>10. ws = [interVecs EXCEPT ![v] = rest]
  BY <1>3, <1>7, <1>9
<1>11. Fits(interVecs, v, rest)
  <2>1. ASSUME NEW u \in Threads, u # v PROVE Range(rest) \intersect Range(interVecs[u]) = {}
    <3>1. Range(interVecs[v]) \intersect Range(interVecs[u]) = {}
      BY <1>4, <1>6, <2>1 DEF Apart
    <3> QED
      BY <1>8, <3>1
  <2> QED
    BY <1>4, <1>6, <1>8, <2>1 DEF Fits, Stack
<1>12. Replaced(interVecs, v, rest, ws)
  BY <1>10, <1>11, ReplaceFacts
<1>13. \A t \in Threads : SortedByKey(ws[t])
  BY <1>4, <1>8, <1>12 DEF Replaced, Stack
<1>14. \A p : p \in AllOf(ws) <=> p \in AllOf(interVecs) /\ p # pair
  <2>1. ASSUME NEW p, p \in AllOf(ws) PROVE p \in AllOf(interVecs) /\ p # pair
    <3>1. CASE p \in Range(rest)
      BY <1>6, <1>8, <3>1 DEF AllOf
    <3>2. CASE p \notin Range(rest)
      <4>1. PICK u \in Threads : u # v /\ p \in Range(interVecs[u])
        BY <1>12, <2>1, <3>2 DEF Replaced
      <4>2. Range(interVecs[v]) \intersect Range(interVecs[u]) = {}
        BY <1>4, <1>6, <4>1 DEF Apart
      <4> QED
        BY <1>8, <4>1, <4>2 DEF AllOf
    <3> QED
      BY <3>1, <3>2
  <2>2. ASSUME NEW p, p \in AllOf(interVecs), p # pair PROVE p \in AllOf(ws)
    <3>1. PICK u \in Threads : p \in Range(interVecs[u])
      BY <2>2 DEF AllOf
    <3> QED
      BY <1>8, <1>12, <2>2, <3>1 DEF Replaced
  <2> QED
    BY <2>1, <2>2
<1>15. pair \in AllOf(interVecs) /\ pair \notin Grouped
  BY <1>4, <1>6, <1>8 DEF AllOf
<1>16. pair.key = groupKey /\ groupKey \in Nat /\ \A p \in AllOf(interVecs) : p.key <= groupKey
  BY <1>5 DEF Taken
<1>17. Groups' /\ Grouped' = Grouped \union {pair}
  <2>1. CASE groupOpen
    <3>1. shuffledQueue_ # <<>> /\ pair.key = LastKey
      BY <1>5, <2>1 DEF Taken
    <3> QED
      BY <1>3, <1>4, <1>8, <1>15, <2>1, <3>1, ExtendKeeps
  <2>2. CASE ~groupOpen
    <3>1. PICK newVec : newVec = <<pair>>
      OBVIOUS
    <3>2. newVec \in Seq(Pairs) /\ newVec # <<>> /\ IsInjective(newVec) /\ Range(newVec) = {pair}
      BY <1>8, <3>1 DEF IsInjective, Range
    <3>3. \A q \in Grouped : pair.key < q.key /\ q.key \in Nat
      BY <1>5, <2>2 DEF Taken
    <3>4. shuffledQueue_' = Append(shuffledQueue_, newVec)
      BY <1>3, <2>2, <3>1
    <3>5. /\ \A p \in Range(newVec) : p.key \in Nat
          /\ \A p, q \in Range(newVec) : p.key = q.key
          /\ \A p \in Range(newVec), q \in Grouped : p.key < q.key /\ q.key \in Nat
      BY <1>16, <3>2, <3>3
    <3> QED
      BY <1>3, <1>4, <3>2, <3>4, <3>5, AppendKeeps
  <2> QED
    BY <2>1, <2>2
<1>18. Pairs' = Pairs
  BY <1>3, SameInputs
<1>19. Unshuffled'
  <2>1. AllOf(ws) \union Grouped' = Pairs /\ AllOf(ws) \intersect Grouped' = {}
    BY <1>4, <1>14, <1>15, <1>17
  <2>2. ASSUME NEW p \in AllOf(ws), NEW q \in Grouped' PROVE p.key <= q.key
    BY <1>4, <1>14, <1>16, <1>17
  <2>3. Apart(interVecs)' /\ \A t \in Threads : SortedByKey(interVecs'[t])
    BY <1>9, <1>12, <1>13, <1>18 DEF Apart, Replaced
  <2>4. AllOf(interVecs)' = AllOf(ws)
    BY <1>9 DEF AllOf
  <2> QED
    BY <1>18, <2>1, <2>2, <2>3, <2>4 DEF Unshuffled, SortedByKey
<1>20. Reported(SHUFFLE_STAGE, Cardinality(Grouped))'
  <2>1. IsFiniteSet(Pairs) /\ Grouped \subseteq Pairs
    BY <1>4, TotalFacts DEF Basic, ShuffleData
  <2>2. PICK G : G = Grouped
    OBVIOUS
  <2>3. IsFiniteSet(G) /\ Cardinality(G) \in Nat
    BY <2>1, <2>2, FS_Subset, FS_CardinalityType
  <2>4. Cardinality(G \union {pair}) = Cardinality(G) + 1
    BY <1>15, <2>2, <2>3, FS_AddElement
  <2>5. PICK c \in Nat : c = Cardinality(G)
    BY <2>3
  <2>6. jobStateBitwise_ = SHUFFLE_STAGE + 4 * c
    BY <2>2, <2>5 DEF ShuffleData, Reported
  <2>7. stageOf(SHUFFLE_STAGE + 4 * c) = SHUFFLE_STAGE
    BY StateFacts
  <2>8. jobStateBitwise_' = SHUFFLE_STAGE + 4 * c + 4 * 1
    BY <1>3, <2>6, <2>7 DEF addNumberOfProcessedItems
  <2>9. jobStateBitwise_' = SHUFFLE_STAGE + 4 * (c + 1)
    BY <2>8 DEF SHUFFLE_STAGE
  <2>10. Cardinality(Grouped') = c + 1
    BY <1>17, <2>2, <2>4, <2>5
  <2> QED
    BY <2>9, <2>10 DEF Reported
<1>21. AllOf(intermediateVec_)' = Pairs' /\ \A t \in Threads : SortedByKey(intermediateVec_'[t])
  <2>1. AllOf(intermediateVec_)' = AllOf(intermediateVec_)
    BY <1>3 DEF AllOf
  <2> QED
    BY <1>3, <1>18, <2>1 DEF ShuffleData
<1> QED
  BY <1>3, <1>17, <1>19, <1>20, <1>21 DEF ShuffleData, SortedByKey


\* The vectors of the workers do not change in the shuffle.
LEMMA VectorsStay ==
  ASSUME Basic, ShuffleData \/ ReduceData, UNCHANGED <<inputVec_, intermediateVec_>>
  PROVE  /\ AllOf(intermediateVec_)' = Pairs' /\ Apart(intermediateVec_)' /\ Pairs' = Pairs
         /\ ShuffleData => \A t \in Threads : SortedByKey(intermediateVec_'[t])
<1>1. Pairs' = Pairs
  BY SameInputs
<1>2. AllOf(intermediateVec_)' = AllOf(intermediateVec_)
  BY DEF AllOf
<1>3. Apart(intermediateVec_)'
  BY <1>1 DEF Apart, Basic
<1> QED
  BY <1>1, <1>2, <1>3 DEF ShuffleData, ReduceData

\* With no group there is no pair in one.
LEMMA NothingGrouped ==
  ASSUME shuffledQueue_ = <<>>
  PROVE  Grouped = {} /\ Cardinality(Grouped) = 0
<1>1. Grouped = {}
  BY DEF Grouped
<1> QED
  BY <1>1, FS_EmptySet

\* setNextPhase starts the shuffle stage with nothing counted.
LEMMA ToShuffleKeeps ==
  ASSUME MTypeOK, Basic, ShuffleData, toShuffle(0)
  PROVE  ShuffleData'
<1>1. /\ pc[0] = "toShuffle" /\ pc' = [pc EXCEPT ![0] = "shuffleLock"] /\ setNextPhase
      /\ UNCHANGED <<inputVec_, atomicNextItemToProcess_, intermediateVec_, shuffledQueue_, outputVec_>>
  BY DEF toShuffle, nextPhase, go, data
<1>2. pc'[0] = "shuffleLock"
  BY <1>1, ThreadsFacts DEF MTypeOK
<1>3. jobStateBitwise_' = 2
  <2>1. jobStateBitwise_ = 1 + 4 * NumInputs
    BY <1>1 DEF ShuffleData, Reported, MAP_STAGE
  <2>2. (1 + 4 * NumInputs + 1) % 4 = 2
    BY NumInputsAssumption
  <2> QED
    BY <1>1, <2>1, <2>2 DEF setNextPhase
<1>4. shuffledQueue_' = <<>> /\ Cardinality(Grouped') = 0
  <2>1. shuffledQueue_ = <<>> /\ Cardinality(Grouped) = 0
    BY <1>1, NothingGrouped DEF ShuffleData
  <2>2. Grouped' = Grouped
    BY <1>1 DEF Grouped
  <2> QED
    BY <1>1, <2>1, <2>2
<1>5. AllOf(intermediateVec_)' = Pairs' /\ \A t \in Threads : SortedByKey(intermediateVec_'[t])
  BY <1>1, VectorsStay
<1> QED
  BY <1>1, <1>2, <1>3, <1>4, <1>5 DEF ShuffleData, Reported, SHUFFLE_STAGE, SortedByKey

\* The item counter starts again, and means nothing during the shuffle.
LEMMA ShuffleLockKeeps ==
  ASSUME MTypeOK, Basic, ShuffleData, shuffleLock(0)
  PROVE  ShuffleData' /\ atomicNextItemToProcess_' = 0
<1>1. /\ pc[0] = "shuffleLock" /\ pc' = [pc EXCEPT ![0] = "shuffleCopy"] /\ atomicNextItemToProcess_' = 0
      /\ UNCHANGED <<inputVec_, jobStateBitwise_, intermediateVec_, shuffledQueue_, outputVec_>>
  BY DEF shuffleLock, go, data
<1>2. pc'[0] = "shuffleCopy"
  BY <1>1, ThreadsFacts DEF MTypeOK
<1>3. Grouped' = Grouped
  BY <1>1 DEF Grouped
<1>4. AllOf(intermediateVec_)' = Pairs' /\ \A t \in Threads : SortedByKey(intermediateVec_'[t])
  BY <1>1, VectorsStay
<1> QED
  BY <1>1, <1>2, <1>3, <1>4 DEF ShuffleData, Reported, SortedByKey

\* Thread 0 takes the workers' vectors, which hold every pair.
LEMMA ShuffleCopyKeeps ==
  ASSUME MTypeOK, Basic, ShuffleData, shuffleCopy(0)
  PROVE  ShuffleData'
<1>1. /\ pc[0] = "shuffleCopy" /\ pc' = [pc EXCEPT ![0] = "shuffle"] /\ interVecs' = intermediateVec_
      /\ UNCHANGED <<inputVec_, jobStateBitwise_, intermediateVec_, shuffledQueue_, outputVec_>>
  BY DEF shuffleCopy, go, jobState
<1>2. pc'[0] = "shuffle"
  BY <1>1, ThreadsFacts DEF MTypeOK
<1>3. Grouped' = Grouped /\ Grouped = {}
  BY <1>1, NothingGrouped DEF Grouped, ShuffleData
<1>4. /\ AllOf(intermediateVec_)' = Pairs' /\ \A t \in Threads : SortedByKey(intermediateVec_'[t])
      /\ Apart(intermediateVec_)'
  BY <1>1, VectorsStay
<1>5. Unshuffled'
  <2>1. AllOf(interVecs)' = AllOf(intermediateVec_)' /\ Apart(interVecs)'
    BY <1>1, <1>4 DEF AllOf, Apart
  <2> QED
    BY <1>1, <1>3, <1>4, <2>1 DEF Unshuffled, SortedByKey
<1> QED
  BY <1>1, <1>2, <1>3, <1>4, <1>5 DEF ShuffleData, Reported, SortedByKey

\* When the vectors are empty every pair is in a group.
LEMMA ShuffleDoneKeeps ==
  ASSUME MTypeOK, Basic, ShuffleData, shuffleDone(0)
  PROVE  ShuffleData' /\ atomicNextItemToProcess_' = 0
<1>1. /\ pc[0] = "shuffle" /\ pc' = [pc EXCEPT ![0] = "toReduce"] /\ atomicNextItemToProcess_' = 0
      /\ \A u \in Threads : interVecs[u] = <<>>
      /\ UNCHANGED <<inputVec_, jobStateBitwise_, intermediateVec_, shuffledQueue_, outputVec_>>
  BY DEF shuffleDone, go, data
<1>2. pc'[0] = "toReduce"
  BY <1>1, ThreadsFacts DEF MTypeOK
<1>3. Grouped' = Grouped
  BY <1>1 DEF Grouped
<1>4. /\ AllOf(intermediateVec_)' = Pairs' /\ \A t \in Threads : SortedByKey(intermediateVec_'[t])
      /\ Pairs' = Pairs
  BY <1>1, VectorsStay
<1>5. Grouped = Pairs
  <2>1. AllOf(interVecs) = {}
    BY <1>1 DEF AllOf, Range
  <2> QED
    BY <1>1, <2>1 DEF ShuffleData, Unshuffled
<1> QED
  BY <1>1, <1>2, <1>3, <1>4, <1>5 DEF ShuffleData, Reported, SortedByKey

\* setNextPhase starts the reduce stage with nothing counted.
LEMMA ToReduceKeeps ==
  ASSUME MTypeOK, Basic, ShuffleData, toReduce(0)
  PROVE  ShuffleData'
<1>1. /\ pc[0] = "toReduce" /\ pc' = [pc EXCEPT ![0] = "barrier2"] /\ setNextPhase
      /\ UNCHANGED <<inputVec_, atomicNextItemToProcess_, intermediateVec_, shuffledQueue_, outputVec_>>
  BY DEF toReduce, nextPhase, go, data
<1>2. pc'[0] = "barrier2"
  BY <1>1, ThreadsFacts DEF MTypeOK
<1>3. Grouped' = Grouped
  BY <1>1 DEF Grouped
<1>4. /\ AllOf(intermediateVec_)' = Pairs' /\ \A t \in Threads : SortedByKey(intermediateVec_'[t])
      /\ Pairs' = Pairs
  BY <1>1, VectorsStay
<1>5. jobStateBitwise_' = 3
  <2>1. Grouped = Pairs /\ AllOf(intermediateVec_) = Pairs /\ IsFiniteSet(AllOf(intermediateVec_))
    BY <1>1, TotalFacts DEF ShuffleData, Basic
  <2>2. PICK c \in Nat : c = Cardinality(Grouped)
    BY <2>1, FS_CardinalityType
  <2>3. jobStateBitwise_ = 2 + 4 * c
    BY <1>1, <2>2 DEF ShuffleData, Reported, SHUFFLE_STAGE
  <2>4. (2 + 4 * c + 1) % 4 = 3
    OBVIOUS
  <2> QED
    BY <1>1, <2>3, <2>4 DEF setNextPhase
<1> QED
  BY <1>1, <1>2, <1>3, <1>4, <1>5 DEF ShuffleData, Reported, REDUCE_STAGE, SortedByKey

-----------------------------------------------------------------------------
(* The workers reduce *)

\* A group is the pairs of its key, and no two groups have the same key.
LEMMA KeyFacts ==
  ASSUME inputVec_ \in Jobs, Groups
  PROVE  /\ Len(shuffledQueue_) \in Nat
         /\ \A g \in 0 .. Len(shuffledQueue_) - 1 :
              /\ keyOf(g) \in Nat /\ shuffledQueue_[g + 1] \in Seq(Pairs) /\ IsInjective(shuffledQueue_[g + 1])
              /\ \E p \in Grouped : p.key = keyOf(g)
              /\ Range(shuffledQueue_[g + 1]) = {p \in Grouped : p.key = keyOf(g)}
              /\ \A h \in 0 .. Len(shuffledQueue_) - 1 : keyOf(g) = keyOf(h) => g = h
         /\ \A p \in Grouped : p \in Pairs /\ \E g \in 0 .. Len(shuffledQueue_) - 1 : p.key = keyOf(g)
<1> DEFINE q == shuffledQueue_
           n == Len(shuffledQueue_)
<1>1. /\ q \in Seq(Seq(Pairs)) /\ n \in Nat /\ DOMAIN q = 1 .. n
      /\ \A g \in 1 .. n : q[g] \in Seq(Pairs) /\ q[g] # <<>> /\ IsInjective(q[g])
  BY LenProperties, ElementOfSeq DEF Groups
<1>2. ASSUME NEW g \in 0 .. n - 1
      PROVE  /\ g + 1 \in 1 .. n /\ g \in Nat /\ (g + 1) - 1 = g
             /\ q[g + 1][1] \in Range(q[g + 1]) /\ q[g + 1][1] \in Pairs
             /\ \A p \in Range(q[g + 1]) : p.key = keyOf(g) /\ p \in Pairs /\ p \in Grouped
  <2>1. g + 1 \in 1 .. n /\ g \in Nat
    BY <1>1
  <2>2. PICK v \in Seq(Pairs) : v = q[g + 1] /\ v # <<>>
    BY <1>1, <2>1
  <2>3. Len(v) \in Nat \ {0} /\ DOMAIN v = 1 .. Len(v) /\ Range(v) \subseteq Pairs
    BY <2>2, EmptySeq, LenProperties, InjectiveFacts
  <2>4. v[1] \in Range(v)
    BY <2>3 DEF Range
  <2>5. \A p \in Range(v) : p.key = v[1].key
    BY <1>1, <2>1, <2>2, <2>4 DEF Groups
  <2> QED
    BY <1>1, <2>1, <2>2, <2>3, <2>4, <2>5 DEF Grouped, keyOf
<1>3. ASSUME NEW p \in Grouped
      PROVE  \E g \in 0 .. n - 1 : p \in Range(q[g + 1]) /\ p.key = keyOf(g) /\ p \in Pairs
  <2>1. PICK h \in 1 .. n : p \in Range(q[h])
    BY <1>1 DEF Grouped
  <2>2. h - 1 \in 0 .. n - 1 /\ (h - 1) + 1 = h
    BY <1>1
  <2>3. p.key = keyOf(h - 1) /\ p \in Pairs
    BY <1>2, <2>1, <2>2
  <2> QED
    BY <2>1, <2>2, <2>3
<1>4. ASSUME NEW g \in 0 .. n - 1, NEW h \in 0 .. n - 1, g < h PROVE keyOf(g) # keyOf(h)
  <2>1. g + 1 \in DOMAIN q /\ h + 1 \in DOMAIN q /\ g + 1 < h + 1
    BY <1>1, <1>2, <1>4
  <2>2. PICK p \in Pairs, r \in Pairs : p \in Range(q[g + 1]) /\ r \in Range(q[h + 1])
    BY <1>2
  <2>3. p.key > r.key
    BY <2>1, <2>2 DEF Groups
  <2>4. p.key \in Nat /\ r.key \in Nat
    BY PairFacts
  <2>5. p.key = keyOf(g) /\ r.key = keyOf(h)
    BY <1>2, <2>2
  <2> QED
    BY <2>3, <2>4, <2>5
<1>5. \A g, h \in 0 .. n - 1 : keyOf(g) = keyOf(h) => g = h
  <2>1. \A g, h \in 0 .. n - 1 : g < h \/ h < g \/ g = h
    BY <1>1
  <2> QED
    BY <1>4, <2>1
<1>6. ASSUME NEW g \in 0 .. n - 1 PROVE Range(q[g + 1]) = {p \in Grouped : p.key = keyOf(g)}
  <2>1. \A p \in Range(q[g + 1]) : p \in Grouped /\ p.key = keyOf(g)
    BY <1>2
  <2>2. ASSUME NEW p \in Grouped, p.key = keyOf(g) PROVE p \in Range(q[g + 1])
    <3>1. PICK h \in 0 .. n - 1 : p \in Range(q[h + 1]) /\ p.key = keyOf(h)
      BY <1>3
    <3>2. h = g
      BY <1>5, <2>2, <3>1
    <3> QED
      BY <3>1, <3>2
  <2> QED
    BY <2>1, <2>2
<1>7. ASSUME NEW g \in 0 .. n - 1
      PROVE  /\ keyOf(g) \in Nat /\ q[g + 1] \in Seq(Pairs) /\ IsInjective(q[g + 1])
             /\ \E p \in Grouped : p.key = keyOf(g)
  <2>1. q[g + 1][1] \in Pairs /\ q[g + 1][1] \in Grouped /\ q[g + 1][1].key = keyOf(g)
    BY <1>2
  <2>2. q[g + 1][1].key \in Nat
    BY <2>1, PairFacts
  <2> QED
    BY <1>1, <1>2, <2>1, <2>2
<1> QED
  BY <1>1, <1>3, <1>5, <1>6, <1>7

\* setJobStage finds the stage that thread 0 has set.
LEMMA ReduceStageKeeps ==
  ASSUME MTypeOK, Basic, ReduceData, NEW t \in Threads, reduceStage(t)
  PROVE  ReduceData' /\ Groups'
<1>1. /\ pc[t] = "reduceStage" /\ pc' = [pc EXCEPT ![t] = "copyQueue"] /\ setJobStage(REDUCE_STAGE)
      /\ UNCHANGED <<inputVec_, atomicNextItemToProcess_, intermediateVec_, shuffledQueue_, shuffleQueue,
                     outputVec_, ix>>
  BY DEF reduceStage, go, data
<1>2. AllOf(intermediateVec_)' = Pairs' /\ Pairs' = Pairs
  BY <1>1, VectorsStay
<1>3. pc'[t] = "copyQueue" /\ \A u \in Threads : u # t => pc'[u] = pc[u]
  BY <1>1, BusyFacts
<1>4. /\ Busy({"reduceFetch", "reduce", "reduceCount", "done"})' = Busy({"reduceFetch", "reduce", "reduceCount", "done"})
      /\ Busy({"reduce", "reduceCount"})' = Busy({"reduce", "reduceCount"})
      /\ Busy({"reduce"})' = Busy({"reduce"}) /\ Busy({"reduceCount"})' = Busy({"reduceCount"})
      /\ Busy({"done"})' = Busy({"done"})
  BY <1>1, <1>3 DEF Busy
<1>5. Copied' /\ Output'
  BY <1>1, <1>4 DEF ReduceData, Copied, Output, keyOf
<1>6. InHand'
  <2>1. \A u \in Busy({"reduce", "reduceCount"}) : pc'[u] = pc[u]
    BY <1>1, <1>3 DEF Busy
  <2> QED
    BY <1>1, <1>4, <2>1 DEF ReduceData, InHand, keyOf
<1>7. Counted' = Counted
  BY <1>1, <1>2, <1>4 DEF Counted, keyOf
<1>8. UNCHANGED jobStateBitwise_
  <2>1. IsFiniteSet(Pairs)
    BY TotalFacts DEF Basic, ReduceData
  <2>2. Counted \in SUBSET Pairs
    BY DEF Counted
  <2>3. PICK c \in Nat : c = Cardinality(Counted)
    BY <2>1, <2>2, FS_Subset, FS_CardinalityType
  <2>4. jobStateBitwise_ = REDUCE_STAGE + 4 * c
    BY <2>3 DEF ReduceData, Reported
  <2>5. stageOf(REDUCE_STAGE + 4 * c) = REDUCE_STAGE
    BY StateFacts
  <2> QED
    BY <1>1, <2>4, <2>5 DEF setJobStage
<1>9. Groups' /\ Grouped' = Grouped
  BY <1>1, <1>2 DEF Groups, Grouped, Basic
<1> QED
  BY <1>2, <1>5, <1>6, <1>7, <1>8, <1>9 DEF ReduceData, Reported

\* Each worker copies the queue, which has all groups.
LEMMA CopyQueueKeeps ==
  ASSUME MTypeOK, Basic, ReduceData, NEW t \in Threads, copyQueue(t)
  PROVE  ReduceData' /\ Groups' /\ DOMAIN shuffleQueue' = Threads
<1>1. /\ pc[t] = "copyQueue" /\ pc' = [pc EXCEPT ![t] = "reduceFetch"]
      /\ shuffleQueue' = [shuffleQueue EXCEPT ![t] = shuffledQueue_]
      /\ UNCHANGED <<inputVec_, jobStateBitwise_, atomicNextItemToProcess_, intermediateVec_, shuffledQueue_,
                     outputVec_, ix>>
  BY DEF copyQueue, go, jobState
<1>2. AllOf(intermediateVec_)' = Pairs' /\ Pairs' = Pairs
  BY <1>1, VectorsStay
<1>3. pc'[t] = "reduceFetch" /\ \A u \in Threads : u # t => pc'[u] = pc[u]
  BY <1>1, BusyFacts
<1>4. /\ Busy({"reduce", "reduceCount"})' = Busy({"reduce", "reduceCount"})
      /\ Busy({"reduce"})' = Busy({"reduce"}) /\ Busy({"reduceCount"})' = Busy({"reduceCount"})
      /\ Busy({"done"})' = Busy({"done"})
  BY <1>1, <1>3 DEF Busy
<1>5. /\ DOMAIN shuffleQueue' = Threads /\ shuffleQueue'[t] = shuffledQueue_
      /\ \A u \in Threads : u # t => shuffleQueue'[u] = shuffleQueue[u]
  BY <1>1 DEF Basic
<1>6. Copied'
  <2>1. ASSUME NEW u \in Busy({"reduceFetch", "reduce", "reduceCount", "done"})'
        PROVE  shuffleQueue'[u] = shuffledQueue_
    <3>1. CASE u = t
      BY <1>5, <3>1
    <3>2. CASE u # t
      <4>1. u \in Busy({"reduceFetch", "reduce", "reduceCount", "done"})
        BY <1>3, <3>2 DEF Busy
      <4> QED
        BY <1>5, <3>2, <4>1 DEF ReduceData, Copied, Busy
    <3> QED
      BY <3>1, <3>2
  <2> QED
    BY <1>1, <2>1 DEF Copied
<1>7. InHand'
  <2>1. \A u \in Busy({"reduce", "reduceCount"}) : pc'[u] = pc[u]
    BY <1>1, <1>3 DEF Busy
  <2> QED
    BY <1>1, <1>4, <2>1 DEF ReduceData, InHand, keyOf
<1>8. Output' /\ Counted' = Counted
  BY <1>1, <1>2, <1>4 DEF ReduceData, Output, Counted, keyOf
<1>9. Groups' /\ Grouped' = Grouped
  BY <1>1, <1>2 DEF Groups, Grouped, Basic
<1> QED
  BY <1>1, <1>2, <1>5, <1>6, <1>7, <1>8, <1>9 DEF ReduceData, Reported

\* An item below the counter is in the hands of one worker, and not yet in the
\* output, or was reduced; so the item fetched next is new.
LEMMA ReduceFetchKeeps ==
  ASSUME MTypeOK, Basic, ReduceData, NEW t \in Threads, reduceFetch(t)
  PROVE  ReduceData' /\ Groups'
<1> DEFINE n == atomicNextItemToProcess_
           size == Len(shuffledQueue_)
           l == IF n < size THEN "reduce" ELSE "done"
<1>1. /\ pc[t] = "reduceFetch" /\ pc' = [pc EXCEPT ![t] = l] /\ n' = n + 1
      /\ ix' = [ix EXCEPT ![t] = n]
      /\ UNCHANGED <<inputVec_, jobStateBitwise_, intermediateVec_, shuffledQueue_, shuffleQueue, outputVec_>>
  <2>1. pc[t] = "reduceFetch"
    BY DEF reduceFetch, fetch
  <2>2. shuffleQueue[t] = shuffledQueue_
    BY <2>1 DEF ReduceData, Copied, Busy
  <2> QED
    BY <2>2 DEF reduceFetch, fetch, go, data
<1>2. /\ n \in Nat /\ size \in Nat /\ ix \in [Threads -> Nat]
      /\ \A g, h \in 0 .. size - 1 : keyOf(g) = keyOf(h) => g = h
  BY KeyFacts DEF Basic
<1>3. ix'[t] = n /\ \A u \in Threads : u # t => ix'[u] = ix[u]
  BY <1>1, <1>2
<1>4. pc'[t] = l /\ \A u \in Threads : u # t => pc'[u] = pc[u]
  BY <1>1, BusyFacts
<1>5. n < size => l = "reduce"
  OBVIOUS
<1>6. ~(n < size) => l = "done"
  OBVIOUS
<1> HIDE DEF l
<1>7. \A u \in Busy({"reduce", "reduceCount"}) :
        /\ u # t /\ ix[u] < size /\ ix[u] < n /\ ix[u] \in Nat /\ u \in Threads
        /\ \A w \in Busy({"reduce", "reduceCount"}) : ix[w] = ix[u] => w = u
        /\ pc[u] = "reduce" <=> keyOf(ix[u]) \notin Range(outputVec_)
  BY <1>1, <1>2 DEF ReduceData, InHand, Busy
<1>8. Busy({"reduce", "reduceCount"})' \subseteq Busy({"reduce", "reduceCount"}) \union {t}
  BY <1>4 DEF Busy
<1>9. t \in Busy({"reduce", "reduceCount"})' => n < size
  BY <1>4, <1>6 DEF Busy
<1>10. n < size => keyOf(n) \notin Range(outputVec_)
  <2> SUFFICES ASSUME n < size, keyOf(n) \in Range(outputVec_) PROVE FALSE
    OBVIOUS
  <2>1. PICK g \in 0 .. size - 1 : g < n /\ keyOf(n) = keyOf(g)
    BY DEF ReduceData, Output
  <2>2. n \in 0 .. size - 1
    BY <1>2
  <2> QED
    BY <1>2, <2>1, <2>2
<1>11. \A g : keyOf(g)' = keyOf(g)
  BY <1>1 DEF keyOf
<1>12. InHand'
  <2>1. ASSUME NEW u \in Busy({"reduce", "reduceCount"})'
        PROVE  /\ ix'[u] < size /\ ix'[u] < n + 1
               /\ \A w \in Busy({"reduce", "reduceCount"})' : ix'[w] = ix'[u] => w = u
               /\ pc'[u] = "reduce" <=> keyOf(ix'[u]) \notin Range(outputVec_)
    <3>1. CASE u \in Busy({"reduce", "reduceCount"})
      <4>1. ix'[u] = ix[u] /\ pc'[u] = pc[u] /\ ix[u] < size /\ ix[u] < n /\ ix[u] \in Nat
        BY <1>3, <1>4, <1>7, <3>1
      <4>2. ASSUME NEW w \in Busy({"reduce", "reduceCount"})', ix'[w] = ix'[u] PROVE w = u
        <5>1. CASE w \in Busy({"reduce", "reduceCount"})
          <6>1. ix'[w] = ix[w]
            BY <1>3, <1>7, <5>1
          <6> QED
            BY <1>7, <3>1, <4>1, <4>2, <5>1, <6>1
        <5>2. CASE w = t
          BY <1>2, <1>3, <4>1, <4>2, <5>2
        <5> QED
          BY <1>8, <5>1, <5>2
      <4>3. pc[u] = "reduce" <=> keyOf(ix[u]) \notin Range(outputVec_)
        BY <1>7, <3>1
      <4> QED
        BY <1>2, <4>1, <4>2, <4>3
    <3>2. CASE u = t
      <4>1. ix'[u] = n /\ n < size /\ pc'[u] = "reduce"
        BY <1>3, <1>4, <1>5, <1>9, <2>1, <3>2
      <4>2. ASSUME NEW w \in Busy({"reduce", "reduceCount"})', ix'[w] = ix'[u] PROVE w = u
        <5>1. CASE w \in Busy({"reduce", "reduceCount"})
          <6>1. ix'[w] = ix[w] /\ ix[w] < n /\ ix[w] \in Nat
            BY <1>3, <1>7, <5>1
          <6> QED
            BY <1>2, <4>1, <4>2, <6>1
        <5> QED
          BY <1>8, <3>2, <5>1
      <4> QED
        BY <1>2, <1>10, <4>1, <4>2
    <3> QED
      BY <1>8, <2>1, <3>1, <3>2
  <2> QED
    BY <1>1, <1>11, <2>1 DEF InHand, keyOf
<1>13. Output'
  <2>1. \A key \in Range(outputVec_) : \E g \in 0 .. size - 1 : g < n + 1 /\ key = keyOf(g)
    <3>1. \A key \in Range(outputVec_) : \E g \in 0 .. size - 1 : g < n /\ key = keyOf(g)
      BY DEF ReduceData, Output
    <3>2. \A g \in 0 .. size - 1 : g < n => g < n + 1
      BY <1>2
    <3> QED
      BY <3>1, <3>2
  <2>2. ASSUME NEW g \in 0 .. size - 1, g < n + 1
        PROVE  (\E u \in Busy({"reduce"})' : ix'[u] = g) \/ keyOf(g) \in Range(outputVec_)
    <3>1. CASE g < n
      <4>1. CASE \E u \in Busy({"reduce"}) : ix[u] = g
        <5>1. PICK u \in Busy({"reduce"}) : ix[u] = g
          BY <4>1
        <5>2. u # t /\ u \in Threads /\ pc[u] = "reduce"
          BY <1>1, <5>1 DEF Busy
        <5>3. u \in Busy({"reduce"})' /\ ix'[u] = g
          BY <1>3, <1>4, <5>1, <5>2 DEF Busy
        <5> QED
          BY <5>3
      <4> QED
        BY <3>1, <4>1 DEF ReduceData, Output
    <3>2. CASE g = n
      <4>1. n < size
        BY <1>2, <3>2
      <4>2. t \in Busy({"reduce"})' /\ ix'[t] = g
        BY <1>3, <1>4, <1>5, <3>2, <4>1 DEF Busy
      <4> QED
        BY <4>2
    <3> QED
      BY <1>2, <2>2, <3>1, <3>2
  <2>3. Busy({"done"})' # {} => n + 1 >= size
    <3>1. n < size => Busy({"done"})' = Busy({"done"})
      BY <1>1, <1>4, <1>5 DEF Busy
    <3>2. Busy({"done"}) # {} => n >= size
      BY DEF ReduceData, Output
    <3> QED
      BY <1>2, <3>1, <3>2
  <2> QED
    BY <1>1, <1>11, <2>1, <2>2, <2>3 DEF ReduceData, Output, keyOf
<1>14. Copied'
  <2>1. \A u \in Busy({"reduceFetch", "reduce", "reduceCount", "done"})' :
          u \in Busy({"reduceFetch", "reduce", "reduceCount", "done"})
    BY <1>1, <1>4 DEF Busy
  <2> QED
    BY <1>1, <2>1 DEF ReduceData, Copied
<1>15. AllOf(intermediateVec_)' = Pairs' /\ Pairs' = Pairs
  BY <1>1, VectorsStay
<1>16. Counted' = Counted
  <2>1. Busy({"reduceCount"})' = Busy({"reduceCount"})
    BY <1>1, <1>4, <1>5, <1>6 DEF Busy
  <2>2. \A u \in Busy({"reduceCount"}) : ix'[u] = ix[u]
    BY <1>1, <1>3 DEF Busy
  <2> QED
    BY <1>1, <1>11, <1>15, <2>1, <2>2 DEF Counted, keyOf
<1>17. Groups' /\ Grouped' = Grouped
  BY <1>1, <1>15 DEF Groups, Grouped, Basic
<1> QED
  BY <1>1, <1>12, <1>13, <1>14, <1>15, <1>16, <1>17 DEF ReduceData, Reported

\* The group is in the output from here on, and counted when the worker says so.
LEMMA InvokeReduceKeeps ==
  ASSUME MTypeOK, Basic, ReduceData, NEW t \in Threads, invokeReduce(t)
  PROVE  ReduceData' /\ Groups' /\ outputVec_' \in Seq(Nat)
<1> DEFINE n == atomicNextItemToProcess_
           size == Len(shuffledQueue_)
           key == keyOf(ix[t])
<1>1. /\ pc[t] = "reduce" /\ pc' = [pc EXCEPT ![t] = "reduceCount"]
      /\ outputVec_' = Append(outputVec_, key)
      /\ UNCHANGED <<inputVec_, jobStateBitwise_, n, intermediateVec_, shuffledQueue_, shuffleQueue, ix>>
  <2>1. pc[t] = "reduce"
    BY DEF invokeReduce
  <2>2. shuffleQueue[t] = shuffledQueue_
    BY <2>1 DEF ReduceData, Copied, Busy
  <2> QED
    BY <2>2 DEF invokeReduce, go, data, jobState, keyOf
<1>2. /\ n \in Nat /\ size \in Nat /\ ix \in [Threads -> Nat]
      /\ \A g \in 0 .. size - 1 : /\ keyOf(g) \in Nat
                                  /\ \A h \in 0 .. size - 1 : keyOf(g) = keyOf(h) => g = h
  BY KeyFacts DEF Basic
<1>3. pc'[t] = "reduceCount" /\ \A u \in Threads : u # t => pc'[u] = pc[u]
  BY <1>1, BusyFacts
<1>4. \A u \in Busy({"reduce", "reduceCount"}) :
        /\ ix[u] \in 0 .. size - 1 /\ ix[u] < n /\ u \in Threads
        /\ \A w \in Busy({"reduce", "reduceCount"}) : ix[w] = ix[u] => w = u
        /\ pc[u] = "reduce" <=> keyOf(ix[u]) \notin Range(outputVec_)
  BY <1>2 DEF ReduceData, InHand, Busy
<1>5. t \in Busy({"reduce", "reduceCount"})
  BY <1>1 DEF Busy
<1>6. key \in Nat /\ key \notin Range(outputVec_) /\ ix[t] \in 0 .. size - 1
  BY <1>1, <1>2, <1>4, <1>5
<1>7. /\ outputVec_' \in Seq(Nat) /\ IsInjective(outputVec_)'
      /\ Range(outputVec_)' = Range(outputVec_) \union {key}
  <2>1. outputVec_ \in Seq(Nat) /\ IsInjective(outputVec_)
    BY DEF Basic, ReduceData, Output
  <2> HIDE DEF key
  <2>2. PICK o : o = Append(outputVec_, key)
    OBVIOUS
  <2>3. o \in Seq(Nat) /\ IsInjective(o) /\ Range(o) = Range(outputVec_) \union {key}
    BY <1>6, <2>1, <2>2, AppendOneFacts
  <2>4. outputVec_' = o
    BY <1>1, <2>2
  <2>5. IsInjective(outputVec_') /\ Range(outputVec_') = Range(o)
    BY <2>3, <2>4
  <2> QED
    BY <2>3, <2>4, <2>5 DEF Range, IsInjective
<1>8. \A g : keyOf(g)' = keyOf(g)
  BY <1>1 DEF keyOf
<1>9. /\ Busy({"reduce", "reduceCount"})' = Busy({"reduce", "reduceCount"})
      /\ Busy({"reduceCount"})' = Busy({"reduceCount"}) \union {t}
      /\ Busy({"reduceCount"}) \subseteq Busy({"reduce", "reduceCount"})
      /\ Busy({"done"})' = Busy({"done"})
      /\ Busy({"reduceFetch", "reduce", "reduceCount", "done"})' = Busy({"reduceFetch", "reduce", "reduceCount", "done"})
  BY <1>1, <1>3 DEF Busy
<1>10. InHand'
  <2>1. ASSUME NEW u \in Busy({"reduce", "reduceCount"})
        PROVE  pc'[u] = "reduce" <=> keyOf(ix[u]) \notin Range(outputVec_)'
    <3>1. CASE u = t
      BY <1>3, <1>7, <3>1
    <3>2. CASE u # t
      <4>1. ix[u] # ix[t] /\ ix[u] \in 0 .. size - 1 /\ pc'[u] = pc[u]
        BY <1>3, <1>4, <1>5, <3>2
      <4>2. keyOf(ix[u]) # key
        BY <1>2, <1>6, <4>1
      <4>3. pc[u] = "reduce" <=> keyOf(ix[u]) \notin Range(outputVec_)
        BY <1>4
      <4> QED
        BY <1>7, <4>1, <4>2, <4>3
    <3> QED
      BY <3>1, <3>2
  <2>2. \A u \in Busy({"reduce", "reduceCount"}) : ix[u] < size
    BY <1>2, <1>4
  <2> QED
    BY <1>1, <1>4, <1>8, <1>9, <2>1, <2>2 DEF InHand
<1>11. Output'
  <2>1. \A k \in Range(outputVec_)' : \E g \in 0 .. size - 1 : g < n /\ k = keyOf(g)
    <3>1. \A k \in Range(outputVec_) : \E g \in 0 .. size - 1 : g < n /\ k = keyOf(g)
      BY DEF ReduceData, Output
    <3>2. ix[t] < n
      BY <1>4, <1>5
    <3> QED
      BY <1>6, <1>7, <3>1, <3>2
  <2>2. ASSUME NEW g \in 0 .. size - 1, g < n
        PROVE  (\E u \in Busy({"reduce"})' : ix[u] = g) \/ keyOf(g) \in Range(outputVec_)'
    <3>1. (\E u \in Busy({"reduce"}) : ix[u] = g) \/ keyOf(g) \in Range(outputVec_)
      BY <2>2 DEF ReduceData, Output
    <3>2. ASSUME NEW u \in Busy({"reduce"}), ix[u] = g
          PROVE  u \in Busy({"reduce"})' \/ keyOf(g) \in Range(outputVec_)'
      <4>1. CASE u = t
        BY <1>7, <3>2, <4>1
      <4>2. CASE u # t
        BY <1>3, <4>2 DEF Busy
      <4> QED
        BY <4>1, <4>2
    <3> QED
      BY <1>7, <3>1, <3>2
  <2>3. Busy({"done"})' # {} => n >= size
    BY <1>9 DEF ReduceData, Output
  <2> QED
    BY <1>1, <1>7, <1>8, <2>1, <2>2, <2>3 DEF Output
<1>12. Copied'
  BY <1>1, <1>9 DEF ReduceData, Copied
<1>13. AllOf(intermediateVec_)' = Pairs' /\ Pairs' = Pairs
  BY <1>1, VectorsStay
<1>14. Counted' = Counted
  <2>1. ASSUME NEW p \in Pairs
        PROVE  (p.key \in Range(outputVec_)' /\ \A u \in Busy({"reduceCount"})' : p.key # keyOf(ix[u]))
                 <=> (p.key \in Range(outputVec_) /\ \A u \in Busy({"reduceCount"}) : p.key # keyOf(ix[u]))
    BY <1>6, <1>7, <1>9
  <2> QED
    BY <1>1, <1>8, <1>13, <2>1 DEF Counted
<1>15. Groups' /\ Grouped' = Grouped
  BY <1>1, <1>13 DEF Groups, Grouped, Basic
<1> QED
  BY <1>1, <1>7, <1>10, <1>11, <1>12, <1>13, <1>14, <1>15 DEF ReduceData, Reported

\* A group is counted after it is in the output.
LEMMA ReduceCountKeeps ==
  ASSUME MTypeOK, Basic, ReduceData, NEW t \in Threads, reduceCount(t)
  PROVE  ReduceData' /\ Groups'
<1> DEFINE n == atomicNextItemToProcess_
           size == Len(shuffledQueue_)
           key == keyOf(ix[t])
           group == shuffledQueue_[ix[t] + 1]
<1>1. /\ pc[t] = "reduceCount" /\ pc' = [pc EXCEPT ![t] = "reduceFetch"]
      /\ addNumberOfProcessedItems(REDUCE_STAGE, Len(group))
      /\ UNCHANGED <<inputVec_, n, intermediateVec_, shuffledQueue_, shuffleQueue, outputVec_, ix>>
  <2>1. pc[t] = "reduceCount"
    BY DEF reduceCount
  <2>2. shuffleQueue[t] = shuffledQueue_
    BY <2>1 DEF ReduceData, Copied, Busy
  <2> QED
    BY <2>2 DEF reduceCount, go, data
<1>2. /\ n \in Nat /\ size \in Nat /\ ix \in [Threads -> Nat]
      /\ \A g \in 0 .. size - 1 : \A h \in 0 .. size - 1 : keyOf(g) = keyOf(h) => g = h
  BY KeyFacts DEF Basic
<1>3. pc'[t] = "reduceFetch" /\ \A u \in Threads : u # t => pc'[u] = pc[u]
  BY <1>1, BusyFacts
<1>4. \A u \in Busy({"reduce", "reduceCount"}) :
        /\ ix[u] \in 0 .. size - 1 /\ ix[u] < n /\ u \in Threads
        /\ \A w \in Busy({"reduce", "reduceCount"}) : ix[w] = ix[u] => w = u
        /\ pc[u] = "reduce" <=> keyOf(ix[u]) \notin Range(outputVec_)
  BY <1>2 DEF ReduceData, InHand, Busy
<1>5. t \in Busy({"reduce", "reduceCount"}) /\ t \in Busy({"reduceCount"})
  BY <1>1 DEF Busy
<1>6. key \in Range(outputVec_) /\ ix[t] \in 0 .. size - 1
  BY <1>1, <1>4, <1>5
<1>7. /\ group \in Seq(Pairs) /\ IsInjective(group)
      /\ Range(group) = {p \in Grouped : p.key = key}
  BY <1>6, KeyFacts DEF Basic
<1>8. \A g : keyOf(g)' = keyOf(g)
  BY <1>1 DEF keyOf
<1>9. /\ Busy({"reduce", "reduceCount"})' = Busy({"reduce", "reduceCount"}) \ {t}
      /\ Busy({"reduce"})' = Busy({"reduce"})
      /\ Busy({"reduceCount"})' = Busy({"reduceCount"}) \ {t}
      /\ Busy({"reduceCount"}) \subseteq Busy({"reduce", "reduceCount"})
      /\ Busy({"done"})' = Busy({"done"})
      /\ Busy({"reduceFetch", "reduce", "reduceCount", "done"})' = Busy({"reduceFetch", "reduce", "reduceCount", "done"})
  BY <1>1, <1>3 DEF Busy
<1> HIDE DEF key, group
<1>10. InHand'
  <2>1. \A u \in Busy({"reduce", "reduceCount"})' : /\ u \in Busy({"reduce", "reduceCount"}) /\ pc'[u] = pc[u]
                                                    /\ ix[u] < size
    BY <1>2, <1>3, <1>4, <1>9
  <2> QED
    BY <1>1, <1>4, <1>8, <2>1 DEF InHand
<1>11. Output' /\ Copied'
  BY <1>1, <1>8, <1>9 DEF ReduceData, Output, Copied
<1>12. AllOf(intermediateVec_)' = Pairs' /\ Pairs' = Pairs
  BY <1>1, VectorsStay
<1>13. Counted' = Counted \union Range(group) /\ Counted \intersect Range(group) = {}
  <2>1. \A u \in Busy({"reduceCount"}) : u # t => keyOf(ix[u]) # key
    <3>1. ASSUME NEW u \in Busy({"reduceCount"}), u # t PROVE keyOf(ix[u]) # key
      <4>1. ix[u] # ix[t] /\ ix[u] \in 0 .. size - 1
        BY <1>4, <1>5, <1>9, <3>1
      <4> QED
        BY <1>2, <1>6, <4>1 DEF key
    <3> QED
      BY <3>1
  <2>2. Range(group) = {p \in Pairs : p.key = key}
    BY <1>7 DEF ReduceData
  <2>3. Counted' = {p \in Pairs : p.key \in Range(outputVec_) /\ \A u \in Busy({"reduceCount"}) \ {t} : p.key # keyOf(ix[u])}
    BY <1>1, <1>8, <1>9, <1>12 DEF Counted
  <2>4. \A p \in Counted : p.key # key
    BY <1>5 DEF Counted, key
  <2>5. Counted' = Counted \union {p \in Pairs : p.key = key}
    BY <1>6, <2>1, <2>3 DEF Counted, key
  <2> QED
    BY <2>2, <2>4, <2>5
<1>14. Reported(REDUCE_STAGE, Cardinality(Counted))'
  <2>1. IsFiniteSet(Pairs) /\ Counted \in SUBSET Pairs
    BY TotalFacts DEF Basic, ReduceData, Counted
  <2>2. IsFiniteSet(Counted) /\ Cardinality(Counted) \in Nat
    BY <2>1, FS_Subset, FS_CardinalityType
  <2>3. IsFiniteSet(Range(group)) /\ Cardinality(Range(group)) = Len(group) /\ Len(group) \in Nat
    BY <1>7, InjectiveFacts, LenProperties
  <2>4. Cardinality(Counted \union Range(group))
          = Cardinality(Counted) + Cardinality(Range(group)) - Cardinality(Counted \intersect Range(group))
    BY <2>2, <2>3, FS_Union
  <2>5. Cardinality(Counted') = Cardinality(Counted) + Len(group)
    <3>1. Cardinality(Counted \intersect Range(group)) = 0
      BY <1>13, FS_EmptySet
    <3> QED
      BY <1>13, <2>2, <2>3, <2>4, <3>1
  <2>6. PICK c \in Nat : c = Cardinality(Counted)
    BY <2>2
  <2>7. jobStateBitwise_ = REDUCE_STAGE + 4 * c
    BY <2>6 DEF ReduceData, Reported
  <2>8. stageOf(REDUCE_STAGE + 4 * c) = REDUCE_STAGE
    BY StateFacts
  <2>9. jobStateBitwise_' = REDUCE_STAGE + 4 * c + 4 * Len(group)
    BY <1>1, <2>7, <2>8 DEF addNumberOfProcessedItems
  <2>10. jobStateBitwise_' = REDUCE_STAGE + 4 * (c + Len(group))
    BY <2>3, <2>9 DEF REDUCE_STAGE
  <2> QED
    BY <2>5, <2>6, <2>10 DEF Reported
<1>15. Groups' /\ Grouped' = Grouped
  BY <1>1, <1>12 DEF Groups, Grouped, Basic
<1> QED
  BY <1>1, <1>10, <1>11, <1>12, <1>14, <1>15 DEF ReduceData

-----------------------------------------------------------------------------
(* The steps of a phase together *)

\* Without its data changed a state keeps what is known of them.
LEMMA DataStays ==
  ASSUME UNCHANGED <<inputVec_, jobState, data, ix>>
  PROVE  /\ Basic => Basic'
         /\ UNCHANGED pc => /\ MapData => MapData'
                            /\ ShuffleData => ShuffleData'
                            /\ ReduceData => ReduceData'
<1> USE DEF jobState, data
<1>1. Pairs' = Pairs /\ \A i : EmittedBy(i)' = EmittedBy(i)
  BY SameInputs
<1>2. /\ AllOf(intermediateVec_)' = AllOf(intermediateVec_) /\ AllOf(interVecs)' = AllOf(interVecs)
      /\ Grouped' = Grouped
  BY DEF AllOf, Grouped
<1>3. Basic => Basic'
  BY <1>1 DEF Basic, Apart, Groups
<1>4. ASSUME UNCHANGED pc
      PROVE  /\ MapData => MapData'
             /\ ShuffleData => ShuffleData'
             /\ ReduceData => ReduceData'
  <2>1. \A labels : Busy(labels)' = Busy(labels)
    BY <1>4 DEF Busy
  <2>2. MapData => MapData'
    BY <1>1, <1>2, <2>1, <1>4 DEF MapData, Fetched, Emitted, Sorted, MapReported, Reported, Inputs, SortedByKey
  <2>3. ShuffleData => ShuffleData'
    BY <1>1, <1>2, <1>4 DEF ShuffleData, Unshuffled, Apart, Reported, SortedByKey
  <2>4. Counted' = Counted
    BY <1>1, <2>1 DEF Counted, keyOf
  <2>5. ReduceData => ReduceData'
    BY <1>1, <1>2, <1>4, <2>1, <2>4 DEF ReduceData, Copied, InHand, Output, Reported, keyOf
  <2> QED
    BY <2>2, <2>3, <2>5
<1> QED
  BY <1>3, <1>4

\* The part of Basic that the steps of a phase leave alone.
LEMMA BasicStays ==
  ASSUME Basic, UNCHANGED inputVec_, atomicNextItemToProcess_' \in Nat, ix' \in [Threads -> Nat]
  PROVE  /\ UNCHANGED intermediateVec_ => Apart(intermediateVec_)'
         /\ UNCHANGED shuffledQueue_ => Groups'
         /\ UNCHANGED outputVec_ => outputVec_' \in Seq(Nat)
         /\ UNCHANGED shuffleQueue => DOMAIN shuffleQueue' = Threads
         /\ Apart(intermediateVec_)' /\ Groups' /\ outputVec_' \in Seq(Nat) /\ DOMAIN shuffleQueue' = Threads
              => Basic'
<1>1. Pairs' = Pairs
  BY SameInputs
<1> QED
  BY <1>1 DEF Basic, Apart, Groups

\* Every step of the map phase keeps its data invariant,
LEMMA MapSteps ==
  ASSUME MTypeOK, Basic, MapData, NEW t \in Threads,
         mapStage(t) \/ mapFetch(t) \/ invokeMap(t) \/ mapCount(t) \/ invokeSortPhase(t)
  PROVE  MapData' /\ Basic'
<1>1. MapData'
  BY MapStageKeeps, MapFetchKeeps, InvokeMapKeeps, MapCountKeeps, SortKeeps
<1>2. UNCHANGED <<inputVec_, shuffledQueue_, shuffleQueue, outputVec_>>
  BY DEF mapStage, mapFetch, fetch, invokeMap, mapCount, invokeSortPhase, data
<1>3. atomicNextItemToProcess_' \in Nat /\ ix' \in [Threads -> Nat]
  BY DEF mapStage, mapFetch, fetch, invokeMap, mapCount, invokeSortPhase, jobState, Basic
<1>4. Apart(intermediateVec_)'
  <2>1. CASE invokeMap(t) \/ invokeSortPhase(t)
    BY <2>1, InvokeMapKeeps, SortKeeps
  <2>2. CASE mapStage(t) \/ mapFetch(t) \/ mapCount(t)
    <3>1. UNCHANGED intermediateVec_
      BY <2>2 DEF mapStage, mapFetch, fetch, mapCount, data
    <3> QED
      BY <1>2, <1>3, <3>1, BasicStays
  <2> QED
    BY <2>1, <2>2
<1> QED
  BY <1>1, <1>2, <1>3, <1>4, BasicStays

\* every step of the shuffle its own,
LEMMA ShuffleSteps ==
  ASSUME MTypeOK, Basic, ShuffleData,
         toShuffle(0) \/ shuffleLock(0) \/ shuffleCopy(0) \/ shufflePair(0) \/ shuffleDone(0) \/ toReduce(0)
  PROVE  ShuffleData' /\ Basic'
<1>1. ShuffleData'
  <2>1. shufflePair(0) => pc[0] = "shuffle"
    BY DEF shufflePair
  <2> QED
    BY <2>1, ToShuffleKeeps, ShuffleLockKeeps, ShuffleCopyKeeps, ShufflePairKeeps, ShuffleDoneKeeps, ToReduceKeeps
<1>2. UNCHANGED <<inputVec_, intermediateVec_, shuffleQueue, outputVec_>>
  BY DEF toShuffle, shuffleLock, shuffleCopy, shufflePair, shuffleDone, toReduce, nextPhase, data
<1>3. atomicNextItemToProcess_' \in Nat /\ ix' \in [Threads -> Nat]
  BY DEF toShuffle, shuffleLock, shuffleCopy, shufflePair, shuffleDone, toReduce, nextPhase, jobState, Basic
<1>4. Groups'
  <2>1. CASE shufflePair(0)
    BY <2>1, ShufflePairKeeps DEF shufflePair
  <2>2. CASE ~shufflePair(0)
    <3>1. UNCHANGED shuffledQueue_
      BY <2>2 DEF toShuffle, shuffleLock, shuffleCopy, shuffleDone, toReduce, nextPhase, data
    <3> QED
      BY <1>2, <1>3, <3>1, BasicStays
  <2> QED
    BY <2>1, <2>2
<1> QED
  BY <1>1, <1>2, <1>3, <1>4, BasicStays

\* and every step of the reduce its own.
LEMMA ReduceSteps ==
  ASSUME MTypeOK, Basic, ReduceData, NEW t \in Threads,
         reduceStage(t) \/ copyQueue(t) \/ reduceFetch(t) \/ invokeReduce(t) \/ reduceCount(t)
  PROVE  ReduceData' /\ Basic'
<1>1. ReduceData' /\ Groups'
  BY ReduceStageKeeps, CopyQueueKeeps, ReduceFetchKeeps, InvokeReduceKeeps, ReduceCountKeeps
<1>2. UNCHANGED <<inputVec_, intermediateVec_>>
  BY DEF reduceStage, copyQueue, reduceFetch, fetch, invokeReduce, reduceCount, data
<1>3. atomicNextItemToProcess_' \in Nat /\ ix' \in [Threads -> Nat]
  BY DEF reduceStage, copyQueue, reduceFetch, fetch, invokeReduce, reduceCount, jobState, Basic
<1>4. DOMAIN shuffleQueue' = Threads
  <2>1. CASE copyQueue(t)
    BY <2>1, CopyQueueKeeps
  <2>2. CASE ~copyQueue(t)
    <3>1. UNCHANGED shuffleQueue
      BY <2>2 DEF reduceStage, reduceFetch, fetch, invokeReduce, reduceCount, data
    <3> QED
      BY <3>1 DEF Basic
  <2> QED
    BY <2>1, <2>2
<1>5. outputVec_' \in Seq(Nat)
  <2>1. CASE invokeReduce(t)
    BY <2>1, InvokeReduceKeeps
  <2>2. CASE ~invokeReduce(t)
    <3>1. UNCHANGED outputVec_
      BY <2>2 DEF reduceStage, copyQueue, reduceFetch, fetch, reduceCount, data
    <3> QED
      BY <3>1 DEF Basic
  <2> QED
    BY <2>1, <2>2
<1> QED
  BY <1>1, <1>2, <1>3, <1>4, <1>5, BasicStays

-----------------------------------------------------------------------------
(* The rounds of the barrier *)

\* All that was emitted, once no input is left and nobody maps.
LEMMA AllEmitted ==
  ASSUME Basic, MapData, Busy({"map"}) = {}, atomicNextItemToProcess_ >= NumInputs
  PROVE  AllOf(intermediateVec_) = Pairs
<1>1. AllOf(intermediateVec_) \subseteq Pairs
  BY VectorFacts DEF Basic
<1>2. ASSUME NEW i \in Inputs PROVE Range(EmittedBy(i)) \subseteq AllOf(intermediateVec_)
  <2>1. i < atomicNextItemToProcess_
    BY NumInputsAssumption DEF Basic, Inputs
  <2> QED
    BY <2>1 DEF MapData, Emitted
<1>3. Pairs \subseteq AllOf(intermediateVec_)
  BY <1>2 DEF Pairs
<1> QED
  BY <1>1, <1>3

\* When every worker is at the first barrier, all the inputs are mapped.
LEMMA FirstRoundOver ==
  ASSUME Basic, MapData, \A u \in Threads : pc[u] = "barrier1"
  PROVE  ShuffleData
<1> DEFINE n == atomicNextItemToProcess_
<1>1. /\ Busy({"map"}) = {} /\ Busy({"map", "mapCount"}) = {} /\ Busy({"none", "start"}) = {}
      /\ Busy({"barrier1"}) = Threads /\ Busy({"sort", "barrier1"}) = Threads
      /\ 0 \in Threads
  BY ThreadsFacts DEF Busy
<1>2. n \in Nat /\ NumInputs \in Nat /\ n >= NumInputs
  BY <1>1, NumInputsAssumption DEF Basic, MapData, Sorted
<1>3. AllOf(intermediateVec_) = Pairs
  BY <1>1, <1>2, AllEmitted
<1>4. Reported(MAP_STAGE, NumInputs)
  <2>1. Cardinality({}) = 0
    BY FS_EmptySet
  <2>2. PICK count \in 0 .. NumInputs :
          /\ count + Cardinality(Busy({"map", "mapCount"})) = IF n < NumInputs THEN n ELSE NumInputs
          /\ Reported(MAP_STAGE, count) \/ Busy({"none", "start"}) = Threads
    BY DEF MapData, MapReported
  <2>3. count = NumInputs
    BY <1>1, <1>2, <2>1, <2>2
  <2> QED
    BY <1>1, <2>2, <2>3
<1> QED
  BY <1>1, <1>3, <1>4 DEF ShuffleData, MapData, Sorted

\* When every worker is at the second barrier, all the pairs are in groups.
LEMMA SecondRoundOver ==
  ASSUME Basic, ShuffleData, \A u \in Threads : pc[u] = "barrier2"
  PROVE  ReduceData
<1>1. /\ Busy({"reduceFetch", "reduce", "reduceCount", "done"}) = {} /\ Busy({"reduce", "reduceCount"}) = {}
      /\ Busy({"done"}) = {} /\ 0 \in Threads
  BY ThreadsFacts DEF Busy
<1>2. /\ outputVec_ = <<>> /\ Grouped = Pairs /\ atomicNextItemToProcess_ = 0 /\ Reported(REDUCE_STAGE, 0)
      /\ AllOf(intermediateVec_) = Pairs
  BY <1>1 DEF ShuffleData
<1>3. Range(outputVec_) = {} /\ IsInjective(outputVec_)
  BY <1>2 DEF Range, IsInjective
<1>4. Counted = {} /\ Cardinality(Counted) = 0
  <2>1. Counted = {}
    BY <1>3 DEF Counted
  <2> QED
    BY <2>1, FS_EmptySet
<1>5. \A g \in 0 .. Len(shuffledQueue_) - 1 : ~(g < 0)
  <2>1. Len(shuffledQueue_) \in Nat
    BY LenProperties DEF Basic, Groups
  <2> QED
    BY <2>1
<1>6. Copied /\ InHand /\ Output
  BY <1>1, <1>2, <1>3, <1>5 DEF Copied, InHand, Output
<1> QED
  BY <1>2, <1>4, <1>6 DEF ReduceData

\* No worker is in two phases.
LEMMA OnePhase ==
  \A u \in Threads : /\ ~(Phase1(u) /\ Phase2(u)) /\ ~(Phase1(u) /\ Phase3(u)) /\ ~(Phase2(u) /\ Phase3(u))
                     /\ ~(Phase1(u)' /\ Phase2(u)') /\ ~(Phase1(u)' /\ Phase3(u)') /\ ~(Phase2(u)' /\ Phase3(u)')
  BY DEF Phase1, Phase2, Phase3, Mapping, Shuffling, Reducing, Entering, Leaving

\* A step to a phase must give the data of that phase.
LEMMA StepToPhase ==
  ASSUME Basic',
         \/ (\A u \in Threads : Phase1(u)') /\ MapData'
         \/ (\A u \in Threads : Phase2(u)') /\ ShuffleData'
         \/ (\A u \in Threads : Phase3(u)') /\ ReduceData'
  PROVE  DInv'
  BY OnePhase, ThreadsFacts DEF DInv

\* The last arrival at a barrier finds the data of one phase complete, and the
\* next phase starts from it.
LEMMA BarrierKeepsData ==
  ASSUME MTypeOK, SamePhase, BarrierInv, DInv, NEW t \in Threads, firstBarrier(t) \/ secondBarrier(t)
  PROVE  DInv'
<1>1. UNCHANGED <<inputVec_, jobState, data, ix>> /\ pc[t] \in {"barrier1", "barrier2"}
  BY DEF firstBarrier, secondBarrier, barrier
<1>2. Basic /\ Basic'
  BY <1>1, DataStays DEF DInv
<1>3. /\ (\A u \in Threads : Phase1(u)) => MapData
      /\ (\A u \in Threads : Phase2(u)) => ShuffleData
      /\ (\A u \in Threads : Phase3(u)) => ReduceData
  BY DEF DInv
<1>4. CASE /\ UNCHANGED pc
           /\ Moves(t, "out", "locked") \/ Moves(t, "locked", "waiting") \/ Moves(t, "woken", "unlocking")
  <2>1. \A u \in Threads : /\ Phase1(u) => Phase1(u)'
                           /\ Phase2(u) => Phase2(u)'
                           /\ Phase3(u) => Phase3(u)'
    BY <1>1, <1>4 DEF BarrierInv, Moves, Phase1, Phase2, Phase3, Entering, Leaving,
       Mapping, Shuffling, Reducing
  <2>2. (MapData => MapData') /\ (ShuffleData => ShuffleData') /\ (ReduceData => ReduceData')
    BY <1>1, <1>4, DataStays
  <2>3. \/ (\A u \in Threads : Phase1(u)') /\ MapData'
        \/ (\A u \in Threads : Phase2(u)') /\ ShuffleData'
        \/ (\A u \in Threads : Phase3(u)') /\ ReduceData'
    BY <1>3, <2>1, <2>2 DEF SamePhase
  <2> QED
    BY <1>2, <2>3, StepToPhase
<1>5. CASE UNCHANGED pc /\ LetsGo(t)
  <2>1. \A u \in Threads : barrierAt[u] \in {"locked", "waiting"} /\ barrierAt'[u] \in Leaving
    BY <1>5 DEF LetsGo, Leaving
  <2>2. \A u \in Threads : /\ Phase1(u) => Phase2(u)' /\ pc[u] = "barrier1"
                           /\ Phase2(u) => Phase3(u)' /\ pc[u] = "barrier2"
                           /\ ~Phase3(u)
    BY <1>5, <2>1 DEF Phase1, Phase2, Phase3, Entering, Leaving
  <2>3. (ShuffleData => ShuffleData') /\ (ReduceData => ReduceData')
    BY <1>1, <1>5, DataStays
  <2>4. CASE \A u \in Threads : Phase1(u)
    <3>1. (\A u \in Threads : Phase2(u)') /\ ShuffleData'
      BY <1>2, <1>3, <2>2, <2>3, <2>4, FirstRoundOver
    <3> QED
      BY <1>2, <3>1, StepToPhase
  <2>5. CASE \A u \in Threads : Phase2(u)
    <3>1. (\A u \in Threads : Phase3(u)') /\ ReduceData'
      BY <1>2, <1>3, <2>2, <2>3, <2>5, SecondRoundOver
    <3> QED
      BY <1>2, <3>1, StepToPhase
  <2> QED
    BY <2>2, <2>4, <2>5, ThreadsFacts DEF SamePhase
<1>6. CASE /\ Moves(t, "unlocking", "out")
           /\ \/ pc[t] = "barrier1" /\ go(t, IF t = 0 THEN "toShuffle" ELSE "barrier2")
              \/ pc[t] = "barrier2" /\ go(t, "reduceStage")
  <2>1. PICK l \in {"toShuffle", "barrier2", "reduceStage"} :
          /\ pc' = [pc EXCEPT ![t] = l]
          /\ \/ pc[t] = "barrier1" /\ l = IF t = 0 THEN "toShuffle" ELSE "barrier2"
             \/ pc[t] = "barrier2" /\ l = "reduceStage"
    BY <1>6 DEF go
  <2>2. /\ pc'[t] = l /\ barrierAt[t] = "unlocking" /\ barrierAt'[t] = "out"
        /\ \A u \in Threads : u # t => pc'[u] = pc[u] /\ barrierAt'[u] = barrierAt[u]
    BY <1>6, <2>1 DEF MTypeOK, BarrierInv, Moves
  <2>3. /\ ~Phase1(t)
        /\ Phase2(t) => Phase2(t)' /\ pc[t] = "barrier1"
        /\ Phase3(t) => Phase3(t)' /\ pc[t] = "barrier2"
    BY <2>1, <2>2 DEF Phase1, Phase2, Phase3, Entering, Leaving, Mapping, Shuffling, Reducing
  <2>4. \A u \in Threads : u # t => (Phase2(u) => Phase2(u)') /\ (Phase3(u) => Phase3(u)')
    BY <2>2 DEF Phase2, Phase3
  <2>5. CASE \A u \in Threads : Phase2(u)
    <3>1. \A u \in Threads : Phase2(u)'
      BY <2>3, <2>4, <2>5
    <3>2. \/ pc'[0] = pc[0]
          \/ pc[0] = "barrier1" /\ pc'[0] = "toShuffle"
      BY <2>1, <2>2, <2>3, <2>5, ThreadsFacts
    <3>3. Pairs' = Pairs /\ AllOf(intermediateVec_)' = AllOf(intermediateVec_) /\ AllOf(interVecs)' = AllOf(interVecs)
          /\ Grouped' = Grouped
      BY <1>1, SameInputs DEF AllOf, Grouped, data
    <3>4. ShuffleData'
      BY <1>1, <1>3, <2>5, <3>2, <3>3 DEF ShuffleData, Unshuffled, Apart, Reported, SortedByKey, data, jobState
    <3> QED
      BY <1>2, <3>1, <3>4, StepToPhase
  <2>6. CASE \A u \in Threads : Phase3(u)
    <3>1. \A u \in Threads : Phase3(u)'
      BY <2>3, <2>4, <2>6
    <3>2. /\ Busy({"reduceFetch", "reduce", "reduceCount", "done"})' = Busy({"reduceFetch", "reduce", "reduceCount", "done"})
          /\ Busy({"reduce", "reduceCount"})' = Busy({"reduce", "reduceCount"})
          /\ Busy({"reduce"})' = Busy({"reduce"}) /\ Busy({"reduceCount"})' = Busy({"reduceCount"})
          /\ Busy({"done"})' = Busy({"done"})
      BY <2>1, <2>2, <2>3, <2>6 DEF Busy
    <3>3. \A u \in Busy({"reduce", "reduceCount"}) : pc'[u] = pc[u]
      BY <2>2, <2>3, <2>6 DEF Busy
    <3>4. Pairs' = Pairs /\ AllOf(intermediateVec_)' = AllOf(intermediateVec_) /\ Grouped' = Grouped
      BY <1>1, SameInputs DEF AllOf, Grouped, data
    <3>5. Counted' = Counted
      BY <1>1, <3>2, <3>4 DEF Counted, keyOf, data
    <3>6. Copied' /\ InHand' /\ Output'
      BY <1>1, <1>3, <2>6, <3>2, <3>3 DEF ReduceData, Copied, InHand, Output, keyOf, data, jobState
    <3>7. ReduceData'
      BY <1>1, <1>3, <2>6, <3>4, <3>5, <3>6 DEF ReduceData, Reported, jobState
    <3> QED
      BY <1>2, <3>1, <3>7, StepToPhase
  <2> QED
    BY <2>3, <2>5, <2>6 DEF SamePhase
<1>7. \/ threadsBarrier_!Arrive(t) /\ UNCHANGED pc
      \/ (threadsBarrier_!Lock(t) \/ threadsBarrier_!Relock(t)) /\ UNCHANGED pc
      \/ /\ threadsBarrier_!Unlock(t)
         /\ \/ pc[t] = "barrier1" /\ go(t, IF t = 0 THEN "toShuffle" ELSE "barrier2")
            \/ pc[t] = "barrier2" /\ go(t, "reduceStage")
  BY DEF firstBarrier, secondBarrier, barrier
<1>8. CASE threadsBarrier_!Arrive(t) /\ UNCHANGED pc
  BY <1>4, <1>5, <1>8, ArriveFacts
<1>9. CASE (threadsBarrier_!Lock(t) \/ threadsBarrier_!Relock(t)) /\ UNCHANGED pc
  <2>1. Moves(t, "out", "locked") \/ Moves(t, "woken", "unlocking")
    BY <1>9, BarrierFacts DEF threadsBarrier_!Lock, threadsBarrier_!Relock, threadsBarrier_!Unlock,
       threadsBarrier_!lockAt
  <2> QED
    BY <1>4, <1>9, <2>1
<1>10. CASE /\ threadsBarrier_!Unlock(t)
            /\ \/ pc[t] = "barrier1" /\ go(t, IF t = 0 THEN "toShuffle" ELSE "barrier2")
               \/ pc[t] = "barrier2" /\ go(t, "reduceStage")
  <2>1. Moves(t, "unlocking", "out")
    BY <1>10, BarrierFacts DEF threadsBarrier_!Lock, threadsBarrier_!Relock, threadsBarrier_!Unlock,
       threadsBarrier_!lockAt
  <2> QED
    BY <1>6, <1>10, <2>1
<1> QED
  BY <1>7, <1>8, <1>9, <1>10

-----------------------------------------------------------------------------
(* The invariant of the data is inductive *)

\* Before the first worker nothing is fetched, emitted or counted.
LEMMA DInitial == Init => DInv
<1> SUFFICES ASSUME Init PROVE DInv
  OBVIOUS
<1> USE DEF Init
<1>1. Range(<<>>) = {} /\ IsInjective(<<>>) /\ <<>> \in Seq(Pairs)
  BY EmptySeq DEF Range, IsInjective
<1>2. Apart(intermediateVec_)
  BY <1>1 DEF Apart
<1>3. Groups
  <2>1. <<>> \in Seq(Seq(Pairs)) /\ DOMAIN <<>> = {}
    BY EmptySeq
  <2> QED
    BY <2>1 DEF Groups
<1>4. Basic
  <2>1. <<>> \in Seq(Nat)
    BY EmptySeq
  <2> QED
    BY <1>2, <1>3, <2>1 DEF Basic
<1>5. /\ Busy({"map"}) = {} /\ Busy({"map", "mapCount"}) = {} /\ Busy({"sort", "barrier1"}) = {}
      /\ Busy({"barrier1"}) = {} /\ Busy({"none", "start"}) = Threads
  BY DEF Busy
<1>6. MapData
  <2>1. AllOf(intermediateVec_) = {}
    BY <1>1 DEF AllOf
  <2>2. Fetched /\ Sorted
    BY <1>5 DEF Fetched, Sorted
  <2>3. Emitted
    BY <2>1 DEF Emitted, Inputs
  <2>4. MapReported
    <3>1. Cardinality(Busy({"map", "mapCount"})) = 0 /\ NumInputs \in Nat
      BY <1>5, FS_EmptySet, NumInputsAssumption
    <3>2. 0 \in 0 .. NumInputs /\ 0 + 0 = IF 0 < NumInputs THEN 0 ELSE NumInputs
      BY <3>1
    <3>3. atomicNextItemToProcess_ = 0 /\ jobStateBitwise_ = 0
      OBVIOUS
    <3> QED
      BY <1>5, <3>1, <3>2, <3>3 DEF MapReported
  <2> QED
    BY <2>2, <2>3, <2>4 DEF MapData
<1>7. \A u \in Threads : ~Phase2(u) /\ ~Phase3(u)
  BY DEF Phase2, Phase3, Shuffling, Reducing
<1> QED
  BY <1>4, <1>6, <1>7, ThreadsFacts DEF DInv

\* A worker's step outside the barrier.
LEMMA WorkerKeepsData ==
  ASSUME MTypeOK, SamePhase, DInv, NEW t \in Threads, threadStep(t), ~firstBarrier(t), ~secondBarrier(t)
  PROVE  DInv'
<1>1. /\ InPhase(t) /\ UNCHANGED barrierAt
  BY WorkerFacts DEF barrierVars
<1>2. /\ (\A u \in Threads : Phase1(u)) => (\A u \in Threads : Phase1(u)')
      /\ (\A u \in Threads : Phase2(u)) => (\A u \in Threads : Phase2(u)')
      /\ (\A u \in Threads : Phase3(u)) => (\A u \in Threads : Phase3(u)')
  BY <1>1, PhaseStays
<1>3. /\ Basic
      /\ (\A u \in Threads : Phase1(u)) => MapData
      /\ (\A u \in Threads : Phase2(u)) => ShuffleData
      /\ (\A u \in Threads : Phase3(u)) => ReduceData
  BY DEF DInv
<1>4. /\ pc[t] \in Mapping => \A u \in Threads : Phase1(u)
      /\ pc[t] \in Shuffling => t = 0 /\ \A u \in Threads : Phase2(u)
      /\ pc[t] \in Reducing => \A u \in Threads : Phase3(u)
  BY PhaseFacts
<1>5. CASE mapStage(t) \/ mapFetch(t) \/ invokeMap(t) \/ mapCount(t) \/ invokeSortPhase(t)
  <2>1. pc[t] \in Mapping
    BY <1>5 DEF mapStage, mapFetch, fetch, invokeMap, mapCount, invokeSortPhase, Mapping
  <2>2. MapData' /\ Basic' /\ \A u \in Threads : Phase1(u)'
    BY <1>2, <1>3, <1>4, <1>5, <2>1, MapSteps
  <2> QED
    BY <2>2, StepToPhase
<1>6. CASE \/ toShuffle(t) \/ shuffleLock(t) \/ shuffleCopy(t)
           \/ shufflePair(t) \/ shuffleDone(t) \/ toReduce(t)
  <2>1. pc[t] \in Shuffling
    BY <1>6 DEF toShuffle, shuffleLock, shuffleCopy, shufflePair, shuffleDone, toReduce, nextPhase, Shuffling
  <2>2. t = 0 /\ ShuffleData /\ \A u \in Threads : Phase2(u)'
    BY <1>2, <1>3, <1>4, <2>1
  <2>3. ShuffleData' /\ Basic'
    BY <1>3, <1>6, <2>2, ShuffleSteps
  <2> QED
    BY <2>2, <2>3, StepToPhase
<1>7. CASE reduceStage(t) \/ copyQueue(t) \/ reduceFetch(t) \/ invokeReduce(t) \/ reduceCount(t)
  <2>1. pc[t] \in Reducing
    BY <1>7 DEF reduceStage, copyQueue, reduceFetch, fetch, invokeReduce, reduceCount, Reducing
  <2>2. ReduceData' /\ Basic' /\ \A u \in Threads : Phase3(u)'
    BY <1>2, <1>3, <1>4, <1>7, <2>1, ReduceSteps
  <2> QED
    BY <2>2, StepToPhase
<1> QED
  BY <1>5, <1>6, <1>7 DEF threadStep

\* The client's steps leave the data alone; it creates a worker only while all map.
LEMMA ClientKeepsData ==
  ASSUME MInv, DInv, construct \/ waitForJob \/ closeJobHandle \/ join \/ UNCHANGED vars
  PROVE  DInv'
<1>1. UNCHANGED <<inputVec_, jobState, data, ix, barrierAt>>
  BY DEF construct, createThread, assignContext, waitForJob, closeJobHandle, join, pthreadJoin, joinedAll,
         vars, barrierVars
<1>2. /\ Basic'
      /\ (\A u \in Threads : Phase1(u)) => MapData
      /\ (\A u \in Threads : Phase2(u)) => ShuffleData
      /\ (\A u \in Threads : Phase3(u)) => ReduceData
  BY <1>1, DataStays DEF DInv
<1>3. CASE UNCHANGED pc
  <2>1. \A u \in Threads : /\ Phase1(u) => Phase1(u)'
                           /\ Phase2(u) => Phase2(u)'
                           /\ Phase3(u) => Phase3(u)'
    BY <1>1, <1>3 DEF Phase1, Phase2, Phase3
  <2>2. (MapData => MapData') /\ (ShuffleData => ShuffleData') /\ (ReduceData => ReduceData')
    BY <1>1, <1>3, DataStays
  <2> QED
    BY <1>2, <2>1, <2>2, StepToPhase DEF MInv, SamePhase
<1>4. CASE createThread
  <2>1. /\ client.i \in Threads /\ pc[client.i] = "none" /\ pc' = [pc EXCEPT ![client.i] = "start"]
    BY <1>4 DEF createThread, go, MInv, Constructor, Constructing
  <2>2. InPhase(client.i)
    BY <2>1 DEF InPhase, OwnMove, Mapping
  <2>3. pc[client.i] \in Mapping
    BY <2>1 DEF Mapping
  <2>4. \A u \in Threads : Phase1(u)
    BY <2>1, <2>3, PhaseFacts DEF MInv
  <2>5. \A u \in Threads : Phase1(u)'
    BY <1>1, <2>1, <2>2, <2>4, PhaseStays DEF MInv
  <2>6. MapData'
    BY <1>1, <1>2, <2>1, <2>4, CreateKeeps DEF MInv
  <2> QED
    BY <1>2, <2>5, <2>6, StepToPhase
<1>5. ~createThread => UNCHANGED pc
  BY DEF construct, assignContext, waitForJob, closeJobHandle, join, pthreadJoin, joinedAll, vars
<1> QED
  BY <1>3, <1>4, <1>5

\* The data of a job, phase by phase.
THEOREM DataInvariant == Spec => [](MInv /\ DInv)
<1>1. ASSUME MInv, DInv, [Next]_vars PROVE DInv'
  <2>1. ASSUME NEW t \in Threads, threadStep(t) PROVE DInv'
    <3>1. CASE firstBarrier(t) \/ secondBarrier(t)
      BY <1>1, <3>1, BarrierKeepsData DEF MInv
    <3>2. CASE ~firstBarrier(t) /\ ~secondBarrier(t)
      BY <1>1, <2>1, <3>2, WorkerKeepsData DEF MInv
    <3> QED
      BY <3>1, <3>2
  <2>2. CASE construct \/ waitForJob \/ closeJobHandle \/ join \/ UNCHANGED vars
    BY <1>1, <2>2, ClientKeepsData
  <2> QED
    BY <1>1, <2>1, <2>2 DEF Next, finished
<1>2. DInv /\ []MInv /\ [][Next]_vars => []DInv
  BY <1>1, PTL
<1> QED
  BY <1>2, DInitial, JobInvariant, PTL DEF Spec

-----------------------------------------------------------------------------
(* What the clients can rely on *)

\* What is counted in the reduce is no more than there is, and all of it only
\* when every key is in the output; which it is when nobody reduces any more.
LEMMA CountedFacts ==
  ASSUME Basic, ReduceData
  PROVE  /\ IsFiniteSet(Pairs) /\ Cardinality(Pairs) \in Nat
         /\ Cardinality(Counted) \in Nat /\ Cardinality(Counted) <= Cardinality(Pairs)
         /\ Cardinality(Counted) = Cardinality(Pairs) => Range(outputVec_) = {p.key : p \in Pairs}
         /\ AllDone => Range(outputVec_) = {p.key : p \in Pairs} /\ Counted = Pairs
<1>1. IsFiniteSet(Pairs) /\ Cardinality(Pairs) \in Nat
  BY TotalFacts, FS_CardinalityType DEF Basic, ReduceData
<1>2. Counted \in SUBSET Pairs
  BY DEF Counted
<1>3. /\ IsFiniteSet(Counted) /\ Cardinality(Counted) \in Nat /\ Cardinality(Counted) <= Cardinality(Pairs)
      /\ Cardinality(Counted) = Cardinality(Pairs) => Counted = Pairs
  <2>1. PICK c : c = Counted
    OBVIOUS
  <2>2. /\ IsFiniteSet(c) /\ Cardinality(c) <= Cardinality(Pairs)
        /\ Cardinality(c) = Cardinality(Pairs) => c = Pairs
    BY <1>1, <1>2, <2>1, FS_Subset
  <2>3. Cardinality(c) \in Nat
    BY <2>2, FS_CardinalityType
  <2> QED
    BY <2>1, <2>2, <2>3
<1>4. Grouped = Pairs
  BY DEF ReduceData
<1>5. Range(outputVec_) \subseteq {p.key : p \in Pairs}
  <2>1. ASSUME NEW key \in Range(outputVec_) PROVE \E p \in Pairs : key = p.key
    <3>1. PICK g \in 0 .. Len(shuffledQueue_) - 1 : key = keyOf(g)
      BY DEF ReduceData, Output
    <3>2. PICK p \in Grouped : p.key = keyOf(g)
      BY KeyFacts DEF Basic
    <3> QED
      BY <1>4, <3>1, <3>2
  <2> QED
    BY <2>1
<1>6. Counted = Pairs => {p.key : p \in Pairs} \subseteq Range(outputVec_)
  BY DEF Counted
<1>7. ASSUME AllDone PROVE Counted = Pairs
  <2>1. /\ Busy({"reduce"}) = {} /\ Busy({"reduceCount"}) = {} /\ Busy({"done"}) # {}
    BY <1>7, ThreadsFacts DEF AllDone, Busy
  <2>2. atomicNextItemToProcess_ >= Len(shuffledQueue_)
    BY <2>1 DEF ReduceData, Output
  <2>3. ASSUME NEW p \in Pairs PROVE p.key \in Range(outputVec_)
    <3>1. PICK g \in 0 .. Len(shuffledQueue_) - 1 : p.key = keyOf(g)
      BY <1>4, KeyFacts DEF Basic
    <3>2. g < atomicNextItemToProcess_
      <4>1. Len(shuffledQueue_) \in Nat /\ atomicNextItemToProcess_ \in Nat
        BY KeyFacts DEF Basic
      <4> QED
        BY <2>2, <4>1
    <3> QED
      BY <2>1, <3>1, <3>2 DEF ReduceData, Output
  <2> QED
    BY <2>1, <2>3 DEF Counted
<1> QED
  BY <1>1, <1>3, <1>5, <1>6, <1>7

\* What getJobState returns of a state that reports a count of a stage.
LEMMA ReportedFacts ==
  ASSUME NEW stage \in {MAP_STAGE, SHUFFLE_STAGE, REDUCE_STAGE}, NEW count \in Nat, Reported(stage, count)
  PROVE  /\ getJobState.stage = stage /\ getJobState.processed = count
         /\ getJobState.total = IF stage = MAP_STAGE THEN NumInputs ELSE getNumOfIntermediatePairs
<1>1. stageOf(jobStateBitwise_) = stage /\ processedOf(jobStateBitwise_) = count
  BY StateFacts DEF Reported
<1> QED
  BY <1>1 DEF getJobState, UNDEFINED_STAGE, MAP_STAGE, SHUFFLE_STAGE, REDUCE_STAGE

\* The workers have all returned only in the last phase.
LEMMA DoneFacts ==
  ASSUME SamePhase, DInv, AllDone
  PROVE  Basic /\ ReduceData
<1>1. 0 \in Threads /\ pc[0] \in Reducing
  BY ThreadsFacts DEF AllDone, Reducing
<1>2. \A u \in Threads : Phase3(u)
  BY <1>1, PhaseFacts
<1> QED
  BY <1>2 DEF DInv

\* The shuffle: a pair is in one group, a group is all the pairs of its key, and
\* the groups are in the order of their keys, however the inputs were dealt out.
THEOREM ShuffleGroupsEveryPairOnce == Spec => []GroupsPartitionThePairs
<1>1. MInv /\ DInv => GroupsPartitionThePairs
  <2> SUFFICES ASSUME MInv, DInv PROVE GroupsPartitionThePairs
    OBVIOUS
  <2>1. Groups
    BY DEF DInv, Basic
  <2>2. ASSUME NEW g \in DOMAIN shuffledQueue_
        PROVE  /\ 1 \in DOMAIN shuffledQueue_[g]
               /\ \A m, n \in DOMAIN shuffledQueue_[g] :
                    /\ shuffledQueue_[g][m].key = shuffledQueue_[g][n].key
                    /\ m # n => shuffledQueue_[g][m] # shuffledQueue_[g][n]
    <3>1. PICK v : v = shuffledQueue_[g]
      OBVIOUS
    <3>2. v \in Seq(Pairs) /\ v # <<>> /\ IsInjective(v) /\ \A p, q \in Range(v) : p.key = q.key
      BY <2>1, <3>1, LenProperties, ElementOfSeq DEF Groups
    <3>3. 1 \in DOMAIN v
      BY <3>2, LenProperties, EmptySeq
    <3>4. \A m, n \in DOMAIN v : v[m].key = v[n].key /\ (m # n => v[m] # v[n])
      BY <3>2 DEF Range, IsInjective
    <3> QED
      BY <3>1, <3>3, <3>4
  <2>3. ASSUME NEW g \in DOMAIN shuffledQueue_, NEW h \in DOMAIN shuffledQueue_, g < h
        PROVE  shuffledQueue_[g][1].key > shuffledQueue_[h][1].key
    <3>1. shuffledQueue_[g][1] \in Range(shuffledQueue_[g]) /\ shuffledQueue_[h][1] \in Range(shuffledQueue_[h])
      BY <2>2 DEF Range
    <3> QED
      BY <2>1, <2>3, <3>1 DEF Groups
  <2>4. ASSUME pc[0] \in {"toReduce", "barrier2"} \union Reducing PROVE Grouped = Pairs
    <3>1. 0 \in Threads /\ ~Phase1(0)
      BY <2>4, ThreadsFacts DEF Phase1, Mapping, Reducing
    <3>2. CASE \A u \in Threads : Phase2(u)
      <4>1. pc[0] \in {"toReduce", "barrier2"}
        BY <2>4, <3>1, <3>2 DEF Phase2, Reducing, Shuffling
      <4> QED
        BY <3>2, <4>1 DEF DInv, ShuffleData
    <3>3. CASE \A u \in Threads : Phase3(u)
      BY <3>3 DEF DInv, ReduceData
    <3> QED
      BY <3>1, <3>2, <3>3 DEF MInv, SamePhase
  <2>5. UNION {Range(group) : group \in Range(shuffledQueue_)} = Grouped
    BY DEF Grouped, Range
  <2> QED
    BY <2>2, <2>3, <2>4, <2>5 DEF GroupsPartitionThePairs
<1> QED
  BY <1>1, DataInvariant, PTL

\* The item counter of the reduce: however the workers race for the groups, each
\* is reduced once, and all of them have been when the workers are done.
THEOREM EveryGroupReducedOnce == Spec => []ReducedOnce
<1>1. MInv /\ DInv => ReducedOnce
  <2> SUFFICES ASSUME MInv, DInv PROVE ReducedOnce
    OBVIOUS
  <2>1. IsInjective(outputVec_)
    <3>1. IsInjective(<<>>)
      BY DEF IsInjective
    <3> QED
      BY <3>1 DEF MInv, SamePhase, DInv, MapData, ShuffleData, ReduceData, Output
  <2>2. AllDone => Range(outputVec_) = {p.key : p \in Pairs}
    BY DoneFacts, CountedFacts DEF MInv
  <2> QED
    BY <2>1, <2>2 DEF ReducedOnce
<1> QED
  BY <1>1, DataInvariant, PTL

\* The last state a client can read.
THEOREM TheEndIsReported == Spec => []EndIsReported
<1>1. MInv /\ DInv => EndIsReported
  <2> SUFFICES ASSUME MInv, DInv, AllDone
               PROVE  getJobState.stage = REDUCE_STAGE /\ getJobState.processed = getJobState.total
    BY DEF EndIsReported
  <2>1. Basic /\ ReduceData
    BY DoneFacts DEF MInv
  <2>2. Cardinality(Counted) = Cardinality(Pairs) /\ Cardinality(Pairs) \in Nat
    BY <2>1, CountedFacts
  <2>3. Reported(REDUCE_STAGE, Cardinality(Pairs)) /\ getNumOfIntermediatePairs = Cardinality(Pairs)
    BY <2>1, <2>2, TotalFacts DEF Basic, ReduceData
  <2>4. PICK c \in Nat : c = Cardinality(Pairs)
    BY <2>2
  <2>5. getJobState.stage = REDUCE_STAGE /\ getJobState.processed = c
        /\ getJobState.total = getNumOfIntermediatePairs
    <3>1. REDUCE_STAGE # MAP_STAGE
      BY DEF REDUCE_STAGE, MAP_STAGE
    <3> QED
      BY <2>3, <2>4, <3>1, ReportedFacts
  <2> QED
    BY <2>3, <2>4, <2>5
<1> QED
  BY <1>1, DataInvariant, PTL

\* What getJobState reports is never ahead of the work: 100% of a stage means that
\* its pairs, groups or outputs are all there. A worker counts an item only after
\* it has worked on it, and all are counted before the next stage is shown.
THEOREM ReportsNothingUndone == Spec => []ProgressIsHonest
<1>1. MInv /\ DInv => ProgressIsHonest
  <2> SUFFICES ASSUME MInv, DInv PROVE ProgressIsHonest
    OBVIOUS
  <2> USE DEF MAP_STAGE, SHUFFLE_STAGE, REDUCE_STAGE
  <2> DEFINE Honest(stage, processed, total) ==
               /\ processed <= total
               /\ processed = total =>
                    CASE stage = MAP_STAGE -> AllOf(intermediateVec_) = Pairs
                      [] stage = SHUFFLE_STAGE -> Grouped = Pairs
                      [] stage = REDUCE_STAGE -> Range(outputVec_) = {p.key : p \in Pairs}
                      [] OTHER -> FALSE
  <2>1. Basic /\ 0 \in Threads /\ NumInputs \in Nat
    BY ThreadsFacts, NumInputsAssumption DEF DInv
  <2>2. CASE \A t \in Threads : Phase1(t)
    <3>1. MapData
      BY <2>2 DEF DInv
    <3>2. PICK count \in 0 .. NumInputs :
            /\ count + Cardinality(Busy({"map", "mapCount"}))
                 = IF atomicNextItemToProcess_ < NumInputs THEN atomicNextItemToProcess_ ELSE NumInputs
            /\ Reported(MAP_STAGE, count) \/ jobStateBitwise_ = 0
      BY <3>1 DEF MapData, MapReported
    <3>3. CASE Reported(MAP_STAGE, count)
      <4>1. getJobState.stage = MAP_STAGE /\ getJobState.processed = count /\ getJobState.total = NumInputs
        BY <2>1, <3>2, <3>3, ReportedFacts
      <4>2. ASSUME count = NumInputs PROVE AllOf(intermediateVec_) = Pairs
        <5>1. IsFiniteSet(Busy({"map", "mapCount"}))
          <6>1. Busy({"map", "mapCount"}) \in SUBSET Threads
            BY DEF Busy
          <6> QED
            BY <6>1, ThreadsFacts, FS_Subset
        <5>2. Cardinality(Busy({"map", "mapCount"})) \in Nat /\ atomicNextItemToProcess_ \in Nat
          BY <2>1, <5>1, FS_CardinalityType DEF Basic
        <5>3. Cardinality(Busy({"map", "mapCount"})) = 0 /\ atomicNextItemToProcess_ >= NumInputs
          BY <2>1, <3>2, <4>2, <5>2
        <5>4. Busy({"map", "mapCount"}) = {}
          BY <5>1, <5>3, FS_EmptySet
        <5>5. Busy({"map"}) = {}
          BY <5>4 DEF Busy
        <5> QED
          BY <2>1, <3>1, <5>3, <5>5, AllEmitted
      <4>3. Honest(MAP_STAGE, count, NumInputs)
        BY <2>1, <3>2, <4>2
      <4> QED
        BY <4>1, <4>3 DEF ProgressIsHonest, AllOf, Grouped, Range
    <3>4. CASE jobStateBitwise_ = 0
      <4>1. getJobState.stage = 0 /\ getJobState.processed = 0 /\ getJobState.total = 1
        BY <3>4 DEF getJobState, stageOf, processedOf, UNDEFINED_STAGE
      <4> QED
        BY <4>1 DEF ProgressIsHonest
    <3> QED
      BY <3>2, <3>3, <3>4
  <2>3. CASE \A t \in Threads : Phase2(t)
    <3>1. ShuffleData /\ AllOf(intermediateVec_) = Pairs
      BY <2>3 DEF DInv, ShuffleData
    <3>2. /\ IsFiniteSet(Pairs) /\ getNumOfIntermediatePairs = Cardinality(Pairs) /\ Cardinality(Pairs) \in Nat
      BY <2>1, <3>1, TotalFacts, FS_CardinalityType DEF Basic
    <3>3. pc[0] \in {"barrier1", "toShuffle", "shuffleLock", "shuffleCopy", "shuffle", "toReduce", "barrier2"}
      BY <2>1, <2>3 DEF Phase2, Shuffling
    <3>4. CASE pc[0] \in {"barrier1", "toShuffle"}
      <4>1. Reported(MAP_STAGE, NumInputs)
        BY <3>1, <3>4 DEF ShuffleData
      <4>2. getJobState.stage = MAP_STAGE /\ getJobState.processed = NumInputs /\ getJobState.total = NumInputs
        BY <2>1, <4>1, ReportedFacts
      <4>3. Honest(MAP_STAGE, NumInputs, NumInputs)
        BY <2>1, <3>1
      <4> QED
        BY <4>2, <4>3 DEF ProgressIsHonest, AllOf, Grouped, Range
    <3>5. CASE pc[0] \in {"shuffleLock", "shuffleCopy", "shuffle", "toReduce"}
      <4>1. Reported(SHUFFLE_STAGE, Cardinality(Grouped))
        BY <3>1, <3>5 DEF ShuffleData
      <4>2. Grouped \in SUBSET Pairs
        BY <2>1, KeyFacts DEF Basic
      <4>3. PICK groups : groups = Grouped
        OBVIOUS
      <4>4. /\ IsFiniteSet(groups) /\ Cardinality(groups) <= Cardinality(Pairs)
            /\ Cardinality(groups) = Cardinality(Pairs) => groups = Pairs
        BY <3>2, <4>2, <4>3, FS_Subset
      <4>5. PICK count \in Nat : count = Cardinality(groups)
        BY <4>4, FS_CardinalityType
      <4>6. getJobState.stage = SHUFFLE_STAGE /\ getJobState.processed = count
            /\ getJobState.total = getNumOfIntermediatePairs
        BY <4>1, <4>3, <4>5, ReportedFacts
      <4>7. Honest(SHUFFLE_STAGE, count, getNumOfIntermediatePairs)
        BY <3>2, <4>3, <4>4, <4>5
      <4> QED
        BY <4>6, <4>7 DEF ProgressIsHonest, AllOf, Grouped, Range
    <3>6. CASE pc[0] = "barrier2"
      <4>1. Reported(REDUCE_STAGE, 0) /\ outputVec_ = <<>>
        BY <3>1, <3>6 DEF ShuffleData
      <4>2. getJobState.stage = REDUCE_STAGE /\ getJobState.processed = 0
            /\ getJobState.total = getNumOfIntermediatePairs
        BY <4>1, ReportedFacts
      <4>3. 0 = Cardinality(Pairs) => Pairs = {}
        BY <3>2, FS_EmptySet
      <4>4. Range(outputVec_) = {}
        BY <4>1 DEF Range
      <4>5. Honest(REDUCE_STAGE, 0, getNumOfIntermediatePairs)
        BY <3>2, <4>3, <4>4
      <4> QED
        BY <4>2, <4>5 DEF ProgressIsHonest, AllOf, Grouped, Range
    <3> QED
      BY <3>3, <3>4, <3>5, <3>6
  <2>4. CASE \A t \in Threads : Phase3(t)
    <3>1. ReduceData
      BY <2>4 DEF DInv
    <3>2. /\ Cardinality(Counted) \in Nat /\ Cardinality(Counted) <= Cardinality(Pairs)
          /\ Cardinality(Counted) = Cardinality(Pairs) => Range(outputVec_) = {p.key : p \in Pairs}
      BY <2>1, <3>1, CountedFacts
    <3>3. PICK count \in Nat : count = Cardinality(Counted)
      BY <3>2
    <3>4. Reported(REDUCE_STAGE, count) /\ getNumOfIntermediatePairs = Cardinality(Pairs)
      BY <2>1, <3>1, <3>3, TotalFacts DEF Basic, ReduceData
    <3>5. getJobState.stage = REDUCE_STAGE /\ getJobState.processed = count
          /\ getJobState.total = getNumOfIntermediatePairs
      BY <3>4, ReportedFacts
    <3>6. Honest(REDUCE_STAGE, count, getNumOfIntermediatePairs)
      BY <3>2, <3>3, <3>4
    <3> QED
      BY <3>5, <3>6 DEF ProgressIsHonest, AllOf, Grouped, Range
  <2> QED
    BY <2>2, <2>3, <2>4 DEF MInv, SamePhase
<1> QED
  BY <1>1, DataInvariant, PTL

\* A step of the report: to the next stage with nothing done, or on within one.
Advances(bits, next) ==
  \/ stageOf(next) = stageOf(bits) + 1 /\ processedOf(next) = 0
  \/ stageOf(next) = stageOf(bits) /\ processedOf(next) >= processedOf(bits)

\* Counting on is such a step.
LEMMA AdvanceFacts ==
  ASSUME NEW bits \in Nat, NEW amount \in Nat
  PROVE  Advances(bits, bits) /\ Advances(bits, bits + 4 * amount)
<1>1. stageOf(bits + 4 * amount) = stageOf(bits)
  BY DEF stageOf
<1>2. processedOf(bits + 4 * amount) >= processedOf(bits) /\ processedOf(bits) >= processedOf(bits)
  BY DEF processedOf
<1> QED
  BY <1>1, <1>2 DEF Advances

\* In every phase the state reports a count of a stage, or nothing yet.
LEMMA AlwaysReported ==
  ASSUME SamePhase, DInv
  PROVE  /\ jobStateBitwise_ \in Nat
         /\ (\A t \in Threads : Phase1(t)) => (jobStateBitwise_ = 0 \/ stageOf(jobStateBitwise_) = MAP_STAGE)
         /\ (\A t \in Threads : Phase2(t)) /\ pc[0] = "toShuffle" => stageOf(jobStateBitwise_) = MAP_STAGE
         /\ (\A t \in Threads : Phase2(t)) /\ pc[0] = "toReduce" => stageOf(jobStateBitwise_) = SHUFFLE_STAGE
         /\ (\A t \in Threads : Phase3(t)) => stageOf(jobStateBitwise_) = REDUCE_STAGE
<1> DEFINE Says(stage) == jobStateBitwise_ \in Nat /\ stageOf(jobStateBitwise_) = stage
<1>1. ASSUME NEW stage \in {MAP_STAGE, SHUFFLE_STAGE, REDUCE_STAGE}, NEW count \in Nat, Reported(stage, count)
      PROVE  Says(stage)
  <2>1. stageOf(jobStateBitwise_) = stage
    BY <1>1, StateFacts DEF Reported
  <2> QED
    BY <1>1, <2>1 DEF Reported, MAP_STAGE, SHUFFLE_STAGE, REDUCE_STAGE
<1>2. /\ Basic /\ 0 \in Threads /\ NumInputs \in Nat
      /\ MAP_STAGE \in {MAP_STAGE, SHUFFLE_STAGE, REDUCE_STAGE} /\ SHUFFLE_STAGE \in {MAP_STAGE, SHUFFLE_STAGE, REDUCE_STAGE}
      /\ REDUCE_STAGE \in {MAP_STAGE, SHUFFLE_STAGE, REDUCE_STAGE}
  BY ThreadsFacts, NumInputsAssumption DEF DInv
<1> HIDE DEF Says
<1>3. CASE \A t \in Threads : Phase1(t)
  <2>1. PICK count \in 0 .. NumInputs : Reported(MAP_STAGE, count) \/ jobStateBitwise_ = 0
    BY <1>3 DEF DInv, MapData, MapReported
  <2>2. count \in Nat
    BY <1>2
  <2>3. Says(MAP_STAGE) \/ jobStateBitwise_ = 0
    BY <1>1, <1>2, <2>1, <2>2
  <2> QED
    BY <1>2, <1>3, <2>3, OnePhase DEF Says
<1>4. CASE \A t \in Threads : Phase2(t)
  <2>1. ShuffleData /\ AllOf(intermediateVec_) = Pairs
    BY <1>4 DEF DInv, ShuffleData
  <2>2. Cardinality(Grouped) \in Nat
    <3>1. IsFiniteSet(Pairs) /\ Grouped \in SUBSET Pairs
      BY <1>2, <2>1, TotalFacts, KeyFacts DEF Basic
    <3> QED
      BY <3>1, FS_Subset, FS_CardinalityType
  <2>3. pc[0] \in {"barrier1", "toShuffle"} => Says(MAP_STAGE)
    BY <1>1, <1>2, <2>1 DEF ShuffleData
  <2>4. pc[0] \in {"shuffleLock", "shuffleCopy", "shuffle", "toReduce"} => Says(SHUFFLE_STAGE)
    BY <1>1, <1>2, <2>1, <2>2 DEF ShuffleData
  <2>5. pc[0] = "barrier2" => Says(REDUCE_STAGE)
    BY <1>1, <1>2, <2>1 DEF ShuffleData
  <2>6. pc[0] \in {"barrier1", "toShuffle", "shuffleLock", "shuffleCopy", "shuffle", "toReduce", "barrier2"}
    BY <1>2, <1>4 DEF Phase2, Shuffling
  <2> QED
    BY <1>2, <1>4, <2>3, <2>4, <2>5, <2>6, OnePhase DEF Says
<1>5. CASE \A t \in Threads : Phase3(t)
  <2>1. ReduceData
    BY <1>5 DEF DInv
  <2>2. Cardinality(Counted) \in Nat
    BY <1>2, <2>1, CountedFacts
  <2>3. Says(REDUCE_STAGE)
    BY <1>1, <1>2, <2>1, <2>2 DEF ReduceData
  <2> QED
    BY <1>2, <1>5, <2>3, OnePhase DEF Says
<1> QED
  BY <1>3, <1>4, <1>5 DEF SamePhase

\* The packed state as the client's thread reads it: no report is taken back.
THEOREM ReportsOnlyAdvance == Spec => ProgressNeverFallsBack
<1>1. ASSUME MInv, DInv, NEW t \in Threads, threadStep(t) PROVE Advances(jobStateBitwise_, jobStateBitwise_')
  <2> USE DEF MAP_STAGE, SHUFFLE_STAGE, REDUCE_STAGE
  <2>1. /\ jobStateBitwise_ \in Nat /\ Basic
        /\ \A amount \in Nat : /\ Advances(jobStateBitwise_, jobStateBitwise_)
                               /\ Advances(jobStateBitwise_, jobStateBitwise_ + 4 * amount)
    BY <1>1, AlwaysReported, AdvanceFacts DEF MInv, DInv
  <2>2. ASSUME NEW stage, NEW amount \in Nat, addNumberOfProcessedItems(stage, amount)
        PROVE  Advances(jobStateBitwise_, jobStateBitwise_')
    BY <2>1, <2>2 DEF addNumberOfProcessedItems
  <2>3. /\ pc[t] \in Mapping => \A u \in Threads : Phase1(u)
        /\ pc[t] \in Shuffling => t = 0 /\ \A u \in Threads : Phase2(u)
        /\ pc[t] \in Reducing => \A u \in Threads : Phase3(u)
    BY <1>1, PhaseFacts DEF MInv
  <2>4. CASE mapStage(t)
    <3>1. pc[t] \in Mapping /\ setJobStage(MAP_STAGE)
      BY <2>4 DEF mapStage, Mapping
    <3>2. jobStateBitwise_ = 0 \/ stageOf(jobStateBitwise_) = MAP_STAGE
      BY <1>1, <2>3, <3>1, AlwaysReported DEF MInv
    <3>3. Advances(0, 1) /\ stageOf(0) = 0
      BY DEF Advances, stageOf, processedOf
    <3> QED
      BY <2>1, <3>1, <3>2, <3>3 DEF setJobStage
  <2>5. CASE mapCount(t)
    BY <2>2, <2>5 DEF mapCount
  <2>6. CASE toShuffle(t)
    <3>1. pc[t] \in Shuffling /\ pc[t] = "toShuffle" /\ jobStateBitwise_' = (jobStateBitwise_ + 1) % 4
      BY <2>6 DEF toShuffle, nextPhase, Shuffling, setNextPhase
    <3>2. stageOf(jobStateBitwise_) = 1
      BY <1>1, <2>3, <3>1, AlwaysReported DEF MInv
    <3>3. jobStateBitwise_' = 2
      BY <2>1, <3>1, <3>2 DEF stageOf
    <3>4. stageOf(2) = 1 + 1 /\ processedOf(2) = 0
      BY DEF stageOf, processedOf
    <3> QED
      BY <3>2, <3>3, <3>4 DEF Advances
  <2>7. CASE toReduce(t)
    <3>1. pc[t] \in Shuffling /\ pc[t] = "toReduce" /\ jobStateBitwise_' = (jobStateBitwise_ + 1) % 4
      BY <2>7 DEF toReduce, nextPhase, Shuffling, setNextPhase
    <3>2. stageOf(jobStateBitwise_) = 2
      BY <1>1, <2>3, <3>1, AlwaysReported DEF MInv
    <3>3. jobStateBitwise_' = 3
      BY <2>1, <3>1, <3>2 DEF stageOf
    <3>4. stageOf(3) = 2 + 1 /\ processedOf(3) = 0
      BY DEF stageOf, processedOf
    <3> QED
      BY <3>2, <3>3, <3>4 DEF Advances
  <2>8. CASE shufflePair(t)
    <3>1. pc[t] \in Shuffling
      BY <2>8 DEF shufflePair, Shuffling
    <3>2. addNumberOfProcessedItems(SHUFFLE_STAGE, 1)
      BY <2>8 DEF shufflePair
    <3> QED
      BY <2>2, <3>2
  <2>9. CASE reduceStage(t)
    <3>1. pc[t] \in Reducing /\ setJobStage(REDUCE_STAGE)
      BY <2>9 DEF reduceStage, Reducing
    <3>2. stageOf(jobStateBitwise_) = REDUCE_STAGE
      BY <1>1, <2>3, <3>1, AlwaysReported DEF MInv
    <3> QED
      BY <2>1, <3>1, <3>2 DEF setJobStage
  <2>10. CASE reduceCount(t)
    <3>1. pc[t] \in Reducing /\ pc[t] = "reduceCount"
          /\ addNumberOfProcessedItems(REDUCE_STAGE, Len(shuffleQueue[t][ix[t] + 1]))
      BY <2>10 DEF reduceCount, Reducing
    <3>2. ReduceData
      BY <1>1, <2>3, <3>1 DEF DInv
    <3>3. shuffleQueue[t] = shuffledQueue_ /\ ix[t] < Len(shuffledQueue_) /\ ix[t] \in Nat
      BY <2>1, <3>1, <3>2 DEF ReduceData, Copied, InHand, Busy, Basic
    <3>4. ix[t] \in 0 .. Len(shuffledQueue_) - 1
      BY <2>1, <3>3, KeyFacts DEF Basic
    <3>5. shuffledQueue_[ix[t] + 1] \in Seq(Pairs)
      BY <2>1, <3>4, KeyFacts DEF Basic
    <3>6. Len(shuffledQueue_[ix[t] + 1]) \in Nat
      BY <3>5, LenProperties
    <3> QED
      BY <2>2, <3>1, <3>3, <3>6
  <2>11. CASE UNCHANGED jobStateBitwise_
    BY <2>1, <2>11
  <2>12. \/ mapStage(t) \/ mapCount(t) \/ toShuffle(t) \/ toReduce(t) \/ shufflePair(t)
         \/ reduceStage(t) \/ reduceCount(t) \/ UNCHANGED jobStateBitwise_
    BY <1>1 DEF threadStep, mapFetch, fetch, invokeMap, invokeSortPhase, firstBarrier, secondBarrier, barrier,
       shuffleLock, shuffleCopy, shuffleDone, copyQueue, reduceFetch, invokeReduce, jobState
  <2> QED
    BY <2>4, <2>5, <2>6, <2>7, <2>8, <2>9, <2>10, <2>11, <2>12
<1>2. ASSUME MInv, DInv, [Next]_vars PROVE Advances(jobStateBitwise_, jobStateBitwise_')
  <2>1. CASE construct \/ waitForJob \/ closeJobHandle \/ join \/ UNCHANGED vars
    <3>1. UNCHANGED jobStateBitwise_
      BY <2>1 DEF construct, createThread, assignContext, waitForJob, closeJobHandle, join, pthreadJoin,
         joinedAll, jobState, vars
    <3>2. Advances(jobStateBitwise_, jobStateBitwise_)
      BY <1>2, AlwaysReported, AdvanceFacts DEF MInv
    <3> QED
      BY <3>1, <3>2
  <2> QED
    BY <1>1, <1>2, <2>1 DEF Next, finished
<1>3. Advances(jobStateBitwise_, jobStateBitwise_') =>
        LET then == getJobState
            now == getJobState'
        IN \/ now.stage = then.stage + 1 /\ now.processed = 0
           \/ now.stage = then.stage /\ now.processed >= then.processed
  BY DEF Advances, getJobState, stageOf, processedOf
<1>4. ASSUME MInv, DInv, [Next]_vars
      PROVE  [LET then == getJobState
                  now == getJobState'
              IN \/ now.stage = then.stage + 1 /\ now.processed = 0
                 \/ now.stage = then.stage /\ now.processed >= then.processed]_vars
  BY <1>2, <1>3, <1>4
<1> QED
  BY <1>4, DataInvariant, PTL DEF Spec, ProgressNeverFallsBack
=============================================================================
