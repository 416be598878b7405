----------------------------- MODULE MapReduce ------------------------------
(***************************************************************************)
(* One job of the MapReduce framework of Project-Ex3: JobContext, its      *)
(* ThreadContexts and the client thread that starts it, waits for it and   *)
(* closes it. The workers meet at the barrier of module Barrier.           *)
(*                                                                         *)
(* A step is what a thread does between two points at which another thread *)
(* can be seen: a fetch-and-add on the item counter, a critical section    *)
(* under jobStateMutex_ or outputVecMutex_, a client callback, a step of   *)
(* the barrier. pthreadCreateMutex_ is held for many steps and is explicit.*)
(*                                                                         *)
(* A pair is its key and the place it was emitted at; values are left out. *)
(* A client's map emits a sequence of keys, its reduce one output for each *)
(* group. A pthread call that fails ends the process and is left out.      *)
(***************************************************************************)
EXTENDS Integers, Sequences, FiniteSets, SequencesExt, FiniteSetsExt

CONSTANTS
  numOfThreads_,  \* multiThreadLevel
  NumInputs,      \* the length of inputVec
  Jobs            \* each gives for every input the keys that map emits for it

ASSUME NumOfThreadsAssumption == numOfThreads_ \in Nat \ {0}
ASSUME NumInputsAssumption == NumInputs \in Nat
ASSUME JobsAssumption == Jobs \subseteq [0 .. NumInputs - 1 -> Seq(Nat)]

VARIABLES
  inputVec_,                 \* input index -> the keys map emits for it
  jobStateBitwise_,          \* the stage in two bits, above them the processed count
  atomicNextItemToProcess_,
  threadContexts_,           \* the indices that hold a pointer already
  pthreadCreateMutex_,       \* its holder, or Nobody
  intermediateVec_,          \* thread -> its pairs
  interVecs,                 \* thread 0's copy of them during the shuffle
  shuffledQueue_,            \* groups of pairs
  shuffleQueue,              \* thread -> its copy of shuffledQueue_
  outputVec_,                \* the keys of the groups reduced
  areThreadsJoined_,
  ix,                        \* thread -> the item it fetched last
  pc,                        \* thread -> what it does next
  client,                    \* what the client's thread does, and with which worker
  joined,                    \* the workers that pthread_join has released
  barrierMutex, barrierCount, barrierAt

jobState == <<jobStateBitwise_, atomicNextItemToProcess_>>
data == <<intermediateVec_, interVecs, shuffledQueue_, shuffleQueue, outputVec_>>
clientVars == <<threadContexts_, areThreadsJoined_, client, joined>>
barrierVars == <<barrierMutex, barrierCount, barrierAt>>
vars == <<inputVec_, jobState, data, clientVars, pthreadCreateMutex_, ix, pc, barrierVars>>

Threads == 0 .. numOfThreads_ - 1
Inputs == 0 .. NumInputs - 1
Client == numOfThreads_   \* the client's thread, as a holder of mutexes
Nobody == -1

threadsBarrier_ == INSTANCE Barrier WITH
  NoThread <- Nobody, mutex <- barrierMutex, count <- barrierCount, at <- barrierAt

UNDEFINED_STAGE == 0
MAP_STAGE == 1
SHUFFLE_STAGE == 2
REDUCE_STAGE == 3

stageOf(bits) == bits % 4
processedOf(bits) == bits \div 4

Pair(key, i, j) == [key |-> key, input |-> i, nth |-> j]
EmittedBy(i) == [j \in DOMAIN inputVec_[i] |-> Pair(inputVec_[i][j], i, j)]
Pairs == UNION {Range(EmittedBy(i)) : i \in Inputs}

go(t, label) == pc' = [pc EXCEPT ![t] = label]

Init ==
  /\ inputVec_ \in Jobs
  /\ jobStateBitwise_ = 0
  /\ atomicNextItemToProcess_ = 0
  /\ threadContexts_ = {}
  /\ pthreadCreateMutex_ = Client
  /\ intermediateVec_ = [t \in Threads |-> <<>>]
  /\ interVecs = [t \in Threads |-> <<>>]
  /\ shuffledQueue_ = <<>>
  /\ shuffleQueue = [t \in Threads |-> <<>>]
  /\ outputVec_ = <<>>
  /\ areThreadsJoined_ = FALSE
  /\ ix = [t \in Threads |-> 0]
  /\ pc = [t \in Threads |-> "none"]
  /\ client = [at |-> "creating", i |-> 0]
  /\ joined = {}
  /\ threadsBarrier_!Init
-----------------------------------------------------------------------------
(* JobContext: the packed state *)

\* Mistake: the state is stored even when the stage has been set already.
setJobStageAlways(stage) == jobStateBitwise_' = stage

setJobStage(stage) ==
  jobStateBitwise_' = IF stage # stageOf(jobStateBitwise_) THEN stage ELSE jobStateBitwise_

\* Mistake: the processed count of the last phase is kept.
setNextPhaseKeepsCount == jobStateBitwise_' = jobStateBitwise_ + 1

\* The next stage, with nothing processed.
setNextPhase == jobStateBitwise_' = (jobStateBitwise_ + 1) % 4

addNumberOfProcessedItems(stage, amount) ==
  jobStateBitwise_' = IF stage = stageOf(jobStateBitwise_)
                      THEN jobStateBitwise_ + 4 * amount ELSE jobStateBitwise_

getNumOfIntermediatePairs ==
  LET upTo[n \in 0 .. numOfThreads_] ==
        IF n = 0 THEN 0 ELSE upTo[n - 1] + Len(intermediateVec_[n - 1])
  IN upTo[numOfThreads_]

\* What getJobState reads, as a fraction: the code divides in float.
getJobState ==
  LET stage == stageOf(jobStateBitwise_)
  IN [stage |-> stage,
      processed |-> processedOf(jobStateBitwise_),
      total |-> CASE stage = UNDEFINED_STAGE -> 1
                  [] stage = MAP_STAGE -> NumInputs
                  [] OTHER -> getNumOfIntermediatePairs]
-----------------------------------------------------------------------------
(* ThreadContext: the worker threads *)

mapStage(t) ==
  /\ pc[t] = "start"
  /\ setJobStage(MAP_STAGE)
  /\ go(t, "mapFetch")
  /\ UNCHANGED <<inputVec_, atomicNextItemToProcess_, data, clientVars, pthreadCreateMutex_, ix, barrierVars>>

\* One turn of a loop over items: fetch the next index, leave when it is past
\* the end. The counter is shared and goes past the end once for each thread.
fetch(t, label, size, body, after) ==
  /\ pc[t] = label
  /\ ix' = [ix EXCEPT ![t] = atomicNextItemToProcess_]
  /\ atomicNextItemToProcess_' = atomicNextItemToProcess_ + 1
  /\ go(t, IF atomicNextItemToProcess_ < size THEN body ELSE after)
  /\ UNCHANGED <<inputVec_, jobStateBitwise_, data, clientVars, pthreadCreateMutex_, barrierVars>>

mapFetch(t) == fetch(t, "mapFetch", NumInputs, "map", "sort")

\* The client's map, which calls emit2 for each pair.
invokeMap(t) ==
  /\ pc[t] = "map"
  /\ intermediateVec_' = [intermediateVec_ EXCEPT ![t] = @ \o EmittedBy(ix[t])]
  /\ go(t, "mapCount")
  /\ UNCHANGED <<inputVec_, jobState, interVecs, shuffledQueue_, shuffleQueue, outputVec_,
                 clientVars, pthreadCreateMutex_, ix, barrierVars>>

mapCount(t) ==
  /\ pc[t] = "mapCount"
  /\ addNumberOfProcessedItems(MAP_STAGE, 1)
  /\ go(t, "mapFetch")
  /\ UNCHANGED <<inputVec_, atomicNextItemToProcess_, data, clientVars, pthreadCreateMutex_, ix, barrierVars>>

\* The ways to order a vector by key: std::sort is not stable.
SortedByKey(v) == \A m, n \in DOMAIN v : m < n => v[m].key <= v[n].key
Count(v, pair) == Cardinality({n \in DOMAIN v : v[n] = pair})
Sortings(v) ==
  {s \in [DOMAIN v -> Range(v)] :
     SortedByKey(s) /\ \A pair \in Range(v) : Count(s, pair) = Count(v, pair)}

invokeSortPhase(t) ==
  /\ pc[t] = "sort"
  /\ \E s \in Sortings(intermediateVec_[t]) : intermediateVec_' = [intermediateVec_ EXCEPT ![t] = s]
  /\ go(t, "barrier1")
  /\ UNCHANGED <<inputVec_, jobState, interVecs, shuffledQueue_, shuffleQueue, outputVec_,
                 clientVars, pthreadCreateMutex_, ix, barrierVars>>

\* A call of the barrier: it takes several steps and the last one returns.
barrier(t, label, after) ==
  /\ pc[t] = label
  /\ \/ threadsBarrier_!Lock(t) /\ UNCHANGED pc
     \/ threadsBarrier_!Arrive(t) /\ UNCHANGED pc
     \/ threadsBarrier_!Relock(t) /\ UNCHANGED pc
     \/ threadsBarrier_!Unlock(t) /\ go(t, after)
  /\ UNCHANGED <<inputVec_, jobState, data, clientVars, pthreadCreateMutex_, ix>>

firstBarrier(t) == barrier(t, "barrier1", IF t = 0 THEN "toShuffle" ELSE "barrier2")
secondBarrier(t) == barrier(t, "barrier2", "reduceStage")

nextPhase(t, label, after) ==
  /\ pc[t] = label
  /\ setNextPhase
  /\ go(t, after)
  /\ UNCHANGED <<inputVec_, atomicNextItemToProcess_, data, clientVars, pthreadCreateMutex_, ix, barrierVars>>

toShuffle(t) == nextPhase(t, "toShuffle", "shuffleLock")
toReduce(t) == nextPhase(t, "toReduce", "barrier2")

\* Mistake: the shuffle does not wait for the constructor to finish.
shuffleWithoutLock(t) ==
  /\ pc[t] = "shuffleLock"
  /\ pthreadCreateMutex_' = t
  /\ atomicNextItemToProcess_' = 0
  /\ go(t, "shuffleCopy")
  /\ UNCHANGED <<inputVec_, jobStateBitwise_, data, clientVars, ix, barrierVars>>

\* The mutex is there so that thread 0 sees every threadContexts_[i] assigned.
shuffleLock(t) ==
  /\ pc[t] = "shuffleLock"
  /\ pthreadCreateMutex_ = Nobody
  /\ pthreadCreateMutex_' = t
  /\ atomicNextItemToProcess_' = 0
  /\ go(t, "shuffleCopy")
  /\ UNCHANGED <<inputVec_, jobStateBitwise_, data, clientVars, ix, barrierVars>>

shuffleCopy(t) ==
  /\ pc[t] = "shuffleCopy"
  /\ interVecs' = intermediateVec_
  /\ go(t, "shuffle")
  /\ UNCHANGED <<inputVec_, jobState, intermediateVec_, shuffledQueue_, shuffleQueue, outputVec_,
                 clientVars, pthreadCreateMutex_, ix, barrierVars>>

\* Mistake: half of the comparison.
sameKeyOneSided(lhs, rhs) == ~(rhs < lhs)

\* Keys only know <.
sameKey(lhs, rhs) == ~(lhs < rhs) /\ ~(rhs < lhs)

\* The largest of the keys at the ends of the vectors, and the vectors that have
\* a pair of some key there.
maxKey == Max({Last(interVecs[t]).key : t \in {u \in Threads : interVecs[u] # <<>>}})
endingWith(key) == {u \in Threads : interVecs[u] # <<>> /\ sameKey(Last(interVecs[u]).key, key)}

\* The group that is built, newVec, counts as the last of shuffledQueue_: nobody
\* reads either before the second barrier. It goes on while a vector ends with
\* its key, for each vector that was passed has lost all its pairs of that key.
groupOpen == shuffledQueue_ # <<>> /\ endingWith(Last(shuffledQueue_)[1].key) # {}
groupKey == IF groupOpen THEN Last(shuffledQueue_)[1].key ELSE maxKey

\* One turn of the innermost loop: the first vector that ends with a pair of the
\* group's key gives it to the group, or to a new group of the largest key left.
shufflePair(t) ==
  /\ pc[t] = "shuffle"
  /\ \E u \in Threads : interVecs[u] # <<>>
  /\ LET v == Min(endingWith(groupKey))
         pair == Last(interVecs[v])
     IN /\ shuffledQueue_' = IF groupOpen
                             THEN [shuffledQueue_ EXCEPT ![Len(shuffledQueue_)] = Append(@, pair)]
                             ELSE Append(shuffledQueue_, <<pair>>)
        /\ interVecs' = [interVecs EXCEPT ![v] = Front(@)]
  /\ addNumberOfProcessedItems(SHUFFLE_STAGE, 1)
  /\ UNCHANGED <<inputVec_, atomicNextItemToProcess_, intermediateVec_, shuffleQueue, outputVec_,
                 clientVars, pthreadCreateMutex_, ix, pc, barrierVars>>

shuffleDone(t) ==
  /\ pc[t] = "shuffle"
  /\ \A u \in Threads : interVecs[u] = <<>>
  /\ pthreadCreateMutex_' = Nobody
  /\ atomicNextItemToProcess_' = 0
  /\ go(t, "toReduce")
  /\ UNCHANGED <<inputVec_, jobStateBitwise_, data, clientVars, ix, barrierVars>>

\* Mistake: every worker, not thread 0, resets the item counter for the reduce.
reduceStageResets(t) ==
  /\ pc[t] = "reduceStage"
  /\ setJobStage(REDUCE_STAGE)
  /\ atomicNextItemToProcess_' = 0
  /\ go(t, "copyQueue")
  /\ UNCHANGED <<inputVec_, data, clientVars, pthreadCreateMutex_, ix, barrierVars>>

reduceStage(t) ==
  /\ pc[t] = "reduceStage"
  /\ setJobStage(REDUCE_STAGE)
  /\ go(t, "copyQueue")
  /\ UNCHANGED <<inputVec_, atomicNextItemToProcess_, data, clientVars, pthreadCreateMutex_, ix, barrierVars>>

copyQueue(t) ==
  /\ pc[t] = "copyQueue"
  /\ shuffleQueue' = [shuffleQueue EXCEPT ![t] = shuffledQueue_]
  /\ go(t, "reduceFetch")
  /\ UNCHANGED <<inputVec_, jobState, intermediateVec_, interVecs, shuffledQueue_, outputVec_,
                 clientVars, pthreadCreateMutex_, ix, barrierVars>>

reduceFetch(t) == fetch(t, "reduceFetch", Len(shuffleQueue[t]), "reduce", "done")

\* The client's reduce, which calls emit3 for the group.
invokeReduce(t) ==
  /\ pc[t] = "reduce"
  /\ outputVec_' = Append(outputVec_, shuffleQueue[t][ix[t] + 1][1].key)
  /\ go(t, "reduceCount")
  /\ UNCHANGED <<inputVec_, jobState, intermediateVec_, interVecs, shuffledQueue_, shuffleQueue,
                 clientVars, pthreadCreateMutex_, ix, barrierVars>>

reduceCount(t) ==
  /\ pc[t] = "reduceCount"
  /\ addNumberOfProcessedItems(REDUCE_STAGE, Len(shuffleQueue[t][ix[t] + 1]))
  /\ go(t, "reduceFetch")
  /\ UNCHANGED <<inputVec_, atomicNextItemToProcess_, data, clientVars, pthreadCreateMutex_, ix, barrierVars>>

threadStep(t) ==
  \/ mapStage(t) \/ mapFetch(t) \/ invokeMap(t) \/ mapCount(t) \/ invokeSortPhase(t)
  \/ firstBarrier(t) \/ toShuffle(t) \/ shuffleLock(t) \/ shuffleCopy(t) \/ shufflePair(t)
  \/ shuffleDone(t) \/ toReduce(t) \/ secondBarrier(t)
  \/ reduceStage(t) \/ copyQueue(t) \/ reduceFetch(t) \/ invokeReduce(t) \/ reduceCount(t)
-----------------------------------------------------------------------------
(* The client's thread: startMapReduceJob, waitForJob, closeJobHandle *)

clientAt(place, i) == client' = [at |-> place, i |-> i]

\* pthread_create: the worker runs before the constructor has its pointer.
createThread ==
  /\ client.at = "creating"
  /\ go(client.i, "start")
  /\ clientAt("assigning", client.i)
  /\ UNCHANGED <<inputVec_, jobState, data, threadContexts_, areThreadsJoined_, joined,
                 pthreadCreateMutex_, ix, barrierVars>>

\* threadContexts_[i] is assigned; after the last one the constructor lets go
\* of the mutex and startMapReduceJob returns the handle.
assignContext ==
  /\ client.at = "assigning"
  /\ threadContexts_' = threadContexts_ \union {client.i}
  /\ IF client.i + 1 < numOfThreads_
     THEN clientAt("creating", client.i + 1) /\ UNCHANGED pthreadCreateMutex_
     ELSE clientAt("idle", 0) /\ pthreadCreateMutex_' = Nobody
  /\ UNCHANGED <<inputVec_, jobState, data, areThreadsJoined_, joined, ix, pc, barrierVars>>

\* Mistake: the flag is not looked at.
getJobDoneAlways(after) == clientAt(after, 0)

\* getJobDone: nothing to do once the workers are joined.
getJobDone(after) ==
  IF areThreadsJoined_ THEN clientAt(after, numOfThreads_) ELSE clientAt(after, 0)

waitForJob ==
  /\ client.at = "idle"
  /\ getJobDone("waiting")
  /\ UNCHANGED <<inputVec_, jobState, data, threadContexts_, areThreadsJoined_, joined,
                 pthreadCreateMutex_, ix, pc, barrierVars>>

closeJobHandle ==
  /\ client.at = "idle"
  /\ getJobDone("closing")
  /\ UNCHANGED <<inputVec_, jobState, data, threadContexts_, areThreadsJoined_, joined,
                 pthreadCreateMutex_, ix, pc, barrierVars>>

\* Whether the loop over the workers goes on.
joinable(i) == i < numOfThreads_

\* pthread_join of the next worker returns when that worker has.
pthreadJoin ==
  /\ client.at \in {"waiting", "closing"}
  /\ joinable(client.i)
  /\ pc[client.i] = "done"
  /\ joined' = joined \union {client.i}
  /\ clientAt(client.at, client.i + 1)
  /\ UNCHANGED <<inputVec_, jobState, data, threadContexts_, areThreadsJoined_,
                 pthreadCreateMutex_, ix, pc, barrierVars>>

\* The end of getJobDone; closeJobHandle then deletes the job.
joinedAll ==
  /\ client.at \in {"waiting", "closing"}
  /\ ~joinable(client.i)
  /\ areThreadsJoined_' = TRUE
  /\ clientAt(IF client.at = "closing" THEN "closed" ELSE "idle", 0)
  /\ UNCHANGED <<inputVec_, jobState, data, threadContexts_, joined,
                 pthreadCreateMutex_, ix, pc, barrierVars>>

construct == createThread \/ assignContext
join == pthreadJoin \/ joinedAll

\* The handle is gone and so is the job: nothing of it runs any more.
finished == client.at = "closed" /\ (\A t \in Threads : pc[t] = "done") /\ UNCHANGED vars

Next ==
  \/ \E t \in Threads : threadStep(t)
  \/ construct \/ waitForJob \/ closeJobHandle \/ join
  \/ finished

Spec == Init /\ [][Next]_vars

\* The operating system runs some worker as long as one can run; which of them
\* is up to it. The client finishes the calls it has begun; whether it ever
\* waits or closes is up to it.
FairSpec ==
  Spec /\ WF_vars(\E t \in Threads : threadStep(t)) /\ WF_vars(construct) /\ WF_vars(join)
-----------------------------------------------------------------------------
(* Properties *)

Labels == {"none", "start", "mapFetch", "map", "mapCount", "sort", "barrier1", "toShuffle",
           "shuffleLock", "shuffleCopy", "shuffle", "toReduce", "barrier2", "reduceStage",
           "copyQueue", "reduceFetch", "reduce", "reduceCount", "done"}
Mapping == {"none", "start", "mapFetch", "map", "mapCount", "sort"}
Shuffling == {"toShuffle", "shuffleLock", "shuffleCopy", "shuffle", "toReduce"}
Reducing == {"reduceStage", "copyQueue", "reduceFetch", "reduce", "reduceCount", "done"}

TypeOK ==
  /\ inputVec_ \in Jobs
  /\ jobStateBitwise_ \in Nat
  /\ atomicNextItemToProcess_ \in 0 .. NumInputs + Cardinality(Pairs) + numOfThreads_
  /\ threadContexts_ \subseteq Threads
  /\ pthreadCreateMutex_ \in {Nobody, Client, 0}
  /\ \A t \in Threads : Range(intermediateVec_[t]) \union Range(interVecs[t]) \subseteq Pairs
  /\ \A group \in Range(shuffledQueue_) : group # <<>> /\ Range(group) \subseteq Pairs
  /\ Range(outputVec_) \subseteq Nat
  /\ areThreadsJoined_ \in BOOLEAN
  /\ ix \in [Threads -> Nat]
  /\ pc \in [Threads -> Labels]
  /\ client \in [at : {"creating", "assigning", "idle", "waiting", "closing", "closed"},
                 i : 0 .. numOfThreads_]
  /\ joined \subseteq Threads
  /\ threadsBarrier_!TypeOK

AllDone == \A t \in Threads : pc[t] = "done"

\* The comments at the two barriers: while thread 0 shuffles nobody maps or
\* sorts, and nobody reduces before the shuffle is over.
PhasesDoNotOverlap ==
  /\ (pc[0] \in Shuffling) => \A t \in Threads \ {0} : pc[t] \in {"barrier1", "barrier2"}
  /\ (\E t \in Threads : pc[t] \in Reducing) =>
       \A t \in Threads : pc[t] \in Reducing \union {"barrier2"}

\* The shuffle dereferences no pointer that the constructor has yet to store.
ContextsAssigned == pc[0] \in {"shuffleCopy", "shuffle"} => threadContexts_ = Threads

\* The shuffle makes one group of each key, largest key first, and the groups
\* hold each pair once, whichever threads the pairs of a key were emitted by.
GroupsPartitionThePairs ==
  /\ \A g \in DOMAIN shuffledQueue_ : \A m, n \in DOMAIN shuffledQueue_[g] :
       /\ shuffledQueue_[g][m].key = shuffledQueue_[g][n].key
       /\ m # n => shuffledQueue_[g][m] # shuffledQueue_[g][n]
  /\ \A g, h \in DOMAIN shuffledQueue_ :
       g < h => shuffledQueue_[g][1].key > shuffledQueue_[h][1].key
  /\ pc[0] \in {"toReduce", "barrier2"} \union Reducing =>
       UNION {Range(group) : group \in Range(shuffledQueue_)} = Pairs

\* However the workers race for the groups, each is reduced once, and all of
\* them have been when the workers are done.
ReducedOnce ==
  /\ IsInjective(outputVec_)
  /\ AllDone => Range(outputVec_) = {pair.key : pair \in Pairs}

\* What getJobState reports is never ahead of the work: 100% of a stage means
\* that all of its pairs are emitted, or are in groups, the last of which may have
\* yet to join the queue, or that the outputs of all groups are there.
ProgressIsHonest ==
  LET state == getJobState
  IN /\ state.processed <= state.total
     /\ state.processed = state.total =>
          CASE state.stage = MAP_STAGE ->
                 UNION {Range(intermediateVec_[t]) : t \in Threads} = Pairs
            [] state.stage = SHUFFLE_STAGE ->
                 UNION {Range(group) : group \in Range(shuffledQueue_)} = Pairs
            [] state.stage = REDUCE_STAGE ->
                 Range(outputVec_) = {pair.key : pair \in Pairs}
            [] OTHER -> FALSE

\* A client that polls never sees the job go back: the stage only advances, and
\* within a stage the number of processed items only grows.
ProgressNeverFallsBack ==
  [][LET then == getJobState
         now == getJobState'
     IN \/ now.stage = then.stage + 1 /\ now.processed = 0
        \/ now.stage = then.stage /\ now.processed >= then.processed]_vars

\* The last state a client can read is 100% of the reduce stage. (A job that
\* emits no pair is the exception: MapReduceClaims.)
EndIsReported ==
  AllDone /\ Pairs # {} =>
    getJobState.stage = REDUCE_STAGE /\ getJobState.processed = getJobState.total

\* In whatever order and however often the client waits and closes, no worker is
\* joined a second time, and the job is deleted only when every worker has
\* returned and was joined.
JoinedOnceThenDeleted ==
  /\ client.at \in {"waiting", "closing"} => client.i \notin joined
  /\ client.at = "closed" => AllDone /\ joined = Threads

\* The workers finish, whether or not the client waits for them, and a client
\* that waits or closes comes back.
JobFinishes ==
  /\ <>AllDone
  /\ (client.at \in {"waiting", "closing"}) ~> (client.at \in {"idle", "closed"})
=============================================================================
