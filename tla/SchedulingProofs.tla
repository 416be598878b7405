--------------------------- MODULE SchedulingProofs ---------------------------
(***************************************************************************)
(* For every number of threads, every bound on quanta and every set of     *)
(* sleep requests, those whose wake-up time overflows included: the        *)
(* sleepers stay in the order of the times their threads keep, no thread   *)
(* is awake before its time, nobody overtakes in the ready queue, a bound  *)
(* on how late the sleepers are woken, and every quantum is charged to one *)
(* thread. When no wake-up time overflows: the Scheduler implements        *)
(* RoundRobin. Each call and each tick is a step of the abstract           *)
(* scheduler, or one that it does not show.                                *)
(***************************************************************************)
EXTENDS SchedulerRefinement, SchedulerProofs, FiniteSetTheorems

-----------------------------------------------------------------------------
(* Sleepers in order *)

Sorted(s) == \A i, j \in DOMAIN s : i < j => s[i].until <= s[j].until

\* A set of positions that holds the ones before each of its own is a prefix.
LEMMA PrefixFacts ==
  ASSUME NEW n \in Nat, NEW T \in SUBSET (1 .. n),
         \A i \in T, j \in 1 .. n : j < i => j \in T
  PROVE  Cardinality(T) \in 0 .. n /\ T = 1 .. Cardinality(T)
<1> DEFINE C == 1 .. n + 1 \ T
           m == Min(C) - 1
<1>1. C \in SUBSET Nat /\ n + 1 \in C
  OBVIOUS
<1>2. Min(C) \in C /\ \A x \in C : Min(C) <= x
  BY <1>1, MinFacts
<1> HIDE DEF m
<1>3. m \in 0 .. n /\ Min(C) = m + 1
  BY <1>1, <1>2 DEF m
<1>4. ASSUME NEW i \in T PROVE i \in 1 .. m
  <2>1. CASE m + 1 < i
    BY <1>2, <1>3, <2>1
  <2>2. CASE m + 1 = i
    BY <1>2, <1>3, <2>2
  <2> QED
    BY <1>3, <2>1, <2>2
<1>5. ASSUME NEW i \in 1 .. m PROVE i \in T
  <2>1. i \in 1 .. n + 1 /\ i < m + 1
    BY <1>3
  <2>2. i \notin C
    <3>1. SUFFICES ASSUME i \in C PROVE FALSE
      OBVIOUS
    <3>2. m + 1 <= i
      BY <1>2, <1>3, <3>1
    <3> QED
      BY <1>3, <2>1, <3>2
  <2> QED
    BY <2>1, <2>2
<1>6. T = 1 .. m
  BY <1>4, <1>5
<1>7. Cardinality(1 .. m) = m
  <2>1. Cardinality(1 .. m) = IF 1 > m THEN 0 ELSE m - 1 + 1
    <3>1. 1 \in Int /\ m \in Int
      BY <1>3
    <3> QED
      BY <3>1, FS_Interval, Zenon
  <2> QED
    BY <1>3, <2>1
<1> QED
  BY <1>3, <1>6, <1>7

\* The multiset's upper_bound: a new entry goes behind the ones that are not
\* later, and the order is kept.
LEMMA InsertSorted ==
  ASSUME NEW s \in Seq(Sleeper), Sorted(s), NEW tid \in Tids, NEW until \in Int
  PROVE  /\ Sorted(insertSleeper(s, tid, until))
         /\ ToSet(insertSleeper(s, tid, until))
              \subseteq ToSet(s) \cup {[tid |-> tid, until |-> until]}
<1> DEFINE T == {i \in DOMAIN s : s[i].until <= until}
           k == Cardinality(T) + 1
           e == [tid |-> tid, until |-> until]
           r == InsertAt(s, k, e)
<1>1. /\ DOMAIN s = 1 .. Len(s) /\ Len(s) \in Nat
      /\ \A i \in 1 .. Len(s) : s[i] \in Sleeper /\ s[i].until \in Int
  BY SleeperFacts
<1>2. Cardinality(T) \in 0 .. Len(s) /\ T = 1 .. Cardinality(T)
  <2>1. ASSUME NEW i \in T, NEW j \in 1 .. Len(s), j < i PROVE j \in T
    BY <1>1, <2>1 DEF Sorted
  <2> QED
    BY <1>1, <2>1, PrefixFacts
<1>3. /\ k \in 1 .. Len(s) + 1
      /\ \A i \in 1 .. Len(s) : i < k => s[i].until <= until
      /\ \A i \in 1 .. Len(s) : i >= k => until <= s[i].until
  <2>1. \A i \in 1 .. Len(s) : i \in T <=> s[i].until <= until
    BY <1>1
  <2> HIDE DEF T
  <2> QED
    BY <1>1, <1>2, <2>1
<1>4. e \in Sleeper /\ e.until = until
  BY DEF Sleeper
<1>5. r = insertSleeper(s, tid, until)
  BY DEF insertSleeper
<1> HIDE DEF k, e, T
<1>6. /\ r \in Seq(Sleeper) /\ Len(r) = Len(s) + 1
      /\ \A j \in 1 .. Len(s) + 1 :
           r[j] = IF j < k THEN s[j] ELSE IF j = k THEN e ELSE s[j - 1]
  BY <1>3, <1>4, InsertAtFacts
<1> HIDE DEF r
<1>7. ASSUME NEW i \in 1 .. Len(s) + 1, NEW j \in 1 .. Len(s) + 1, i < j
      PROVE  r[i].until <= r[j].until
  <2>1. CASE j < k
    <3>1. r[i] = s[i] /\ r[j] = s[j] /\ i \in 1 .. Len(s) /\ j \in 1 .. Len(s)
      BY <1>1, <1>3, <1>6, <1>7, <2>1
    <3> QED
      BY <1>1, <1>7, <3>1 DEF Sorted
  <2>2. CASE j = k
    BY <1>1, <1>3, <1>4, <1>6, <1>7, <2>2
  <2>3. CASE j > k /\ i < k
    <3>1. /\ r[i] = s[i] /\ r[j] = s[j - 1] /\ i \in 1 .. Len(s) /\ j - 1 \in 1 .. Len(s)
          /\ i < j - 1
      BY <1>1, <1>3, <1>6, <2>3
    <3> QED
      BY <1>1, <3>1 DEF Sorted
  <2>4. CASE j > k /\ i = k
    <3>1. r[i] = e /\ r[j] = s[j - 1] /\ j - 1 \in 1 .. Len(s) /\ j - 1 >= k
      BY <1>1, <1>3, <1>6, <2>4
    <3> QED
      BY <1>3, <1>4, <3>1
  <2>5. CASE j > k /\ i > k
    <3>1. /\ r[i] = s[i - 1] /\ r[j] = s[j - 1] /\ i - 1 \in 1 .. Len(s) /\ j - 1 \in 1 .. Len(s)
          /\ i - 1 < j - 1
      BY <1>1, <1>3, <1>6, <1>7, <2>5
    <3> QED
      BY <1>1, <3>1 DEF Sorted
  <2> QED
    BY <1>3, <2>1, <2>2, <2>3, <2>4, <2>5
<1>8. DOMAIN r = 1 .. Len(s) + 1
  BY <1>6, SleeperFacts
<1>9. Sorted(r)
  BY <1>7, <1>8 DEF Sorted
<1>10. ASSUME NEW x \in ToSet(r) PROVE x \in ToSet(s) \cup {e}
  <2>1. PICK j \in 1 .. Len(s) + 1 : r[j] = x
    BY <1>8 DEF ToSet
  <2>2. CASE j < k
    <3>1. j \in 1 .. Len(s) /\ r[j] = s[j]
      BY <1>1, <1>3, <1>6, <2>2
    <3> QED
      BY <1>1, <2>1, <3>1 DEF ToSet
  <2>3. CASE j = k
    BY <1>3, <1>6, <2>1, <2>3
  <2>4. CASE j > k
    <3>1. j - 1 \in 1 .. Len(s) /\ r[j] = s[j - 1]
      BY <1>1, <1>3, <1>6, <2>4
    <3> QED
      BY <1>1, <2>1, <3>1 DEF ToSet
  <2> QED
    BY <1>3, <2>2, <2>3, <2>4
<1> QED
  BY <1>5, <1>9, <1>10 DEF e

\* Taking an entry out keeps the order.
LEMMA EraseSorted ==
  ASSUME NEW s \in Seq(Sleeper), Sorted(s), NEW tid \in SleepingTids(s)
  PROVE  /\ Sorted(eraseSleeper(s, tid))
         /\ ToSet(eraseSleeper(s, tid)) \subseteq ToSet(s)
<1> DEFINE k == CHOOSE i \in DOMAIN s : s[i].tid = tid
           r == RemoveAt(s, k)
<1>1. /\ DOMAIN s = 1 .. Len(s) /\ Len(s) \in Nat
      /\ \A i \in 1 .. Len(s) : s[i].until \in Int
      /\ \A t : t \in SleepingTids(s) <=> \E i \in 1 .. Len(s) : s[i].tid = t
  BY SleeperFacts
<1>2. k \in 1 .. Len(s)
  BY <1>1
<1>3. r = eraseSleeper(s, tid)
  BY DEF eraseSleeper
<1> HIDE DEF k
<1>4. /\ r \in Seq(Sleeper) /\ Len(r) = Len(s) - 1
      /\ \A j \in 1 .. Len(s) - 1 : r[j] = IF j < k THEN s[j] ELSE s[j + 1]
  BY <1>2, RemoveAtFacts
<1> HIDE DEF r
<1>5. DOMAIN r = 1 .. Len(s) - 1
  BY <1>4, SleeperFacts
<1> DEFINE from(j) == IF j < k THEN j ELSE j + 1
<1>6. ASSUME NEW j \in 1 .. Len(s) - 1
      PROVE  from(j) \in 1 .. Len(s) /\ r[j] = s[from(j)]
  <2>1. CASE j < k
    BY <1>1, <1>2, <1>4, <2>1
  <2>2. CASE ~(j < k)
    BY <1>1, <1>2, <1>4, <2>2
  <2> QED
    BY <2>1, <2>2
<1>7. ASSUME NEW i \in 1 .. Len(s) - 1, NEW j \in 1 .. Len(s) - 1, i < j
      PROVE  r[i].until <= r[j].until
  <2>1. from(i) < from(j)
    BY <1>1, <1>2, <1>7
  <2>2. r[i] = s[from(i)] /\ r[j] = s[from(j)] /\ from(i) \in 1 .. Len(s) /\ from(j) \in 1 .. Len(s)
    BY <1>6
  <2> HIDE DEF from
  <2> QED
    BY <1>1, <2>1, <2>2 DEF Sorted
<1>8. ASSUME NEW x \in ToSet(r) PROVE x \in ToSet(s)
  <2>1. PICK j \in 1 .. Len(s) - 1 : r[j] = x
    BY <1>5 DEF ToSet
  <2>2. from(j) \in DOMAIN s /\ s[from(j)] = x
    BY <1>1, <1>6, <2>1
  <2> QED
    BY <2>2 DEF ToSet
<1> QED
  BY <1>3, <1>5, <1>7, <1>8 DEF Sorted

\* lower_bound: the due sleepers are a prefix, and the ones behind it stay in
\* order.
LEMMA DueFacts ==
  ASSUME NEW s \in Seq(Sleeper), Sorted(s), NEW now \in Int
  PROVE  LET k == dueCount(s, now)
             rest == SubSeq(s, k + 1, Len(s))
         IN  /\ k \in 0 .. Len(s)
             /\ \A i \in 1 .. k : s[i].until <= now
             /\ \A i \in 1 .. Len(s) : s[i].until <= now => i \in 1 .. k
             /\ Sorted(rest) /\ ToSet(rest) \subseteq ToSet(s)
<1> DEFINE T == {i \in DOMAIN s : s[i].until < now + 1}
           k == dueCount(s, now)
           rest == SubSeq(s, k + 1, Len(s))
<1>1. /\ DOMAIN s = 1 .. Len(s) /\ Len(s) \in Nat
      /\ \A i \in 1 .. Len(s) : s[i] \in Sleeper /\ s[i].until \in Int
  BY SleeperFacts
<1>2. k \in 0 .. Len(s) /\ T = 1 .. k
  <2>1. ASSUME NEW i \in T, NEW j \in 1 .. Len(s), j < i PROVE j \in T
    BY <1>1, <2>1 DEF Sorted
  <2>2. Cardinality(T) = k
    BY DEF dueCount
  <2> HIDE DEF k
  <2>3. Cardinality(T) \in 0 .. Len(s) /\ T = 1 .. Cardinality(T)
    BY <1>1, <2>1, PrefixFacts
  <2> QED
    BY <2>2, <2>3
<1> HIDE DEF k
<1>3. /\ \A i \in 1 .. k : s[i].until <= now
      /\ \A i \in 1 .. Len(s) : s[i].until <= now => i \in 1 .. k
  <2>1. \A i \in 1 .. Len(s) : i \in T <=> s[i].until <= now
    BY <1>1
  <2> HIDE DEF T
  <2> QED
    BY <1>1, <1>2, <2>1
<1>4. /\ rest \in Seq(Sleeper) /\ Len(rest) = Len(s) - k
      /\ \A i \in 1 .. Len(s) - k : rest[i] = s[k + i]
  <2>1. \A i \in k + 1 .. Len(s) : s[i] \in Sleeper
    BY <1>1, <1>2
  <2>2. /\ rest \in Seq(Sleeper)
        /\ Len(rest) = IF k + 1 <= Len(s) THEN Len(s) - (k + 1) + 1 ELSE 0
        /\ \A i \in 1 .. Len(s) - (k + 1) + 1 : rest[i] = s[(k + 1) + i - 1]
    BY <2>1, <1>1, <1>2, SubSeqProperties
  <2> HIDE DEF rest
  <2>3. Len(rest) = Len(s) - k
    <3>1. Len(s) \in Nat /\ k \in Nat /\ k <= Len(s)
      BY <1>1, <1>2
    <3>2. Len(rest) = IF k + 1 <= Len(s) THEN Len(s) - (k + 1) + 1 ELSE 0
      BY <2>2
    <3> QED
      BY <3>1, <3>2
  <2>4. ASSUME NEW i \in 1 .. Len(s) - k PROVE rest[i] = s[k + i]
    <3>1. i \in 1 .. Len(s) - (k + 1) + 1 /\ (k + 1) + i - 1 = k + i
      BY <1>1, <1>2
    <3> QED
      BY <2>2, <3>1
  <2> QED
    BY <2>2, <2>3, <2>4
<1> HIDE DEF rest
<1>5. DOMAIN rest = 1 .. Len(s) - k
  BY <1>4, SleeperFacts
<1>6. Sorted(rest)
  <2>1. ASSUME NEW i \in 1 .. Len(s) - k, NEW j \in 1 .. Len(s) - k, i < j
        PROVE  rest[i].until <= rest[j].until
    <3>1. k + i \in 1 .. Len(s) /\ k + j \in 1 .. Len(s) /\ k + i < k + j
      BY <1>1, <1>2, <2>1
    <3> QED
      BY <1>1, <1>4, <3>1 DEF Sorted
  <2> QED
    BY <1>5, <2>1 DEF Sorted
<1>7. ASSUME NEW x \in ToSet(rest) PROVE x \in ToSet(s)
  <2>1. PICK i \in 1 .. Len(s) - k : rest[i] = x
    BY <1>5 DEF ToSet
  <2>2. k + i \in 1 .. Len(s) /\ s[k + i] = x
    BY <1>1, <1>2, <1>4, <2>1
  <2> QED
    BY <1>1, <2>2 DEF ToSet
<1>8. ToSet(rest) \subseteq ToSet(s)
  BY <1>7
<1> QED
  BY <1>2, <1>3, <1>6, <1>8 DEF k, rest

-----------------------------------------------------------------------------
(* The times of the sleepers and of those awake *)

\* The order of the sleepers, by entry instead of by position.
LEMMA SleepOrderFacts ==
  SleepOrder <=> /\ Sorted(sleepThreads_)
                 /\ \A e \in ToSet(sleepThreads_) : threads_[e.tid].sleepUntil_ = e.until
BY DEF SleepOrder, Sorted, ToSet

\* An entry's thread is asleep.
LEMMA EntryFacts ==
  ASSUME NEW s, NEW e \in ToSet(s) PROVE e.tid \in SleepingTids(s)
BY DEF ToSet, SleepingTids

\* The inductive invariant: that a thread is not woken early needs the order, and
\* that the thread keeps the time of its entry.
SInv == Inv /\ SleepOrder /\ AwakeIsDue

\* What a switch leaves: the front of the queue runs, a quantum later, and no
\* thread's wake-up time has changed.
LEMMA SwitchFacts ==
  ASSUME Inv, Inv', NEW th \in [Live -> Thread], NEW queue, NEW reason,
         preempt(th, queue, reason)
  PROVE  /\ queue # <<>> /\ Head(queue) \in Live
         /\ readyQueue_' = Tail(queue) /\ currentRunningThread_' = Head(queue)
         /\ total_quantum_' = total_quantum_ + 1
         /\ \A t \in Live : threads_'[t].sleepUntil_ = th[t].sleepUntil_
<1>1. queue # <<>> /\ Head(queue) \in Live
  BY DEF preempt, Inv, NoUndefinedBehaviour
<1>2. /\ threads_' = [th EXCEPT ![Head(queue)].numOfQuantum_ = @ + 1]
      /\ readyQueue_' = Tail(queue) /\ currentRunningThread_' = Head(queue)
      /\ total_quantum_' = total_quantum_ + 1
  BY <1>1 DEF preempt
<1>3. \A t \in Live : threads_'[t].sleepUntil_ = th[t].sleepUntil_
  BY <1>1, <1>2 DEF Thread
<1> QED
  BY <1>1, <1>2, <1>3

\* A step keeps the invariant if the sleepers stay in order, each entry is an old
\* one or has the time of its thread, and each thread that is ready or runs was
\* so before or is due.
LEMMA TimesInv ==
  ASSUME SInv, Inv', total_quantum_' >= total_quantum_,
         Sorted(sleepThreads_'),
         \A e \in ToSet(sleepThreads_') :
           \/ /\ e \in ToSet(sleepThreads_)
              /\ threads_'[e.tid].sleepUntil_ = threads_[e.tid].sleepUntil_
           \/ threads_'[e.tid].sleepUntil_ = e.until,
         \A t \in Ready' \cup {currentRunningThread_'} :
           \/ /\ t \in Ready \cup {currentRunningThread_}
              /\ threads_'[t].sleepUntil_ = threads_[t].sleepUntil_
           \/ threads_'[t].sleepUntil_ <= total_quantum_
  PROVE  SInv'
<1>1. SleepOrder'
  <2>1. \A e \in ToSet(sleepThreads_) : threads_[e.tid].sleepUntil_ = e.until
    BY SleepOrderFacts DEF SInv
  <2>2. \A e \in ToSet(sleepThreads_') : threads_'[e.tid].sleepUntil_ = e.until
    BY <2>1
  <2>3. /\ \A i, j \in DOMAIN sleepThreads_' :
             i < j => sleepThreads_'[i].until <= sleepThreads_'[j].until
        /\ \A i \in DOMAIN sleepThreads_' :
             threads_'[sleepThreads_'[i].tid].sleepUntil_ = sleepThreads_'[i].until
    BY <2>2 DEF Sorted, ToSet
  <2> QED
    BY <2>3 DEF SleepOrder
<1>2. AwakeIsDue'
  <2>1. ASSUME NEW t \in Ready' \cup {currentRunningThread_'}
        PROVE  threads_'[t].sleepUntil_ <= total_quantum_'
    <3>1. threads_'[t].sleepUntil_ <= total_quantum_
      BY DEF SInv, AwakeIsDue
    <3>2. t \in DOMAIN threads_' /\ threads_' \in [DOMAIN threads_' -> Thread]
      BY DEF Inv, OnePlace, TypeOK, Live
    <3>3. threads_'[t].sleepUntil_ \in Int
      BY <3>2 DEF Thread
    <3>4. total_quantum_ \in Int /\ total_quantum_' \in Int
      BY DEF SInv, Inv, TypeOK
    <3> QED
      BY <3>1, <3>3, <3>4
  <2> QED
    BY <2>1 DEF AwakeIsDue
<1> QED
  BY <1>1, <1>2 DEF SInv

\* What every step may use of the state it starts in.
LEMMA TimeFacts ==
  ASSUME SInv
  PROVE  /\ Inv /\ sleepThreads_ \in Seq(Sleeper) /\ Sorted(sleepThreads_)
         /\ Sleeping \subseteq Live /\ Ready \subseteq Live /\ currentRunningThread_ \in Live
         /\ \A e \in ToSet(sleepThreads_) : e.tid \in Sleeping
         /\ Remaining \in [Live -> Thread] /\ \A t \in Live : Remaining[t] = threads_[t]
         /\ total_quantum_ \in Nat
<1>1. Inv /\ Sorted(sleepThreads_) /\ \A e \in ToSet(sleepThreads_) : e.tid \in Sleeping
  BY SleepOrderFacts, EntryFacts DEF SInv, Sleeping
<1>2. Sleeping \subseteq Live
  BY DEF SInv, Inv, OnePlace
<1>3. total_quantum_ \in Nat
  BY DEF SInv, Inv, TypeOK
<1> QED
  BY <1>1, <1>2, <1>3, StateFacts

\* A step that only frees a terminated thread, or stops.
LEMMA DeletionTimes ==
  ASSUME SInv, Inv', threads_' = Remaining,
         UNCHANGED <<readyQueue_, sleepThreads_, currentRunningThread_, total_quantum_>>
  PROVE  SInv'
<1>1. \A t \in Live : threads_'[t].sleepUntil_ = threads_[t].sleepUntil_
  BY TimeFacts
<1>2. Ready' = Ready /\ Sleeping' = Sleeping
  BY DEF Ready, Sleeping
<1>3. total_quantum_' >= total_quantum_
  BY TimeFacts
<1>4. \A e \in ToSet(sleepThreads_') :
        e \in ToSet(sleepThreads_) /\ threads_'[e.tid].sleepUntil_ = threads_[e.tid].sleepUntil_
  BY <1>1, TimeFacts
<1>5. \A t \in Ready' \cup {currentRunningThread_'} :
        /\ t \in Ready \cup {currentRunningThread_}
        /\ threads_'[t].sleepUntil_ = threads_[t].sleepUntil_
  BY <1>1, <1>2, TimeFacts
<1> QED
  BY <1>3, <1>4, <1>5, TimeFacts, TimesInv

\* A call that takes another thread out of the queue or of the sleepers.
LEMMA RemovalTimes ==
  ASSUME SInv, Inv', threads_' = Remaining,
         UNCHANGED <<currentRunningThread_, total_quantum_>>,
         Ready' \subseteq Ready,
         sleepThreads_' = sleepThreads_
           \/ \E tid \in Sleeping : sleepThreads_' = eraseSleeper(sleepThreads_, tid)
  PROVE  SInv'
<1>1. \A t \in Live : threads_'[t].sleepUntil_ = threads_[t].sleepUntil_
  BY TimeFacts
<1>2. Sorted(sleepThreads_') /\ ToSet(sleepThreads_') \subseteq ToSet(sleepThreads_)
  BY TimeFacts, EraseSorted DEF Sleeping
<1>3. total_quantum_' >= total_quantum_
  BY TimeFacts
<1>4. \A e \in ToSet(sleepThreads_') :
        e \in ToSet(sleepThreads_) /\ threads_'[e.tid].sleepUntil_ = threads_[e.tid].sleepUntil_
  BY <1>1, <1>2, TimeFacts
<1>5. \A t \in Ready' \cup {currentRunningThread_'} :
        /\ t \in Ready \cup {currentRunningThread_}
        /\ threads_'[t].sleepUntil_ = threads_[t].sleepUntil_
  BY <1>1, TimeFacts
<1> QED
  BY <1>2, <1>3, <1>4, <1>5, TimesInv

\* A running thread that gives the processor up without sleeping.
LEMMA SwitchTimes ==
  ASSUME SInv, Inv', NEW reason, preempt(Remaining, readyQueue_, reason),
         UNCHANGED sleepThreads_
  PROVE  SInv'
<1>1. /\ currentRunningThread_' = Head(readyQueue_) /\ readyQueue_' = Tail(readyQueue_)
      /\ readyQueue_ # <<>> /\ total_quantum_' = total_quantum_ + 1
      /\ \A t \in Live : threads_'[t].sleepUntil_ = threads_[t].sleepUntil_
  BY TimeFacts, SwitchFacts
<1>2. Ready' \cup {currentRunningThread_'} \subseteq Ready
  BY <1>1, TailFacts, TimeFacts DEF Ready, Inv, TypeOK, OnePlace
<1>3. total_quantum_' >= total_quantum_
  BY <1>1, TimeFacts
<1>4. \A e \in ToSet(sleepThreads_') :
        e \in ToSet(sleepThreads_) /\ threads_'[e.tid].sleepUntil_ = threads_[e.tid].sleepUntil_
  BY <1>1, TimeFacts
<1>5. \A t \in Ready' \cup {currentRunningThread_'} :
        /\ t \in Ready \cup {currentRunningThread_}
        /\ threads_'[t].sleepUntil_ = threads_[t].sleepUntil_
  BY <1>1, <1>2, TimeFacts
<1> QED
  BY <1>3, <1>4, <1>5, TimeFacts, TimesInv

\* A quantum expires: the due sleepers are queued, and nobody else.
LEMMA TimerTimes ==
  ASSUME SInv, Inv', timerHandler
  PROVE  SInv'
<1> DEFINE due == dueCount(sleepThreads_, total_quantum_)
           woken == [i \in 1 .. due |-> sleepThreads_[i].tid]
           rest == SubSeq(sleepThreads_, due + 1, Len(sleepThreads_))
           longer == readyQueue_ \o woken
           queue == Append(longer, currentRunningThread_)
<1>1. sleepThreads_' = rest /\ preempt(Remaining, queue, "QuantumExpiration")
  BY DEF timerHandler
<1>2. /\ due \in 0 .. Len(sleepThreads_) /\ \A i \in 1 .. due : sleepThreads_[i].until <= total_quantum_
      /\ Sorted(rest) /\ ToSet(rest) \subseteq ToSet(sleepThreads_)
  <2>1. sleepThreads_ \in Seq(Sleeper) /\ Sorted(sleepThreads_) /\ total_quantum_ \in Int
    BY TimeFacts
  <2> QED
    BY <2>1, DueFacts, Zenon
<1> HIDE DEF due
<1>3. /\ woken \in Seq(Tids) /\ IsInjective(woken) /\ ToSet(woken) \subseteq Sleeping
  BY <1>2, TimeFacts, WakeFacts DEF Inv, OnePlace, Sleeping
<1>4. ASSUME NEW t \in ToSet(woken)
      PROVE  t \in Live /\ threads_[t].sleepUntil_ <= total_quantum_
  <2>1. PICK i \in 1 .. due : sleepThreads_[i].tid = t
    BY DEF ToSet
  <2>2. threads_[t].sleepUntil_ = sleepThreads_[i].until
    <3>1. i \in DOMAIN sleepThreads_
      BY <1>2, TimeFacts, SleeperFacts
    <3> QED
      BY <2>1, <3>1 DEF SInv, SleepOrder
  <2>3. t \in Live
    BY <1>3, TimeFacts
  <2> QED
    BY <1>2, <2>2, <2>3
<1> HIDE DEF woken, rest
<1>5. longer \in Seq(Tids) /\ IsInjective(longer) /\ ToSet(longer) = Ready \cup ToSet(woken)
  <2>1. ToSet(readyQueue_) \cap ToSet(woken) = {}
    BY <1>3, TimeFacts DEF Inv, OnePlace, Ready
  <2> QED
    BY <1>3, <2>1, ConcatFacts, TimeFacts DEF Inv, OnePlace, TypeOK, Ready
<1> HIDE DEF longer
<1>6. /\ queue \in Seq(Tids) /\ IsInjective(queue)
      /\ ToSet(queue) = Ready \cup ToSet(woken) \cup {currentRunningThread_}
  <2>1. currentRunningThread_ \notin ToSet(longer) /\ currentRunningThread_ \in Tids
    BY <1>3, <1>5, TimeFacts DEF Inv, OnePlace, TypeOK
  <2> QED
    BY <1>5, <2>1, AppendFacts
<1> HIDE DEF queue
<1>7. /\ queue # <<>> /\ readyQueue_' = Tail(queue) /\ currentRunningThread_' = Head(queue)
      /\ total_quantum_' = total_quantum_ + 1
      /\ \A t \in Live : threads_'[t].sleepUntil_ = threads_[t].sleepUntil_
  BY <1>1, TimeFacts, SwitchFacts
<1>8. Ready' \cup {currentRunningThread_'} \subseteq Ready \cup ToSet(woken) \cup {currentRunningThread_}
  BY <1>6, <1>7, TailFacts DEF Ready
<1>9. \A t \in Ready' \cup {currentRunningThread_'} :
        \/ /\ t \in Ready \cup {currentRunningThread_}
           /\ threads_'[t].sleepUntil_ = threads_[t].sleepUntil_
        \/ threads_'[t].sleepUntil_ <= total_quantum_
  BY <1>4, <1>7, <1>8, TimeFacts
<1>10. \A e \in ToSet(sleepThreads_') :
         e \in ToSet(sleepThreads_) /\ threads_'[e.tid].sleepUntil_ = threads_[e.tid].sleepUntil_
  BY <1>1, <1>2, <1>7, TimeFacts
<1>11. total_quantum_' >= total_quantum_
  BY <1>7, TimeFacts
<1> QED
  BY <1>1, <1>2, <1>9, <1>10, <1>11, TimesInv

\* A spawned thread has never slept.
LEMMA SpawnTimes ==
  ASSUME SInv, Inv', NEW hasFunction \in BOOLEAN, spawnThread(hasFunction)
  PROVE  SInv'
<1>1. CASE deleteTerminatedThread
  BY <1>1, DeletionTimes DEF deleteTerminatedThread
<1>2. CASE ~deleteTerminatedThread
  <2> DEFINE nextTid == getLowestAvailableId(DOMAIN Remaining)
  <2>1. /\ nextTid # NoTid
        /\ readyQueue_' = Append(readyQueue_, nextTid)
        /\ threads_' = [t \in DOMAIN Remaining \cup {nextTid} |->
                          IF t = nextTid THEN NewThread ELSE threads_[t]]
        /\ UNCHANGED <<sleepThreads_, currentRunningThread_, total_quantum_>>
    BY <1>2 DEF spawnThread, spawnRefused
  <2>2. DOMAIN Remaining = Live
    BY TimeFacts
  <2>3. nextTid \in Tids /\ nextTid \notin Live
    BY <2>1, <2>2, LowestIdFacts
  <2> HIDE DEF nextTid
  <2>4. /\ \A t \in Live : threads_'[t].sleepUntil_ = threads_[t].sleepUntil_
        /\ threads_'[nextTid].sleepUntil_ = NotSleeping
    BY <2>1, <2>2, <2>3 DEF NewThread
  <2>5. Ready' = Ready \cup {nextTid}
    BY <2>1, <2>3, AppendFacts, TimeFacts DEF Inv, TypeOK, Ready
  <2>6. threads_'[nextTid].sleepUntil_ <= total_quantum_ /\ total_quantum_' >= total_quantum_
    BY <2>1, <2>4, TimeFacts DEF NotSleeping
  <2>7. \A t \in Ready' \cup {currentRunningThread_'} :
          \/ /\ t \in Ready \cup {currentRunningThread_}
             /\ threads_'[t].sleepUntil_ = threads_[t].sleepUntil_
          \/ threads_'[t].sleepUntil_ <= total_quantum_
    BY <2>1, <2>4, <2>5, <2>6, TimeFacts
  <2>8. \A e \in ToSet(sleepThreads_') :
          e \in ToSet(sleepThreads_) /\ threads_'[e.tid].sleepUntil_ = threads_[e.tid].sleepUntil_
    BY <2>1, <2>4, TimeFacts
  <2> QED
    BY <2>1, <2>6, <2>7, <2>8, TimeFacts, TimesInv
<1> QED
  BY <1>1, <1>2

\* A resumed thread goes back among the sleepers with the time it kept, or to
\* the queue if it has never slept.
LEMMA ResumeTimes ==
  ASSUME SInv, Inv', NEW tid \in Live, tid \in blockedThreads_, unblock(tid)
  PROVE  SInv'
<1> DEFINE until == threads_[tid].sleepUntil_
<1>1. threads_' = Remaining /\ UNCHANGED <<currentRunningThread_, total_quantum_>>
  BY DEF unblock
<1>2. \A t \in Live : threads_'[t].sleepUntil_ = threads_[t].sleepUntil_
  BY <1>1, TimeFacts
<1>3. tid \in Tids /\ tid \notin Sleeping /\ until \in Int
  BY TimeFacts DEF Inv, TypeOK, OnePlace, Live, Thread
<1>4. total_quantum_' >= total_quantum_
  BY <1>1, TimeFacts
<1>5. CASE until # NotSleeping
  <2>1. sleepThreads_' = insertSleeper(sleepThreads_, tid, until) /\ UNCHANGED readyQueue_
    BY <1>3, <1>5 DEF unblock, Sleeping
  <2>2. threads_'[tid].sleepUntil_ = until
    BY <1>2
  <2> HIDE DEF until
  <2>3. /\ Sorted(sleepThreads_')
        /\ ToSet(sleepThreads_') \subseteq ToSet(sleepThreads_) \cup {[tid |-> tid, until |-> until]}
    BY <1>3, <2>1, TimeFacts, InsertSorted
  <2>4. \A e \in ToSet(sleepThreads_') :
          \/ /\ e \in ToSet(sleepThreads_)
             /\ threads_'[e.tid].sleepUntil_ = threads_[e.tid].sleepUntil_
          \/ threads_'[e.tid].sleepUntil_ = e.until
    BY <1>2, <2>2, <2>3, TimeFacts
  <2>5. \A t \in Ready' \cup {currentRunningThread_'} :
          /\ t \in Ready \cup {currentRunningThread_}
          /\ threads_'[t].sleepUntil_ = threads_[t].sleepUntil_
    BY <1>1, <1>2, <2>1, TimeFacts DEF Ready
  <2> QED
    BY <1>4, <2>3, <2>4, <2>5, TimesInv
<1>6. CASE until = NotSleeping
  <2>1. readyQueue_' = Append(readyQueue_, tid) /\ UNCHANGED sleepThreads_
    BY <1>6 DEF unblock
  <2>2. Ready' = Ready \cup {tid}
    BY <1>3, <2>1, AppendFacts, TimeFacts DEF Inv, TypeOK, Ready
  <2>3. threads_'[tid].sleepUntil_ <= total_quantum_
    BY <1>2, <1>6, TimeFacts DEF NotSleeping
  <2>4. \A t \in Ready' \cup {currentRunningThread_'} :
          \/ /\ t \in Ready \cup {currentRunningThread_}
             /\ threads_'[t].sleepUntil_ = threads_[t].sleepUntil_
          \/ threads_'[t].sleepUntil_ <= total_quantum_
    BY <1>1, <1>2, <2>2, <2>3, TimeFacts
  <2>5. \A e \in ToSet(sleepThreads_') :
          e \in ToSet(sleepThreads_) /\ threads_'[e.tid].sleepUntil_ = threads_[e.tid].sleepUntil_
    BY <1>2, <2>1, TimeFacts
  <2> QED
    BY <1>4, <2>1, <2>4, <2>5, TimeFacts, TimesInv
<1> QED
  BY <1>5, <1>6

\* The running thread goes to sleep: its entry and its own time agree.
LEMMA SleepTimes ==
  ASSUME SInv, Inv', NEW num_quantums \in Int, sleepThread(num_quantums)
  PROVE  SInv'
<1>1. CASE deleteTerminatedThread
  BY <1>1, DeletionTimes DEF deleteTerminatedThread
<1>2. CASE ~deleteTerminatedThread
  <2> DEFINE until == Wrapped(total_quantum_ + num_quantums)
             self == currentRunningThread_
             th == [Remaining EXCEPT ![self].sleepUntil_ = until]
  <2>1. /\ sleepThreads_' = insertSleeper(sleepThreads_, self, until)
        /\ preempt(th, readyQueue_, "Blocking")
    BY <1>2 DEF sleepThread
  <2>2. until \in Int
    <3>1. total_quantum_ + num_quantums \in Int
      BY TimeFacts, IntMaxAssumption
    <3> QED
      BY <3>1, WrappedFacts
  <2> HIDE DEF until
  <2>3. /\ th \in [Live -> Thread] /\ th[self].sleepUntil_ = until
        /\ \A t \in Live \ {self} : th[t].sleepUntil_ = threads_[t].sleepUntil_
    <3>1. [Remaining[self] EXCEPT !.sleepUntil_ = until] \in Thread
      BY <2>2, TimeFacts DEF Thread
    <3>2. th \in [Live -> Thread]
      BY <3>1, TimeFacts
    <3>3. Remaining[self] \in Thread
      BY TimeFacts
    <3> QED
      BY <3>2, <3>3, TimeFacts DEF Thread
  <2> HIDE DEF th
  <2>4. /\ currentRunningThread_' = Head(readyQueue_) /\ readyQueue_' = Tail(readyQueue_)
        /\ readyQueue_ # <<>> /\ total_quantum_' = total_quantum_ + 1
        /\ \A t \in Live : threads_'[t].sleepUntil_ = th[t].sleepUntil_
    BY <2>1, <2>3, TimeFacts, SwitchFacts
  <2>5. self \in Tids /\ self \in Live /\ self \notin Sleeping /\ self \notin Ready
    BY TimeFacts DEF Inv, TypeOK, OnePlace
  <2>6. /\ Sorted(sleepThreads_')
        /\ ToSet(sleepThreads_') \subseteq ToSet(sleepThreads_) \cup {[tid |-> self, until |-> until]}
    BY <2>1, <2>2, <2>5, TimeFacts, InsertSorted
  <2>7. Ready' \cup {currentRunningThread_'} \subseteq Ready
    BY <2>4, TailFacts, TimeFacts DEF Ready, Inv, TypeOK, OnePlace
  <2>8. \A e \in ToSet(sleepThreads_') :
          \/ /\ e \in ToSet(sleepThreads_)
             /\ threads_'[e.tid].sleepUntil_ = threads_[e.tid].sleepUntil_
          \/ threads_'[e.tid].sleepUntil_ = e.until
    <3>1. ASSUME NEW e \in ToSet(sleepThreads_)
          PROVE  threads_'[e.tid].sleepUntil_ = threads_[e.tid].sleepUntil_
      BY <2>3, <2>4, <2>5, TimeFacts
    <3>2. threads_'[self].sleepUntil_ = until
      BY <2>3, <2>4, <2>5
    <3> QED
      BY <2>6, <3>1, <3>2
  <2>9. \A t \in Ready' \cup {currentRunningThread_'} :
          /\ t \in Ready \cup {currentRunningThread_}
          /\ threads_'[t].sleepUntil_ = threads_[t].sleepUntil_
    BY <2>3, <2>4, <2>5, <2>7, TimeFacts
  <2>10. total_quantum_' >= total_quantum_
    BY <2>4, TimeFacts
  <2> QED
    BY <2>6, <2>8, <2>9, <2>10, TimesInv
<1> QED
  BY <1>1, <1>2

\* Every step keeps the invariant.
LEMMA NextTimes == SInv /\ [Next]_vars => SInv'
<1> SUFFICES ASSUME SInv, [Next]_vars PROVE SInv'
  OBVIOUS
<1>0. Inv'
  BY NextInv DEF SInv
<1>d. ASSUME deleteTerminatedThread PROVE SInv'
  BY <1>0, <1>d, DeletionTimes DEF deleteTerminatedThread
<1>1. CASE timerHandler
  BY <1>0, <1>1, TimerTimes
<1>2. ASSUME NEW hasFunction \in BOOLEAN, spawnThread(hasFunction) PROVE SInv'
  BY <1>0, <1>2, SpawnTimes
<1>3. ASSUME NEW tid \in TidArguments, terminateThread(tid) PROVE SInv'
  <2>1. CASE exitProcess
    BY <1>0, <2>1, DeletionTimes DEF exitProcess
  <2>2. CASE preempt(Remaining, readyQueue_, "Termination") /\ UNCHANGED sleepThreads_
    BY <1>0, <2>2, SwitchTimes
  <2>3. CASE terminateOtherThread(tid)
    <3>1. Ready' \subseteq Ready
      BY <2>3, DeleteReadyFacts, TimeFacts DEF terminateOtherThread, Inv, TypeOK, OnePlace, Ready
    <3>2. \/ sleepThreads_' = sleepThreads_
          \/ \E t \in Sleeping : sleepThreads_' = eraseSleeper(sleepThreads_, t)
      BY <2>3 DEF terminateOtherThread, Sleeping
    <3> QED
      BY <1>0, <2>3, <3>1, <3>2, RemovalTimes DEF terminateOtherThread
  <2> QED
    BY <1>3, <1>d, <2>1, <2>2, <2>3 DEF terminateThread
<1>4. CASE getThreadQuantums
  BY <1>4, <1>d DEF getThreadQuantums
<1>5. ASSUME NEW tid \in TidArguments, blockThread(tid) PROVE SInv'
  <2>1. CASE preempt(Remaining, readyQueue_, "Blocking") /\ UNCHANGED sleepThreads_
    BY <1>0, <2>1, SwitchTimes
  <2>2. CASE blockOtherThread(tid)
    <3>1. Ready' \subseteq Ready
      BY <2>2, DeleteReadyFacts, TimeFacts DEF blockOtherThread, Inv, TypeOK, OnePlace, Ready
    <3>2. \/ sleepThreads_' = sleepThreads_
          \/ \E t \in Sleeping : sleepThreads_' = eraseSleeper(sleepThreads_, t)
      BY <2>2 DEF blockOtherThread, Sleeping
    <3> QED
      BY <1>0, <2>2, <3>1, <3>2, RemovalTimes DEF blockOtherThread
  <2> QED
    BY <1>5, <1>d, <2>1, <2>2 DEF blockThread
<1>6. ASSUME NEW tid \in TidArguments, resumeThread(tid) PROVE SInv'
  BY <1>0, <1>6, <1>d, ResumeTimes, TimeFacts DEF resumeThread
<1>7. ASSUME NEW num_quantums \in SleepRequests, sleepThread(num_quantums) PROVE SInv'
  BY <1>0, <1>7, SleepTimes, SleepRequestsAssumption, IntMaxAssumption
<1>8. CASE UNCHANGED vars
  BY <1>8 DEF vars, SInv, Inv, TypeOK, OnePlace, MainSchedulable, NoUndefinedBehaviour,
              SleepOrder, AwakeIsDue, Live, Ready, Sleeping
<1> QED
  BY <1>1, <1>2, <1>3, <1>4, <1>5, <1>6, <1>7, <1>8 DEF Next, apiCall, stopped

\* The invariant holds in every reachable state.
THEOREM TimesInvariant == Spec => []SInv
<1>1. Init => SInv
  BY InitInv DEF Init, SInv, SleepOrder, AwakeIsDue, Ready, ToSet, NewThread, NotSleeping
<1> QED
  BY <1>1, NextTimes, PTL DEF Spec

\* The multiset of sleepers is in the order of the wake-up times, which are those
\* the threads keep, whatever is blocked, resumed and woken in between.
THEOREM SleepersInOrder == Spec => []SleepOrder
<1>1. SInv => SleepOrder
  BY DEF SInv
<1> QED
  BY <1>1, TimesInvariant, PTL

\* No thread runs or is queued before the quantum it sleeps until.
THEOREM NobodyWakesEarly == Spec => []AwakeIsDue
<1>1. SInv => AwakeIsDue
  BY DEF SInv
<1> QED
  BY <1>1, TimesInvariant, PTL

-----------------------------------------------------------------------------
(* Nobody overtakes *)

\* Whoever is ahead in r of an element of both queues was ahead of it in q.
KeepsOrder(q, r) ==
  \A a \in ToSet(q) \cap ToSet(r), b \in ToSet(r) :
    IndexOf(r, b) < IndexOf(r, a) => b \in ToSet(q) /\ IndexOf(q, b) < IndexOf(q, a)

\* The position of an element is the one it is found at.
LEMMA IndexFacts ==
  ASSUME NEW S, NEW q \in Seq(S), IsInjective(q)
  PROVE  /\ \A i \in 1 .. Len(q) : q[i] \in ToSet(q) /\ IndexOf(q, q[i]) = i
         /\ \A x \in ToSet(q) : IndexOf(q, x) \in 1 .. Len(q) /\ q[IndexOf(q, x)] = x
<1>1. /\ DOMAIN q = 1 .. Len(q)
      /\ \A i, j \in 1 .. Len(q) : q[i] = q[j] => i = j
      /\ \A x : x \in ToSet(q) <=> \E i \in 1 .. Len(q) : q[i] = x
  BY ElementFacts
<1>2. \A x \in ToSet(q) : IndexOf(q, x) \in 1 .. Len(q) /\ q[IndexOf(q, x)] = x
  BY <1>1 DEF IndexOf
<1> QED
  BY <1>1, <1>2

\* It is enough that each position before a common element of r holds an element
\* of q from before that element's position there.
LEMMA EmbeddingKeepsOrder ==
  ASSUME NEW S, NEW q \in Seq(S), NEW r \in Seq(S), IsInjective(q), IsInjective(r),
         \A i \in 1 .. Len(q), j \in 1 .. Len(r), m \in 1 .. Len(r) :
           q[i] = r[j] /\ m < j => \E n \in 1 .. Len(q) : n < i /\ q[n] = r[m]
  PROVE  KeepsOrder(q, r)
<1> SUFFICES ASSUME NEW a \in ToSet(q) \cap ToSet(r), NEW b \in ToSet(r),
                    IndexOf(r, b) < IndexOf(r, a)
             PROVE  b \in ToSet(q) /\ IndexOf(q, b) < IndexOf(q, a)
  BY DEF KeepsOrder
<1>1. /\ IndexOf(q, a) \in 1 .. Len(q) /\ q[IndexOf(q, a)] = a
      /\ IndexOf(r, a) \in 1 .. Len(r) /\ r[IndexOf(r, a)] = a
      /\ IndexOf(r, b) \in 1 .. Len(r) /\ r[IndexOf(r, b)] = b
  BY IndexFacts
<1>2. PICK n \in 1 .. Len(q) : n < IndexOf(q, a) /\ q[n] = b
  BY <1>1
<1>3. b \in ToSet(q) /\ IndexOf(q, b) = n
  BY <1>2, IndexFacts
<1> QED
  BY <1>2, <1>3

\* Queueing others behind keeps the order.
LEMMA ConcatKeepsOrder ==
  ASSUME NEW S, NEW q \in Seq(S), NEW r \in Seq(S),
         IsInjective(q), IsInjective(r), ToSet(q) \cap ToSet(r) = {}
  PROVE  KeepsOrder(q, q \o r)
<1> DEFINE c == q \o r
<1>1. c \in Seq(S) /\ IsInjective(c)
  BY ConcatFacts
<1>2. /\ Len(c) = Len(q) + Len(r) /\ Len(q) \in Nat /\ Len(r) \in Nat
      /\ \A i \in 1 .. Len(q) + Len(r) : c[i] = IF i <= Len(q) THEN q[i] ELSE r[i - Len(q)]
  BY ConcatProperties, LenProperties
<1>3. \A i, j \in 1 .. Len(c) : c[i] = c[j] => i = j
  BY <1>1, ElementFacts
<1> HIDE DEF c
<1>4. \A i \in 1 .. Len(q) : i \in 1 .. Len(c) /\ c[i] = q[i]
  BY <1>2
<1>5. ASSUME NEW i \in 1 .. Len(q), NEW j \in 1 .. Len(c), NEW m \in 1 .. Len(c),
             q[i] = c[j], m < j
      PROVE  \E n \in 1 .. Len(q) : n < i /\ q[n] = c[m]
  <2>1. i = j
    BY <1>3, <1>4, <1>5
  <2>2. m \in 1 .. Len(q) /\ m < i /\ q[m] = c[m]
    BY <1>2, <1>4, <1>5, <2>1
  <2> QED
    BY <2>2
<1>6. KeepsOrder(q, c)
  BY <1>1, <1>5, EmbeddingKeepsOrder
<1> QED
  BY <1>6 DEF c

\* So does queueing one more.
LEMMA AppendKeepsOrder ==
  ASSUME NEW S, NEW q \in Seq(S), NEW e \in S, IsInjective(q), e \notin ToSet(q)
  PROVE  KeepsOrder(q, Append(q, e))
<1>1. <<e>> \in Seq(S) /\ Len(<<e>>) = 1 /\ <<e>>[1] = e
  OBVIOUS
<1>2. IsInjective(<<e>>) /\ ToSet(<<e>>) = {e}
  <2>1. DOMAIN <<e>> = {1}
    BY <1>1
  <2> QED
    BY <1>1, <2>1 DEF IsInjective, ToSet
<1>3. ToSet(q) \cap ToSet(<<e>>) = {}
  BY <1>2
<1>4. KeepsOrder(q, q \o <<e>>)
  BY <1>1, <1>2, <1>3, ConcatKeepsOrder
<1>5. Append(q, e) = q \o <<e>>
  BY AppendIsConcat
<1> QED
  BY <1>4, <1>5

\* So does taking the front.
LEMMA TailKeepsOrder ==
  ASSUME NEW S, NEW q \in Seq(S), IsInjective(q), q # <<>>
  PROVE  KeepsOrder(q, Tail(q))
<1> DEFINE t == Tail(q)
<1>1. /\ t \in Seq(S) /\ Len(t) = Len(q) - 1 /\ Len(q) \in Nat \ {0}
      /\ \A i \in 1 .. Len(q) - 1 : t[i] = q[i + 1]
  BY HeadTailProperties, EmptySeq
<1>2. IsInjective(t)
  BY TailFacts
<1>3. \A i, j \in 1 .. Len(q) : q[i] = q[j] => i = j
  BY ElementFacts
<1> HIDE DEF t
<1>4. ASSUME NEW i \in 1 .. Len(q), NEW j \in 1 .. Len(t), NEW m \in 1 .. Len(t),
             q[i] = t[j], m < j
      PROVE  \E n \in 1 .. Len(q) : n < i /\ q[n] = t[m]
  <2>1. j + 1 \in 1 .. Len(q) /\ q[j + 1] = t[j]
    BY <1>1
  <2>2. i = j + 1
    BY <1>3, <1>4, <2>1
  <2>3. m + 1 \in 1 .. Len(q) /\ m + 1 < i /\ q[m + 1] = t[m]
    BY <1>1, <1>4, <2>2
  <2> QED
    BY <2>3
<1>5. KeepsOrder(q, t)
  BY <1>1, <1>2, <1>4, EmbeddingKeepsOrder
<1> QED
  BY <1>5 DEF t

\* So does taking any thread out.
LEMMA DeleteKeepsOrder ==
  ASSUME NEW S, NEW q \in Seq(S), IsInjective(q), NEW tid
  PROVE  KeepsOrder(q, deleteReadyThread(q, tid))
<1>1. CASE tid \notin ToSet(q)
  BY <1>1 DEF deleteReadyThread, KeepsOrder
<1>2. CASE tid \in ToSet(q)
  <2> DEFINE k == IndexOf(q, tid)
             r == RemoveAt(q, k)
             from(j) == IF j < k THEN j ELSE j + 1
  <2>1. k \in 1 .. Len(q) /\ Len(q) \in Nat /\ \A i, j \in 1 .. Len(q) : q[i] = q[j] => i = j
    BY <1>2, IndexFacts, ElementFacts
  <2>2. deleteReadyThread(q, tid) = r
    BY <1>2 DEF deleteReadyThread
  <2>3. r \in Seq(S) /\ IsInjective(r)
    BY <2>2, DeleteReadyFacts
  <2> HIDE DEF k
  <2>4. Len(r) = Len(q) - 1 /\ \A j \in 1 .. Len(q) - 1 : r[j] = IF j < k THEN q[j] ELSE q[j + 1]
    BY <2>1, RemoveAtFacts
  <2> HIDE DEF r
  <2>5. ASSUME NEW j \in 1 .. Len(r) PROVE from(j) \in 1 .. Len(q) /\ r[j] = q[from(j)]
    <3>1. CASE j < k
      BY <2>1, <2>4, <3>1
    <3>2. CASE ~(j < k)
      BY <2>1, <2>4, <3>2
    <3> QED
      BY <3>1, <3>2
  <2>6. ASSUME NEW i \in 1 .. Len(q), NEW j \in 1 .. Len(r), NEW m \in 1 .. Len(r),
               q[i] = r[j], m < j
        PROVE  \E n \in 1 .. Len(q) : n < i /\ q[n] = r[m]
    <3>1. from(j) \in 1 .. Len(q) /\ q[from(j)] = q[i]
      BY <2>5, <2>6
    <3>2. from(j) = i
      BY <2>1, <3>1
    <3>3. from(m) < from(j)
      BY <2>1, <2>4, <2>6
    <3>4. from(m) \in 1 .. Len(q) /\ q[from(m)] = r[m]
      BY <2>5
    <3> QED
      BY <3>2, <3>3, <3>4
  <2>7. KeepsOrder(q, r)
    BY <2>3, <2>6, EmbeddingKeepsOrder
  <2> QED
    BY <2>2, <2>7
<1> QED
  BY <1>1, <1>2

\* And one such change after another.
LEMMA OrderIsTransitive ==
  ASSUME NEW q, NEW r, NEW s, KeepsOrder(q, r), KeepsOrder(r, s),
         ToSet(q) \cap ToSet(s) \subseteq ToSet(r)
  PROVE  KeepsOrder(q, s)
BY DEF KeepsOrder

\* The step that NoOvertaking asks for.
InOrder ==
  /\ \A a \in Ready \cap Ready', b \in Ready' :
       IndexOf(readyQueue_', b) < IndexOf(readyQueue_', a)
         => b \in Ready /\ IndexOf(readyQueue_, b) < IndexOf(readyQueue_, a)
  /\ currentRunningThread_' \in Ready => currentRunningThread_' = Head(readyQueue_)

\* The queue keeps its order, and who runs now did so before or was in front.
LEMMA InOrderFacts ==
  ASSUME Inv, KeepsOrder(readyQueue_, readyQueue_'),
         \/ currentRunningThread_' = currentRunningThread_
         \/ currentRunningThread_' = Head(readyQueue_)
         \/ currentRunningThread_' \notin Ready
  PROVE  InOrder
<1>1. currentRunningThread_ \notin Ready
  BY DEF Inv, OnePlace
<1> QED
  BY <1>1 DEF InOrder, KeepsOrder, Ready

\* A thread that gives the processor up without changing the queue.
LEMMA SwitchInOrder ==
  ASSUME Inv, Inv', NEW th \in [Live -> Thread], NEW reason, preempt(th, readyQueue_, reason)
  PROVE  InOrder
<1>1. /\ readyQueue_ # <<>> /\ readyQueue_' = Tail(readyQueue_)
      /\ currentRunningThread_' = Head(readyQueue_)
  BY SwitchFacts
<1>2. KeepsOrder(readyQueue_, readyQueue_')
  BY <1>1, TailKeepsOrder DEF Inv, TypeOK, OnePlace
<1> QED
  BY <1>1, <1>2, InOrderFacts

\* A tick queues the woken and the interrupted thread behind the others.
LEMMA TimerInOrder ==
  ASSUME Inv, Inv', timerHandler
  PROVE  InOrder
<1> DEFINE due == dueCount(sleepThreads_, total_quantum_)
           woken == [i \in 1 .. due |-> sleepThreads_[i].tid]
           longer == readyQueue_ \o woken
           queue == Append(longer, currentRunningThread_)
<1>1. preempt(Remaining, queue, "QuantumExpiration")
  BY DEF timerHandler
<1>2. due \in 0 .. Len(sleepThreads_)
  BY StateFacts, CountFacts DEF dueCount
<1> HIDE DEF due
<1>3. woken \in Seq(Tids) /\ IsInjective(woken) /\ ToSet(woken) \subseteq Sleeping
  BY <1>2, StateFacts, WakeFacts DEF Inv, OnePlace, Sleeping
<1> HIDE DEF woken
<1>4. readyQueue_ \in Seq(Tids) /\ IsInjective(readyQueue_) /\ ToSet(readyQueue_) \cap ToSet(woken) = {}
  BY <1>3 DEF Inv, OnePlace, TypeOK, Ready
<1>5. longer \in Seq(Tids) /\ IsInjective(longer) /\ ToSet(longer) = Ready \cup ToSet(woken)
  BY <1>3, <1>4, ConcatFacts DEF Ready
<1>6. KeepsOrder(readyQueue_, longer)
  BY <1>3, <1>4, ConcatKeepsOrder
<1>7. readyQueue_ # <<>> => longer # <<>> /\ Head(longer) = Head(readyQueue_)
  BY <1>3, <1>4, ConcatProperties
<1> HIDE DEF longer
<1>8. currentRunningThread_ \in Tids /\ currentRunningThread_ \notin ToSet(longer)
  BY <1>3, <1>5 DEF Inv, OnePlace, TypeOK
<1>9. /\ queue \in Seq(Tids) /\ IsInjective(queue)
      /\ ToSet(queue) = ToSet(longer) \cup {currentRunningThread_}
      /\ KeepsOrder(longer, queue)
  BY <1>5, <1>8, AppendFacts, AppendKeepsOrder
<1>10. longer # <<>> => Head(queue) = Head(longer)
  BY <1>5, <1>8, AppendProperties
<1> HIDE DEF queue
<1>11. /\ queue # <<>> /\ readyQueue_' = Tail(queue) /\ currentRunningThread_' = Head(queue)
  BY <1>1, StateFacts, SwitchFacts
<1>12. KeepsOrder(queue, readyQueue_') /\ ToSet(readyQueue_') \subseteq ToSet(queue)
  BY <1>9, <1>11, TailKeepsOrder, TailFacts
<1>13. KeepsOrder(readyQueue_, readyQueue_')
  <2>1. ToSet(readyQueue_) \subseteq ToSet(longer)
    BY <1>5 DEF Ready
  <2>2. KeepsOrder(readyQueue_, queue)
    BY <1>6, <1>9, <2>1, OrderIsTransitive
  <2> QED
    BY <1>9, <1>12, <2>1, <2>2, OrderIsTransitive
<1>14. \/ currentRunningThread_' = Head(readyQueue_)
       \/ currentRunningThread_' \notin Ready
  <2>1. Ready # {} => readyQueue_ # <<>>
    BY DEF Ready, ToSet
  <2> QED
    BY <1>7, <1>10, <1>11, <2>1
<1> QED
  BY <1>13, <1>14, InOrderFacts

\* Every step of the scheduler is one that NoOvertaking allows.
LEMMA NextInOrder == Inv /\ [Next]_vars => InOrder \/ UNCHANGED vars
<1> SUFFICES ASSUME Inv, Next PROVE InOrder \/ UNCHANGED vars
  OBVIOUS
<1>0. /\ Inv' /\ readyQueue_ \in Seq(Tids) /\ IsInjective(readyQueue_)
      /\ Remaining \in [Live -> Thread]
  BY NextInv, StateFacts DEF Inv, TypeOK, OnePlace
<1>1. ASSUME UNCHANGED <<readyQueue_, currentRunningThread_>> PROVE InOrder
  <2>1. KeepsOrder(readyQueue_, readyQueue_')
    BY <1>1 DEF KeepsOrder
  <2> QED
    BY <1>1, <2>1, InOrderFacts
<1>2. ASSUME NEW tid, UNCHANGED currentRunningThread_,
             readyQueue_' = readyQueue_ \/ readyQueue_' = deleteReadyThread(readyQueue_, tid)
      PROVE  InOrder
  <2>1. KeepsOrder(readyQueue_, deleteReadyThread(readyQueue_, tid))
    BY <1>0, DeleteKeepsOrder
  <2> QED
    BY <1>1, <1>2, <2>1, InOrderFacts
<1>3. ASSUME NEW tid \in Tids, tid \notin Ready, UNCHANGED currentRunningThread_,
             readyQueue_' = readyQueue_ \/ readyQueue_' = Append(readyQueue_, tid)
      PROVE  InOrder
  <2>1. KeepsOrder(readyQueue_, Append(readyQueue_, tid))
    BY <1>0, <1>3, AppendKeepsOrder DEF Ready
  <2> QED
    BY <1>1, <1>3, <2>1, InOrderFacts
<1>4. ASSUME NEW reason, preempt(Remaining, readyQueue_, reason) PROVE InOrder
  BY <1>0, <1>4, SwitchInOrder
<1>d. ASSUME deleteTerminatedThread PROVE InOrder
  BY <1>1, <1>d DEF deleteTerminatedThread
<1>5. CASE timerHandler
  BY <1>0, <1>5, TimerInOrder
<1>6. ASSUME NEW hasFunction \in BOOLEAN, spawnThread(hasFunction) PROVE InOrder
  <2> DEFINE nextTid == getLowestAvailableId(DOMAIN Remaining)
  <2>1. CASE deleteTerminatedThread
    BY <1>d, <2>1
  <2>2. CASE ~deleteTerminatedThread
    <3>1. /\ nextTid # NoTid /\ readyQueue_' = Append(readyQueue_, nextTid)
          /\ UNCHANGED currentRunningThread_
      BY <1>6, <2>2 DEF spawnThread, spawnRefused
    <3>2. nextTid \in Tids /\ nextTid \notin Live
      BY <3>1, LowestIdFacts, StateFacts
    <3> HIDE DEF nextTid
    <3>3. nextTid \notin Ready
      BY <3>2, StateFacts
    <3> QED
      BY <1>3, <3>1, <3>2, <3>3
  <2> QED
    BY <2>1, <2>2
<1>7. ASSUME NEW tid \in TidArguments, terminateThread(tid) PROVE InOrder
  <2>1. CASE exitProcess
    BY <1>1, <2>1 DEF exitProcess
  <2>2. CASE preempt(Remaining, readyQueue_, "Termination")
    BY <1>4, <2>2
  <2>3. CASE terminateOtherThread(tid)
    BY <1>2, <2>3 DEF terminateOtherThread
  <2> QED
    BY <1>7, <1>d, <2>1, <2>2, <2>3 DEF terminateThread
<1>8. CASE getThreadQuantums
  BY <1>8, <1>d DEF getThreadQuantums
<1>9. ASSUME NEW tid \in TidArguments, blockThread(tid) PROVE InOrder
  <2>1. CASE preempt(Remaining, readyQueue_, "Blocking")
    BY <1>4, <2>1
  <2>2. CASE blockOtherThread(tid)
    BY <1>2, <2>2 DEF blockOtherThread
  <2> QED
    BY <1>9, <1>d, <2>1, <2>2 DEF blockThread
<1>10. ASSUME NEW tid \in TidArguments, resumeThread(tid) PROVE InOrder
  <2>1. CASE tid \in blockedThreads_ /\ unblock(tid)
    <3>1. tid \in Tids /\ tid \notin Ready
      BY <2>1 DEF Inv, TypeOK, OnePlace
    <3> QED
      BY <1>3, <2>1, <3>1 DEF unblock
  <2> QED
    BY <1>10, <1>d, <2>1 DEF resumeThread
<1>11. ASSUME NEW num_quantums \in SleepRequests, sleepThread(num_quantums) PROVE InOrder
  <2> DEFINE until == Wrapped(total_quantum_ + num_quantums)
             self == currentRunningThread_
             th == [Remaining EXCEPT ![self].sleepUntil_ = until]
  <2>1. until \in Int /\ self \in Live
    <3>1. total_quantum_ + num_quantums \in Int
      BY SleepRequestsAssumption, IntMaxAssumption DEF Inv, TypeOK
    <3> QED
      BY <3>1, WrappedFacts, StateFacts
  <2> HIDE DEF until
  <2>2. th \in [Live -> Thread]
    <3>1. [Remaining[self] EXCEPT !.sleepUntil_ = until] \in Thread
      BY <1>0, <2>1 DEF Thread
    <3> QED
      BY <1>0, <3>1
  <2> HIDE DEF th
  <2>3. CASE preempt(th, readyQueue_, "Blocking")
    BY <1>0, <2>2, <2>3, SwitchInOrder
  <2> QED
    BY <1>11, <1>d, <2>3 DEF sleepThread, th, until
<1>12. CASE stopped
  BY <1>12 DEF stopped
<1> QED
  BY <1>5, <1>6, <1>7, <1>8, <1>9, <1>10, <1>11, <1>12 DEF Next, apiCall

\* Round robin: whoever waits in the queue is overtaken by nobody, and a thread
\* that was waiting runs only from the front.
THEOREM NobodyOvertakes == Spec => NoOvertaking
<1>1. Inv /\ [Next]_vars => [InOrder]_vars
  BY NextInOrder
<1>2. [InOrder]_vars => [/\ \A a \in Ready \cap Ready', b \in Ready' :
                              IndexOf(readyQueue_', b) < IndexOf(readyQueue_', a)
                                => b \in Ready /\ IndexOf(readyQueue_, b) < IndexOf(readyQueue_, a)
                         /\ currentRunningThread_' \in Ready
                              => currentRunningThread_' = Head(readyQueue_)]_vars
  BY DEF InOrder
<1> QED
  BY <1>1, <1>2, SchedulerInvariant, PTL DEF Spec, NoOvertaking

-----------------------------------------------------------------------------
(* Sleepers are looked at at least once in MAX_THREAD_NUM quanta.          *)
(* Nothing bounds how often threads give the processor up before their     *)
(* quantum expires. But each of these switches brings main nearer to the   *)
(* front of the queue, and main's quantum can only expire. So the quanta   *)
(* since the last look and the threads that still run before main can do   *)
(* so add up to no more than there are threads.                            *)

\* The threads whose quantum begins before main's can expire.
AheadOfMain == {t \in Ready : IndexOf(readyQueue_, t) < IndexOf(readyQueue_, 0)}
UntilMainRuns == IF currentRunningThread_ = 0 THEN {} ELSE AheadOfMain \cup {0}

LagInv ==
  /\ lastWakeUp \in Nat
  /\ total_quantum_ - lastWakeUp + Cardinality(UntilMainRuns) <= MAX_THREAD_NUM

\* They are some of the threads that do not run, so there is room for them.
LEMMA OthersFacts ==
  ASSUME NEW t \in Tids, NEW S \in SUBSET (Tids \ {t})
  PROVE  IsFiniteSet(S) /\ Cardinality(S) \in 0 .. MAX_THREAD_NUM - 1
<1>1. IsFiniteSet(Tids) /\ Cardinality(Tids) = MAX_THREAD_NUM
  BY FS_Interval, MaxThreadNumAssumption DEF Tids
<1>2. IsFiniteSet(Tids \ {t}) /\ Cardinality(Tids \ {t}) = MAX_THREAD_NUM - 1
  BY <1>1, FS_RemoveElement
<1>3. IsFiniteSet(S) /\ Cardinality(S) <= MAX_THREAD_NUM - 1
  BY <1>2, FS_Subset
<1> QED
  BY <1>3, FS_CardinalityType, MaxThreadNumAssumption

\* Fewer than MAX_THREAD_NUM quanta begin before that of main can expire.
LEMMA UntilMainRunsFacts ==
  ASSUME Inv, Inv'
  PROVE  /\ IsFiniteSet(UntilMainRuns) /\ IsFiniteSet(UntilMainRuns')
         /\ Cardinality(UntilMainRuns) \in 0 .. MAX_THREAD_NUM - 1
         /\ Cardinality(UntilMainRuns') \in 0 .. MAX_THREAD_NUM - 1
<1>1. 0 \in Tids
  BY StateFacts
<1>2. /\ Ready \subseteq Tids /\ currentRunningThread_ \in Tids
      /\ currentRunningThread_ \notin Ready
  BY ElementFacts DEF Inv, TypeOK, OnePlace, Ready
<1>3. /\ Ready' \subseteq Tids /\ currentRunningThread_' \in Tids
      /\ currentRunningThread_' \notin Ready'
  BY ElementFacts DEF Inv, TypeOK, OnePlace, Ready
<1>4. UntilMainRuns \in SUBSET (Tids \ {currentRunningThread_})
  BY <1>1, <1>2 DEF UntilMainRuns, AheadOfMain
<1>5. UntilMainRuns' \in SUBSET (Tids \ {currentRunningThread_'})
  BY <1>1, <1>3 DEF UntilMainRuns, AheadOfMain
<1> QED
  BY <1>2, <1>3, <1>4, <1>5, OthersFacts

\* A call that ends a quantum is not main's, and the front of the queue runs next.
LEMMA CallFacts ==
  ASSUME Inv, Inv', apiCall
  PROVE  \/ UNCHANGED <<total_quantum_, currentRunningThread_>>
         \/ /\ total_quantum_' = total_quantum_ + 1
            /\ readyQueue_ # <<>> /\ currentRunningThread_' = Head(readyQueue_)
            /\ currentRunningThread_ # 0
<1> DEFINE goal ==
      \/ UNCHANGED <<total_quantum_, currentRunningThread_>>
      \/ /\ total_quantum_' = total_quantum_ + 1
         /\ readyQueue_ # <<>> /\ currentRunningThread_' = Head(readyQueue_)
         /\ currentRunningThread_ # 0
<1> SUFFICES goal
  OBVIOUS
<1>d. ASSUME deleteTerminatedThread PROVE goal
  BY <1>d DEF deleteTerminatedThread
<1>s. ASSUME NEW th, NEW reason, preempt(th, readyQueue_, reason), currentRunningThread_ # 0
      PROVE  goal
  BY <1>s DEF preempt, Inv, NoUndefinedBehaviour
<1>1. ASSUME NEW hasFunction \in BOOLEAN, spawnThread(hasFunction) PROVE goal
  BY <1>1, <1>d DEF spawnThread
<1>2. ASSUME NEW tid \in TidArguments, terminateThread(tid) PROVE goal
  <2>1. CASE tid = 0 /\ exitProcess
    BY <2>1 DEF exitProcess
  <2>2. CASE tid # 0 /\ tid \notin DOMAIN Remaining /\ deleteTerminatedThread
    BY <1>d, <2>2
  <2>3. CASE /\ tid # 0 /\ tid = currentRunningThread_
             /\ preempt(Remaining, readyQueue_, "Termination")
    BY <1>s, <2>3
  <2>4. CASE terminateOtherThread(tid)
    BY <2>4 DEF terminateOtherThread
  <2> QED
    BY <1>2, <2>1, <2>2, <2>3, <2>4 DEF terminateThread
<1>3. CASE getThreadQuantums
  BY <1>3, <1>d DEF getThreadQuantums
<1>4. ASSUME NEW tid \in TidArguments, blockThread(tid) PROVE goal
  <2>1. CASE deleteTerminatedThread
    BY <1>d, <2>1
  <2>2. CASE /\ ~blockRefused(tid) /\ tid = currentRunningThread_
             /\ preempt(Remaining, readyQueue_, "Blocking")
    BY <1>s, <2>2 DEF blockRefused
  <2>3. CASE blockOtherThread(tid)
    BY <2>3 DEF blockOtherThread
  <2> QED
    BY <1>4, <2>1, <2>2, <2>3 DEF blockThread
<1>5. ASSUME NEW tid \in TidArguments, resumeThread(tid) PROVE goal
  <2>1. CASE unblock(tid)
    BY <2>1 DEF unblock
  <2> QED
    BY <1>5, <1>d, <2>1 DEF resumeThread
<1>6. ASSUME NEW n \in SleepRequests, sleepThread(n) PROVE goal
  BY <1>6, <1>d, <1>s DEF sleepThread
<1> QED
  BY <1>1, <1>2, <1>3, <1>4, <1>5, <1>6 DEF apiCall

\* While nobody overtakes, the threads ahead of main are among those that were.
LEMMA AheadShrinks ==
  ASSUME Inv, Inv', InOrder, currentRunningThread_ # 0, currentRunningThread_' # 0
  PROVE  UntilMainRuns' \subseteq UntilMainRuns
<1>1. 0 \in Ready \cap Ready'
  BY DEF Inv, MainSchedulable
<1> QED
  BY <1>1 DEF UntilMainRuns, AheadOfMain, InOrder

\* A call leaves the sum as it is, or spends one of the threads ahead of main.
LEMMA CallLag == Inv /\ Inv' /\ InOrder /\ LagInv /\ apiCall /\ UNCHANGED lastWakeUp => LagInv'
<1> SUFFICES ASSUME Inv, Inv', InOrder, LagInv, apiCall, UNCHANGED lastWakeUp
             PROVE  LagInv'
  OBVIOUS
<1>0. /\ IsFiniteSet(UntilMainRuns) /\ Cardinality(UntilMainRuns) \in Nat
      /\ IsFiniteSet(UntilMainRuns') /\ Cardinality(UntilMainRuns') \in Nat
  BY UntilMainRunsFacts
<1>1. total_quantum_ \in Nat /\ MAX_THREAD_NUM \in Nat
  BY MaxThreadNumAssumption DEF Inv, TypeOK
<1>2. CASE UNCHANGED <<total_quantum_, currentRunningThread_>>
  <2>1. UntilMainRuns' \subseteq UntilMainRuns
    BY <1>2, AheadShrinks DEF UntilMainRuns
  <2>2. Cardinality(UntilMainRuns') <= Cardinality(UntilMainRuns)
    BY <1>0, <2>1, FS_Subset
  <2> QED
    BY <1>0, <1>1, <1>2, <2>2 DEF LagInv
<1>3. CASE /\ total_quantum_' = total_quantum_ + 1
           /\ readyQueue_ # <<>> /\ currentRunningThread_' = Head(readyQueue_)
           /\ currentRunningThread_ # 0
  <2> DEFINE next == currentRunningThread_'
  <2>1. next \in UntilMainRuns /\ next \notin UntilMainRuns'
    <3>1. CASE next = 0
      BY <1>3, <3>1 DEF UntilMainRuns
    <3>2. CASE next # 0
      <4>1. readyQueue_ \in Seq(Tids) /\ IsInjective(readyQueue_)
        BY DEF Inv, TypeOK, OnePlace
      <4>2. 1 \in 1 .. Len(readyQueue_) /\ next = readyQueue_[1]
        BY <1>3, <4>1
      <4>3. next \in Ready /\ IndexOf(readyQueue_, next) = 1
        BY <4>1, <4>2, IndexFacts DEF Ready
      <4>4. 0 \in Ready
        BY <1>3 DEF Inv, MainSchedulable
      <4>5. IndexOf(readyQueue_, 0) \in Nat \ {0, 1}
        BY <3>2, <4>1, <4>2, <4>3, <4>4, IndexFacts DEF Ready
      <4>6. next \notin Ready'
        BY DEF Inv, OnePlace
      <4> HIDE DEF next
      <4>7. next \in UntilMainRuns
        BY <1>3, <4>3, <4>5 DEF UntilMainRuns, AheadOfMain
      <4>8. next \notin UntilMainRuns'
        BY <3>2, <4>6 DEF UntilMainRuns, AheadOfMain
      <4> QED
        BY <4>7, <4>8
    <3> QED
      BY <3>1, <3>2
  <2>2. UntilMainRuns' \subseteq UntilMainRuns \ {next}
    <3>1. CASE next = 0
      BY <3>1 DEF UntilMainRuns
    <3>2. CASE next # 0
      BY <1>3, <2>1, <3>2, AheadShrinks
    <3> QED
      BY <3>1, <3>2
  <2> HIDE DEF next
  <2>3. /\ IsFiniteSet(UntilMainRuns \ {next})
        /\ Cardinality(UntilMainRuns \ {next}) = Cardinality(UntilMainRuns) - 1
    BY <1>0, <2>1, FS_RemoveElement
  <2>4. Cardinality(UntilMainRuns') <= Cardinality(UntilMainRuns) - 1
    BY <2>2, <2>3, FS_Subset
  <2> QED
    BY <1>0, <1>1, <1>3, <2>4 DEF LagInv
<1> QED
  BY <1>2, <1>3, CallFacts

\* A tick looks at the sleepers: whoever is ahead of main, they are not all.
LEMMA TickLag ==
  Inv /\ Inv' /\ LagInv /\ timerHandler /\ lastWakeUp' = total_quantum_ => LagInv'
<1> SUFFICES ASSUME Inv, Inv', timerHandler, lastWakeUp' = total_quantum_ PROVE LagInv'
  OBVIOUS
<1>1. total_quantum_ \in Nat /\ MAX_THREAD_NUM \in Nat
  BY MaxThreadNumAssumption DEF Inv, TypeOK
<1>2. total_quantum_' = total_quantum_ + 1
  BY DEF timerHandler, preempt, Inv, NoUndefinedBehaviour
<1>3. Cardinality(UntilMainRuns') \in 0 .. MAX_THREAD_NUM - 1
  BY UntilMainRunsFacts
<1> QED
  BY <1>1, <1>2, <1>3 DEF LagInv

\* The lag stays within the bound: the quanta since the last look at the
\* sleepers are no more than MAX_THREAD_NUM, however the threads give up the
\* processor (_sleepToReady runs in no other handler than the timer's).
THEOREM SleepersAreLookedAt == HistorySpec => []WakeUpLag
<1>1. HistoryInit => Inv /\ LagInv
  <2> SUFFICES ASSUME HistoryInit PROVE LagInv
    BY InitInv DEF HistoryInit
  <2>1. UntilMainRuns = {}
    BY DEF HistoryInit, Init, UntilMainRuns
  <2> QED
    BY <2>1, FS_EmptySet, MaxThreadNumAssumption DEF HistoryInit, Init, LagInv
<1>2. Inv /\ LagInv /\ [HistoryNext]_<<vars, history>> => Inv' /\ LagInv'
  <2> SUFFICES ASSUME Inv, LagInv, [HistoryNext]_<<vars, history>> PROVE Inv' /\ LagInv'
    OBVIOUS
  <2>1. [Next]_vars
    BY DEF HistoryNext, Next
  <2>2. Inv'
    BY <2>1, NextInv
  <2>3. ASSUME UNCHANGED <<vars, history>> PROVE LagInv'
    BY <2>3 DEF LagInv, UntilMainRuns, AheadOfMain, Ready, vars, history
  <2>4. InOrder \/ UNCHANGED vars
    BY <2>1, NextInOrder
  <2>5. CASE timerHandler /\ lastWakeUp' = total_quantum_
    BY <2>2, <2>5, TickLag
  <2>6. CASE apiCall /\ UNCHANGED lastWakeUp
    <3>1. CASE UNCHANGED vars
      BY <2>2, <2>6, <3>1 DEF LagInv, UntilMainRuns, AheadOfMain, Ready, vars
    <3> QED
      BY <2>2, <2>4, <2>6, <3>1, CallLag
  <2>7. CASE stopped /\ UNCHANGED history
    BY <2>2, <2>3, <2>7 DEF stopped
  <2>8. \/ timerHandler /\ lastWakeUp' = total_quantum_
        \/ apiCall /\ UNCHANGED lastWakeUp
        \/ stopped /\ UNCHANGED history
        \/ UNCHANGED <<vars, history>>
    BY DEF HistoryNext
  <2> QED
    BY <2>2, <2>3, <2>5, <2>6, <2>7, <2>8
<1>3. Inv /\ LagInv => WakeUpLag
  <2> SUFFICES ASSUME Inv, LagInv PROVE WakeUpLag
    OBVIOUS
  <2>1. UntilMainRuns \in SUBSET (Tids \ {currentRunningThread_}) /\ currentRunningThread_ \in Tids
    BY StateFacts DEF UntilMainRuns, AheadOfMain, Inv, TypeOK, OnePlace
  <2>2. total_quantum_ \in Nat /\ Cardinality(UntilMainRuns) \in Nat /\ MAX_THREAD_NUM \in Nat
    BY <2>1, OthersFacts, MaxThreadNumAssumption DEF Inv, TypeOK
  <2> QED
    BY <2>2 DEF LagInv, WakeUpLag
<1> QED
  BY <1>1, <1>2, <1>3, PTL DEF HistorySpec

-----------------------------------------------------------------------------
(* Sums of the values of a function                                        *)
(* SumFunction takes the elements in the order CHOOSE gives them: the sum  *)
(* is the same in any other order, one term at a time.                     *)

Chosen(s) == CHOOSE x \in s : TRUE

\* A function that adds up the values of g over subsets, as SumFunction does.
AddsUp(g, h, Sets) ==
  h = [s \in Sets |-> IF s = {} THEN 0 ELSE g[Chosen(s)] + h[s \ {Chosen(s)}]]

\* SumFunction is what such a function has for the whole domain.
LEMMA SumIsAdded ==
  ASSUME NEW g PROVE SumFunction(g) = (CHOOSE h : AddsUp(g, h, SUBSET DOMAIN g))[DOMAIN g]
BY Zenon DEF SumFunction, SumFunctionOnSet, FoldFunctionOnSet, MapThenFoldSet, AddsUp, Chosen

\* A finite set is one more than what is left without any of its elements.
LEMMA WithoutAny ==
  ASSUME NEW s, IsFiniteSet(s), NEW x \in s
  PROVE  /\ IsFiniteSet(s \ {x}) /\ Cardinality(s) \in Nat
         /\ Cardinality(s \ {x}) = Cardinality(s) - 1 /\ Cardinality(s \ {x}) \in Nat
BY FS_RemoveElement, FS_CardinalityType

\* There is one, over the subsets of any size and so over all of them.
LEMMA AddsUpExists ==
  ASSUME NEW g, IsFiniteSet(DOMAIN g)
  PROVE  \E h : AddsUp(g, h, SUBSET DOMAIN g)
<1> DEFINE Small(n) == {s \in SUBSET DOMAIN g : Cardinality(s) <= n}
           none == {n \in Nat : \A h : ~AddsUp(g, h, Small(n))}
<1>0. \A s \in SUBSET DOMAIN g : IsFiniteSet(s) /\ Cardinality(s) \in Nat
  BY FS_Subset, FS_CardinalityType
<1>1. none = {}
  <2> SUFFICES ASSUME none # {} PROVE FALSE
    OBVIOUS
  <2>1. PICK n : n = Min(none)
    OBVIOUS
  <2>2. n \in none /\ \A m \in none : n <= m
    BY <2>1, MinFacts
  <2>3. n \in Nat /\ \A h : ~AddsUp(g, h, Small(n))
    BY <2>2
  <2>4. CASE n = 0
    <3> DEFINE h == [s \in Small(n) |-> 0]
    <3>1. \A s \in Small(n) : s = {}
      <4> SUFFICES ASSUME NEW s \in Small(n), NEW x \in s PROVE FALSE
        OBVIOUS
      <4>1. IsFiniteSet(s) /\ Cardinality(s) = 0
        BY <1>0, <2>4
      <4>2. Cardinality(s \ {x}) = Cardinality(s) - 1 /\ Cardinality(s \ {x}) \in Nat
        BY <4>1, WithoutAny
      <4> QED
        BY <4>1, <4>2
    <3>2. h = [s \in Small(n) |-> IF s = {} THEN 0 ELSE g[Chosen(s)] + h[s \ {Chosen(s)}]]
      BY <3>1
    <3> QED
      BY <2>3, <3>2 DEF AddsUp
  <2>5. CASE n # 0
    <3>1. n - 1 \in Nat /\ n - 1 \notin none
      BY <2>2, <2>3, <2>5
    <3>2. PICK h : AddsUp(g, h, Small(n - 1))
      BY <3>1
    <3> DEFINE sum(e, s) == IF s = {} THEN 0 ELSE g[Chosen(s)] + e[s \ {Chosen(s)}]
               more == [s \in Small(n) |-> sum(h, s)]
    <3>3. ASSUME NEW s \in Small(n), s # {} PROVE more[s \ {Chosen(s)}] = h[s \ {Chosen(s)}]
      <4>1. PICK x : x = Chosen(s)
        OBVIOUS
      <4>2. x \in s
        BY <3>3, <4>1 DEF Chosen
      <4>3. Cardinality(s \ {x}) = Cardinality(s) - 1 /\ Cardinality(s) \in Nat /\ Cardinality(s) <= n
        BY <1>0, <4>2, WithoutAny
      <4>4. s \ {x} \in Small(n) /\ s \ {x} \in Small(n - 1)
        BY <2>3, <4>3
      <4>5. h = [r \in Small(n - 1) |-> sum(h, r)]
        BY <3>2 DEF AddsUp
      <4> HIDE DEF Small, sum
      <4>6. h[s \ {x}] = sum(h, s \ {x})
        BY <4>4, <4>5
      <4>7. more[s \ {x}] = sum(h, s \ {x})
        BY <4>4
      <4> QED
        BY <4>1, <4>6, <4>7
    <3>4. \A s \in Small(n) : sum(h, s) = sum(more, s)
      <4> HIDE DEF more, Small
      <4> QED
        BY <3>3
    <3>5. more = [s \in Small(n) |-> sum(more, s)]
      <4> DEFINE again == [s \in Small(n) |-> sum(more, s)]
      <4>1. more = [s \in Small(n) |-> sum(h, s)]
        OBVIOUS
      <4> HIDE DEF more, Small, sum
      <4>2. more = again
        BY <3>4, <4>1
      <4> QED
        BY <4>2
    <3>6. AddsUp(g, more, Small(n))
      <4> HIDE DEF more, Small
      <4> QED
        BY <3>5 DEF AddsUp
    <3> HIDE DEF more, none, Small
    <3> QED
      BY <2>3, <3>6
  <2> QED
    BY <2>4, <2>5
<1>2. PICK c : c = Cardinality(DOMAIN g)
  OBVIOUS
<1>3. c \in Nat /\ \E h : AddsUp(g, h, Small(c))
  BY <1>0, <1>1, <1>2
<1>4. Small(c) = SUBSET DOMAIN g
  <2>1. \A s \in SUBSET DOMAIN g : Cardinality(s) <= c
    BY <1>2, FS_Subset
  <2> QED
    BY <2>1
<1> HIDE DEF Small
<1> QED
  BY <1>3, <1>4

\* What such a function has: nothing for no element, and one term per element.
Sums(g, h) ==
  /\ h[{}] = 0
  /\ \A s \in SUBSET DOMAIN g : s # {} => h[s] = g[Chosen(s)] + h[s \ {Chosen(s)}]

\* SumFunction is given by one.
LEMMA SumFacts ==
  ASSUME NEW g, IsFiniteSet(DOMAIN g)
  PROVE  \E h : Sums(g, h) /\ SumFunction(g) = h[DOMAIN g]
<1>1. PICK h : h = CHOOSE e : AddsUp(g, e, SUBSET DOMAIN g)
  OBVIOUS
<1>2. AddsUp(g, h, SUBSET DOMAIN g)
  BY <1>1, AddsUpExists, Zenon
<1>3. SumFunction(g) = h[DOMAIN g]
  BY <1>1, SumIsAdded, Zenon
<1>4. h = [s \in SUBSET DOMAIN g |-> IF s = {} THEN 0 ELSE g[Chosen(s)] + h[s \ {Chosen(s)}]]
  BY <1>2 DEF AddsUp
<1>5. \A s \in SUBSET DOMAIN g : h[s] = IF s = {} THEN 0 ELSE g[Chosen(s)] + h[s \ {Chosen(s)}]
  BY <1>4
<1> QED
  BY <1>3, <1>5 DEF Sums

\* The sets without the element chosen are smaller: what holds of a set if it
\* holds of all its subsets with an element less has no smallest exception.
LEMMA NoSmallest ==
  ASSUME NEW S, IsFiniteSet(S), NEW bad \in SUBSET SUBSET S, bad # {}
  PROVE  \E s \in bad : /\ IsFiniteSet(s)
                        /\ \A r \in bad : ~(r \subseteq s /\ \E x \in s : x \notin r)
<1> DEFINE sizes == {n \in Nat : \E s \in bad : Cardinality(s) = n}
<1>1. \A s \in bad : IsFiniteSet(s) /\ Cardinality(s) \in Nat
  BY FS_Subset, FS_CardinalityType
<1>2. sizes # {} /\ sizes \in SUBSET Nat
  BY <1>1
<1>3. PICK n : n = Min(sizes)
  OBVIOUS
<1>4. n \in sizes /\ \A m \in sizes : n <= m
  BY <1>2, <1>3, MinFacts
<1>5. PICK s \in bad : Cardinality(s) = n
  BY <1>4
<1>6. ASSUME NEW r \in bad, r \subseteq s, NEW x \in s, x \notin r PROVE FALSE
  <2>1. IsFiniteSet(s \ {x}) /\ Cardinality(s \ {x}) = n - 1 /\ n \in Nat
    BY <1>1, <1>5, WithoutAny
  <2>2. r \subseteq s \ {x}
    BY <1>6
  <2>3. Cardinality(r) <= n - 1
    BY <2>1, <2>2, FS_Subset
  <2>4. Cardinality(r) \in sizes
    BY <1>1
  <2> HIDE DEF sizes
  <2>5. Cardinality(r) \in Nat
    BY <1>1
  <2> QED
    BY <1>4, <2>1, <2>3, <2>4, <2>5
<1> QED
  BY <1>1, <1>5, <1>6

\* A sum of natural numbers is one.
LEMMA SumsType ==
  ASSUME NEW S, IsFiniteSet(S), NEW g \in [S -> Nat], NEW h, Sums(g, h)
  PROVE  \A s \in SUBSET S : h[s] \in Nat
<1> DEFINE bad == {s \in SUBSET S : h[s] \notin Nat}
<1> SUFFICES ASSUME bad # {} PROVE FALSE
  OBVIOUS
<1>0. bad \in SUBSET SUBSET S
  OBVIOUS
<1>1. PICK s \in bad : \A r \in bad : ~(r \subseteq s /\ \E x \in s : x \notin r)
  <2> HIDE DEF bad
  <2> QED
    BY <1>0, NoSmallest
<1>2. s # {}
  <2>1. h[{}] = 0
    BY DEF Sums
  <2> QED
    BY <2>1
<1>3. PICK x : x = Chosen(s)
  OBVIOUS
<1>4. x \in s
  BY <1>2, <1>3 DEF Chosen
<1>5. h[s] = g[x] + h[s \ {x}]
  BY <1>2, <1>3 DEF Sums
<1>6. s \ {x} \notin bad
  BY <1>1, <1>4
<1>7. h[s \ {x}] \in Nat /\ g[x] \in Nat
  BY <1>4, <1>6
<1> QED
  BY <1>5, <1>7

\* The order in which the elements are taken does not matter.
LEMMA AnyElementFirst ==
  ASSUME NEW S, IsFiniteSet(S), NEW g \in [S -> Nat], NEW h, Sums(g, h)
  PROVE  \A s \in SUBSET S : \A x \in s : h[s] = g[x] + h[s \ {x}]
<1> DEFINE bad == {s \in SUBSET S : \E x \in s : h[s] # g[x] + h[s \ {x}]}
<1> SUFFICES ASSUME bad # {} PROVE FALSE
  OBVIOUS
<1>0. bad \in SUBSET SUBSET S
  OBVIOUS
<1>1. PICK s \in bad : \A r \in bad : ~(r \subseteq s /\ \E x \in s : x \notin r)
  <2> HIDE DEF bad
  <2> QED
    BY <1>0, NoSmallest
<1>2. PICK x \in s : h[s] # g[x] + h[s \ {x}]
  OBVIOUS
<1>3. PICK y : y = Chosen(s)
  OBVIOUS
<1>4. y \in s /\ h[s] = g[y] + h[s \ {y}]
  BY <1>3 DEF Chosen, Sums
<1>5. x # y
  BY <1>2, <1>4
<1>6. s \ {x} \notin bad /\ s \ {y} \notin bad
  BY <1>1, <1>2, <1>4
<1>7. h[s \ {y}] = g[x] + h[(s \ {y}) \ {x}]
  BY <1>5, <1>6
<1>8. h[s \ {x}] = g[y] + h[(s \ {x}) \ {y}]
  BY <1>4, <1>5, <1>6
<1>9. (s \ {y}) \ {x} = (s \ {x}) \ {y}
  OBVIOUS
<1>10. PICK rest : rest = h[(s \ {x}) \ {y}]
  OBVIOUS
<1>11. rest \in Nat /\ g[x] \in Nat /\ g[y] \in Nat
  BY <1>4, <1>10, SumsType
<1> HIDE DEF bad
<1>12. h[s] = g[y] + (g[x] + rest) /\ h[s \ {x}] = g[y] + rest
  BY <1>4, <1>7, <1>8, <1>9, <1>10
<1> QED
  BY <1>2, <1>11, <1>12

\* Functions that agree on a set have the same sum over it.
LEMMA SumsAgree ==
  ASSUME NEW R, IsFiniteSet(R), NEW f, NEW g, R \subseteq DOMAIN f, R \subseteq DOMAIN g,
         \A x \in R : f[x] = g[x], NEW e, NEW h, Sums(f, e), Sums(g, h)
  PROVE  e[R] = h[R]
<1> DEFINE bad == {s \in SUBSET R : e[s] # h[s]}
<1> SUFFICES ASSUME bad # {} PROVE FALSE
  OBVIOUS
<1>0. bad \in SUBSET SUBSET R
  OBVIOUS
<1>1. PICK s \in bad : \A r \in bad : ~(r \subseteq s /\ \E x \in s : x \notin r)
  <2> HIDE DEF bad
  <2> QED
    BY <1>0, NoSmallest
<1>2. s # {}
  BY DEF Sums
<1>3. PICK x : x = Chosen(s)
  OBVIOUS
<1>4. x \in s
  BY <1>2, <1>3 DEF Chosen
<1>5. e[s] = f[x] + e[s \ {x}] /\ h[s] = g[x] + h[s \ {x}]
  BY <1>2, <1>3 DEF Sums
<1>6. s \ {x} \notin bad
  BY <1>1, <1>4
<1>7. e[s \ {x}] = h[s \ {x}] /\ f[x] = g[x]
  BY <1>4, <1>6
<1> QED
  BY <1>5, <1>7

\* The sum of a function is a natural number, and that of the function on one
\* element less together with its value there.
LEMMA SumWithout ==
  ASSUME NEW S, IsFiniteSet(S), NEW g \in [S -> Nat], NEW x \in S,
         NEW f \in [S \ {x} -> Nat], \A y \in S \ {x} : f[y] = g[y]
  PROVE  /\ SumFunction(g) = g[x] + SumFunction(f)
         /\ SumFunction(f) \in Nat /\ SumFunction(g) \in Nat
<1>1. PICK h : Sums(g, h) /\ SumFunction(g) = h[S]
  BY SumFacts
<1>2. IsFiniteSet(S \ {x})
  BY FS_RemoveElement
<1>3. PICK e : Sums(f, e) /\ SumFunction(f) = e[S \ {x}]
  BY <1>2, SumFacts
<1>4. h[S] = g[x] + h[S \ {x}]
  BY <1>1, AnyElementFirst
<1>5. e[S \ {x}] = h[S \ {x}]
  <2> DEFINE R == S \ {x}
  <2>1. R \subseteq DOMAIN f /\ R \subseteq DOMAIN g /\ \A y \in R : f[y] = g[y]
    OBVIOUS
  <2>2. IsFiniteSet(R)
    BY <1>2
  <2> HIDE DEF R
  <2>3. e[R] = h[R]
    BY <1>1, <1>3, <2>1, <2>2, SumsAgree
  <2> QED
    BY <2>3 DEF R
<1>6. h[S] \in Nat /\ h[S \ {x}] \in Nat
  BY <1>1, SumsType
<1> QED
  BY <1>1, <1>3, <1>4, <1>5, <1>6

\* A sum of natural numbers is one.
LEMMA SumType ==
  ASSUME NEW S, IsFiniteSet(S), NEW g \in [S -> Nat]
  PROVE  SumFunction(g) \in Nat
<1>1. PICK h : Sums(g, h) /\ SumFunction(g) = h[S]
  BY SumFacts
<1> QED
  BY <1>1, SumsType

-----------------------------------------------------------------------------
(* Every quantum is charged to one thread                                   *)

\* The inductive invariant.
QInv == freedQuanta \in Nat /\ QuantumAccounting

\* What a step leaves of the counts of the threads that remain once
\* _deleteTerminatedThread has run: all of them as they were; one with a quantum
\* more; or, beside them, that of a new thread.
SameCounts ==
  /\ DOMAIN threads_' = Live /\ total_quantum_' = total_quantum_
  /\ \A t \in Live : threads_'[t].numOfQuantum_ = threads_[t].numOfQuantum_

OneCharged ==
  /\ DOMAIN threads_' = Live /\ total_quantum_' = total_quantum_ + 1
  /\ \E next \in Live :
       \A t \in Live : threads_'[t].numOfQuantum_ = IF t = next THEN threads_[t].numOfQuantum_ + 1
                                                    ELSE threads_[t].numOfQuantum_

OneSpawned ==
  /\ total_quantum_' = total_quantum_
  /\ \E new : /\ new \notin Live /\ DOMAIN threads_' = Live \cup {new}
              /\ threads_'[new].numOfQuantum_ = 0
              /\ \A t \in Live : threads_'[t].numOfQuantum_ = threads_[t].numOfQuantum_

\* Whoever was terminated is freed, and is not the one terminated last any more.
Freed == tidToTerminate_ \in DOMAIN threads_ => tidToTerminate_' # tidToTerminate_

Charged == Freed /\ (SameCounts \/ OneCharged \/ OneSpawned)

\* A step that only frees a terminated thread.
LEMMA DeletionCharges ==
  ASSUME Inv, threads_' = Remaining, UNCHANGED total_quantum_,
         tidToTerminate_' = ToTerminateAfterDelete \/ tidToTerminate_' \in Live
  PROVE  Charged
<1>1. SameCounts
  BY StateFacts DEF SameCounts
<1>2. Freed
  BY StateFacts DEF Freed, Live, Inv, TypeOK
<1> QED
  BY <1>1, <1>2 DEF Charged

\* A switch charges the quantum that begins to the thread that it is given to.
LEMMA SwitchCharges ==
  ASSUME Inv, Inv', NEW th \in [Live -> Thread],
         \A t \in Live : th[t].numOfQuantum_ = threads_[t].numOfQuantum_,
         NEW queue, NEW reason, preempt(th, queue, reason)
  PROVE  Charged
<1>1. queue # <<>> /\ Head(queue) \in Live
  BY DEF preempt, Inv, NoUndefinedBehaviour
<1>2. PICK next : next = Head(queue)
  OBVIOUS
<1>3. /\ next \in Live
      /\ threads_' = [th EXCEPT ![next].numOfQuantum_ = @ + 1]
      /\ total_quantum_' = total_quantum_ + 1
      /\ tidToTerminate_' \in {currentRunningThread_, ToTerminateAfterDelete}
  BY <1>1, <1>2 DEF preempt
<1>4. \A t \in Live : threads_'[t].numOfQuantum_ = IF t = next THEN th[t].numOfQuantum_ + 1
                                                   ELSE th[t].numOfQuantum_
  BY <1>3 DEF Thread
<1>5. DOMAIN threads_' = Live
  BY <1>3
<1>6. OneCharged
  BY <1>3, <1>4, <1>5 DEF OneCharged
<1>7. Freed
  BY <1>3, StateFacts DEF Freed, Live, Inv, TypeOK
<1> QED
  BY <1>6, <1>7 DEF Charged

\* A new thread has had no quantum.
LEMMA SpawnCharges ==
  ASSUME Inv, NEW hasFunction \in BOOLEAN, spawnThread(hasFunction)
  PROVE  Charged
<1>1. CASE deleteTerminatedThread
  BY <1>1, DeletionCharges DEF deleteTerminatedThread
<1>2. CASE ~deleteTerminatedThread
  <2>1. PICK new : new = getLowestAvailableId(DOMAIN Remaining)
    OBVIOUS
  <2>2. /\ new # NoTid
        /\ threads_' = [t \in DOMAIN Remaining \cup {new} |->
                          IF t = new THEN NewThread ELSE threads_[t]]
        /\ tidToTerminate_' = ToTerminateAfterDelete /\ UNCHANGED total_quantum_
    BY <1>2, <2>1 DEF spawnThread, spawnRefused
  <2>3. DOMAIN Remaining = Live
    BY StateFacts
  <2>4. new \notin Live
    BY <2>1, <2>2, <2>3, LowestIdFacts
  <2>5. OneSpawned
    BY <2>2, <2>3, <2>4 DEF OneSpawned, NewThread
  <2>6. Freed
    BY <2>2, StateFacts DEF Freed, Live, Inv, TypeOK
  <2> QED
    BY <2>5, <2>6 DEF Charged
<1> QED
  BY <1>1, <1>2

\* The time a thread sleeps until is no part of its count.
LEMMA SleepCharges ==
  ASSUME Inv, Inv', NEW num_quantums \in Int, sleepThread(num_quantums)
  PROVE  Charged
<1>1. CASE deleteTerminatedThread
  BY <1>1, DeletionCharges DEF deleteTerminatedThread
<1>2. CASE ~deleteTerminatedThread
  <2>1. PICK until : until = Wrapped(total_quantum_ + num_quantums)
    OBVIOUS
  <2>2. until \in Int
    <3>1. total_quantum_ + num_quantums \in Int
      BY IntMaxAssumption DEF Inv, TypeOK
    <3> QED
      BY <2>1, <3>1, WrappedFacts
  <2>3. PICK th : th = [Remaining EXCEPT ![currentRunningThread_].sleepUntil_ = until]
    OBVIOUS
  <2>4. preempt(th, readyQueue_, "Blocking")
    BY <1>2, <2>1, <2>3 DEF sleepThread
  <2>5. currentRunningThread_ \in Live /\ Remaining \in [Live -> Thread]
    BY StateFacts
  <2>6. th \in [Live -> Thread]
    <3>1. [Remaining[currentRunningThread_] EXCEPT !.sleepUntil_ = until] \in Thread
      BY <2>2, <2>5 DEF Thread
    <3> QED
      BY <2>3, <2>5, <3>1
  <2>7. \A t \in Live : th[t].numOfQuantum_ = threads_[t].numOfQuantum_
    <3>1. \A t \in Live : th[t].numOfQuantum_ = Remaining[t].numOfQuantum_
      BY <2>3, <2>5 DEF Thread
    <3> QED
      BY <3>1, StateFacts
  <2> QED
    BY <2>4, <2>6, <2>7, SwitchCharges
<1> QED
  BY <1>1, <1>2

\* So every tick and every call charges what it should.
LEMMA StepCharges ==
  ASSUME Inv, Inv', timerHandler \/ apiCall
  PROVE  Charged
<1>d. ASSUME deleteTerminatedThread PROVE Charged
  BY <1>d, DeletionCharges DEF deleteTerminatedThread
<1>s. ASSUME NEW queue, NEW reason, preempt(Remaining, queue, reason) PROVE Charged
  BY <1>s, StateFacts, SwitchCharges
<1>0. CASE timerHandler
  BY <1>0, <1>s DEF timerHandler
<1>1. ASSUME NEW hasFunction \in BOOLEAN, spawnThread(hasFunction) PROVE Charged
  BY <1>1, SpawnCharges
<1>2. ASSUME NEW tid \in TidArguments, terminateThread(tid) PROVE Charged
  <2>1. CASE exitProcess
    BY <2>1, DeletionCharges DEF exitProcess
  <2>2. CASE tid \in DOMAIN Remaining /\ terminateOtherThread(tid)
    BY <2>2, DeletionCharges, StateFacts DEF terminateOtherThread
  <2> QED
    BY <1>2, <1>d, <1>s, <2>1, <2>2 DEF terminateThread
<1>3. CASE getThreadQuantums
  BY <1>3, <1>d DEF getThreadQuantums
<1>4. ASSUME NEW tid \in TidArguments, blockThread(tid) PROVE Charged
  <2>1. CASE blockOtherThread(tid)
    BY <2>1, DeletionCharges DEF blockOtherThread
  <2> QED
    BY <1>4, <1>d, <1>s, <2>1 DEF blockThread
<1>5. ASSUME NEW tid \in TidArguments, resumeThread(tid) PROVE Charged
  <2>1. CASE unblock(tid)
    BY <2>1, DeletionCharges DEF unblock
  <2> QED
    BY <1>5, <1>d, <2>1 DEF resumeThread
<1>6. ASSUME NEW num_quantums \in SleepRequests, sleepThread(num_quantums) PROVE Charged
  BY <1>6, SleepCharges, SleepRequestsAssumption, IntMaxAssumption
<1> QED
  BY <1>0, <1>1, <1>2, <1>3, <1>4, <1>5, <1>6 DEF apiCall

\* The counts are natural numbers, of finitely many threads.
LEMMA CountsFacts ==
  ASSUME NEW threads, DOMAIN threads \subseteq Tids, threads \in [DOMAIN threads -> Thread]
  PROVE  /\ IsFiniteSet(DOMAIN threads)
         /\ [t \in DOMAIN threads |-> threads[t].numOfQuantum_] \in [DOMAIN threads -> Nat]
<1>1. IsFiniteSet(Tids)
  <2>1. 0 \in Int /\ MAX_THREAD_NUM - 1 \in Int
    BY MaxThreadNumAssumption
  <2> QED
    BY <2>1, FS_Interval, Zenon DEF Tids
<1>2. IsFiniteSet(DOMAIN threads)
  BY <1>1, FS_Subset
<1>3. \A t \in DOMAIN threads : threads[t].numOfQuantum_ \in Nat
  BY DEF Thread
<1> QED
  BY <1>2, <1>3

\* The sum over the threads that remain, and what goes to freedQuanta.
LEMMA FreedCounts ==
  ASSUME Inv, Record, Freed, freedQuanta \in Nat,
         NEW f \in [Live -> Nat], \A t \in Live : f[t] = threads_[t].numOfQuantum_
  PROVE  /\ freedQuanta' \in Nat /\ SumFunction(f) \in Nat
         /\ freedQuanta' + SumFunction(f) = freedQuanta + SumFunction(Quanta)
<1>1. PICK g : g = Quanta
  OBVIOUS
<1>2. PICK S : S = DOMAIN threads_
  OBVIOUS
<1>3. PICK dead : dead = tidToTerminate_
  OBVIOUS
<1>4. IsFiniteSet(S) /\ g \in [S -> Nat] /\ \A t \in S : g[t] = threads_[t].numOfQuantum_
  BY <1>1, <1>2, CountsFacts DEF Quanta, Inv, TypeOK
<1>5. Live = S \ {dead}
  BY <1>2, <1>3 DEF Live
<1>6. CASE dead \in S
  <2>1. freedQuanta' = freedQuanta + g[dead]
    BY <1>1, <1>2, <1>3, <1>6 DEF Record, Freed
  <2>2. f \in [S \ {dead} -> Nat] /\ \A t \in S \ {dead} : f[t] = g[t]
    BY <1>4, <1>5
  <2>3. /\ SumFunction(g) = g[dead] + SumFunction(f)
        /\ SumFunction(f) \in Nat /\ SumFunction(g) \in Nat
    BY <1>4, <1>6, <2>2, SumWithout
  <2>4. g[dead] \in Nat
    BY <1>4, <1>6
  <2> QED
    BY <1>1, <2>1, <2>3, <2>4
<1>7. CASE dead \notin S
  <2>1. freedQuanta' = freedQuanta
    BY <1>2, <1>3, <1>7 DEF Record
  <2>2. f = g
    BY <1>4, <1>5, <1>7
  <2>3. SumFunction(g) \in Nat
    BY <1>4, SumType
  <2> QED
    BY <1>1, <2>1, <2>2, <2>3
<1> QED
  BY <1>6, <1>7

\* A step that charges what it should keeps the account.
LEMMA ChargedKeepsAccount ==
  ASSUME Inv, Inv', QInv, Record, Charged
  PROVE  QInv'
<1> DEFINE f == [t \in Live |-> threads_[t].numOfQuantum_]
<1>1. f \in [Live -> Nat] /\ \A t \in Live : f[t] = threads_[t].numOfQuantum_
  BY DEF Live, Inv, TypeOK, Thread
<1>2. PICK kept : kept = f
  OBVIOUS
<1> HIDE DEF f
<1>3. PICK L : L = Live
  OBVIOUS
<1>4. IsFiniteSet(L) /\ kept \in [L -> Nat] /\ \A t \in L : kept[t] = threads_[t].numOfQuantum_
  BY <1>1, <1>2, <1>3, CountsFacts, FS_Subset DEF Live, Inv, TypeOK
<1>5. /\ freedQuanta' \in Nat /\ SumFunction(kept) \in Nat
      /\ total_quantum_ = freedQuanta' + SumFunction(kept)
  BY <1>3, <1>4, FreedCounts DEF QInv, QuantumAccounting, Charged
<1>6. PICK g : g = Quanta'
  OBVIOUS
<1>7. PICK S : S = DOMAIN threads_'
  OBVIOUS
<1>8. IsFiniteSet(S) /\ g \in [S -> Nat]
  BY <1>6, <1>7, CountsFacts DEF Quanta, Inv, TypeOK
<1>9. \A t \in S : g[t] = threads_'[t].numOfQuantum_
  BY <1>6, <1>7 DEF Quanta
<1>10. total_quantum_' = freedQuanta' + SumFunction(g)
  <2>1. CASE SameCounts
    <3>1. S = L /\ \A t \in L : g[t] = kept[t]
      BY <1>3, <1>4, <1>7, <1>9, <2>1 DEF SameCounts
    <3>2. g = kept
      BY <1>4, <1>8, <3>1
    <3> QED
      BY <1>5, <2>1, <3>2 DEF SameCounts
  <2>2. CASE OneCharged
    <3>1. PICK next \in L :
            \A t \in L : threads_'[t].numOfQuantum_ = IF t = next THEN threads_[t].numOfQuantum_ + 1
                                                      ELSE threads_[t].numOfQuantum_
      BY <1>3, <2>2 DEF OneCharged
    <3>2. S = L
      BY <1>3, <1>7, <2>2 DEF OneCharged
    <3>3. g[next] = kept[next] + 1 /\ \A t \in L \ {next} : g[t] = kept[t]
      BY <1>4, <1>9, <3>1, <3>2
    <3> DEFINE rest == [t \in L \ {next} |-> kept[t]]
    <3>4. /\ rest \in [L \ {next} -> Nat]
          /\ \A t \in L \ {next} : rest[t] = kept[t]
          /\ \A t \in L \ {next} : rest[t] = g[t]
      BY <1>4, <3>3
    <3> HIDE DEF rest
    <3>5. SumFunction(kept) = kept[next] + SumFunction(rest) /\ SumFunction(rest) \in Nat
      <4>1. IsFiniteSet(L) /\ kept \in [L -> Nat] /\ next \in L
        BY <1>4
      <4> QED
        BY <3>4, <4>1, SumWithout
    <3>6. SumFunction(g) = g[next] + SumFunction(rest)
      BY <1>4, <1>8, <3>2, <3>4, SumWithout
    <3>7. kept[next] \in Nat
      BY <1>4
    <3>8. total_quantum_' = total_quantum_ + 1
      BY <2>2 DEF OneCharged
    <3> QED
      BY <1>5, <3>3, <3>5, <3>6, <3>7, <3>8
  <2>3. CASE OneSpawned
    <3>1. PICK new : /\ new \notin L /\ S = L \cup {new}
                     /\ threads_'[new].numOfQuantum_ = 0
                     /\ \A t \in L : threads_'[t].numOfQuantum_ = threads_[t].numOfQuantum_
      BY <1>3, <1>7, <2>3 DEF OneSpawned
    <3>2. S \ {new} = L /\ new \in S
      BY <3>1
    <3>3. g[new] = 0 /\ \A t \in S \ {new} : kept[t] = g[t]
      BY <1>4, <1>9, <3>1, <3>2
    <3>4. kept \in [S \ {new} -> Nat]
      BY <1>4, <3>2
    <3>5. SumFunction(g) = g[new] + SumFunction(kept)
      BY <1>8, <3>2, <3>3, <3>4, SumWithout
    <3>6. total_quantum_' = total_quantum_
      BY <2>3 DEF OneSpawned
    <3> QED
      BY <1>5, <3>3, <3>5, <3>6
  <2> QED
    BY <2>1, <2>2, <2>3 DEF Charged
<1>11. QuantumAccounting'
  BY <1>6, <1>10 DEF QuantumAccounting
<1> QED
  BY <1>5, <1>11 DEF QInv

\* Every quantum that started is charged to exactly one thread, those that were
\* freed included: _preempt counts it for the library and for the thread at the
\* front at once, and no other code touches a count.
THEOREM EveryQuantumIsCharged == HistorySpec => []QuantumAccounting
<1>1. HistoryInit => Inv /\ QInv
  <2> SUFFICES ASSUME HistoryInit PROVE QInv
    BY InitInv DEF HistoryInit
  <2>1. PICK g : g = Quanta
    OBVIOUS
  <2>2. g \in [{0} -> Nat] /\ g[0] = 1
    BY <2>1 DEF HistoryInit, Init, Quanta, NewThread
  <2> DEFINE none == [t \in {0} \ {0} |-> 0]
  <2>3. none \in [{0} \ {0} -> Nat] /\ \A t \in {0} \ {0} : none[t] = g[t]
    OBVIOUS
  <2>4. SumFunction(none) = 0
    <3>1. DOMAIN none = {} /\ IsFiniteSet({})
      BY FS_EmptySet
    <3> HIDE DEF none
    <3> QED
      BY <3>1, SumFacts DEF Sums
  <2> HIDE DEF none
  <2>5. SumFunction(g) = g[0] + SumFunction(none)
    <3>1. IsFiniteSet({0}) /\ 0 \in {0}
      BY FS_Singleton
    <3> QED
      BY <2>2, <2>3, <3>1, SumWithout
  <2>6. SumFunction(Quanta) = 1
    BY <2>1, <2>2, <2>4, <2>5
  <2> QED
    BY <2>6 DEF HistoryInit, Init, QInv, QuantumAccounting
<1>2. Inv /\ QInv /\ [HistoryNext]_<<vars, history>> => Inv' /\ QInv'
  <2> SUFFICES ASSUME Inv, QInv, [HistoryNext]_<<vars, history>> PROVE Inv' /\ QInv'
    OBVIOUS
  <2>1. Inv'
    BY NextInv DEF HistoryNext, Next
  <2>2. CASE (timerHandler \/ apiCall) /\ Record
    BY <2>1, <2>2, StepCharges, ChargedKeepsAccount
  <2>3. CASE UNCHANGED <<vars, history>>
    <3>1. Quanta' = Quanta
      BY <2>3 DEF Quanta, vars
    <3>2. UNCHANGED <<total_quantum_, freedQuanta>>
      BY <2>3 DEF vars, history
    <3> QED
      BY <2>1, <3>1, <3>2 DEF QInv, QuantumAccounting
  <2> QED
    BY <2>1, <2>2, <2>3 DEF HistoryNext, stopped
<1>3. QInv => QuantumAccounting
  BY DEF QInv
<1> QED
  BY <1>1, <1>2, <1>3, PTL DEF HistorySpec

-----------------------------------------------------------------------------
(* The round-robin scheduler *)

\* What a sleep until some quantum leaves at another.
LeftUntil(until, now) ==
  IF until = NotSleeping THEN NotSleeping ELSE IF until > now THEN until - now ELSE 0

\* A quantum takes one from what is left of a sleep, until nothing is.
LEMMA LeftFacts ==
  ASSUME NEW until \in Int, NEW now \in Nat
  PROVE  /\ LeftUntil(until, now) \in Int
         /\ LeftUntil(until, now) = 0 <=> until # NotSleeping /\ until <= now
         /\ LeftUntil(until, now) = NotSleeping <=> until = NotSleeping
         /\ LeftUntil(until, now + 1) = IF LeftUntil(until, now) > 0 THEN LeftUntil(until, now) - 1
                                        ELSE LeftUntil(until, now)
BY DEF LeftUntil, NotSleeping

\* The inductive invariant: a sleeper has a wake-up time. (A sum that overflowed
\* could be the value that says it has none.)
SleepersSlept == \A t \in Sleeping : threads_[t].sleepUntil_ # NotSleeping
RInv == SInv /\ SleepersSlept

\* The sleepers of the abstract scheduler have that left.
LEMMA ViewFacts ==
  ASSUME RInv
  PROVE  /\ \A t \in Live : threads_[t].sleepUntil_ \in Int
         /\ \A t \in Live : SleepLeft(t) = LeftUntil(threads_[t].sleepUntil_, total_quantum_)
         /\ RR!Live = Live
<1>1. \A t \in Live : threads_[t].sleepUntil_ \in Int
  BY DEF RInv, SInv, Inv, TypeOK, Live, Thread
<1>2. \A t \in Live : SleepLeft(t) = LeftUntil(threads_[t].sleepUntil_, total_quantum_)
  BY DEF SleepLeft, LeftUntil
<1> QED
  BY <1>1, <1>2 DEF RR!Live

\* A switch starts a quantum of the abstract scheduler: every sleep that is left
\* loses one.
LEMMA SwitchDispatches ==
  ASSUME RInv, Inv', NEW th \in [Live -> Thread], NEW queue, NEW reason,
         preempt(th, queue, reason), NEW remaining, DOMAIN remaining = Live',
         \A t \in Live' : remaining[t] = LeftUntil(th[t].sleepUntil_, total_quantum_)
  PROVE  RR!Dispatch(queue, remaining)
<1>1. /\ queue # <<>> /\ readyQueue_' = Tail(queue) /\ currentRunningThread_' = Head(queue)
      /\ total_quantum_' = total_quantum_ + 1 /\ Head(queue) \in Live
      /\ \A t \in Live : threads_'[t].sleepUntil_ = th[t].sleepUntil_
  BY SwitchFacts DEF RInv, SInv
<1>2. Live' \subseteq Live
  BY <1>1 DEF preempt, Live
<1>3. ASSUME NEW t \in Live'
      PROVE  SleepLeft(t)' = IF remaining[t] > 0 THEN remaining[t] - 1 ELSE remaining[t]
  <2>1. th[t].sleepUntil_ \in Int /\ total_quantum_ \in Nat
    BY <1>2 DEF Thread, RInv, SInv, Inv, TypeOK
  <2>2. SleepLeft(t)' = LeftUntil(th[t].sleepUntil_, total_quantum_ + 1)
    BY <1>1, <1>2 DEF SleepLeft, LeftUntil
  <2>3. remaining[t] = LeftUntil(th[t].sleepUntil_, total_quantum_)
    OBVIOUS
  <2>4. LeftUntil(th[t].sleepUntil_, total_quantum_ + 1)
          = IF remaining[t] > 0 THEN remaining[t] - 1 ELSE remaining[t]
    BY <2>1, <2>3, LeftFacts
  <2> QED
    BY <2>2, <2>4
<1>4. [t \in Live |-> SleepLeft(t)]'
        = [t \in DOMAIN remaining |-> IF remaining[t] > 0 THEN remaining[t] - 1 ELSE remaining[t]]
  BY <1>3
<1> QED
  BY <1>1, <1>4 DEF RR!Dispatch

\* A step that leaves the times and the clock as they are.
LEMMA LeftStays ==
  ASSUME RInv, threads_' = Remaining, UNCHANGED total_quantum_
  PROVE  \A t \in Live : SleepLeft(t)' = SleepLeft(t)
BY StateFacts DEF SleepLeft, RInv, SInv

\* Freeing a terminated thread shows nothing.
LEMMA DeletionStutters ==
  ASSUME RInv, deleteTerminatedThread
  PROVE  UNCHANGED RR!vars
<1>1. threads_' = Remaining /\ tidToTerminate_' = NoTid
  BY StateFacts DEF deleteTerminatedThread, RInv, SInv
<1>2. Live' = Live /\ Sleeping' = Sleeping
  BY <1>1, StateFacts DEF Live, Sleeping, deleteTerminatedThread, RInv, SInv
<1>3. [t \in Live |-> SleepLeft(t)]' = [t \in Live |-> SleepLeft(t)]
  BY <1>1, <1>2, LeftStays DEF deleteTerminatedThread
<1> QED
  BY <1>2, <1>3 DEF RR!vars, deleteTerminatedThread

-----------------------------------------------------------------------------
(* The tick *)

\* The sleepers that a tick queues are all those with nothing left, in some order.
LEMMA WokenFacts ==
  ASSUME RInv
  PROVE  LET due == dueCount(sleepThreads_, total_quantum_)
             woken == [i \in 1 .. due |-> sleepThreads_[i].tid]
             rest == SubSeq(sleepThreads_, due + 1, Len(sleepThreads_))
         IN  /\ woken \in RR!Orders(RR!Due)
             /\ SleepingTids(rest) = Sleeping \ RR!Due
<1> DEFINE due == dueCount(sleepThreads_, total_quantum_)
           woken == [i \in 1 .. due |-> sleepThreads_[i].tid]
           rest == SubSeq(sleepThreads_, due + 1, Len(sleepThreads_))
<1>0. /\ sleepThreads_ \in Seq(Sleeper) /\ Sorted(sleepThreads_) /\ total_quantum_ \in Nat
      /\ DistinctTids(sleepThreads_) /\ Sleeping \subseteq Live
  BY TimeFacts DEF RInv, SInv, Inv, OnePlace
<1>1. /\ due \in 0 .. Len(sleepThreads_)
      /\ \A i \in 1 .. due : sleepThreads_[i].until <= total_quantum_
      /\ \A i \in 1 .. Len(sleepThreads_) : sleepThreads_[i].until <= total_quantum_ => i \in 1 .. due
  <2>1. total_quantum_ \in Int
    BY <1>0
  <2> QED
    BY <1>0, <2>1, DueFacts, Zenon
<1> HIDE DEF due
<1>2. /\ woken \in Seq(Tids) /\ IsInjective(woken)
      /\ SleepingTids(rest) = Sleeping \ ToSet(woken)
  BY <1>0, <1>1, WakeFacts DEF Sleeping
<1>3. /\ DOMAIN sleepThreads_ = 1 .. Len(sleepThreads_) /\ Len(sleepThreads_) \in Nat
      /\ \A t : t \in Sleeping <=> \E i \in 1 .. Len(sleepThreads_) : sleepThreads_[i].tid = t
  BY <1>0, SleeperFacts DEF Sleeping
<1>4. \A i \in 1 .. Len(sleepThreads_) :
        threads_[sleepThreads_[i].tid].sleepUntil_ = sleepThreads_[i].until
  BY <1>3 DEF RInv, SInv, SleepOrder
<1>5. ASSUME NEW t \in Sleeping
      PROVE  t \in ToSet(woken) <=> threads_[t].sleepUntil_ <= total_quantum_
  <2>1. PICK i \in 1 .. Len(sleepThreads_) : sleepThreads_[i].tid = t
    BY <1>3
  <2>2. ASSUME t \in ToSet(woken) PROVE threads_[t].sleepUntil_ <= total_quantum_
    <3>1. PICK j \in 1 .. due : sleepThreads_[j].tid = t
      BY <2>2 DEF ToSet
    <3>2. j \in 1 .. Len(sleepThreads_)
      BY <1>1, <1>3
    <3> QED
      BY <1>1, <1>4, <3>1, <3>2
  <2>3. ASSUME threads_[t].sleepUntil_ <= total_quantum_ PROVE t \in ToSet(woken)
    <3>1. i \in 1 .. due
      BY <1>1, <1>4, <2>1, <2>3
    <3> QED
      BY <2>1, <3>1 DEF ToSet
  <2> QED
    BY <2>2, <2>3
<1>6. ASSUME NEW t \in Sleeping
      PROVE  t \in RR!Due <=> threads_[t].sleepUntil_ <= total_quantum_
  <2>1. t \in Live /\ threads_[t].sleepUntil_ # NotSleeping /\ threads_[t].sleepUntil_ \in Int
    BY <1>0, ViewFacts DEF RInv, SleepersSlept
  <2>2. SleepLeft(t) = LeftUntil(threads_[t].sleepUntil_, total_quantum_)
    BY <2>1, ViewFacts
  <2>3. t \in RR!Due <=> SleepLeft(t) = 0
    BY <2>1 DEF RR!Due
  <2> QED
    BY <1>0, <2>1, <2>2, <2>3, LeftFacts
<1>7. ToSet(woken) \subseteq Sleeping /\ RR!Due \subseteq Sleeping
  BY <1>0, <1>1, WakeFacts DEF Sleeping, RR!Due
<1>8. ToSet(woken) = RR!Due
  BY <1>5, <1>6, <1>7
<1>9. woken \in RR!Orders(RR!Due)
  <2>1. /\ DOMAIN woken = 1 .. due /\ due \in Nat
        /\ woken \in [1 .. due -> RR!Due]
    <3>1. \A i \in 1 .. due : woken[i] \in ToSet(woken)
      BY DEF ToSet
    <3> QED
      BY <1>1, <1>3, <1>8, <3>1
  <2>2. IsFiniteSet(1 .. due) /\ Cardinality(1 .. due) = due
    BY <2>1, FS_Interval
  <2>3. woken \in Bijection(1 .. due, RR!Due)
    <3>1. \A t \in RR!Due : \E i \in 1 .. due : woken[i] = t
      BY <1>8, <2>1 DEF ToSet
    <3> HIDE DEF woken
    <3> QED
      BY <1>2, <2>1, <3>1 DEF Bijection, Injection, Surjection, IsInjective
  <2>4. Cardinality(RR!Due) = due
    BY <2>2, <2>3, FS_Bijection DEF ExistsBijection
  <2>5. RR!Cardinality(RR!Due) = Cardinality(RR!Due)
    BY DEF RR!Cardinality, Cardinality
  <2> HIDE DEF woken
  <2>6. RR!IsInjective(woken)
    BY <1>2 DEF IsInjective, RR!IsInjective
  <2> QED
    BY <2>1, <2>4, <2>5, <2>6 DEF RR!Orders
<1> QED
  BY <1>2, <1>8, <1>9 DEF due

\* Who is live after a switch.
LEMMA SwitchLive ==
  ASSUME Inv, Inv', NEW th \in [Live -> Thread], NEW queue, NEW reason,
         preempt(th, queue, reason),
         reason = "Termination" => Head(queue) # currentRunningThread_
  PROVE  /\ UNCHANGED process
         /\ Live' = Live \ (IF reason = "Termination" THEN {currentRunningThread_} ELSE {})
<1>1. queue # <<>> /\ Head(queue) \in Live
  BY SwitchFacts
<1>2. /\ UNCHANGED process /\ DOMAIN threads_' = Live
      /\ tidToTerminate_' = IF reason = "Termination" THEN currentRunningThread_ ELSE NoTid
  BY <1>1, StateFacts DEF preempt
<1> QED
  BY <1>2, StateFacts DEF Live

\* A quantum expires: the due sleepers are queued, then the thread that ran.
LEMMA TickRefines ==
  ASSUME RInv, Inv', timerHandler
  PROVE  RR!Tick
<1> DEFINE due == dueCount(sleepThreads_, total_quantum_)
           woken == [i \in 1 .. due |-> sleepThreads_[i].tid]
           rest == SubSeq(sleepThreads_, due + 1, Len(sleepThreads_))
           queue == Append(readyQueue_ \o woken, currentRunningThread_)
           left == [t \in Live |-> SleepLeft(t)]
<1>1. /\ process = "up" /\ sleepThreads_' = rest
      /\ preempt(Remaining, queue, "QuantumExpiration")
      /\ UNCHANGED blockedThreads_
  BY DEF timerHandler
<1>2. woken \in RR!Orders(RR!Due) /\ SleepingTids(rest) = Sleeping \ RR!Due
  BY WokenFacts
<1>3. Remaining \in [Live -> Thread] /\ \A t \in Live : Remaining[t] = threads_[t]
  BY StateFacts DEF RInv, SInv
<1> HIDE DEF woken, rest
<1>4. UNCHANGED process /\ Live' = Live
  <2> HIDE DEF queue
  <2> QED
    BY <1>1, <1>3, SwitchLive DEF RInv, SInv
<1>5. RR!Dispatch(queue, left)
  <2>1. \A t \in Live' : left[t] = LeftUntil(Remaining[t].sleepUntil_, total_quantum_)
    BY <1>3, <1>4, ViewFacts
  <2>2. DOMAIN left = Live'
    BY <1>4
  <2> HIDE DEF queue, left
  <2> QED
    BY <1>1, <1>3, <2>1, <2>2, SwitchDispatches
<1>6. Sleeping' = Sleeping \ RR!Due
  BY <1>1, <1>2 DEF Sleeping
<1> QED
  BY <1>1, <1>2, <1>4, <1>5, <1>6 DEF RR!Tick

-----------------------------------------------------------------------------
(* The calls *)

\* uthread_spawn, which may first free a terminated thread.
LEMMA SpawnRefines ==
  ASSUME RInv, Inv', NEW hasFunction \in BOOLEAN, spawnThread(hasFunction)
  PROVE  (\E t \in Tids : RR!Spawn(t)) \/ UNCHANGED RR!vars
<1>1. CASE deleteTerminatedThread
  BY <1>1, DeletionStutters
<1>2. CASE ~deleteTerminatedThread
  <2> DEFINE nextTid == getLowestAvailableId(DOMAIN Remaining)
             left == [t \in Live |-> SleepLeft(t)]
  <2>1. /\ nextTid # NoTid /\ process = "up"
        /\ readyQueue_' = Append(readyQueue_, nextTid)
        /\ threads_' = [t \in DOMAIN Remaining \cup {nextTid} |->
                          IF t = nextTid THEN NewThread ELSE threads_[t]]
        /\ tidToTerminate_' = NoTid
        /\ UNCHANGED <<blockedThreads_, sleepThreads_, currentRunningThread_,
                       total_quantum_, process>>
    BY <1>2, StateFacts DEF spawnThread, spawnRefused, RInv, SInv
  <2>2. nextTid \in Tids /\ nextTid \notin Live /\ DOMAIN Remaining = Live
    BY <2>1, LowestIdFacts, StateFacts DEF RInv, SInv
  <2> HIDE DEF nextTid
  <2>3. Live' = Live \cup {nextTid} /\ Sleeping' = Sleeping
    BY <2>1, <2>2, StateFacts DEF Live, Sleeping, RInv, SInv
  <2>4. ASSUME NEW u \in Live \cup {nextTid}
        PROVE  SleepLeft(u)' = IF u = nextTid THEN NotSleeping ELSE left[u]
    BY <2>1, <2>2 DEF SleepLeft, NewThread
  <2>5. [t \in Live |-> SleepLeft(t)]'
          = [u \in Live \cup {nextTid} |-> IF u = nextTid THEN NotSleeping ELSE left[u]]
    BY <2>3, <2>4
  <2>6. RR!Spawn(nextTid)
    BY <2>1, <2>2, <2>3, <2>5, ViewFacts DEF RR!Spawn, RR!Never, NotSleeping
  <2> QED
    BY <2>2, <2>6
<1> QED
  BY <1>1, <1>2

\* A call that ends the caller's quantum: the front of the queue runs, and those
\* who stay have what they had left.
LEMMA YieldRefines ==
  ASSUME RInv, Inv', NEW reason, preempt(Remaining, readyQueue_, reason)
  PROVE  LET stay == Live \ (IF reason = "Termination" THEN {currentRunningThread_} ELSE {})
         IN  /\ UNCHANGED process
             /\ RR!Dispatch(readyQueue_, [t \in stay |-> SleepLeft(t)])
<1> DEFINE stay == Live \ (IF reason = "Termination" THEN {currentRunningThread_} ELSE {})
           remaining == [t \in stay |-> SleepLeft(t)]
<1>1. Remaining \in [Live -> Thread] /\ \A t \in Live : Remaining[t] = threads_[t]
  BY StateFacts DEF RInv, SInv
<1>2. Head(readyQueue_) # currentRunningThread_
  <2>1. readyQueue_ # <<>>
    BY <1>1, SwitchFacts DEF RInv, SInv
  <2>2. Head(readyQueue_) \in Ready
    BY <2>1, TailFacts DEF RInv, SInv, Inv, TypeOK, OnePlace, Ready
  <2> QED
    BY <2>2 DEF RInv, SInv, Inv, OnePlace
<1>3. UNCHANGED process /\ Live' = stay
  BY <1>1, <1>2, SwitchLive DEF RInv, SInv
<1>4. \A t \in Live' : remaining[t] = LeftUntil(Remaining[t].sleepUntil_, total_quantum_)
  BY <1>1, <1>3, ViewFacts
<1>5. DOMAIN remaining = Live'
  BY <1>3
<1> HIDE DEF remaining
<1>6. RR!Dispatch(readyQueue_, remaining)
  BY <1>1, <1>4, <1>5, SwitchDispatches
<1> QED
  BY <1>3, <1>6 DEF remaining

\* The two ways to take a thread out of the queue are the same.
LEMMA WithoutFacts == \A queue, t : RR!Without(queue, t) = deleteReadyThread(queue, t)
BY DEF RR!Without, RR!ToSet, RR!RemoveAt, ToSet, RemoveAt, deleteReadyThread, IndexOf

\* uthread_terminate: of main, of the caller, of another thread.
LEMMA TerminateRefines ==
  ASSUME RInv, Inv', NEW tid \in TidArguments, terminateThread(tid)
  PROVE  RR!Exit \/ (\E t \in Tids : RR!Terminate(t)) \/ UNCHANGED RR!vars
<1> DEFINE left == [t \in Live |-> SleepLeft(t)]
<1>0. process = "up"
  BY DEF terminateThread
<1>1. CASE tid = 0 /\ exitProcess
  <2>1. threads_' = Remaining /\ tidToTerminate_' = NoTid
    BY <1>1, StateFacts DEF exitProcess, RInv, SInv
  <2>2. Live' = Live /\ Sleeping' = Sleeping
    BY <1>1, <2>1, StateFacts DEF Live, Sleeping, exitProcess, RInv, SInv
  <2>3. left' = left
    BY <1>1, <2>1, <2>2, LeftStays DEF exitProcess
  <2> QED
    BY <1>0, <1>1, <2>2, <2>3 DEF RR!Exit, exitProcess
<1>2. CASE deleteTerminatedThread
  BY <1>2, DeletionStutters
<1>3. CASE /\ tid # 0 /\ tid \in DOMAIN Remaining /\ tid = currentRunningThread_
           /\ preempt(Remaining, readyQueue_, "Termination")
           /\ UNCHANGED <<blockedThreads_, sleepThreads_>>
  <2>1. tid \in Live /\ tid \in Tids
    BY <1>3, StateFacts DEF RInv, SInv
  <2>2. /\ UNCHANGED process
        /\ RR!Dispatch(readyQueue_, [t \in Live \ {tid} |-> SleepLeft(t)])
    BY <1>3, YieldRefines
  <2>3. RR!Restrict(left, RR!Live \ {tid}) = [t \in Live \ {tid} |-> SleepLeft(t)]
    BY ViewFacts DEF RR!Restrict
  <2>4. blockedThreads_' = blockedThreads_ \ {tid} /\ Sleeping' = Sleeping \ {tid}
    BY <1>3 DEF Sleeping, RInv, SInv, Inv, OnePlace
  <2>5. tid \in RR!Live \ {0}
    BY <1>3, <2>1, ViewFacts
  <2>6. RR!Terminate(tid)
    BY <1>0, <1>3, <2>2, <2>3, <2>4, <2>5 DEF RR!Terminate
  <2> QED
    BY <2>1, <2>6
<1>4. CASE /\ tid # 0 /\ tid \in DOMAIN Remaining /\ tid # currentRunningThread_
           /\ terminateOtherThread(tid)
  <2>1. tid \in Live /\ tid \in Tids
    BY <1>4, StateFacts DEF RInv, SInv
  <2>2. /\ threads_' = Remaining /\ tidToTerminate_' = tid
        /\ UNCHANGED <<currentRunningThread_, total_quantum_, process>>
    BY <1>4 DEF terminateOtherThread
  <2>3. Live' = Live \ {tid}
    BY <2>2, StateFacts DEF Live, RInv, SInv
  <2>4. left' = RR!Restrict(left, RR!Live \ {tid})
    <3>1. \A t \in Live \ {tid} : SleepLeft(t)' = SleepLeft(t)
      BY <2>2, LeftStays
    <3> QED
      BY <2>3, <3>1, ViewFacts DEF RR!Restrict
  <2>5. /\ blockedThreads_' = blockedThreads_ \ {tid} /\ Sleeping' = Sleeping \ {tid}
        /\ readyQueue_' = RR!Without(readyQueue_, tid)
    <3>1. /\ tid \in Sleeping => tid \notin blockedThreads_ /\ tid \notin Ready
          /\ tid \in blockedThreads_ => tid \notin Ready
      BY DEF RInv, SInv, Inv, OnePlace
    <3>2. tid \notin Ready => deleteReadyThread(readyQueue_, tid) = readyQueue_
      BY DEF deleteReadyThread, Ready
    <3>3. CASE tid \in Sleeping
      <4>1. sleepThreads_' = eraseSleeper(sleepThreads_, tid)
            /\ UNCHANGED <<blockedThreads_, readyQueue_>>
        BY <1>4, <3>3 DEF terminateOtherThread, Sleeping
      <4>2. Sleeping' = Sleeping \ {tid}
        BY <3>3, <4>1, StateFacts, EraseSleeperFacts DEF Sleeping, RInv, SInv, Inv, OnePlace
      <4> QED
        BY <3>1, <3>2, <3>3, <4>1, <4>2, WithoutFacts
    <3>4. CASE tid \notin Sleeping
      <4>1. /\ blockedThreads_' = blockedThreads_ \ {tid} /\ UNCHANGED sleepThreads_
            /\ readyQueue_' = IF tid \in blockedThreads_ THEN readyQueue_
                              ELSE deleteReadyThread(readyQueue_, tid)
        BY <1>4, <3>4 DEF terminateOtherThread, Sleeping
      <4> QED
        BY <3>1, <3>2, <3>4, <4>1, WithoutFacts DEF Sleeping
    <3> QED
      BY <3>3, <3>4
  <2>6. tid \in RR!Live \ {0}
    BY <1>4, <2>1, ViewFacts
  <2>7. RR!Terminate(tid)
    BY <1>0, <1>4, <2>2, <2>4, <2>5, <2>6 DEF RR!Terminate
  <2> QED
    BY <2>1, <2>7
<1> QED
  BY <1>1, <1>2, <1>3, <1>4 DEF terminateThread

\* uthread_block: of the caller, or of another thread.
LEMMA BlockRefines ==
  ASSUME RInv, Inv', NEW tid \in TidArguments, blockThread(tid)
  PROVE  (\E t \in Tids : RR!Block(t)) \/ UNCHANGED RR!vars
<1> DEFINE left == [t \in Live |-> SleepLeft(t)]
<1>0. process = "up"
  BY DEF blockThread
<1>1. CASE deleteTerminatedThread
  BY <1>1, DeletionStutters
<1>2. CASE /\ ~blockRefused(tid) /\ tid \notin blockedThreads_ /\ tid = currentRunningThread_
           /\ blockedThreads_' = blockedThreads_ \cup {tid}
           /\ preempt(Remaining, readyQueue_, "Blocking")
           /\ UNCHANGED sleepThreads_
  <2>1. tid \in Live /\ tid \in Tids /\ tid # 0
    BY <1>2, StateFacts DEF blockRefused, RInv, SInv
  <2>2. UNCHANGED process /\ RR!Dispatch(readyQueue_, left)
    BY <1>2, YieldRefines
  <2>3. Sleeping' = Sleeping \ {tid}
    BY <1>2 DEF Sleeping, RInv, SInv, Inv, OnePlace
  <2>4. RR!Block(tid)
    BY <1>0, <1>2, <2>1, <2>2, <2>3, ViewFacts DEF RR!Block
  <2> QED
    BY <2>1, <2>4
<1>3. CASE /\ ~blockRefused(tid) /\ tid \notin blockedThreads_ /\ tid # currentRunningThread_
           /\ blockOtherThread(tid)
  <2>1. tid \in Live /\ tid \in Tids /\ tid # 0
    BY <1>3, StateFacts DEF blockRefused, RInv, SInv
  <2>2. /\ threads_' = Remaining /\ tidToTerminate_' = NoTid
        /\ blockedThreads_' = blockedThreads_ \cup {tid}
        /\ UNCHANGED <<currentRunningThread_, total_quantum_, process>>
    BY <1>3, StateFacts DEF blockOtherThread, RInv, SInv
  <2>3. Live' = Live
    BY <2>2, StateFacts DEF Live, RInv, SInv
  <2>4. left' = left
    BY <2>2, <2>3, LeftStays
  <2>5. Sleeping' = Sleeping \ {tid} /\ readyQueue_' = RR!Without(readyQueue_, tid)
    <3>1. CASE tid \in Sleeping
      <4>1. sleepThreads_' = eraseSleeper(sleepThreads_, tid) /\ UNCHANGED readyQueue_
        BY <1>3, <3>1 DEF blockOtherThread, Sleeping
      <4>2. Sleeping' = Sleeping \ {tid}
        BY <3>1, <4>1, StateFacts, EraseSleeperFacts DEF Sleeping, RInv, SInv, Inv, OnePlace
      <4>3. deleteReadyThread(readyQueue_, tid) = readyQueue_
        BY <3>1 DEF deleteReadyThread, RInv, SInv, Inv, OnePlace, Ready
      <4> QED
        BY <4>1, <4>2, <4>3, WithoutFacts
    <3>2. CASE tid \notin Sleeping
      <4>1. /\ readyQueue_' = deleteReadyThread(readyQueue_, tid)
            /\ UNCHANGED sleepThreads_
        BY <1>3, <3>2 DEF blockOtherThread, Sleeping
      <4> QED
        BY <3>2, <4>1, WithoutFacts DEF Sleeping
    <3> QED
      BY <3>1, <3>2
  <2>6. RR!Block(tid)
    BY <1>0, <1>3, <2>1, <2>2, <2>4, <2>5, ViewFacts DEF RR!Block
  <2> QED
    BY <2>1, <2>6
<1> QED
  BY <1>1, <1>2, <1>3 DEF blockThread

\* uthread_resume: a thread that has slept goes back among the sleepers.
LEMMA ResumeRefines ==
  ASSUME RInv, Inv', NEW tid \in TidArguments, resumeThread(tid)
  PROVE  (\E t \in Tids : RR!Resume(t)) \/ UNCHANGED RR!vars
<1> DEFINE left == [t \in Live |-> SleepLeft(t)]
<1>1. CASE deleteTerminatedThread
  BY <1>1, DeletionStutters
<1>2. CASE tid \in DOMAIN Remaining /\ tid \in blockedThreads_ /\ unblock(tid)
  <2> DEFINE until == threads_[tid].sleepUntil_
  <2>1. /\ tid \in Live /\ tid \in Tids /\ tid \notin Sleeping /\ until \in Int
        /\ process = "up"
    BY <1>2, StateFacts, ViewFacts DEF RInv, SInv, Inv, OnePlace, resumeThread
  <2>2. /\ threads_' = Remaining /\ tidToTerminate_' = NoTid
        /\ blockedThreads_' = blockedThreads_ \ {tid}
        /\ UNCHANGED <<currentRunningThread_, total_quantum_, process>>
    BY <1>2, StateFacts DEF unblock, RInv, SInv
  <2>3. Live' = Live
    BY <2>2, StateFacts DEF Live, RInv, SInv
  <2>4. left' = left
    BY <2>2, <2>3, LeftStays
  <2>5. left[tid] = RR!Never <=> until = NotSleeping
    <3>1. total_quantum_ \in Nat
      BY TimeFacts DEF RInv
    <3>2. left[tid] = LeftUntil(until, total_quantum_)
      BY <2>1, ViewFacts
    <3> HIDE DEF until, left
    <3> QED
      BY <2>1, <3>1, <3>2, LeftFacts DEF RR!Never, NotSleeping
  <2>6. CASE until # NotSleeping
    <3>1. /\ sleepThreads_' = insertSleeper(sleepThreads_, tid, until)
          /\ UNCHANGED readyQueue_
      BY <1>2, <2>1, <2>6 DEF unblock, Sleeping
    <3> HIDE DEF until
    <3>2. Sleeping' = Sleeping \cup {tid}
      BY <2>1, <3>1, StateFacts, InsertSleeperFacts DEF Sleeping, RInv, SInv, Inv, OnePlace
    <3> HIDE DEF left
    <3>3. RR!Resume(tid)
      BY <1>2, <2>1, <2>2, <2>4, <2>5, <2>6, <3>1, <3>2 DEF RR!Resume, left
    <3> QED
      BY <2>1, <3>3
  <2>7. CASE until = NotSleeping
    <3>1. readyQueue_' = Append(readyQueue_, tid) /\ UNCHANGED sleepThreads_
      BY <1>2, <2>7 DEF unblock
    <3> HIDE DEF until, left
    <3>2. RR!Resume(tid)
      BY <1>2, <2>1, <2>2, <2>4, <2>5, <2>7, <3>1 DEF RR!Resume, Sleeping, left
    <3> QED
      BY <2>1, <3>2
  <2> QED
    BY <2>6, <2>7
<1> QED
  BY <1>1, <1>2 DEF resumeThread

\* A sum that fits is what it is.
LEMMA NoWrap == \A n \in 0 .. INT_MAX : Wrapped(n) = n
<1> SUFFICES ASSUME NEW n \in 0 .. INT_MAX PROVE Wrapped(n) = n
  OBVIOUS
<1>1. \A a, b \in Nat : a < b => a % b = a
  OBVIOUS
<1>2. /\ n + INT_MAX + 1 \in Nat /\ 2 * (INT_MAX + 1) \in Nat
      /\ n + INT_MAX + 1 < 2 * (INT_MAX + 1)
  BY IntMaxAssumption
<1>3. (n + INT_MAX + 1) % (2 * (INT_MAX + 1)) = n + INT_MAX + 1
  BY <1>1, <1>2
<1> QED
  BY <1>3, IntMaxAssumption DEF Wrapped

\* uthread_sleep: the caller has as many quanta left as it asked for, since its
\* wake-up time does not overflow.
LEMMA SleepRefines ==
  ASSUME NoOverflow,
         RInv, Inv', NEW num_quantums \in SleepRequests, sleepThread(num_quantums)
  PROVE  (\E n \in 1 .. INT_MAX : RR!Sleep(n)) \/ UNCHANGED RR!vars
<1>1. CASE deleteTerminatedThread
  BY <1>1, DeletionStutters
<1>2. CASE ~deleteTerminatedThread
  <2> DEFINE until == Wrapped(total_quantum_ + num_quantums)
             self == currentRunningThread_
             th == [Remaining EXCEPT ![self].sleepUntil_ = until]
             left == [t \in Live |-> SleepLeft(t)]
             remaining == [left EXCEPT ![self] = num_quantums]
  <2>1. /\ process = "up" /\ self # 0 /\ num_quantums > 0
        /\ sleepThreads_' = insertSleeper(sleepThreads_, self, until)
        /\ preempt(th, readyQueue_, "Blocking")
        /\ UNCHANGED blockedThreads_
    BY <1>2 DEF sleepThread
  <2>2. /\ num_quantums \in 1 .. INT_MAX /\ total_quantum_ \in 1 .. MaxQuanta
        /\ total_quantum_ + num_quantums \in 0 .. INT_MAX
    <3>1. num_quantums \in Int /\ num_quantums <= INT_MAX /\ MaxQuanta + num_quantums <= INT_MAX
      BY SleepRequestsAssumption, IntMaxAssumption DEF NoOverflow
    <3>2. total_quantum_ \in 1 .. MaxQuanta
      BY DEF RInv, SInv, Inv, TypeOK
    <3> QED
      BY <2>1, <3>1, <3>2, MaxQuantaAssumption, IntMaxAssumption
  <2>3. until = total_quantum_ + num_quantums
    BY <2>2, NoWrap
  <2>4. until \in Int /\ LeftUntil(until, total_quantum_) = num_quantums
    BY <2>2, <2>3, MaxQuantaAssumption, IntMaxAssumption DEF LeftUntil, NotSleeping
  <2> HIDE DEF until
  <2>5. self \in Live /\ self \in Tids /\ self \notin Sleeping
    BY StateFacts DEF RInv, SInv, Inv, TypeOK, OnePlace
  <2>6. /\ th \in [Live -> Thread] /\ th[self].sleepUntil_ = until
        /\ \A t \in Live \ {self} : th[t].sleepUntil_ = threads_[t].sleepUntil_
    <3>1. Remaining \in [Live -> Thread] /\ \A t \in Live : Remaining[t] = threads_[t]
      BY StateFacts DEF RInv, SInv
    <3>2. [Remaining[self] EXCEPT !.sleepUntil_ = until] \in Thread
      BY <2>4, <2>5, <3>1 DEF Thread
    <3>3. th \in [Live -> Thread]
      BY <3>1, <3>2
    <3>4. Remaining[self] \in Thread
      BY <2>5, <3>1
    <3> QED
      BY <2>5, <3>1, <3>3, <3>4 DEF Thread
  <2> HIDE DEF th
  <2>7. UNCHANGED process /\ Live' = Live
    <3> HIDE DEF left, remaining
    <3>1. th \in [Live -> Thread] /\ preempt(th, readyQueue_, "Blocking") /\ "Blocking" # "Termination"
      BY <2>1, <2>6
    <3>2. /\ UNCHANGED process
          /\ Live' = Live \ (IF "Blocking" = "Termination" THEN {currentRunningThread_} ELSE {})
      BY <3>1, SwitchLive DEF RInv, SInv
    <3> QED
      BY <3>2
  <2>8. DOMAIN remaining = Live'
    BY <2>7
  <2>9. ASSUME NEW t \in Live'
        PROVE  remaining[t] = LeftUntil(th[t].sleepUntil_, total_quantum_)
    <3>1. CASE t = self
      BY <2>4, <2>5, <2>6, <2>7, <3>1
    <3>2. CASE t # self
      BY <2>6, <2>7, <3>2, ViewFacts
    <3> QED
      BY <3>1, <3>2
  <2> HIDE DEF remaining
  <2>10. RR!Dispatch(readyQueue_, remaining)
    BY <2>1, <2>6, <2>8, <2>9, SwitchDispatches
  <2>11. Sleeping' = Sleeping \cup {self}
    BY <2>1, <2>4, <2>5, StateFacts, InsertSleeperFacts DEF Sleeping, RInv, SInv, Inv, OnePlace
  <2>12. RR!Sleep(num_quantums)
    BY <2>1, <2>7, <2>10, <2>11 DEF RR!Sleep, remaining
  <2> QED
    BY <2>2, <2>12
<1> QED
  BY <1>1, <1>2

-----------------------------------------------------------------------------
(* The refinement *)

\* Every step of the code is a step of RoundRobin, or shows nothing there.
LEMMA NextRefines == NoOverflow /\ RInv /\ Inv' /\ [Next]_vars => [RR!Next]_RR!vars
<1> SUFFICES ASSUME NoOverflow, RInv, Inv', [Next]_vars PROVE RR!Next \/ UNCHANGED RR!vars
  OBVIOUS
<1>0. RR!Tids = Tids
  BY DEF RR!Tids, Tids
<1>1. CASE timerHandler
  BY <1>1, TickRefines DEF RR!Next
<1>2. ASSUME NEW hasFunction \in BOOLEAN, spawnThread(hasFunction)
      PROVE  RR!Next \/ UNCHANGED RR!vars
  BY <1>0, <1>2, SpawnRefines DEF RR!Next
<1>3. ASSUME NEW tid \in TidArguments, terminateThread(tid)
      PROVE  RR!Next \/ UNCHANGED RR!vars
  BY <1>0, <1>3, TerminateRefines DEF RR!Next
<1>4. CASE getThreadQuantums
  BY <1>4, DeletionStutters DEF getThreadQuantums
<1>5. ASSUME NEW tid \in TidArguments, blockThread(tid)
      PROVE  RR!Next \/ UNCHANGED RR!vars
  BY <1>0, <1>5, BlockRefines DEF RR!Next
<1>6. ASSUME NEW tid \in TidArguments, resumeThread(tid)
      PROVE  RR!Next \/ UNCHANGED RR!vars
  BY <1>0, <1>6, ResumeRefines DEF RR!Next
<1>7. ASSUME NEW num_quantums \in SleepRequests, sleepThread(num_quantums)
      PROVE  RR!Next \/ UNCHANGED RR!vars
  BY <1>7, SleepRefines DEF RR!Next
<1>8. CASE UNCHANGED vars
  <2>1. Live' = Live /\ Sleeping' = Sleeping
    BY <1>8 DEF vars, Live, Sleeping
  <2>2. \A t \in Live : SleepLeft(t)' = SleepLeft(t)
    BY <1>8 DEF vars, SleepLeft
  <2>3. [t \in Live |-> SleepLeft(t)]' = [t \in Live |-> SleepLeft(t)]
    BY <2>1, <2>2
  <2> QED
    BY <1>8, <2>1, <2>3 DEF vars, RR!vars
<1> QED
  BY <1>1, <1>2, <1>3, <1>4, <1>5, <1>6, <1>7, <1>8 DEF Next, apiCall, stopped

\* Nobody is put among the sleepers, and no sleep left becomes none at all, but
\* by sleeping or by resuming one that has slept.
LEMMA SleepersStay == RInv /\ Inv' /\ [RR!Next]_RR!vars => SleepersSlept'
<1> SUFFICES ASSUME RInv, Inv', [RR!Next]_RR!vars PROVE SleepersSlept'
  OBVIOUS
<1> DEFINE left == [t \in Live |-> SleepLeft(t)]
           goal == \A t \in Sleeping' : left'[t] # -1
<1>1. \A t \in Sleeping : t \in Live /\ left[t] \in Int /\ left[t] # -1
  <2> SUFFICES ASSUME NEW t \in Sleeping PROVE t \in Live /\ left[t] \in Int /\ left[t] # -1
    OBVIOUS
  <2>1. /\ t \in Live /\ threads_[t].sleepUntil_ \in Int
        /\ threads_[t].sleepUntil_ # NotSleeping /\ total_quantum_ \in Nat
    BY TimeFacts, ViewFacts DEF RInv, SleepersSlept
  <2>2. left[t] = LeftUntil(threads_[t].sleepUntil_, total_quantum_)
    BY <2>1, ViewFacts
  <2> HIDE DEF left
  <2> QED
    BY <2>1, <2>2, LeftFacts DEF NotSleeping
<1>2. DOMAIN left = Live /\ RR!Live = Live /\ currentRunningThread_ \in Live
  BY ViewFacts, TimeFacts DEF RInv
<1>3. ASSUME NEW queue, NEW remaining, RR!Dispatch(queue, remaining),
             \A t \in Sleeping' :
               t \in DOMAIN remaining /\ remaining[t] \in Int /\ remaining[t] # -1
      PROVE  goal
  <2>1. left' = [t \in DOMAIN remaining |-> IF remaining[t] > 0 THEN remaining[t] - 1
                                            ELSE remaining[t]]
    BY <1>3 DEF RR!Dispatch
  <2> HIDE DEF left
  <2> QED
    BY <1>3, <2>1
<1> HIDE DEF left
<1>5. ASSUME RR!Tick PROVE goal
  <2>1. Sleeping' \subseteq Sleeping /\ \E queue : RR!Dispatch(queue, left)
    BY <1>5 DEF RR!Tick, left
  <2> QED
    BY <1>1, <1>2, <1>3, <2>1
<1>6. ASSUME NEW t \in Tids, RR!Spawn(t) PROVE goal
  <2>1. /\ left' = [u \in RR!Live \cup {t} |-> IF u = t THEN RR!Never ELSE left[u]]
        /\ Sleeping' = Sleeping /\ t \notin RR!Live
    BY <1>6 DEF RR!Spawn, left
  <2>2. \A u \in Live : u # t /\ left'[u] = left[u]
    BY <1>2, <2>1
  <2> QED
    BY <1>1, <2>1, <2>2
<1>7. ASSUME NEW t \in Tids, RR!Terminate(t) PROVE goal
  <2> DEFINE rest == RR!Restrict(left, RR!Live \ {t})
  <2>1. /\ Sleeping' = Sleeping \ {t}
        /\ RR!Dispatch(readyQueue_, rest) \/ left' = rest
    BY <1>7 DEF RR!Terminate, left
  <2>2. DOMAIN rest = Live \ {t} /\ \A u \in Live \ {t} : rest[u] = left[u]
    BY <1>2 DEF RR!Restrict
  <2> HIDE DEF rest
  <2>3. \A u \in Sleeping' : u \in DOMAIN rest /\ rest[u] \in Int /\ rest[u] # -1
    BY <1>1, <2>1, <2>2
  <2> QED
    BY <1>3, <2>1, <2>3
<1>8. ASSUME NEW t \in Tids, RR!Block(t) PROVE goal
  <2>1. /\ Sleeping' \subseteq Sleeping
        /\ RR!Dispatch(readyQueue_, left) \/ left' = left
    BY <1>8 DEF RR!Block, left
  <2> QED
    BY <1>1, <1>2, <1>3, <2>1
<1>9. ASSUME NEW t \in Tids, RR!Resume(t) PROVE goal
  <2>1. /\ left' = left
        /\ \/ Sleeping' = Sleeping
           \/ left[t] # RR!Never /\ Sleeping' = Sleeping \cup {t}
    BY <1>9 DEF RR!Resume, left
  <2> QED
    BY <1>1, <2>1 DEF RR!Never
<1>10. ASSUME NEW n \in 1 .. INT_MAX, RR!Sleep(n) PROVE goal
  <2> DEFINE self == currentRunningThread_
             remaining == [left EXCEPT ![self] = n]
  <2>1. Sleeping' = Sleeping \cup {self} /\ RR!Dispatch(readyQueue_, remaining)
    BY <1>10 DEF RR!Sleep, left
  <2>2. n \in Int /\ n # -1
    BY IntMaxAssumption
  <2>3. /\ DOMAIN remaining = Live /\ remaining[self] = n
        /\ \A t \in Live \ {self} : remaining[t] = left[t]
    BY <1>2
  <2> HIDE DEF remaining
  <2>4. \A t \in Sleeping' : t \in DOMAIN remaining /\ remaining[t] \in Int /\ remaining[t] # -1
    BY <1>1, <1>2, <2>1, <2>2, <2>3
  <2> QED
    BY <1>3, <2>1, <2>4
<1>11. ASSUME RR!Exit \/ UNCHANGED RR!vars PROVE goal
  <2>1. left' = left /\ Sleeping' = Sleeping
    BY <1>11 DEF RR!Exit, RR!vars, left
  <2> QED
    BY <1>1, <2>1
<1>12. goal
  <2>1. RR!Tids = Tids
    BY DEF RR!Tids, Tids
  <2> HIDE DEF goal
  <2> QED
    BY <1>5, <1>6, <1>7, <1>8, <1>9, <1>10, <1>11, <2>1 DEF RR!Next
<1>13. ASSUME NEW t \in Sleeping' PROVE threads_'[t].sleepUntil_ # NotSleeping
  <2>1. t \in Live' /\ left'[t] # -1
    BY <1>12 DEF Inv, OnePlace
  <2>2. SleepLeft(t)' # -1
    BY <2>1 DEF left
  <2> QED
    BY <2>2 DEF SleepLeft, NotSleeping
<1> QED
  BY <1>13 DEF SleepersSlept

\* The two states the thread library starts in are the same.
LEMMA InitRefines == Init => RInv /\ RR!Init
<1> SUFFICES ASSUME Init PROVE RInv /\ RR!Init
  OBVIOUS
<1>1. SInv
  BY InitInv DEF Init, SInv, SleepOrder, AwakeIsDue, Ready, ToSet, NewThread, NotSleeping
<1>2. Sleeping = {} /\ Live = {0}
  BY MaxThreadNumAssumption DEF Init, Sleeping, SleepingTids, Live, NoTid
<1>3. SleepLeft(0) = -1
  BY DEF Init, NewThread, SleepLeft, NotSleeping
<1>4. RR!Init
  BY <1>2, <1>3 DEF Init, RR!Init, RR!Never
<1> QED
  BY <1>1, <1>2, <1>4 DEF RInv, SleepersSlept

\* The scheduler does what RoundRobin promises, whatever the threads call, as
\* long as no wake-up time overflows: the absolute times, the order of the
\* multiset and the lazy freeing of threads change nothing that can be told.
THEOREM SchedulerImplementsRoundRobin ==
  ASSUME NoOverflow PROVE Spec => ImplementsRoundRobin
<1>1. Init => RInv /\ RR!Init
  BY InitRefines
<1>2. RInv /\ [Next]_vars => RInv' /\ [RR!Next]_RR!vars
  <2> SUFFICES ASSUME RInv, [Next]_vars PROVE RInv' /\ [RR!Next]_RR!vars
    OBVIOUS
  <2>1. SInv' /\ Inv'
    BY NextTimes DEF RInv, SInv
  <2>2. [RR!Next]_RR!vars
    BY <2>1, NextRefines
  <2>3. SleepersSlept'
    BY <2>1, <2>2, SleepersStay
  <2> QED
    BY <2>1, <2>2, <2>3 DEF RInv
<1> QED
  BY <1>1, <1>2, PTL DEF Spec, ImplementsRoundRobin, RR!Spec
=============================================================================
