--------------------------- MODULE SchedulerProofs ---------------------------
(***************************************************************************)
(* For every number of threads, every bound on quanta and every set of     *)
(* sleep requests: the scheduler's state has its type, every live thread   *)
(* is in exactly one place, main can always be scheduled, and therefore    *)
(* _preempt never reads an empty ready queue.                              *)
(***************************************************************************)
EXTENDS Scheduler, TLAPS, SequenceTheorems, FiniteSetTheorems, WellFoundedInduction

-----------------------------------------------------------------------------
(* Sequences without repetitions *)

\* The elements of a sequence, by position.
LEMMA ElementFacts ==
  ASSUME NEW S, NEW q \in Seq(S)
  PROVE  /\ DOMAIN q = 1 .. Len(q)
         /\ Len(q) \in Nat
         /\ \A x : x \in ToSet(q) <=> \E i \in 1 .. Len(q) : q[i] = x
         /\ IsInjective(q) <=> \A i, j \in 1 .. Len(q) : q[i] = q[j] => i = j
         /\ ToSet(q) \subseteq S
<1>1. DOMAIN q = 1 .. Len(q) /\ Len(q) \in Nat
  BY LenProperties
<1>2. \A i \in 1 .. Len(q) : q[i] \in S
  BY ElementOfSeq
<1> QED
  BY <1>1, <1>2 DEF ToSet, IsInjective

\* Appending a new element to a queue without repetitions adds it to the
\* queue's elements and repeats nothing (emplace_back).
LEMMA AppendFacts ==
  ASSUME NEW S, NEW q \in Seq(S), NEW e \in S
  PROVE  /\ Append(q, e) \in Seq(S)
         /\ ToSet(Append(q, e)) = ToSet(q) \cup {e}
         /\ IsInjective(q) /\ e \notin ToSet(q) => IsInjective(Append(q, e))
<1> DEFINE a == Append(q, e)
<1>1. /\ a \in Seq(S) /\ Len(a) = Len(q) + 1 /\ Len(q) \in Nat
      /\ \A i \in 1 .. Len(q) : a[i] = q[i]
      /\ a[Len(q) + 1] = e
  BY AppendProperties, LenProperties
<1> HIDE DEF a
<1>2. ToSet(a) = ToSet(q) \cup {e}
  <2>1. \A x : x \in ToSet(a) <=> \E i \in 1 .. Len(q) + 1 : a[i] = x
    BY <1>1, ElementFacts
  <2>2. \A x : x \in ToSet(q) <=> \E i \in 1 .. Len(q) : q[i] = x
    BY ElementFacts
  <2>3. ASSUME NEW x PROVE x \in ToSet(a) <=> x \in ToSet(q) \cup {e}
    BY <1>1, <2>1, <2>2
  <2> QED
    BY <2>3
<1>3. ASSUME IsInjective(q), e \notin ToSet(q) PROVE IsInjective(a)
  <2>1. \A i, j \in 1 .. Len(q) : q[i] = q[j] => i = j
    BY <1>3, ElementFacts
  <2>2. \A i \in 1 .. Len(q) : q[i] # e
    BY <1>3, ElementFacts
  <2>3. \A i, j \in 1 .. Len(a) : a[i] = a[j] => i = j
    BY <1>1, <2>1, <2>2
  <2> QED
    BY <1>1, <2>3, ElementFacts
<1> QED
  BY <1>1, <1>2, <1>3 DEF a

\* Popping the front of a queue without repetitions removes exactly that
\* element (front, pop_front).
LEMMA TailFacts ==
  ASSUME NEW S, NEW q \in Seq(S), IsInjective(q), q # <<>>
  PROVE  /\ Head(q) \in ToSet(q)
         /\ Tail(q) \in Seq(S)
         /\ ToSet(Tail(q)) = ToSet(q) \ {Head(q)}
         /\ IsInjective(Tail(q))
<1> DEFINE t == Tail(q)
<1>1. /\ t \in Seq(S) /\ Len(t) = Len(q) - 1 /\ Len(q) \in Nat \ {0}
      /\ \A i \in 1 .. Len(q) - 1 : t[i] = q[i + 1]
      /\ Head(q) = q[1]
  BY HeadTailProperties, EmptySeq
<1>2. /\ \A i, j \in 1 .. Len(q) : q[i] = q[j] => i = j
      /\ \A x : x \in ToSet(q) <=> \E i \in 1 .. Len(q) : q[i] = x
  BY ElementFacts
<1>3. Head(q) \in ToSet(q)
  BY <1>1, <1>2
<1> HIDE DEF t
<1>4. \A x : x \in ToSet(t) <=> \E i \in 1 .. Len(q) - 1 : t[i] = x
  BY <1>1, ElementFacts
<1>5. ASSUME NEW x PROVE x \in ToSet(t) <=> x \in ToSet(q) \ {Head(q)}
  <2>1. ASSUME x \in ToSet(t) PROVE x \in ToSet(q) \ {Head(q)}
    BY <1>1, <1>2, <1>4, <2>1
  <2>2. ASSUME x \in ToSet(q) \ {Head(q)} PROVE x \in ToSet(t)
    <3>1. PICK i \in 1 .. Len(q) : q[i] = x
      BY <2>2, <1>2
    <3>2. i # 1
      BY <3>1, <2>2, <1>1
    <3>3. i - 1 \in 1 .. Len(q) - 1 /\ t[i - 1] = x
      BY <3>1, <3>2, <1>1
    <3> QED
      BY <3>3, <1>4
  <2> QED
    BY <2>1, <2>2
<1>6. \A i, j \in 1 .. Len(t) : t[i] = t[j] => i = j
  BY <1>1, <1>2
<1>7. IsInjective(t)
  BY <1>1, <1>6, ElementFacts
<1> QED
  BY <1>1, <1>3, <1>5, <1>7 DEF t

\* Removing one position moves the later elements up (erase).
LEMMA RemoveAtFacts ==
  ASSUME NEW S, NEW q \in Seq(S), NEW i \in 1 .. Len(q)
  PROVE  /\ RemoveAt(q, i) \in Seq(S)
         /\ Len(RemoveAt(q, i)) = Len(q) - 1
         /\ \A j \in 1 .. Len(q) - 1 :
              RemoveAt(q, i)[j] = IF j < i THEN q[j] ELSE q[j + 1]
<1> DEFINE a == SubSeq(q, 1, i - 1)
           b == SubSeq(q, i + 1, Len(q))
<1>1. Len(q) \in Nat /\ \A j \in 1 .. Len(q) : q[j] \in S
  BY LenProperties, ElementOfSeq
<1>2. a \in Seq(S) /\ Len(a) = i - 1 /\ \A j \in 1 .. i - 1 : a[j] = q[j]
  BY <1>1, SubSeqProperties
<1>3. b \in Seq(S) /\ Len(b) = Len(q) - i /\ \A j \in 1 .. Len(q) - i : b[j] = q[i + j]
  BY <1>1, SubSeqProperties
<1> HIDE DEF a, b
<1>4. /\ a \o b \in Seq(S)
      /\ Len(a \o b) = Len(q) - 1
      /\ \A j \in 1 .. Len(q) - 1 : (a \o b)[j] = IF j <= i - 1 THEN a[j] ELSE b[j - (i - 1)]
  <2>1. /\ a \o b \in Seq(S)
        /\ Len(a \o b) = Len(a) + Len(b)
        /\ \A j \in 1 .. Len(a) + Len(b) :
             (a \o b)[j] = IF j <= Len(a) THEN a[j] ELSE b[j - Len(a)]
    BY <1>2, <1>3, ConcatProperties
  <2>2. Len(a) + Len(b) = Len(q) - 1
    BY <1>1, <1>2, <1>3
  <2> QED
    BY <2>1, <2>2, <1>2
<1>5. RemoveAt(q, i) = a \o b
  BY DEF RemoveAt, a, b
<1> QED
  BY <1>1, <1>2, <1>3, <1>4, <1>5

\* Inserting at a position moves the elements from there on by one (insert).
LEMMA InsertAtFacts ==
  ASSUME NEW S, NEW q \in Seq(S), NEW i \in 1 .. Len(q) + 1, NEW e \in S
  PROVE  /\ InsertAt(q, i, e) \in Seq(S)
         /\ Len(InsertAt(q, i, e)) = Len(q) + 1
         /\ \A j \in 1 .. Len(q) + 1 :
              InsertAt(q, i, e)[j] = IF j < i THEN q[j] ELSE IF j = i THEN e ELSE q[j - 1]
<1> DEFINE a == SubSeq(q, 1, i - 1)
           b == SubSeq(q, i, Len(q))
           c == a \o <<e>>
<1>1. Len(q) \in Nat /\ \A j \in 1 .. Len(q) : q[j] \in S
  BY LenProperties, ElementOfSeq
<1>2. a \in Seq(S) /\ Len(a) = i - 1 /\ \A j \in 1 .. i - 1 : a[j] = q[j]
  BY <1>1, SubSeqProperties
<1>3. b \in Seq(S) /\ Len(b) = Len(q) - i + 1 /\ \A j \in 1 .. Len(q) - i + 1 : b[j] = q[i + j - 1]
  BY <1>1, SubSeqProperties
<1>4. <<e>> \in Seq(S) /\ Len(<<e>>) = 1 /\ <<e>>[1] = e
  OBVIOUS
<1> HIDE DEF a, b
<1>5. /\ c \in Seq(S) /\ Len(c) = i
      /\ \A j \in 1 .. i : c[j] = IF j <= i - 1 THEN a[j] ELSE <<e>>[j - (i - 1)]
  BY <1>1, <1>2, <1>4, ConcatProperties
<1> HIDE DEF c
<1>6. /\ c \o b \in Seq(S)
      /\ Len(c \o b) = Len(q) + 1
      /\ \A j \in 1 .. Len(q) + 1 : (c \o b)[j] = IF j <= i THEN c[j] ELSE b[j - i]
  BY <1>1, <1>3, <1>5, ConcatProperties
<1>7. InsertAt(q, i, e) = c \o b
  BY DEF InsertAt, a, b, c
<1>8. ASSUME NEW j \in 1 .. Len(q) + 1
      PROVE  (c \o b)[j] = IF j < i THEN q[j] ELSE IF j = i THEN e ELSE q[j - 1]
  <2>1. CASE j < i
    BY <2>1, <1>1, <1>2, <1>5, <1>6
  <2>2. CASE j = i
    <3>1. i \in 1 .. i /\ ~(i <= i - 1) /\ i - (i - 1) = 1
      BY <1>1
    <3>2. c[i] = e
      BY <3>1, <1>4, <1>5
    <3> QED
      BY <2>2, <3>2, <1>6
  <2>3. CASE j > i
    <3>1. j - i \in 1 .. Len(q) - i + 1
      BY <2>3, <1>1
    <3>2. (c \o b)[j] = b[j - i] /\ b[j - i] = q[i + (j - i) - 1]
      BY <2>3, <3>1, <1>1, <1>3, <1>6
    <3> QED
      BY <2>3, <3>2, <1>1
  <2>4. j < i \/ j = i \/ j > i
    BY <1>1
  <2> QED
    BY <2>1, <2>2, <2>3, <2>4, Zenon
<1> QED
  BY <1>6, <1>7, <1>8

-----------------------------------------------------------------------------
(* The scheduler's helpers *)

\* _deleteReadyThread takes the thread out of a queue without repetitions and
\* touches no other.
LEMMA DeleteReadyFacts ==
  ASSUME NEW S, NEW q \in Seq(S), IsInjective(q), NEW tid
  PROVE  /\ deleteReadyThread(q, tid) \in Seq(S)
         /\ ToSet(deleteReadyThread(q, tid)) = ToSet(q) \ {tid}
         /\ IsInjective(deleteReadyThread(q, tid))
<1>1. CASE tid \notin ToSet(q)
  BY <1>1 DEF deleteReadyThread
<1>2. CASE tid \in ToSet(q)
  <2> DEFINE k == IndexOf(q, tid)
             r == RemoveAt(q, k)
  <2>1. /\ DOMAIN q = 1 .. Len(q) /\ Len(q) \in Nat
        /\ \A i, j \in 1 .. Len(q) : q[i] = q[j] => i = j
        /\ \A x : x \in ToSet(q) <=> \E i \in 1 .. Len(q) : q[i] = x
    BY ElementFacts
  <2>2. k \in 1 .. Len(q) /\ q[k] = tid
    BY <1>2, <2>1 DEF IndexOf
  <2> HIDE DEF k
  <2>3. /\ r \in Seq(S) /\ Len(r) = Len(q) - 1
        /\ \A j \in 1 .. Len(q) - 1 : r[j] = IF j < k THEN q[j] ELSE q[j + 1]
    BY <2>2, RemoveAtFacts
  <2> HIDE DEF r
  <2>4. \A x : x \in ToSet(r) <=> \E i \in 1 .. Len(q) - 1 : r[i] = x
    BY <2>3, ElementFacts
  <2>5. ASSUME NEW x \in ToSet(r) PROVE x \in ToSet(q) \ {tid}
    BY <2>1, <2>2, <2>3, <2>4
  <2>6. ASSUME NEW x \in ToSet(q), x # tid PROVE x \in ToSet(r)
    <3>1. PICK i \in 1 .. Len(q) : q[i] = x
      BY <2>1
    <3>2. CASE i < k
      BY <3>1, <3>2, <2>1, <2>2, <2>3, <2>4
    <3>3. CASE i > k
      <4>1. i - 1 \in 1 .. Len(q) - 1 /\ ~(i - 1 < k) /\ (i - 1) + 1 = i
        BY <3>3, <2>1, <2>2
      <4>2. r[i - 1] = q[i]
        BY <4>1, <2>3
      <4> QED
        BY <3>1, <4>1, <4>2, <2>4
    <3>4. i # k
      BY <3>1, <2>2, <2>6
    <3> QED
      BY <3>2, <3>3, <3>4, <2>1, <2>2
  <2>7. \A i, j \in 1 .. Len(r) : r[i] = r[j] => i = j
    BY <2>1, <2>2, <2>3
  <2>8. IsInjective(r)
    BY <2>3, <2>7, ElementFacts
  <2>9. deleteReadyThread(q, tid) = r
    BY <1>2 DEF deleteReadyThread, r, k
  <2> QED
    BY <2>3, <2>5, <2>6, <2>8, <2>9
<1> QED
  BY <1>1, <1>2

Sleeper == [tid : Tids, until : Int]

\* The tids of the sleepers, by position.
LEMMA SleeperFacts ==
  ASSUME NEW s \in Seq(Sleeper)
  PROVE  /\ DOMAIN s = 1 .. Len(s) /\ Len(s) \in Nat
         /\ \A i \in 1 .. Len(s) : s[i] \in Sleeper /\ s[i].tid \in Tids /\ s[i].until \in Int
         /\ \A t : t \in SleepingTids(s) <=> \E i \in 1 .. Len(s) : s[i].tid = t
         /\ DistinctTids(s) <=> \A i, j \in 1 .. Len(s) : s[i].tid = s[j].tid => i = j
<1>1. DOMAIN s = 1 .. Len(s) /\ Len(s) \in Nat
  BY LenProperties
<1>2. \A i \in 1 .. Len(s) : s[i] \in Sleeper
  BY ElementOfSeq
<1>3. \A i \in 1 .. Len(s) : s[i].tid \in Tids /\ s[i].until \in Int
  BY <1>2 DEF Sleeper
<1> QED
  BY <1>1, <1>2, <1>3 DEF SleepingTids, DistinctTids

\* Erasing a sleeper takes out its tid and no other.
LEMMA EraseSleeperFacts ==
  ASSUME NEW s \in Seq(Sleeper), DistinctTids(s), NEW tid \in SleepingTids(s)
  PROVE  /\ eraseSleeper(s, tid) \in Seq(Sleeper)
         /\ SleepingTids(eraseSleeper(s, tid)) = SleepingTids(s) \ {tid}
         /\ DistinctTids(eraseSleeper(s, tid))
<1> DEFINE k == CHOOSE i \in DOMAIN s : s[i].tid = tid
           r == RemoveAt(s, k)
<1>1. /\ DOMAIN s = 1 .. Len(s) /\ Len(s) \in Nat
      /\ \A i, j \in 1 .. Len(s) : s[i].tid = s[j].tid => i = j
      /\ \A t : t \in SleepingTids(s) <=> \E i \in 1 .. Len(s) : s[i].tid = t
  BY SleeperFacts
<1>2. k \in 1 .. Len(s) /\ s[k].tid = tid
  BY <1>1
<1> HIDE DEF k
<1>3. /\ r \in Seq(Sleeper) /\ Len(r) = Len(s) - 1
      /\ \A j \in 1 .. Len(s) - 1 : r[j] = IF j < k THEN s[j] ELSE s[j + 1]
  BY <1>2, RemoveAtFacts
<1> HIDE DEF r
<1>4. \A t : t \in SleepingTids(r) <=> \E i \in 1 .. Len(s) - 1 : r[i].tid = t
  BY <1>3, SleeperFacts
<1>5. ASSUME NEW t \in SleepingTids(r) PROVE t \in SleepingTids(s) \ {tid}
  BY <1>1, <1>2, <1>3, <1>4
<1>6. ASSUME NEW t \in SleepingTids(s), t # tid PROVE t \in SleepingTids(r)
  <2>1. PICK i \in 1 .. Len(s) : s[i].tid = t
    BY <1>1
  <2>2. CASE i < k
    BY <2>1, <2>2, <1>1, <1>2, <1>3, <1>4
  <2>3. CASE i > k
    <3>1. i - 1 \in 1 .. Len(s) - 1 /\ ~(i - 1 < k) /\ (i - 1) + 1 = i
      BY <2>3, <1>1, <1>2
    <3>2. r[i - 1] = s[i]
      BY <3>1, <1>3
    <3> QED
      BY <2>1, <3>1, <3>2, <1>4
  <2>4. i # k
    BY <2>1, <1>2, <1>6
  <2> QED
    BY <2>2, <2>3, <2>4, <1>1, <1>2
<1>7. \A i, j \in 1 .. Len(r) : r[i].tid = r[j].tid => i = j
  BY <1>1, <1>2, <1>3
<1>8. DistinctTids(r)
  BY <1>3, <1>7, SleeperFacts
<1>9. eraseSleeper(s, tid) = r
  BY DEF eraseSleeper, r, k
<1> QED
  BY <1>3, <1>5, <1>6, <1>8, <1>9

\* A count of positions of a sequence is at most its length.
LEMMA CountFacts ==
  ASSUME NEW s \in Seq(Sleeper), NEW T \in SUBSET DOMAIN s
  PROVE  Cardinality(T) \in 0 .. Len(s)
<1>1. DOMAIN s = 1 .. Len(s) /\ Len(s) \in Nat
  BY SleeperFacts
<1>2. IsFiniteSet(1 .. Len(s)) /\ Cardinality(1 .. Len(s)) = Len(s)
  <2>1. /\ IsFiniteSet(1 .. Len(s))
        /\ Cardinality(1 .. Len(s)) = IF 1 > Len(s) THEN 0 ELSE Len(s) - 1 + 1
    <3>1. 1 \in Int /\ Len(s) \in Int
      BY <1>1
    <3> QED
      BY <3>1, FS_Interval, Zenon
  <2> QED
    BY <1>1, <2>1
<1>3. IsFiniteSet(T) /\ Cardinality(T) <= Len(s)
  BY <1>1, <1>2, FS_Subset
<1>4. Cardinality(T) \in Nat
  BY <1>3, FS_CardinalityType
<1> QED
  BY <1>1, <1>3, <1>4

\* Inserting a thread that is not among the sleepers adds its tid and no other.
LEMMA InsertSleeperFacts ==
  ASSUME NEW s \in Seq(Sleeper), DistinctTids(s),
         NEW tid \in Tids, tid \notin SleepingTids(s), NEW until \in Int
  PROVE  /\ insertSleeper(s, tid, until) \in Seq(Sleeper)
         /\ SleepingTids(insertSleeper(s, tid, until)) = SleepingTids(s) \cup {tid}
         /\ DistinctTids(insertSleeper(s, tid, until))
<1> DEFINE T == {i \in DOMAIN s : s[i].until <= until}
           k == Cardinality(T) + 1
           e == [tid |-> tid, until |-> until]
           r == InsertAt(s, k, e)
<1>1. /\ DOMAIN s = 1 .. Len(s) /\ Len(s) \in Nat
      /\ \A i, j \in 1 .. Len(s) : s[i].tid = s[j].tid => i = j
      /\ \A t : t \in SleepingTids(s) <=> \E i \in 1 .. Len(s) : s[i].tid = t
  BY SleeperFacts
<1>2. k \in 1 .. Len(s) + 1
  <2>1. Cardinality(T) \in 0 .. Len(s)
    BY CountFacts
  <2> QED
    BY <2>1, <1>1
<1>3. e \in Sleeper /\ e.tid = tid
  BY DEF Sleeper
<1>4. r = insertSleeper(s, tid, until)
  BY DEF insertSleeper
<1> HIDE DEF k, e
<1>5. /\ r \in Seq(Sleeper) /\ Len(r) = Len(s) + 1
      /\ \A j \in 1 .. Len(s) + 1 :
           r[j] = IF j < k THEN s[j] ELSE IF j = k THEN e ELSE s[j - 1]
  <2>1. ASSUME NEW m \in 1 .. Len(s) + 1, NEW x \in Sleeper
        PROVE  /\ InsertAt(s, m, x) \in Seq(Sleeper)
               /\ Len(InsertAt(s, m, x)) = Len(s) + 1
               /\ \A j \in 1 .. Len(s) + 1 :
                    InsertAt(s, m, x)[j] = IF j < m THEN s[j] ELSE IF j = m THEN x ELSE s[j - 1]
    BY InsertAtFacts
  <2>2. e \in Sleeper
    BY <1>3
  <2> QED
    BY <1>2, <2>1, <2>2
<1> HIDE DEF r
<1>6. \A t : t \in SleepingTids(r) <=> \E i \in 1 .. Len(s) + 1 : r[i].tid = t
  BY <1>5, SleeperFacts
<1>7. ASSUME NEW t \in SleepingTids(r) PROVE t \in SleepingTids(s) \cup {tid}
  <2>1. PICK j \in 1 .. Len(s) + 1 : r[j].tid = t
    BY <1>6
  <2>2. CASE j < k
    BY <2>1, <2>2, <1>1, <1>2, <1>5
  <2>3. CASE j = k
    BY <2>1, <2>3, <1>2, <1>3, <1>5
  <2>4. CASE j > k
    BY <2>1, <2>4, <1>1, <1>2, <1>5
  <2> QED
    BY <2>2, <2>3, <2>4, <1>1, <1>2
<1>8. ASSUME NEW t \in SleepingTids(s) PROVE t \in SleepingTids(r)
  <2>1. PICK i \in 1 .. Len(s) : s[i].tid = t
    BY <1>1
  <2>2. CASE i < k
    BY <2>1, <2>2, <1>1, <1>2, <1>5, <1>6
  <2>3. CASE ~(i < k)
    <3>1. i + 1 \in 1 .. Len(s) + 1 /\ ~(i + 1 < k) /\ i + 1 # k /\ (i + 1) - 1 = i
      BY <2>3, <1>1, <1>2
    <3>2. r[i + 1] = s[i]
      BY <3>1, <1>5
    <3> QED
      BY <2>1, <3>1, <3>2, <1>6
  <2> QED
    BY <2>2, <2>3
<1>9. tid \in SleepingTids(r)
  BY <1>2, <1>3, <1>5, <1>6
<1>10. \A i, j \in 1 .. Len(r) : r[i].tid = r[j].tid => i = j
  <2>1. \A i \in 1 .. Len(s) : s[i].tid # tid
    BY <1>1
  <2> QED
    BY <2>1, <1>1, <1>2, <1>3, <1>5
<1>11. DistinctTids(r)
  BY <1>5, <1>10, SleeperFacts
<1> QED
  BY <1>4, <1>5, <1>7, <1>8, <1>9, <1>11

\* Queueing one queue behind another that shares no element with it.
LEMMA ConcatFacts ==
  ASSUME NEW S, NEW q \in Seq(S), NEW r \in Seq(S),
         IsInjective(q), IsInjective(r), ToSet(q) \cap ToSet(r) = {}
  PROVE  /\ q \o r \in Seq(S)
         /\ ToSet(q \o r) = ToSet(q) \cup ToSet(r)
         /\ IsInjective(q \o r)
<1> DEFINE c == q \o r
<1>1. /\ c \in Seq(S) /\ Len(c) = Len(q) + Len(r)
      /\ \A i \in 1 .. Len(q) + Len(r) : c[i] = IF i <= Len(q) THEN q[i] ELSE r[i - Len(q)]
      /\ Len(q) \in Nat /\ Len(r) \in Nat
  BY ConcatProperties, LenProperties
<1>2. /\ \A i, j \in 1 .. Len(q) : q[i] = q[j] => i = j
      /\ \A x : x \in ToSet(q) <=> \E i \in 1 .. Len(q) : q[i] = x
  BY ElementFacts
<1>3. /\ \A i, j \in 1 .. Len(r) : r[i] = r[j] => i = j
      /\ \A x : x \in ToSet(r) <=> \E i \in 1 .. Len(r) : r[i] = x
  BY ElementFacts
<1> HIDE DEF c
<1>4. \A x : x \in ToSet(c) <=> \E i \in 1 .. Len(q) + Len(r) : c[i] = x
  <2>1. \A x : x \in ToSet(c) <=> \E i \in 1 .. Len(c) : c[i] = x
    BY <1>1, ElementFacts
  <2> QED
    BY <1>1, <2>1
<1>5. \A i \in 1 .. Len(q) : i \in 1 .. Len(q) + Len(r) /\ c[i] = q[i]
  BY <1>1
<1>6. \A i \in 1 .. Len(r) : i + Len(q) \in 1 .. Len(q) + Len(r) /\ c[i + Len(q)] = r[i]
  <2>1. ASSUME NEW i \in 1 .. Len(r)
        PROVE  /\ i + Len(q) \in 1 .. Len(q) + Len(r)
               /\ ~(i + Len(q) <= Len(q)) /\ (i + Len(q)) - Len(q) = i
    BY <1>1
  <2> QED
    BY <2>1, <1>1
<1>7. \A i \in 1 .. Len(q) + Len(r) :
        \/ i \in 1 .. Len(q) /\ c[i] = q[i]
        \/ i - Len(q) \in 1 .. Len(r) /\ c[i] = r[i - Len(q)]
  BY <1>1
<1>8. ToSet(c) = ToSet(q) \cup ToSet(r)
  <2>1. ASSUME NEW x \in ToSet(c) PROVE x \in ToSet(q) \cup ToSet(r)
    BY <1>2, <1>3, <1>4, <1>7
  <2>2. ASSUME NEW x \in ToSet(q) PROVE x \in ToSet(c)
    BY <1>2, <1>4, <1>5
  <2>3. ASSUME NEW x \in ToSet(r) PROVE x \in ToSet(c)
    BY <1>3, <1>4, <1>6
  <2> QED
    BY <2>1, <2>2, <2>3
<1>9. \A i, j \in 1 .. Len(c) : c[i] = c[j] => i = j
  <2> SUFFICES ASSUME NEW i \in 1 .. Len(q) + Len(r), NEW j \in 1 .. Len(q) + Len(r),
                      c[i] = c[j]
               PROVE  i = j
    BY <1>1
  <2>1. CASE i \in 1 .. Len(q) /\ c[i] = q[i] /\ j \in 1 .. Len(q) /\ c[j] = q[j]
    BY <2>1, <1>2
  <2>2. CASE /\ i - Len(q) \in 1 .. Len(r) /\ c[i] = r[i - Len(q)]
             /\ j - Len(q) \in 1 .. Len(r) /\ c[j] = r[j - Len(q)]
    <3>1. i - Len(q) = j - Len(q)
      BY <2>2, <1>3
    <3> QED
      BY <3>1, <1>1
  <2>3. CASE c[i] \in ToSet(q) /\ c[j] \in ToSet(r)
    BY <2>3
  <2>4. CASE c[i] \in ToSet(r) /\ c[j] \in ToSet(q)
    BY <2>4
  <2> QED
    BY <2>1, <2>2, <2>3, <2>4, <1>2, <1>3, <1>7
<1>10. IsInjective(c)
  BY <1>1, <1>9, ElementFacts
<1> QED
  BY <1>1, <1>8, <1>10 DEF c

\* Cutting the sleepers in two (_sleepToReady): the tids in front, in order,
\* and the entries that stay share no thread and lose none.
LEMMA WakeFacts ==
  ASSUME NEW s \in Seq(Sleeper), DistinctTids(s), NEW k \in 0 .. Len(s)
  PROVE  LET woken == [i \in 1 .. k |-> s[i].tid]
             rest == SubSeq(s, k + 1, Len(s))
         IN  /\ woken \in Seq(Tids) /\ IsInjective(woken)
             /\ ToSet(woken) \subseteq SleepingTids(s)
             /\ rest \in Seq(Sleeper) /\ DistinctTids(rest)
             /\ SleepingTids(rest) = SleepingTids(s) \ ToSet(woken)
<1> DEFINE woken == [i \in 1 .. k |-> s[i].tid]
           rest == SubSeq(s, k + 1, Len(s))
<1>1. /\ DOMAIN s = 1 .. Len(s) /\ Len(s) \in Nat
      /\ \A i \in 1 .. Len(s) : s[i] \in Sleeper /\ s[i].tid \in Tids
      /\ \A i, j \in 1 .. Len(s) : s[i].tid = s[j].tid => i = j
      /\ \A t : t \in SleepingTids(s) <=> \E i \in 1 .. Len(s) : s[i].tid = t
  BY SleeperFacts
<1>2. /\ woken \in Seq(Tids) /\ DOMAIN woken = 1 .. k
      /\ \A i \in 1 .. k : woken[i] = s[i].tid
  <2>1. \A i \in 1 .. k : s[i].tid \in Tids
    BY <1>1
  <2> QED
    BY <2>1, IsASeq
<1>3. /\ rest \in Seq(Sleeper) /\ Len(rest) = Len(s) - k
      /\ \A i \in 1 .. Len(s) - k : rest[i] = s[k + i]
  <2>1. \A i \in k + 1 .. Len(s) : s[i] \in Sleeper
    BY <1>1
  <2>2. /\ rest \in Seq(Sleeper)
        /\ Len(rest) = IF k + 1 <= Len(s) THEN Len(s) - (k + 1) + 1 ELSE 0
        /\ \A i \in 1 .. Len(s) - (k + 1) + 1 : rest[i] = s[(k + 1) + i - 1]
    BY <2>1, <1>1, SubSeqProperties
  <2> HIDE DEF rest
  <2>3. Len(rest) = Len(s) - k
    <3>1. Len(s) \in Nat /\ k \in Nat /\ k <= Len(s)
      BY <1>1
    <3>2. Len(rest) = IF k + 1 <= Len(s) THEN Len(s) - (k + 1) + 1 ELSE 0
      BY <2>2
    <3> QED
      BY <3>1, <3>2
  <2>4. ASSUME NEW i \in 1 .. Len(s) - k PROVE rest[i] = s[k + i]
    <3>1. i \in 1 .. Len(s) - (k + 1) + 1 /\ (k + 1) + i - 1 = k + i
      BY <1>1
    <3> QED
      BY <3>1, <2>2
  <2> QED
    BY <2>2, <2>3, <2>4
<1> HIDE DEF woken, rest
<1>4. IsInjective(woken)
  BY <1>1, <1>2 DEF IsInjective
<1>5. \A t : t \in ToSet(woken) <=> \E i \in 1 .. k : s[i].tid = t
  BY <1>2 DEF ToSet
<1>6. \A t : t \in SleepingTids(rest) <=> \E i \in 1 .. Len(s) - k : rest[i].tid = t
  BY <1>3, SleeperFacts
<1>7. \A i, j \in 1 .. Len(rest) : rest[i].tid = rest[j].tid => i = j
  BY <1>1, <1>3
<1>8. DistinctTids(rest)
  BY <1>3, <1>7, SleeperFacts
<1>9. ASSUME NEW t \in ToSet(woken) PROVE t \in SleepingTids(s) /\ t \notin SleepingTids(rest)
  <2>1. PICK i \in 1 .. k : s[i].tid = t
    BY <1>5
  <2>2. ASSUME NEW j \in 1 .. Len(s) - k PROVE rest[j].tid # t
    <3>1. /\ i \in 1 .. Len(s) /\ k + j \in 1 .. Len(s) /\ k + j # i
          /\ rest[j] = s[k + j]
      BY <1>1, <1>3
    <3> QED
      BY <2>1, <3>1, <1>1
  <2>3. i \in 1 .. Len(s)
    BY <1>1
  <2> QED
    BY <2>1, <2>2, <2>3, <1>1, <1>6
<1>10. ASSUME NEW t \in SleepingTids(rest) PROVE t \in SleepingTids(s)
  BY <1>1, <1>3, <1>6
<1>11. ASSUME NEW t \in SleepingTids(s), t \notin ToSet(woken) PROVE t \in SleepingTids(rest)
  <2>1. PICK i \in 1 .. Len(s) : s[i].tid = t
    BY <1>1
  <2>2. ~(i \in 1 .. k)
    BY <2>1, <1>5, <1>11
  <2>3. i - k \in 1 .. Len(s) - k /\ k + (i - k) = i
    BY <2>2, <1>1
  <2> QED
    BY <2>1, <2>3, <1>3, <1>6
<1>12. /\ woken \in Seq(Tids) /\ IsInjective(woken)
       /\ ToSet(woken) \subseteq SleepingTids(s)
       /\ rest \in Seq(Sleeper) /\ DistinctTids(rest)
       /\ SleepingTids(rest) = SleepingTids(s) \ ToSet(woken)
  BY <1>2, <1>3, <1>4, <1>8, <1>9, <1>10, <1>11
<1> QED
  BY <1>12 DEF woken, rest

\* A set of naturals that is not empty has a least element.
LEMMA MinFacts ==
  ASSUME NEW S \in SUBSET Nat, S # {}
  PROVE  Min(S) \in S /\ \A x \in S : Min(S) <= x
<1>1. PICK m \in S : \A y \in S : ~(<<y, m>> \in OpToRel(<, Nat))
  BY NatLessThanWellFounded, WFMin
<1>2. \A y \in S : ~(y < m)
  BY <1>1 DEF OpToRel
<1>3. \A y \in S : m <= y
  BY <1>2
<1> QED
  BY <1>3 DEF Min

\* _getLowestAvailableId gives an id that is not in use, never main's, or -1.
LEMMA LowestIdFacts ==
  ASSUME NEW known, getLowestAvailableId(known) # NoTid
  PROVE  /\ getLowestAvailableId(known) \in Tids \ {0}
         /\ getLowestAvailableId(known) \notin known
<1> DEFINE free == (1 .. MAX_THREAD_NUM - 1) \ known
<1>1. free \in SUBSET Nat
  BY MaxThreadNumAssumption
<1>2. getLowestAvailableId(known) = Min(free) /\ free # {}
  BY DEF getLowestAvailableId
<1>3. Min(free) \in free
  BY <1>1, <1>2, MinFacts
<1> QED
  BY <1>2, <1>3, MaxThreadNumAssumption DEF Tids

-----------------------------------------------------------------------------
(* The inductive invariant. OnePlace alone is not inductive: that a switch  *)
(* finds a thread in the queue needs MainSchedulable, and that main stays   *)
(* schedulable needs OnePlace.                                              *)

Inv == TypeOK /\ OnePlace /\ MainSchedulable /\ NoUndefinedBehaviour

\* What every call may rely on once _deleteTerminatedThread has run: the live
\* threads remain, and a thread other than main that gives up the processor
\* leaves a queue that is not empty.
LEMMA StateFacts ==
  ASSUME Inv
  PROVE  /\ DOMAIN Remaining = Live /\ Remaining \in [Live -> Thread]
         /\ \A t \in Live : Remaining[t] = threads_[t]
         /\ ToTerminateAfterDelete = NoTid
         /\ Live \subseteq Tids /\ NoTid \notin Tids /\ 0 \in Tids
         /\ 0 \in Live /\ 0 \notin blockedThreads_ /\ 0 \notin Sleeping
         /\ currentRunningThread_ \in Live
         /\ sleepThreads_ \in Seq(Sleeper)
         /\ Ready \subseteq Live
         /\ currentRunningThread_ # 0 => 0 \in Ready /\ readyQueue_ # <<>>
<1>1. NoTid \notin Tids /\ 0 \in Tids
  BY MaxThreadNumAssumption DEF Tids, NoTid
<1>2. ToTerminateAfterDelete = NoTid
  BY DEF Inv, OnePlace, ToTerminateAfterDelete
<1>3. DOMAIN Remaining = Live /\ \A t \in Live : Remaining[t] = threads_[t]
  BY DEF Remaining, Restrict, Live
<1>4. Remaining \in [Live -> Thread]
  BY DEF Remaining, Restrict, Live, Inv, TypeOK
<1>5. Live \subseteq Tids
  BY DEF Live, Inv, TypeOK
<1>6. /\ 0 \in Live /\ 0 \notin blockedThreads_ /\ 0 \notin Sleeping
      /\ currentRunningThread_ \in Live /\ Ready \subseteq Live
  BY DEF Inv, OnePlace, MainSchedulable
<1>7. sleepThreads_ \in Seq(Sleeper)
  BY DEF Inv, TypeOK, Sleeper
<1>8. currentRunningThread_ # 0 => 0 \in Ready
  BY DEF Inv, MainSchedulable
<1>9. 0 \in Ready => readyQueue_ # <<>>
  BY DEF Ready, ToSet
<1> QED
  BY <1>1, <1>2, <1>3, <1>4, <1>5, <1>6, <1>7, <1>8, <1>9

\* The initial state has main alone, running.
LEMMA InitInv == Init => Inv
<1> SUFFICES ASSUME Init PROVE Inv
  OBVIOUS
<1> USE DEF Init
<1>1. 0 \in Tids /\ NoTid \notin Tids /\ 0 # NoTid
  BY MaxThreadNumAssumption DEF Tids, NoTid
<1>2. /\ DOMAIN threads_ = {0} /\ threads_[0] \in Thread
      /\ Ready = {} /\ Sleeping = {} /\ Live = {0}
  BY <1>1 DEF Ready, Sleeping, SleepingTids, Live, ToSet, Thread, NewThread, NotSleeping, NoTid
<1>3. TypeOK
  BY <1>1, <1>2, MaxQuantaAssumption DEF TypeOK
<1>4. OnePlace
  BY <1>1, <1>2 DEF OnePlace, IsInjective, DistinctTids
<1>5. MainSchedulable /\ NoUndefinedBehaviour
  BY DEF MainSchedulable, NoUndefinedBehaviour
<1> QED
  BY <1>3, <1>4, <1>5 DEF Inv

\* Freeing the terminated thread changes no live thread's place.
LEMMA DeletionInv == Inv /\ deleteTerminatedThread => Inv'
<1> SUFFICES ASSUME Inv, deleteTerminatedThread PROVE Inv'
  OBVIOUS
<1> USE DEF deleteTerminatedThread
<1>1. DOMAIN threads_' = Live /\ threads_' \in [Live -> Thread] /\ tidToTerminate_' = NoTid
  BY StateFacts
<1>2. /\ Live' = Live /\ Ready' = Ready /\ Sleeping' = Sleeping
  BY <1>1, StateFacts DEF Live, Ready, Sleeping
<1>3. TypeOK'
  BY <1>1, StateFacts DEF Inv, TypeOK
<1>4. OnePlace'
  BY <1>1, <1>2 DEF Inv, OnePlace
<1>5. MainSchedulable' /\ NoUndefinedBehaviour'
  BY <1>2 DEF Inv, MainSchedulable, NoUndefinedBehaviour
<1> QED
  BY <1>3, <1>4, <1>5 DEF Inv

\* A switch (_preempt) to the front of a queue of live threads: if the threads
\* that stay are each queued, blocked or asleep, and main is queued, then
\* the invariant holds after it.
LEMMA SwitchInv ==
  ASSUME Inv, process = "up",
         NEW th \in [Live -> Thread], NEW q \in Seq(Tids), NEW reason,
         IsInjective(q), 0 \in ToSet(q),
         blockedThreads_' \subseteq Tids,
         sleepThreads_' \in Seq(Sleeper), DistinctTids(sleepThreads_'),
         ToSet(q) \cap blockedThreads_' = {},
         ToSet(q) \cap SleepingTids(sleepThreads_') = {},
         blockedThreads_' \cap SleepingTids(sleepThreads_') = {},
         Live \ (IF reason = "Termination" THEN {currentRunningThread_} ELSE {})
           = ToSet(q) \cup blockedThreads_' \cup SleepingTids(sleepThreads_'),
         preempt(th, q, reason)
  PROVE  Inv'
<1> DEFINE next == Head(q)
<1>1. /\ next \in ToSet(q) /\ Tail(q) \in Seq(Tids) /\ q # <<>>
      /\ ToSet(Tail(q)) = ToSet(q) \ {next} /\ IsInjective(Tail(q))
  <2>1. q # <<>>
    BY DEF ToSet
  <2> QED
    BY <2>1, TailFacts
<1>2. next \in Live /\ DOMAIN th = Live
  BY <1>1
<1>3. /\ total_quantum_ < MaxQuanta
      /\ readyQueue_' = Tail(q)
      /\ total_quantum_' = total_quantum_ + 1
      /\ threads_' = [th EXCEPT ![next].numOfQuantum_ = @ + 1]
      /\ currentRunningThread_' = next
      /\ tidToTerminate_' = IF reason = "Termination" /\ next # currentRunningThread_
                            THEN currentRunningThread_ ELSE NoTid
      /\ process' = "up"
  BY <1>1, <1>2, StateFacts DEF preempt
<1> HIDE DEF next
<1>4. DOMAIN threads_' = Live /\ threads_' \in [Live -> Thread]
  <2>1. [th[next] EXCEPT !.numOfQuantum_ = @ + 1] \in Thread
    BY <1>2 DEF Thread
  <2> QED
    BY <1>2, <1>3, <2>1
<1>5. /\ Ready' = ToSet(q) \ {next} /\ Sleeping' = SleepingTids(sleepThreads_')
      /\ Live' = ToSet(q) \cup blockedThreads_' \cup Sleeping'
  <2>1. Ready' = ToSet(q) \ {next} /\ Sleeping' = SleepingTids(sleepThreads_')
    BY <1>1, <1>3 DEF Ready, Sleeping
  <2>2. CASE reason = "Termination"
    <3>1. next # currentRunningThread_
      BY <1>1, <2>2
    <3> QED
      BY <1>3, <1>4, <2>1, <2>2, <3>1 DEF Live
  <2>3. CASE reason # "Termination"
    <3>1. NoTid \notin Live
      BY StateFacts
    <3> QED
      BY <1>3, <1>4, <2>1, <2>3, <3>1 DEF Live
  <2> QED
    BY <2>2, <2>3
<1>6. TypeOK'
  <2>1. next \in Tids
    BY <1>2, StateFacts
  <2>2. total_quantum_' \in 1 .. MaxQuanta
    BY <1>3, MaxQuantaAssumption DEF Inv, TypeOK
  <2>3. tidToTerminate_' \in Tids \cup {NoTid}
    BY <1>3 DEF Inv, TypeOK
  <2> QED
    BY <1>1, <1>3, <1>4, <2>1, <2>2, <2>3, StateFacts DEF TypeOK, Sleeper
<1>7. OnePlace'
  <2>1. tidToTerminate_' \in DOMAIN threads_' \cup {NoTid}
    BY <1>3, <1>4, StateFacts
  <2> QED
    BY <1>1, <1>3, <1>5, <2>1 DEF OnePlace
<1>8. MainSchedulable' /\ NoUndefinedBehaviour'
  BY <1>3, <1>5 DEF MainSchedulable, NoUndefinedBehaviour
<1> QED
  BY <1>6, <1>7, <1>8 DEF Inv

\* The timer wakes the due sleepers, queues the running thread last and
\* switches: everybody stays in one place.
LEMMA TimerInv == Inv /\ timerHandler => Inv'
<1> SUFFICES ASSUME Inv, timerHandler PROVE Inv'
  OBVIOUS
<1> DEFINE due == dueCount(sleepThreads_, total_quantum_)
           woken == [i \in 1 .. due |-> sleepThreads_[i].tid]
           rest == SubSeq(sleepThreads_, due + 1, Len(sleepThreads_))
           longer == readyQueue_ \o woken
           queue == Append(longer, currentRunningThread_)
<1>1. /\ process = "up" /\ sleepThreads_' = rest
      /\ preempt(Remaining, queue, "QuantumExpiration")
      /\ UNCHANGED blockedThreads_
  BY DEF timerHandler
<1>2. due \in 0 .. Len(sleepThreads_)
  BY StateFacts, CountFacts DEF dueCount
<1> HIDE DEF due
<1>3. /\ woken \in Seq(Tids) /\ IsInjective(woken) /\ ToSet(woken) \subseteq Sleeping
      /\ rest \in Seq(Sleeper) /\ DistinctTids(rest)
      /\ SleepingTids(rest) = Sleeping \ ToSet(woken)
  BY <1>2, StateFacts, WakeFacts DEF Inv, OnePlace, Sleeping
<1> HIDE DEF woken, rest
<1>4. /\ longer \in Seq(Tids) /\ ToSet(longer) = Ready \cup ToSet(woken)
      /\ IsInjective(longer)
  <2>1. ToSet(readyQueue_) \cap ToSet(woken) = {}
    BY <1>3 DEF Inv, OnePlace, Ready
  <2> QED
    BY <2>1, <1>3, ConcatFacts DEF Inv, OnePlace, TypeOK, Ready
<1> HIDE DEF longer
<1>5. /\ queue \in Seq(Tids) /\ IsInjective(queue)
      /\ ToSet(queue) = Ready \cup ToSet(woken) \cup {currentRunningThread_}
  <2>1. currentRunningThread_ \notin ToSet(longer)
    BY <1>3, <1>4 DEF Inv, OnePlace
  <2> QED
    BY <2>1, <1>4, AppendFacts DEF Inv, TypeOK
<1> HIDE DEF queue
<1>6. 0 \in ToSet(queue)
  BY <1>5 DEF Inv, MainSchedulable
<1>7. /\ ToSet(queue) \cap blockedThreads_' = {}
      /\ ToSet(queue) \cap SleepingTids(sleepThreads_') = {}
      /\ blockedThreads_' \cap SleepingTids(sleepThreads_') = {}
      /\ Live = ToSet(queue) \cup blockedThreads_' \cup SleepingTids(sleepThreads_')
  BY <1>1, <1>3, <1>5 DEF Inv, OnePlace
<1>8. blockedThreads_' \subseteq Tids /\ sleepThreads_' \in Seq(Sleeper) /\ DistinctTids(sleepThreads_')
  BY <1>1, <1>3 DEF Inv, TypeOK
<1> QED
  BY <1>1, <1>5, <1>6, <1>7, <1>8, StateFacts, SwitchInv

\* A step that switches to nobody keeps the invariant if every live thread is
\* still the running one, queued, blocked or asleep.
LEMMA StayInv ==
  ASSUME Inv,
         threads_' \in [DOMAIN threads_' -> Thread], DOMAIN threads_' \subseteq Tids,
         readyQueue_' \in Seq(Tids), IsInjective(readyQueue_)',
         blockedThreads_' \subseteq Tids,
         sleepThreads_' \in Seq(Sleeper), DistinctTids(sleepThreads_)',
         tidToTerminate_' \in DOMAIN threads_' \cup {NoTid},
         UNCHANGED <<currentRunningThread_, total_quantum_, process>>,
         currentRunningThread_ \notin Ready' \cup blockedThreads_' \cup Sleeping',
         Ready' \cap blockedThreads_' = {},
         Ready' \cap Sleeping' = {},
         blockedThreads_' \cap Sleeping' = {},
         Live' = {currentRunningThread_} \cup Ready' \cup blockedThreads_' \cup Sleeping',
         0 \in {currentRunningThread_} \cup Ready'
  PROVE  Inv'
<1>1. TypeOK'
  BY DEF Inv, TypeOK, Sleeper
<1>2. OnePlace'
  BY DEF OnePlace
<1>3. MainSchedulable' /\ NoUndefinedBehaviour'
  BY DEF Inv, MainSchedulable, NoUndefinedBehaviour
<1> QED
  BY <1>1, <1>2, <1>3 DEF Inv

\* A spawned thread takes an id nobody has and is queued, once.
LEMMA SpawnInv ==
  ASSUME Inv, NEW hasFunction \in BOOLEAN, spawnThread(hasFunction)
  PROVE  Inv'
<1>1. CASE deleteTerminatedThread
  BY <1>1, DeletionInv
<1>2. CASE ~deleteTerminatedThread
  <2> DEFINE nextTid == getLowestAvailableId(DOMAIN Remaining)
  <2>1. /\ nextTid # NoTid
        /\ readyQueue_' = Append(readyQueue_, nextTid)
        /\ threads_' = [t \in DOMAIN Remaining \cup {nextTid} |->
                          IF t = nextTid THEN NewThread ELSE threads_[t]]
        /\ tidToTerminate_' = NoTid
        /\ UNCHANGED <<blockedThreads_, sleepThreads_, currentRunningThread_,
                       total_quantum_, process>>
    BY <1>2, StateFacts DEF spawnThread, spawnRefused
  <2>2. nextTid \in Tids /\ nextTid \notin Live
    BY <2>1, LowestIdFacts, StateFacts
  <2> HIDE DEF nextTid
  <2>3. DOMAIN threads_' = Live \cup {nextTid} /\ threads_' \in [Live \cup {nextTid} -> Thread]
    <3>1. NewThread \in Thread
      BY DEF NewThread, Thread, NotSleeping
    <3> QED
      BY <2>1, <3>1, StateFacts
  <2>4. /\ readyQueue_' \in Seq(Tids) /\ Ready' = Ready \cup {nextTid}
        /\ IsInjective(readyQueue_)'
    <3>1. nextTid \notin ToSet(readyQueue_)
      BY <2>2, StateFacts DEF Ready
    <3> QED
      BY <2>1, <2>2, <3>1, AppendFacts DEF Inv, TypeOK, OnePlace, Ready
  <2>5. Live' = Live \cup {nextTid} /\ Sleeping' = Sleeping
    BY <2>1, <2>2, <2>3, StateFacts DEF Live, Sleeping
  <2> QED
    BY <2>1, <2>2, <2>3, <2>4, <2>5, StateFacts, StayInv
       DEF Inv, TypeOK, OnePlace, MainSchedulable
<1> QED
  BY <1>1, <1>2

\* Terminating another thread takes it out of the one place it is in.
LEMMA TerminateOtherInv ==
  ASSUME Inv, NEW tid \in Live, tid # 0, tid # currentRunningThread_,
         terminateOtherThread(tid)
  PROVE  Inv'
<1>1. /\ threads_' = Remaining /\ tidToTerminate_' = tid
      /\ UNCHANGED <<currentRunningThread_, total_quantum_, process>>
  BY DEF terminateOtherThread
<1>2. Live' = Live \ {tid} /\ DOMAIN threads_' = Live /\ threads_' \in [Live -> Thread]
  BY <1>1, StateFacts DEF Live
<1>3. CASE tid \in Sleeping
  <2>1. /\ sleepThreads_' = eraseSleeper(sleepThreads_, tid)
        /\ UNCHANGED <<blockedThreads_, readyQueue_>>
    BY <1>3 DEF terminateOtherThread, Sleeping
  <2>2. /\ sleepThreads_' \in Seq(Sleeper) /\ DistinctTids(sleepThreads_)'
        /\ Sleeping' = Sleeping \ {tid}
    BY <1>3, <2>1, StateFacts, EraseSleeperFacts DEF Sleeping, Inv, OnePlace
  <2>3. Ready' = Ready
    BY <2>1 DEF Ready
  <2> QED
    BY <1>1, <1>2, <1>3, <2>1, <2>2, <2>3, StateFacts, StayInv
       DEF Inv, TypeOK, OnePlace, MainSchedulable
<1>4. CASE tid \notin Sleeping
  <2>1. /\ blockedThreads_' = blockedThreads_ \ {tid}
        /\ readyQueue_' = IF tid \in blockedThreads_ THEN readyQueue_
                          ELSE deleteReadyThread(readyQueue_, tid)
        /\ UNCHANGED sleepThreads_
    BY <1>4 DEF terminateOtherThread, Sleeping
  <2>2. /\ readyQueue_' \in Seq(Tids) /\ IsInjective(readyQueue_)'
        /\ Ready' = Ready \ {tid}
    <3>1. CASE tid \in blockedThreads_
      BY <2>1, <3>1 DEF Inv, TypeOK, OnePlace, Ready
    <3>2. CASE tid \notin blockedThreads_
      BY <2>1, <3>2, DeleteReadyFacts DEF Inv, TypeOK, OnePlace, Ready
    <3> QED
      BY <3>1, <3>2
  <2>3. Sleeping' = Sleeping
    BY <2>1 DEF Sleeping
  <2> QED
    BY <1>1, <1>2, <1>4, <2>1, <2>2, <2>3, StateFacts, StayInv
       DEF Inv, TypeOK, OnePlace, MainSchedulable
<1> QED
  BY <1>3, <1>4

\* uthread_terminate, whoever is terminated.
LEMMA TerminateInv ==
  ASSUME Inv, NEW tid \in TidArguments, terminateThread(tid)
  PROVE  Inv'
<1>1. CASE tid = 0 /\ exitProcess
  <2>1. /\ DOMAIN threads_' = Live /\ threads_' \in [Live -> Thread] /\ tidToTerminate_' = NoTid
        /\ UNCHANGED <<readyQueue_, blockedThreads_, sleepThreads_,
                       currentRunningThread_, total_quantum_>>
        /\ process' = "exited"
    BY <1>1, StateFacts DEF exitProcess
  <2>2. Live' = Live /\ Ready' = Ready /\ Sleeping' = Sleeping
    BY <2>1, StateFacts DEF Live, Ready, Sleeping
  <2>3. TypeOK'
    BY <2>1, StateFacts DEF Inv, TypeOK
  <2>4. OnePlace'
    BY <2>1, <2>2 DEF Inv, OnePlace
  <2>5. MainSchedulable' /\ NoUndefinedBehaviour'
    BY <2>1, <2>2 DEF Inv, MainSchedulable, NoUndefinedBehaviour
  <2> QED
    BY <2>3, <2>4, <2>5 DEF Inv
<1>2. CASE deleteTerminatedThread
  BY <1>2, DeletionInv
<1>3. CASE /\ tid # 0 /\ tid \in DOMAIN Remaining /\ tid = currentRunningThread_
           /\ preempt(Remaining, readyQueue_, "Termination")
           /\ UNCHANGED <<blockedThreads_, sleepThreads_>>
  <2>1. 0 \in ToSet(readyQueue_)
    BY <1>3, StateFacts DEF Ready
  <2>2. /\ ToSet(readyQueue_) \cap blockedThreads_' = {}
        /\ ToSet(readyQueue_) \cap SleepingTids(sleepThreads_') = {}
        /\ blockedThreads_' \cap SleepingTids(sleepThreads_') = {}
        /\ Live \ {currentRunningThread_}
             = ToSet(readyQueue_) \cup blockedThreads_' \cup SleepingTids(sleepThreads_')
    BY <1>3 DEF Inv, OnePlace, Ready, Sleeping
  <2> QED
    BY <1>3, <2>1, <2>2, StateFacts, SwitchInv DEF Inv, TypeOK, OnePlace, terminateThread
<1>4. CASE /\ tid # 0 /\ tid \in DOMAIN Remaining /\ tid # currentRunningThread_
           /\ terminateOtherThread(tid)
  BY <1>4, StateFacts, TerminateOtherInv
<1> QED
  BY <1>1, <1>2, <1>3, <1>4 DEF terminateThread

\* Blocking another thread moves it from the queue, or from the sleepers, to
\* the blocked threads.
LEMMA BlockOtherInv ==
  ASSUME Inv, NEW tid \in Live, tid # 0, tid # currentRunningThread_,
         tid \notin blockedThreads_, blockOtherThread(tid)
  PROVE  Inv'
<1>1. /\ DOMAIN threads_' = Live /\ threads_' \in [Live -> Thread] /\ tidToTerminate_' = NoTid
      /\ blockedThreads_' = blockedThreads_ \cup {tid}
      /\ UNCHANGED <<currentRunningThread_, total_quantum_, process>>
  BY StateFacts DEF blockOtherThread
<1>2. Live' = Live
  BY <1>1, StateFacts DEF Live
<1>3. CASE tid \in Sleeping
  <2>1. sleepThreads_' = eraseSleeper(sleepThreads_, tid) /\ UNCHANGED readyQueue_
    BY <1>3 DEF blockOtherThread, Sleeping
  <2>2. /\ sleepThreads_' \in Seq(Sleeper) /\ DistinctTids(sleepThreads_)'
        /\ Sleeping' = Sleeping \ {tid}
    BY <1>3, <2>1, StateFacts, EraseSleeperFacts DEF Sleeping, Inv, OnePlace
  <2>3. Ready' = Ready
    BY <2>1 DEF Ready
  <2> QED
    BY <1>1, <1>2, <1>3, <2>1, <2>2, <2>3, StateFacts, StayInv
       DEF Inv, TypeOK, OnePlace, MainSchedulable
<1>4. CASE tid \notin Sleeping
  <2>1. readyQueue_' = deleteReadyThread(readyQueue_, tid) /\ UNCHANGED sleepThreads_
    BY <1>4 DEF blockOtherThread, Sleeping
  <2>2. /\ readyQueue_' \in Seq(Tids) /\ IsInjective(readyQueue_)'
        /\ Ready' = Ready \ {tid}
    BY <2>1, DeleteReadyFacts DEF Inv, TypeOK, OnePlace, Ready
  <2>3. Sleeping' = Sleeping
    BY <2>1 DEF Sleeping
  <2> QED
    BY <1>1, <1>2, <1>4, <2>1, <2>2, <2>3, StateFacts, StayInv
       DEF Inv, TypeOK, OnePlace, MainSchedulable
<1> QED
  BY <1>3, <1>4

\* uthread_block, whoever is blocked.
LEMMA BlockInv ==
  ASSUME Inv, NEW tid \in TidArguments, blockThread(tid)
  PROVE  Inv'
<1>1. CASE deleteTerminatedThread
  BY <1>1, DeletionInv
<1>2. CASE /\ ~blockRefused(tid) /\ tid \notin blockedThreads_ /\ tid = currentRunningThread_
           /\ blockedThreads_' = blockedThreads_ \cup {tid}
           /\ preempt(Remaining, readyQueue_, "Blocking")
           /\ UNCHANGED sleepThreads_
  <2>1. 0 \in ToSet(readyQueue_)
    BY <1>2, StateFacts DEF Ready, blockRefused
  <2>2. blockedThreads_' \subseteq Tids
    BY <1>2 DEF Inv, TypeOK
  <2>3. /\ ToSet(readyQueue_) \cap blockedThreads_' = {}
        /\ ToSet(readyQueue_) \cap SleepingTids(sleepThreads_') = {}
        /\ blockedThreads_' \cap SleepingTids(sleepThreads_') = {}
        /\ Live = ToSet(readyQueue_) \cup blockedThreads_' \cup SleepingTids(sleepThreads_')
    BY <1>2 DEF Inv, OnePlace, Ready, Sleeping
  <2>4. process = "up"
    BY DEF blockThread
  <2>5. /\ readyQueue_ \in Seq(Tids) /\ IsInjective(readyQueue_)
        /\ sleepThreads_' \in Seq(Sleeper) /\ DistinctTids(sleepThreads_')
    BY <1>2, StateFacts DEF Inv, TypeOK, OnePlace
  <2>6. Remaining \in [Live -> Thread]
    BY StateFacts
  <2>7. preempt(Remaining, readyQueue_, "Blocking")
    BY <1>2
  <2> QED
    BY <2>1, <2>2, <2>3, <2>4, <2>5, <2>6, <2>7, SwitchInv
<1>3. CASE /\ ~blockRefused(tid) /\ tid \notin blockedThreads_ /\ tid # currentRunningThread_
           /\ blockOtherThread(tid)
  BY <1>3, StateFacts, BlockOtherInv DEF blockRefused
<1> QED
  BY <1>1, <1>2, <1>3 DEF blockThread

\* uthread_resume moves a blocked thread back to the sleepers or to the queue.
LEMMA ResumeInv ==
  ASSUME Inv, NEW tid \in TidArguments, resumeThread(tid)
  PROVE  Inv'
<1>1. CASE deleteTerminatedThread
  BY <1>1, DeletionInv
<1>2. CASE tid \in DOMAIN Remaining /\ tid \in blockedThreads_ /\ unblock(tid)
  <2> DEFINE until == threads_[tid].sleepUntil_
  <2>1. /\ DOMAIN threads_' = Live /\ threads_' \in [Live -> Thread] /\ tidToTerminate_' = NoTid
        /\ blockedThreads_' = blockedThreads_ \ {tid}
        /\ UNCHANGED <<currentRunningThread_, total_quantum_, process>>
    BY <1>2, StateFacts DEF unblock
  <2>2. Live' = Live
    BY <2>1, StateFacts DEF Live
  <2>3. tid \in Tids /\ tid \in Live /\ tid \notin Sleeping /\ tid \notin Ready /\ until \in Int
    BY <1>2, StateFacts DEF Inv, TypeOK, OnePlace, Live, Thread
  <2>4. CASE until # NotSleeping
    <3>1. /\ sleepThreads_' = insertSleeper(sleepThreads_, tid, until)
          /\ UNCHANGED readyQueue_
      BY <1>2, <2>3, <2>4 DEF unblock, Sleeping
    <3> HIDE DEF until
    <3>2. /\ sleepThreads_' \in Seq(Sleeper) /\ DistinctTids(sleepThreads_)'
          /\ Sleeping' = Sleeping \cup {tid}
      BY <2>3, <3>1, StateFacts, InsertSleeperFacts DEF Sleeping, Inv, OnePlace
    <3>3. Ready' = Ready
      BY <3>1 DEF Ready
    <3> QED
      BY <1>2, <2>1, <2>2, <2>3, <3>1, <3>2, <3>3, StateFacts, StayInv
         DEF Inv, TypeOK, OnePlace, MainSchedulable
  <2>5. CASE until = NotSleeping
    <3>1. readyQueue_' = Append(readyQueue_, tid) /\ UNCHANGED sleepThreads_
      BY <1>2, <2>5 DEF unblock
    <3>2. /\ readyQueue_' \in Seq(Tids) /\ IsInjective(readyQueue_)'
          /\ Ready' = Ready \cup {tid}
      BY <2>3, <3>1, AppendFacts DEF Inv, TypeOK, OnePlace, Ready
    <3>3. Sleeping' = Sleeping
      BY <3>1 DEF Sleeping
    <3> QED
      BY <1>2, <2>1, <2>2, <2>3, <3>1, <3>2, <3>3, StateFacts, StayInv
         DEF Inv, TypeOK, OnePlace, MainSchedulable
  <2> QED
    BY <2>4, <2>5
<1> QED
  BY <1>1, <1>2 DEF resumeThread

\* A sum of ints, wrapped, is an integer.
LEMMA WrappedFacts == \A n \in Int : Wrapped(n) \in Int
BY IntMaxAssumption DEF Wrapped

\* uthread_sleep puts the running thread among the sleepers.
LEMMA SleepInv ==
  ASSUME Inv, NEW num_quantums \in Int, sleepThread(num_quantums)
  PROVE  Inv'
<1>1. CASE deleteTerminatedThread
  BY <1>1, DeletionInv
<1>2. CASE ~deleteTerminatedThread
  <2> DEFINE until == Wrapped(total_quantum_ + num_quantums)
             self == currentRunningThread_
             th == [Remaining EXCEPT ![self].sleepUntil_ = until]
  <2>1. /\ process = "up" /\ self # 0
        /\ sleepThreads_' = insertSleeper(sleepThreads_, self, until)
        /\ preempt(th, readyQueue_, "Blocking")
        /\ UNCHANGED blockedThreads_
    BY <1>2 DEF sleepThread
  <2>2. until \in Int
    <3>1. total_quantum_ + num_quantums \in Int
      BY MaxQuantaAssumption, IntMaxAssumption DEF Inv, TypeOK
    <3> QED
      BY <3>1, WrappedFacts
  <2> HIDE DEF until
  <2>3. th \in [Live -> Thread]
    <3>1. [Remaining[self] EXCEPT !.sleepUntil_ = until] \in Thread
      BY <2>2, StateFacts DEF Thread
    <3> QED
      BY <3>1, StateFacts
  <2>4. self \in Tids /\ self \notin Sleeping
    BY DEF Inv, TypeOK, OnePlace
  <2>5. /\ sleepThreads_' \in Seq(Sleeper) /\ DistinctTids(sleepThreads_')
        /\ SleepingTids(sleepThreads_') = Sleeping \cup {self}
    BY <2>1, <2>2, <2>4, StateFacts, InsertSleeperFacts DEF Sleeping, Inv, OnePlace
  <2>6. 0 \in ToSet(readyQueue_)
    BY <2>1, StateFacts DEF Ready
  <2>7. /\ ToSet(readyQueue_) \cap blockedThreads_' = {}
        /\ ToSet(readyQueue_) \cap SleepingTids(sleepThreads_') = {}
        /\ blockedThreads_' \cap SleepingTids(sleepThreads_') = {}
        /\ Live = ToSet(readyQueue_) \cup blockedThreads_' \cup SleepingTids(sleepThreads_')
    BY <2>1, <2>5 DEF Inv, OnePlace, Ready
  <2>8. blockedThreads_' \subseteq Tids
    BY <2>1 DEF Inv, TypeOK
  <2>9. readyQueue_ \in Seq(Tids) /\ IsInjective(readyQueue_)
    BY DEF Inv, TypeOK, OnePlace
  <2> HIDE DEF th
  <2> QED
    BY <2>1, <2>3, <2>5, <2>6, <2>7, <2>8, <2>9, SwitchInv
<1> QED
  BY <1>1, <1>2

-----------------------------------------------------------------------------
\* Every step of the scheduler keeps the invariant.
LEMMA NextInv == Inv /\ [Next]_vars => Inv'
<1> SUFFICES ASSUME Inv, [Next]_vars PROVE Inv'
  OBVIOUS
<1>1. CASE timerHandler
  BY <1>1, TimerInv
<1>2. ASSUME NEW hasFunction \in BOOLEAN, spawnThread(hasFunction) PROVE Inv'
  BY <1>2, SpawnInv
<1>3. ASSUME NEW tid \in TidArguments, terminateThread(tid) PROVE Inv'
  BY <1>3, TerminateInv
<1>4. CASE getThreadQuantums
  BY <1>4, DeletionInv DEF getThreadQuantums
<1>5. ASSUME NEW tid \in TidArguments, blockThread(tid) PROVE Inv'
  BY <1>5, BlockInv
<1>6. ASSUME NEW tid \in TidArguments, resumeThread(tid) PROVE Inv'
  BY <1>6, ResumeInv
<1>7. ASSUME NEW num_quantums \in SleepRequests, sleepThread(num_quantums) PROVE Inv'
  BY <1>7, SleepInv, SleepRequestsAssumption, IntMaxAssumption
<1>8. CASE UNCHANGED vars
  <2>1. Live' = Live /\ Ready' = Ready /\ Sleeping' = Sleeping
    BY <1>8 DEF vars, Live, Ready, Sleeping
  <2> QED
    BY <1>8, <2>1 DEF vars, Inv, TypeOK, OnePlace, MainSchedulable, NoUndefinedBehaviour
<1> QED
  BY <1>1, <1>2, <1>3, <1>4, <1>5, <1>6, <1>7, <1>8 DEF Next, apiCall, stopped

\* The invariant holds in every reachable state.
THEOREM SchedulerInvariant == Spec => []Inv
<1>1. Init => Inv
  BY InitInv
<1>2. Inv /\ [Next]_vars => Inv'
  BY NextInv
<1> QED
  BY <1>1, <1>2, PTL DEF Spec

\* The scheduler's variables have their types.
THEOREM TypeCorrect == Spec => []TypeOK
<1>1. Inv => TypeOK
  BY DEF Inv
<1> QED
  BY <1>1, SchedulerInvariant, PTL

\* Every live thread is running, ready, blocked or asleep, and only one of
\* these, once; no terminated thread is any of them.
THEOREM EveryThreadInOnePlace == Spec => []OnePlace
<1>1. Inv => OnePlace
  BY DEF Inv
<1> QED
  BY <1>1, SchedulerInvariant, PTL

\* Main is always running or ready.
THEOREM MainAlwaysSchedulable == Spec => []MainSchedulable
<1>1. Inv => MainSchedulable
  BY DEF Inv
<1> QED
  BY <1>1, SchedulerInvariant, PTL

\* The assumption in _applySigJmp that the ready queue is never empty is right.
THEOREM ReadyQueueNeverEmptyAtSwitch == Spec => []NoUndefinedBehaviour
<1>1. Inv => NoUndefinedBehaviour
  BY DEF Inv
<1> QED
  BY <1>1, SchedulerInvariant, PTL
=============================================================================
