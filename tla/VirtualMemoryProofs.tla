------------------------ MODULE VirtualMemoryProofs -------------------------
(***************************************************************************)
(* For all widths, all numbers of frames that leave one beside the tables  *)
(* of a walk, and all programs: the frames in use form a tree, the walk of *)
(* a call stays linked however the frame for its next level is found, each *)
(* page is in one place, and the calls implement a flat memory.            *)
(*                                                                         *)
(* The order of the lemmas: numbers, the rows that the number of a page    *)
(* gives, walks in a RAM, the tree that the walks make and what setting or *)
(* clearing an entry does to it, then the steps of findFrame and access.   *)
(***************************************************************************)
EXTENDS VirtualMemory, TLAPS, FiniteSetTheorems, FunctionTheorems

-----------------------------------------------------------------------------
(* Numbers *)

\* A set of natural numbers has a least one.
LEMMA MinFacts ==
  ASSUME NEW S \in SUBSET Nat, S # {}
  PROVE  /\ Min(S) \in S
         /\ \A x \in S : Min(S) <= x
<1>1. PICK x \in S : \A y \in S : ~(y < x)
  <2>1. IsWellFoundedOn(OpToRel(<, Nat), Nat)
    BY NatLessThanWellFounded
  <2>2. PICK x \in S : \A y \in S : ~(<<y, x>> \in OpToRel(<, Nat))
    BY <2>1, WFMin
  <2>3. \A y \in S : y < x => <<y, x>> \in OpToRel(<, Nat)
    BY <2>2 DEF OpToRel
  <2> QED
    BY <2>2, <2>3
<1>2. \E m \in S : \A y \in S : m <= y
  BY <1>1
<1> QED
  BY <1>2 DEF Min

\* A set of natural numbers with a bound has a greatest one.
LEMMA MaxFacts ==
  ASSUME NEW S \in SUBSET Nat, S # {}, NEW n \in Nat, \A x \in S : x <= n
  PROVE  /\ Max(S) \in S
         /\ \A x \in S : x <= Max(S)
<1> DEFINE bounds == {b \in Nat : \A x \in S : x <= b}
<1>1. bounds \in SUBSET Nat /\ n \in bounds
  OBVIOUS
<1>2. Min(bounds) \in bounds /\ \A b \in bounds : Min(bounds) <= b
  BY <1>1, MinFacts
<1> DEFINE m == Min(bounds)
<1>3. m \in Nat /\ \A x \in S : x <= m
  BY <1>2
<1> HIDE DEF m
<1>4. m \in S
  <2> SUFFICES ASSUME m \notin S PROVE FALSE
    OBVIOUS
  <2>1. PICK x : x \in S
    OBVIOUS
  <2>2. m > 0
    BY <1>3, <2>1
  <2>3. \A y \in S : y <= m - 1
    BY <1>3
  <2>4. m - 1 \in bounds
    BY <1>3, <2>2, <2>3
  <2> QED
    BY <1>2, <1>3, <2>4 DEF m
<1> QED
  BY <1>3, <1>4 DEF Max

\* A power of two counts the subsets of an interval.
LEMMA PowerFacts ==
  ASSUME NEW n \in Nat
  PROVE  /\ 2 ^ n \in Nat \ {0}
         /\ IsFiniteSet(1 .. n) /\ IsFiniteSet(SUBSET (1 .. n))
         /\ Cardinality(1 .. n) = n
         /\ 2 ^ n = Cardinality(SUBSET (1 .. n))
<1>1. 1 \in Int /\ n \in Int /\ n >= 0
  OBVIOUS
<1>2. IsFiniteSet(1 .. n) /\ Cardinality(1 .. n) = IF 1 > n THEN 0 ELSE n - 1 + 1
  BY <1>1, FS_Interval, Zenon
<1>3. Cardinality(1 .. n) = n
  BY <1>2
<1>4. IsFiniteSet(SUBSET (1 .. n)) /\ Cardinality(SUBSET (1 .. n)) = 2 ^ n
  BY <1>2, <1>3, FS_SUBSET
<1>5. Cardinality(SUBSET (1 .. n)) \in Nat
  BY <1>4, FS_CardinalityType
<1>6. SUBSET (1 .. n) # {}
  OBVIOUS
<1>7. Cardinality(SUBSET (1 .. n)) # 0
  BY <1>4, <1>6, FS_EmptySet
<1> QED
  BY <1>2, <1>3, <1>4, <1>5, <1>7

\* To choose a subset of an interval is to choose one of its first part and one
\* of its last.
LEMMA PowerOfSum ==
  ASSUME NEW a \in Nat, NEW b \in Nat
  PROVE  2 ^ (a + b) = 2 ^ a * 2 ^ b
<1> DEFINE A == 1 .. a
           B == a + 1 .. a + b
           f == [pair \in (SUBSET A) \X (SUBSET B) |-> pair[1] \cup pair[2]]
<1>1. A \cup B = 1 .. a + b /\ A \cap B = {}
  OBVIOUS
<1>0. a + b \in Nat
  OBVIOUS
<1>2. /\ IsFiniteSet(SUBSET A) /\ 2 ^ a = Cardinality(SUBSET A)
      /\ 2 ^ (a + b) = Cardinality(SUBSET (1 .. a + b))
  BY <1>0, PowerFacts, Zenon
<1>3. IsFiniteSet(B) /\ Cardinality(B) = b
  <2>1. \A lo, hi \in Int : /\ IsFiniteSet(lo .. hi)
                           /\ Cardinality(lo .. hi) = IF lo > hi THEN 0 ELSE hi - lo + 1
    BY FS_Interval, Zenon
  <2> QED
    BY <2>1
<1>4. IsFiniteSet(SUBSET B) /\ Cardinality(SUBSET B) = 2 ^ b
  BY <1>3, FS_SUBSET
<1> HIDE DEF A, B
<1>5. f \in Bijection((SUBSET A) \X (SUBSET B), SUBSET (A \cup B))
  <2>1. f \in [(SUBSET A) \X (SUBSET B) -> SUBSET (A \cup B)]
    OBVIOUS
  <2>2. ASSUME NEW p \in (SUBSET A) \X (SUBSET B), NEW q \in (SUBSET A) \X (SUBSET B), f[p] = f[q]
        PROVE  p = q
    <3>1. f[p] \cap A = p[1] /\ f[p] \cap B = p[2] /\ f[q] \cap A = q[1] /\ f[q] \cap B = q[2]
      BY <1>1
    <3> QED
      BY <2>2, <3>1
  <2>3. ASSUME NEW T \in SUBSET (A \cup B)
        PROVE  \E p \in (SUBSET A) \X (SUBSET B) : f[p] = T
    <3>1. <<T \cap A, T \cap B>> \in (SUBSET A) \X (SUBSET B)
      OBVIOUS
    <3>2. f[<<T \cap A, T \cap B>>] = T
      BY <3>1
    <3> QED
      BY <3>1, <3>2
  <2> HIDE DEF f
  <2> QED
    BY <2>1, <2>2, <2>3, Fun_IsBij
<1>6. /\ IsFiniteSet((SUBSET A) \X (SUBSET B))
      /\ Cardinality((SUBSET A) \X (SUBSET B)) = Cardinality(SUBSET A) * Cardinality(SUBSET B)
  BY <1>2, <1>4, FS_Product
<1>7. Cardinality(SUBSET (A \cup B)) = Cardinality((SUBSET A) \X (SUBSET B))
  <2>1. ExistsBijection((SUBSET A) \X (SUBSET B), SUBSET (A \cup B))
    BY <1>5 DEF ExistsBijection
  <2> QED
    BY <1>6, <2>1, FS_Bijection
<1> QED
  BY <1>1, <1>2, <1>4, <1>6, <1>7

\* Division by one positive number.
LEMMA DivisionFacts ==
  ASSUME NEW a \in Nat, NEW b \in Nat \ {0}
  PROVE  /\ a \div b \in Nat
         /\ a % b \in 0 .. b - 1
         /\ a = b * (a \div b) + (a % b)
  OBVIOUS

\* A quotient is the only number whose multiple is next below.
LEMMA QuotientFacts ==
  ASSUME NEW a \in Nat, NEW b \in Nat \ {0}, NEW q \in Nat, b * q <= a, a < b * q + b
  PROVE  a \div b = q
<1> DEFINE x == a \div b
<1>1. x \in Nat /\ b * x <= a /\ a < b * x + b
  BY DivisionFacts
<1> HIDE DEF x
<1>2. ASSUME NEW u \in Nat, NEW v \in Nat, u < v PROVE b * u + b <= b * v
  <2>1. PICK k \in Nat : v = u + 1 + k
    <3>1. v - u - 1 \in Nat /\ v = u + 1 + (v - u - 1)
      BY <1>2
    <3> QED
      BY <3>1
  <2>2. b * v = b * u + b + b * k
    BY <2>1
  <2>3. b * k \in Nat
    OBVIOUS
  <2> QED
    BY <2>2, <2>3
<1>3. b * x \in Nat /\ b * q \in Nat
  BY <1>1
<1>4. ~(x < q)
  BY <1>1, <1>2, <1>3
<1>5. ~(q < x)
  BY <1>1, <1>2, <1>3
<1>6. x = q
  BY <1>1, <1>4, <1>5
<1> QED
  BY <1>6 DEF x

\* To divide twice is to divide by the product.
LEMMA DivisionTwice ==
  ASSUME NEW a \in Nat, NEW b \in Nat \ {0}, NEW c \in Nat \ {0}
  PROVE  (a \div b) \div c = a \div (b * c)
<1> DEFINE x == a \div b
           q == x \div c
           r == a % b
           s == x % c
<1>1. x \in Nat /\ r \in 0 .. b - 1 /\ a = b * x + r
  BY DivisionFacts
<1>2. q \in Nat /\ s \in 0 .. c - 1 /\ x = c * q + s
  BY <1>1, DivisionFacts
<1> HIDE DEF x, q, r, s
<1>3. b * c \in Nat \ {0}
  OBVIOUS
<1>4. b * x = (b * c) * q + b * s
  BY <1>1, <1>2
<1>5. b * s \in Nat /\ b * s + b <= b * c
  <2>1. PICK k \in Nat : c = s + 1 + k
    <3>1. c - s - 1 \in Nat /\ c = s + 1 + (c - s - 1)
      BY <1>2
    <3> QED
      BY <3>1
  <2>2. b * c = b * s + b + b * k
    BY <1>2, <2>1
  <2>3. b * k \in Nat /\ b * s \in Nat
    BY <1>2
  <2> QED
    BY <2>2, <2>3
<1>6. (b * c) * q \in Nat
  BY <1>2, <1>3
<1>7. (b * c) * q <= a /\ a < (b * c) * q + b * c
  <2> DEFINE m == (b * c) * q
             t == b * s
             u == b * x
             n == b * c
  <2>1. /\ m \in Nat /\ t \in Nat /\ n \in Nat
        /\ u = m + t /\ t + b <= n /\ a = u + r /\ r \in 0 .. b - 1
    BY <1>1, <1>3, <1>4, <1>5, <1>6
  <2> HIDE DEF m, t, u, n
  <2>2. m <= a /\ a < m + n
    BY <2>1
  <2> QED
    BY <2>2 DEF m, n
<1>8. a \div (b * c) = q
  BY <1>2, <1>3, <1>7, QuotientFacts
<1> QED
  BY <1>8 DEF q, x

-----------------------------------------------------------------------------
(* Pages and rows *)

\* The sizes of MemoryConstants.h fit together.
LEMMA SizeFacts ==
  /\ PAGE_SIZE \in Nat \ {0} /\ NUM_PAGES \in Nat \ {0} /\ TABLES_DEPTH \in Nat
  /\ NUM_FRAMES \in Nat /\ NUM_FRAMES > TABLES_DEPTH
  /\ VIRTUAL_MEMORY_SIZE = NUM_PAGES * PAGE_SIZE
  /\ NUM_PAGES <= 2 ^ (TABLES_DEPTH * OFFSET_WIDTH)
<1> DEFINE O == OFFSET_WIDTH
           V == VIRTUAL_ADDRESS_WIDTH
           D == TABLES_DEPTH
<1>1. O \in Nat \ {0} /\ V \in Nat /\ V >= O /\ V - 1 \in Nat /\ V - O \in Nat
  BY WidthsAssumption
<1>2. D = (V - 1) \div O
  BY DEF TABLES_DEPTH
<1>3. D \in Nat /\ V - 1 < O * D + O
  BY <1>1, <1>2, DivisionFacts
<1> HIDE DEF O, V, D
<1>4. D * O \in Nat /\ V - O <= D * O /\ D * O - (V - O) \in Nat
  <2>1. D * O \in Nat /\ O * D = D * O
    BY <1>1, <1>3
  <2> QED
    BY <1>1, <1>3, <2>1
<1>5. 2 ^ (V - O) \in Nat \ {0} /\ 2 ^ O \in Nat \ {0} /\ 2 ^ (D * O - (V - O)) \in Nat \ {0}
  BY <1>1, <1>4, PowerFacts
<1>6. 2 ^ (V - O + O) = 2 ^ (V - O) * 2 ^ O
  BY <1>1, PowerOfSum
<1>7. V - O + O = V
  BY <1>1
<1>8. 2 ^ (V - O + (D * O - (V - O))) = 2 ^ (V - O) * 2 ^ (D * O - (V - O))
  BY <1>1, <1>4, PowerOfSum
<1>9. V - O + (D * O - (V - O)) = D * O
  BY <1>1, <1>4
<1>10. ASSUME NEW x \in Nat \ {0}, NEW y \in Nat \ {0} PROVE x <= x * y
  <2>1. x * y = x + x * (y - 1) /\ y - 1 \in Nat
    OBVIOUS
  <2>2. x * (y - 1) \in Nat
    BY <2>1
  <2> QED
    BY <2>1, <2>2
<1>11. 2 ^ (V - O) <= 2 ^ (D * O)
  BY <1>5, <1>8, <1>9, <1>10
<1> QED
  BY <1>3, <1>5, <1>6, <1>7, <1>11, WidthsAssumption, FramesAssumption
     DEF PAGE_SIZE, NUM_PAGES, VIRTUAL_MEMORY_SIZE, O, V, D

\* An address in range lies in a page, at an offset, and nowhere else.
LEMMA AddressFacts ==
  ASSUME NEW a \in Nat
  PROVE  /\ fetchOffset(a) \in Rows
         /\ fetchPageAddress(a) \in Nat
         /\ a = PAGE_SIZE * fetchPageAddress(a) + fetchOffset(a)
         /\ a < VIRTUAL_MEMORY_SIZE => fetchPageAddress(a) \in Pages
<1>1. /\ fetchOffset(a) \in Rows /\ fetchPageAddress(a) \in Nat
      /\ a = PAGE_SIZE * fetchPageAddress(a) + fetchOffset(a)
  BY SizeFacts, DivisionFacts DEF fetchOffset, fetchPageAddress, Rows
<1>2. ASSUME a < VIRTUAL_MEMORY_SIZE, fetchPageAddress(a) >= NUM_PAGES PROVE FALSE
  <2> DEFINE p == fetchPageAddress(a)
             S == PAGE_SIZE
             n == NUM_PAGES
  <2> HIDE DEF p
  <2>1. p - n \in Nat /\ S \in Nat /\ n \in Nat
    BY <1>1, <1>2, SizeFacts DEF p
  <2>2. S * p = n * S + S * (p - n)
    BY <1>1, <2>1 DEF p
  <2>3. S * (p - n) \in Nat
    BY <2>1
  <2>4. a >= n * S
    BY <1>1, <2>1, <2>2, <2>3 DEF p, Rows
  <2> QED
    BY <1>2, <2>1, <2>4, SizeFacts
<1> QED
  BY <1>1, <1>2, SizeFacts DEF Pages

\* The rows that a walk takes to a page are the digits of its number.
quotient(page, digits) == page \div 2 ^ (digits * OFFSET_WIDTH)

\* A quotient loses its last digit at each level: that digit is the row there.
LEMMA DigitFacts ==
  ASSUME NEW page \in Nat
  PROVE  /\ \A k \in Nat : quotient(page, k) \in Nat
         /\ quotient(page, 0) = page
         /\ \A d \in 0 .. TABLES_DEPTH - 1 :
              /\ fetchDepthOffset(page, d) \in Rows
              /\ quotient(page, TABLES_DEPTH - d - 1)
                   = PAGE_SIZE * quotient(page, TABLES_DEPTH - d) + fetchDepthOffset(page, d)
<1>1. ASSUME NEW k \in Nat
      PROVE  /\ 2 ^ (k * OFFSET_WIDTH) \in Nat \ {0} /\ quotient(page, k) \in Nat
             /\ quotient(page, k + 1) = quotient(page, k) \div PAGE_SIZE
  <2>1. k * OFFSET_WIDTH \in Nat /\ (k + 1) * OFFSET_WIDTH = k * OFFSET_WIDTH + OFFSET_WIDTH
    BY WidthsAssumption
  <2>2. 2 ^ (k * OFFSET_WIDTH) \in Nat \ {0}
    BY <2>1, PowerFacts
  <2>3. 2 ^ ((k + 1) * OFFSET_WIDTH) = 2 ^ (k * OFFSET_WIDTH) * PAGE_SIZE
    BY <2>1, PowerOfSum, WidthsAssumption DEF PAGE_SIZE
  <2>4. quotient(page, k) \in Nat
    BY <2>2, DivisionFacts DEF quotient
  <2>5. quotient(page, k + 1) = quotient(page, k) \div PAGE_SIZE
    BY <2>2, <2>3, SizeFacts, DivisionTwice DEF quotient
  <2> QED
    BY <2>2, <2>4, <2>5
<1>2. quotient(page, 0) = page
  <2>1. 0 * OFFSET_WIDTH = 0 /\ 2 ^ 0 = 1
    BY WidthsAssumption
  <2>2. page \div 1 = page
    BY QuotientFacts
  <2> QED
    BY <2>1, <2>2 DEF quotient
<1>3. ASSUME NEW d \in 0 .. TABLES_DEPTH - 1
      PROVE  /\ fetchDepthOffset(page, d) \in Rows
             /\ quotient(page, TABLES_DEPTH - d - 1)
                  = PAGE_SIZE * quotient(page, TABLES_DEPTH - d) + fetchDepthOffset(page, d)
  <2> DEFINE k == TABLES_DEPTH - d - 1
  <2>1. k \in Nat /\ k + 1 = TABLES_DEPTH - d
    BY SizeFacts
  <2> HIDE DEF k
  <2>2. /\ quotient(page, k) \in Nat
        /\ quotient(page, k + 1) = quotient(page, k) \div PAGE_SIZE
    BY <1>1, <2>1
  <2>3. /\ quotient(page, k) % PAGE_SIZE \in 0 .. PAGE_SIZE - 1
        /\ quotient(page, k)
             = PAGE_SIZE * (quotient(page, k) \div PAGE_SIZE) + (quotient(page, k) % PAGE_SIZE)
    BY <2>2, SizeFacts, DivisionFacts
  <2>4. fetchDepthOffset(page, d) = quotient(page, k) % PAGE_SIZE
    BY DEF fetchDepthOffset, quotient, k
  <2>5. /\ fetchDepthOffset(page, d) \in Rows
        /\ quotient(page, k) = PAGE_SIZE * quotient(page, k + 1) + fetchDepthOffset(page, d)
    BY <2>2, <2>3, <2>4 DEF Rows
  <2> QED
    BY <2>1, <2>5 DEF k
<1> QED
  BY <1>1, <1>2, <1>3

\* The walks to two pages take the same rows down to a depth.
SameWay(p, q, depth) ==
  \A d \in 0 .. depth - 1 : fetchDepthOffset(p, d) = fetchDepthOffset(q, d)

\* Pages that have the same rows at all depths are the same page.
LEMMA SameWayToPage ==
  ASSUME NEW p \in Pages, NEW q \in Pages, SameWay(p, q, TABLES_DEPTH)
  PROVE  p = q
<1> DEFINE D == TABLES_DEPTH
           differ == {d \in 0 .. D : quotient(p, D - d) # quotient(q, D - d)}
<1>1. p \in Nat /\ q \in Nat /\ D \in Nat
  BY SizeFacts DEF Pages
<1>2. quotient(p, D) = 0 /\ quotient(q, D) = 0
  <2>1. D * OFFSET_WIDTH \in Nat
    BY <1>1, WidthsAssumption
  <2>2. 2 ^ (D * OFFSET_WIDTH) \in Nat \ {0}
    BY <2>1, PowerFacts
  <2>3. p < 2 ^ (D * OFFSET_WIDTH) /\ q < 2 ^ (D * OFFSET_WIDTH)
    BY <2>2, SizeFacts DEF Pages
  <2>4. \A x \in Nat : x < 2 ^ (D * OFFSET_WIDTH) => x \div 2 ^ (D * OFFSET_WIDTH) = 0
    BY <2>2, QuotientFacts
  <2> QED
    BY <1>1, <2>3, <2>4 DEF quotient
<1> HIDE DEF D
<1>3. differ = {}
  <2> SUFFICES ASSUME differ # {} PROVE FALSE
    OBVIOUS
  <2> DEFINE m == Min(differ)
  <2>1. differ \in SUBSET Nat
    BY <1>1
  <2>2. m \in differ /\ \A d \in differ : m <= d
    BY <2>1, MinFacts
  <2> HIDE DEF m
  <2>3. m \in 1 .. D
    <3>1. D - 0 = D
      BY <1>1
    <3> QED
      BY <1>1, <1>2, <2>2, <3>1
  <2>4. m - 1 \in 0 .. D - 1 /\ m - 1 \notin differ /\ D - (m - 1) - 1 = D - m
    BY <1>1, <2>2, <2>3
  <2>5. quotient(p, D - (m - 1)) = quotient(q, D - (m - 1))
    BY <1>1, <2>4
  <2>6. fetchDepthOffset(p, m - 1) = fetchDepthOffset(q, m - 1)
    BY <2>4 DEF SameWay, D
  <2>7. /\ quotient(p, D - (m - 1) - 1)
             = PAGE_SIZE * quotient(p, D - (m - 1)) + fetchDepthOffset(p, m - 1)
        /\ quotient(q, D - (m - 1) - 1)
             = PAGE_SIZE * quotient(q, D - (m - 1)) + fetchDepthOffset(q, m - 1)
    BY <1>1, <2>4, DigitFacts DEF D
  <2> QED
    BY <2>2, <2>4, <2>5, <2>6, <2>7
<1>4. D \in 0 .. D /\ D - D = 0
  BY <1>1
<1>5. quotient(p, 0) = quotient(q, 0)
  BY <1>3, <1>4
<1> QED
  BY <1>1, <1>5, DigitFacts

\* To take the same way to a depth is an equivalence, kept at lower depths.
LEMMA SameWayFacts ==
  ASSUME NEW p, NEW q, NEW n \in Nat, SameWay(p, q, n)
  PROVE  /\ SameWay(q, p, n)
         /\ \A m \in Nat : m <= n => SameWay(p, q, m)
         /\ \A r : SameWay(q, r, n) => SameWay(p, r, n)
         /\ fetchDepthOffset(p, n) = fetchDepthOffset(q, n) => SameWay(p, q, n + 1)
         /\ \A r : SameWay(p, r, n) => SameWay(q, r, n)
  BY DEF SameWay

-----------------------------------------------------------------------------
(* Walks *)

\* The frame after a table on the way to a page.
after(ram, page, depth, table) ==
  IF depth > 1 /\ table = 0 THEN 0 ELSE ram[table][fetchDepthOffset(page, depth - 1)]

\* The first n frames of a walk, as a function.
isWalk(ram, page, n, f) ==
  f = [depth \in 0 .. n |-> IF depth = 0 THEN 0 ELSE after(ram, page, depth, f[depth - 1])]

\* A walk of any length exists: there is no shortest one that does not.
LEMMA WalkExists ==
  ASSUME NEW ram, NEW page, NEW n \in Nat
  PROVE  \E f : isWalk(ram, page, n, f)
<1> DEFINE without == {k \in Nat : ~ \E f : isWalk(ram, page, k, f)}
<1>1. without = {}
  <2> SUFFICES ASSUME without # {} PROVE FALSE
    OBVIOUS
  <2> DEFINE m == Min(without)
  <2>1. m \in without /\ \A k \in without : m <= k
    BY MinFacts
  <2> HIDE DEF m
  <2>2. CASE m = 0
    <3> DEFINE f == [depth \in 0 .. 0 |-> 0]
    <3>1. isWalk(ram, page, 0, f)
      BY DEF isWalk
    <3> QED
      BY <2>1, <2>2, <3>1
  <2>3. CASE m # 0
    <3>1. m - 1 \in Nat /\ m \in Nat
      BY <2>1, <2>3
    <3>2. PICK f : isWalk(ram, page, m - 1, f)
      BY <2>1, <3>1
    <3> DEFINE value == after(ram, page, m, f[m - 1])
               g == [depth \in 0 .. m |-> IF depth = m THEN value ELSE f[depth]]
    <3> HIDE DEF value
    <3>3. \A depth \in 0 .. m - 1 :
             f[depth] = IF depth = 0 THEN 0 ELSE after(ram, page, depth, f[depth - 1])
      BY <3>2 DEF isWalk
    <3>4. \A depth \in 0 .. m : g[depth] = IF depth = m THEN value ELSE f[depth]
      OBVIOUS
    <3> DEFINE h == [depth \in 0 .. m |-> IF depth = 0 THEN 0 ELSE after(ram, page, depth, g[depth - 1])]
    <3>5. ASSUME NEW depth \in 0 .. m PROVE g[depth] = h[depth]
      <4>0. h[depth] = IF depth = 0 THEN 0 ELSE after(ram, page, depth, g[depth - 1])
        OBVIOUS
      <4> HIDE DEF g, h
      <4>1. CASE depth = 0
        BY <2>3, <3>1, <3>3, <3>4, <4>0, <4>1
      <4>2. CASE depth \in 1 .. m - 1
        <5>1. depth - 1 \in 0 .. m - 1 /\ depth - 1 # m /\ depth # m
          BY <3>1, <4>2
        <5>2. g[depth - 1] = f[depth - 1] /\ g[depth] = f[depth]
          BY <3>1, <3>4, <4>2, <5>1
        <5> QED
          BY <3>3, <4>0, <4>2, <5>2
      <4>3. CASE depth = m
        <5>1. g[depth - 1] = f[m - 1] /\ g[depth] = value
          BY <3>1, <3>4, <4>3
        <5> QED
          BY <2>3, <4>0, <4>3, <5>1 DEF value
      <4> QED
        BY <3>1, <4>1, <4>2, <4>3
    <3>6. g = h
      BY <3>5
    <3>7. isWalk(ram, page, m, g)
      BY <3>6 DEF isWalk
    <3> QED
      BY <2>1, <3>7
  <2> QED
    BY <2>2, <2>3
<1> QED
  BY <1>1

\* The walk starts at the root and goes from each table to the next frame.
LEMMA WalkFacts ==
  ASSUME NEW ram, NEW page
  PROVE  /\ pathIn(ram, page)[0] = 0
         /\ \A d \in 1 .. TABLES_DEPTH :
              pathIn(ram, page)[d] = after(ram, page, d, pathIn(ram, page)[d - 1])
<1> DEFINE f == pathIn(ram, page)
<1>1. f = CHOOSE g : isWalk(ram, page, TABLES_DEPTH, g)
  BY DEF pathIn, isWalk, after
<1> HIDE DEF f
<1>2. isWalk(ram, page, TABLES_DEPTH, f)
  BY <1>1, WalkExists, SizeFacts
<1>3. \A d \in 0 .. TABLES_DEPTH : f[d] = IF d = 0 THEN 0 ELSE after(ram, page, d, f[d - 1])
  BY <1>2 DEF isWalk
<1>4. f[0] = 0 /\ \A d \in 1 .. TABLES_DEPTH : f[d] = after(ram, page, d, f[d - 1])
  BY <1>3, SizeFacts
<1> QED
  BY <1>4 DEF f

\* There is one walk: frames that follow each other as its do are its.
LEMMA OneWalk ==
  ASSUME NEW ram, NEW page, NEW h, NEW n \in 0 .. TABLES_DEPTH, h[0] = 0,
         \A d \in 1 .. n : h[d] = after(ram, page, d, h[d - 1])
  PROVE  \A d \in 0 .. n : pathIn(ram, page)[d] = h[d]
<1> DEFINE f == pathIn(ram, page)
           differ == {d \in 0 .. n : f[d] # h[d]}
<1>1. f[0] = 0 /\ \A d \in 1 .. n : f[d] = after(ram, page, d, f[d - 1])
  BY WalkFacts, SizeFacts
<1> HIDE DEF f
<1>2. differ = {}
  <2> SUFFICES ASSUME differ # {} PROVE FALSE
    OBVIOUS
  <2> DEFINE m == Min(differ)
  <2>1. m \in differ /\ \A d \in differ : m <= d
    BY MinFacts
  <2> HIDE DEF m
  <2>2. m \in 1 .. n
    BY <1>1, <2>1
  <2>3. m - 1 \in 0 .. n /\ m - 1 \notin differ
    BY <2>1, <2>2
  <2>4. f[m - 1] = h[m - 1]
    BY <2>3
  <2> QED
    BY <1>1, <2>1, <2>2, <2>4
<1> QED
  BY <1>2 DEF f

\* Pages whose rows agree down to a depth are reached by the same frames.
LEMMA SameFrames ==
  ASSUME NEW ram, NEW p, NEW q, NEW n \in 0 .. TABLES_DEPTH, SameWay(p, q, n)
  PROVE  \A d \in 0 .. n : pathIn(ram, p)[d] = pathIn(ram, q)[d]
<1> DEFINE h == pathIn(ram, q)
<1>1. h[0] = 0 /\ \A d \in 1 .. n : h[d] = after(ram, q, d, h[d - 1])
  BY WalkFacts, SizeFacts
<1> HIDE DEF h
<1>2. \A d \in 1 .. n : fetchDepthOffset(p, d - 1) = fetchDepthOffset(q, d - 1)
  BY DEF SameWay
<1>3. \A d \in 1 .. n : h[d] = after(ram, p, d, h[d - 1])
  BY <1>1, <1>2 DEF after
<1>4. \A d \in 0 .. n : pathIn(ram, p)[d] = h[d]
  BY <1>1, <1>3, OneWalk
<1> QED
  BY <1>4 DEF h

\* A walk that has met an empty entry meets no frame any more.
LEMMA WalkEnds ==
  ASSUME NEW ram, NEW page, NEW d \in 1 .. TABLES_DEPTH, pathIn(ram, page)[d] = 0,
         NEW e \in d .. TABLES_DEPTH
  PROVE  pathIn(ram, page)[e] = 0
<1> DEFINE f == pathIn(ram, page)
           later == {k \in d .. TABLES_DEPTH : f[k] # 0}
<1>1. f[d] = 0 /\ \A k \in 1 .. TABLES_DEPTH : f[k] = after(ram, page, k, f[k - 1])
  BY WalkFacts
<1> HIDE DEF f
<1>2. later = {}
  <2> SUFFICES ASSUME later # {} PROVE FALSE
    OBVIOUS
  <2> DEFINE m == Min(later)
  <2>1. m \in later /\ \A k \in later : m <= k
    BY MinFacts
  <2> HIDE DEF m
  <2>2. m \in d + 1 .. TABLES_DEPTH /\ m - 1 \in d .. TABLES_DEPTH /\ m - 1 \notin later
    BY <1>1, <2>1, SizeFacts
  <2>3. f[m - 1] = 0
    BY <2>2
  <2>4. f[m] = 0
    BY <1>1, <2>2, <2>3 DEF after
  <2> QED
    BY <2>1, <2>4
<1> QED
  BY <1>2 DEF f

-----------------------------------------------------------------------------
(* Trees *)

frameAt(ram, page, depth) == pathIn(ram, page)[depth]

\* The walk to a page has a frame at this depth.
reaches(ram, page, depth) == depth = 0 \/ frameAt(ram, page, depth) # 0

Used(ram) == {frameAt(ram, page, depth) : page \in Pages, depth \in 1 .. TABLES_DEPTH} \ {0}

\* There is one way to a frame, and each entry of a table leads to some page.
Tree(ram) ==
  /\ ram \in [Frames -> Words]
  /\ \A p \in Pages, d \in 0 .. TABLES_DEPTH : frameAt(ram, p, d) \in Frames
  /\ \A p, q \in Pages : \A d, e \in 1 .. TABLES_DEPTH :
       frameAt(ram, p, d) # 0 /\ frameAt(ram, p, d) = frameAt(ram, q, e) => d = e /\ SameWay(p, q, d)
  /\ \A p \in Pages, d \in 0 .. TABLES_DEPTH - 1, row \in Rows :
       reaches(ram, p, d) /\ ram[frameAt(ram, p, d)][row] # 0
         => \E q \in Pages : SameWay(p, q, d) /\ fetchDepthOffset(q, d) = row

\* The frames of a walk: each is the entry of the one before, from the root on.
LEMMA FrameFacts ==
  ASSUME NEW ram, NEW p \in Pages
  PROVE  /\ frameAt(ram, p, 0) = 0 /\ reaches(ram, p, 0)
         /\ \A d \in 1 .. TABLES_DEPTH :
              frameAt(ram, p, d) = IF reaches(ram, p, d - 1)
                                   THEN ram[frameAt(ram, p, d - 1)][fetchDepthOffset(p, d - 1)]
                                   ELSE 0
         /\ \A d, e \in 0 .. TABLES_DEPTH : e <= d /\ reaches(ram, p, d) => reaches(ram, p, e)
         /\ \A q \in Pages, n \in 0 .. TABLES_DEPTH : SameWay(p, q, n) =>
              \A d \in 0 .. n : frameAt(ram, p, d) = frameAt(ram, q, d)
         /\ \A d \in 0 .. TABLES_DEPTH - 1 : fetchDepthOffset(p, d) \in Rows
<1>1. frameAt(ram, p, 0) = 0
  BY WalkFacts DEF frameAt
<1>2. ASSUME NEW d \in 1 .. TABLES_DEPTH
      PROVE  frameAt(ram, p, d) = IF reaches(ram, p, d - 1)
                                  THEN ram[frameAt(ram, p, d - 1)][fetchDepthOffset(p, d - 1)]
                                  ELSE 0
  <2>1. pathIn(ram, p)[d] = after(ram, p, d, pathIn(ram, p)[d - 1])
    BY WalkFacts
  <2> QED
    BY <2>1, SizeFacts DEF frameAt, after, reaches
<1>3. ASSUME NEW d \in 0 .. TABLES_DEPTH, NEW e \in 0 .. TABLES_DEPTH, e <= d, reaches(ram, p, d)
      PROVE  reaches(ram, p, e)
  <2> SUFFICES ASSUME e # 0, frameAt(ram, p, e) = 0 PROVE FALSE
    BY DEF reaches
  <2>1. e \in 1 .. TABLES_DEPTH /\ d \in e .. TABLES_DEPTH /\ d # 0
    BY <1>3, SizeFacts
  <2>2. pathIn(ram, p)[e] = 0
    BY DEF frameAt
  <2>3. pathIn(ram, p)[d] = 0
    BY <2>1, <2>2, WalkEnds
  <2> QED
    BY <1>3, <2>1, <2>3 DEF reaches, frameAt
<1>4. \A q \in Pages, n \in 0 .. TABLES_DEPTH : SameWay(p, q, n) =>
        \A d \in 0 .. n : frameAt(ram, p, d) = frameAt(ram, q, d)
  BY SameFrames DEF frameAt
<1>5. \A d \in 0 .. TABLES_DEPTH - 1 : fetchDepthOffset(p, d) \in Rows
  <2>1. p \in Nat
    BY DEF Pages
  <2> QED
    BY <2>1, DigitFacts
<1> QED
  BY <1>1, <1>2, <1>3, <1>4, <1>5 DEF reaches

\* One level down the tables.
LEMMA NextFrame ==
  ASSUME NEW ram, NEW p \in Pages, NEW d \in 0 .. TABLES_DEPTH - 1
  PROVE  frameAt(ram, p, d + 1)
           = IF reaches(ram, p, d) THEN ram[frameAt(ram, p, d)][fetchDepthOffset(p, d)] ELSE 0
<1>1. d + 1 \in 1 .. TABLES_DEPTH /\ d + 1 - 1 = d
  BY SizeFacts
<1>2. \A e \in 1 .. TABLES_DEPTH :
        frameAt(ram, p, e) = IF reaches(ram, p, e - 1)
                             THEN ram[frameAt(ram, p, e - 1)][fetchDepthOffset(p, e - 1)]
                             ELSE 0
  BY FrameFacts
<1> QED
  BY <1>1, <1>2

\* The rows of a page are rows of a table.
LEMMA RowFacts ==
  ASSUME NEW p \in Pages, NEW d \in 0 .. TABLES_DEPTH - 1
  PROVE  fetchDepthOffset(p, d) \in Rows
<1>1. p \in Nat
  BY DEF Pages
<1> QED
  BY <1>1, DigitFacts

\* A walk that has a frame at some depth has one at every depth above.
LEMMA ReachedBefore ==
  ASSUME NEW ram, NEW p \in Pages, NEW d \in 0 .. TABLES_DEPTH, reaches(ram, p, d),
         NEW e \in 0 .. TABLES_DEPTH, e <= d
  PROVE  reaches(ram, p, e)
  BY FrameFacts

\* There is one way to a frame, the root included.
LEMMA OneWay ==
  ASSUME NEW ram, Tree(ram), NEW p \in Pages, NEW q \in Pages,
         NEW d \in 0 .. TABLES_DEPTH, NEW e \in 0 .. TABLES_DEPTH,
         reaches(ram, p, d), reaches(ram, q, e), frameAt(ram, p, d) = frameAt(ram, q, e)
  PROVE  d = e /\ SameWay(p, q, d)
<1>1. frameAt(ram, p, 0) = 0 /\ frameAt(ram, q, 0) = 0
  BY FrameFacts
<1>2. CASE d = 0
  <2>1. e = 0
    BY <1>1, <1>2 DEF reaches
  <2> QED
    BY <1>2, <2>1 DEF SameWay
<1>3. CASE d # 0
  <2>1. frameAt(ram, p, d) # 0 /\ e # 0
    BY <1>1, <1>3 DEF reaches
  <2>2. d \in 1 .. TABLES_DEPTH /\ e \in 1 .. TABLES_DEPTH
    BY <1>3, <2>1, SizeFacts
  <2> QED
    BY <2>1, <2>2 DEF Tree
<1> QED
  BY <1>2, <1>3

\* What PMwrite of one entry, and of all words of a frame, do to the RAM.
EntrySet(ram, new, t, row, value) ==
  /\ new \in [Frames -> Words]
  /\ new[t][row] = value
  /\ \A u \in Frames, r \in Rows : u # t \/ r # row => new[u][r] = ram[u][r]
  /\ \A u \in Frames : u # t => new[u] = ram[u]
FrameSet(ram, new, f, words) ==
  /\ new \in [Frames -> Words]
  /\ new[f] = words
  /\ \A u \in Frames : u # f => new[u] = ram[u]

\* Setting an entry of a table does what EntrySet says.
LEMMA EntryFacts ==
  ASSUME NEW ram \in [Frames -> Words], NEW t \in Frames, NEW row \in Rows, NEW value \in Int
  PROVE  EntrySet(ram, [ram EXCEPT ![t][row] = value], t, row, value)
<1> DEFINE words == [ram[t] EXCEPT ![row] = value]
           new == [ram EXCEPT ![t] = words]
<1>1. ram[t] \in Words
  OBVIOUS
<1>2. words \in Words /\ words[row] = value /\ \A r \in Rows : r # row => words[r] = ram[t][r]
  BY <1>1 DEF Words
<1> HIDE DEF words
<1>3. /\ new \in [Frames -> Words] /\ new[t] = words /\ \A u \in Frames : u # t => new[u] = ram[u]
  BY <1>2
<1> HIDE DEF new
<1>4. new = [ram EXCEPT ![t][row] = value]
  BY DEF new, words
<1>5. \A u \in Frames, r \in Rows : u # t \/ r # row => new[u][r] = ram[u][r]
  BY <1>2, <1>3
<1> QED
  BY <1>2, <1>3, <1>4, <1>5 DEF EntrySet

\* When the entry that leads to a frame is cleared, the walks through that frame
\* end before it and the others stay.
LEMMA RemoveEntry ==
  ASSUME NEW ram, Tree(ram), NEW page \in Pages, NEW depth \in 1 .. TABLES_DEPTH,
         frameAt(ram, page, depth) # 0, NEW t, t = frameAt(ram, page, depth - 1),
         NEW row, row = fetchDepthOffset(page, depth - 1),
         NEW new \in [Frames -> Words], new[t][row] = 0,
         \A u \in Frames, r \in Rows : u # t \/ r # row => new[u][r] = ram[u][r]
  PROVE  /\ Tree(new)
         /\ \A p \in Pages, d \in 0 .. TABLES_DEPTH :
              frameAt(new, p, d) = IF d >= depth /\ SameWay(p, page, depth) THEN 0
                                   ELSE frameAt(ram, p, d)
<1>1. /\ depth - 1 \in 0 .. TABLES_DEPTH - 1 /\ depth - 1 \in 0 .. TABLES_DEPTH
      /\ depth \in 0 .. TABLES_DEPTH
  BY SizeFacts
<1>2. t \in Frames /\ row \in Rows /\ reaches(ram, page, depth - 1) /\ reaches(ram, page, depth)
  BY <1>1, FrameFacts DEF Tree, reaches
<1>4. ASSUME NEW p \in Pages, NEW d \in 0 .. TABLES_DEPTH
      PROVE  frameAt(new, p, d) = IF d >= depth /\ SameWay(p, page, depth) THEN 0
                                  ELSE frameAt(ram, p, d)
  <2> DEFINE through == SameWay(p, page, depth)
             h == [k \in 0 .. TABLES_DEPTH |->
                     IF k >= depth /\ through THEN 0 ELSE frameAt(ram, p, k)]
  <2>1. \A k \in 0 .. TABLES_DEPTH : h[k] = IF k >= depth /\ through THEN 0 ELSE frameAt(ram, p, k)
    OBVIOUS
  <2> HIDE DEF h
  <2>2. h[0] = 0
    BY <2>1, FrameFacts, SizeFacts
  <2>3. ASSUME NEW k \in 1 .. TABLES_DEPTH
        PROVE  h[k] = IF k > 1 /\ h[k - 1] = 0 THEN 0
                      ELSE new[h[k - 1]][fetchDepthOffset(p, k - 1)]
    <3> DEFINE x == fetchDepthOffset(p, k - 1)
    <3>1. /\ k - 1 \in 0 .. TABLES_DEPTH /\ k \in 0 .. TABLES_DEPTH
          /\ k - 1 \in 0 .. TABLES_DEPTH - 1
      BY SizeFacts
    <3>2. x \in Rows
      BY <3>1, FrameFacts
    <3>3. CASE k >= depth /\ through
      <4>1. h[k] = 0
        BY <2>1, <3>1, <3>3
      <4>2. CASE k > depth
        <5>1. h[k - 1] = 0 /\ k > 1
          BY <2>1, <3>1, <3>3, <4>2
        <5> QED
          BY <4>1, <5>1
      <4>3. CASE k = depth
        <5>1. h[k - 1] = frameAt(ram, p, k - 1)
          BY <2>1, <3>1, <4>3
        <5>2. k - 1 \in 0 .. k
          BY SizeFacts
        <5>3. frameAt(ram, p, k - 1) = frameAt(ram, page, k - 1)
          BY <3>1, <3>3, <4>3, <5>2, SizeFacts, SameFrames DEF frameAt
        <5>4. x = row
          BY <3>1, <3>3, <4>3 DEF SameWay
        <5> QED
          BY <4>1, <4>3, <5>1, <5>3, <5>4
      <4> QED
        BY <3>3, <4>2, <4>3
    <3>4. CASE ~(k >= depth /\ through)
      <4>1. h[k] = frameAt(ram, p, k) /\ h[k - 1] = frameAt(ram, p, k - 1)
        BY <2>1, <3>1, <3>4
      <4>2. h[k] = IF reaches(ram, p, k - 1) THEN ram[h[k - 1]][x] ELSE 0
        BY <4>1, FrameFacts
      <4>3. reaches(ram, p, k - 1) <=> ~(k > 1 /\ h[k - 1] = 0)
        BY <2>2, <3>1, <4>1 DEF reaches
      <4>4. CASE reaches(ram, p, k - 1)
        <5>1. h[k - 1] # t \/ x # row
          <6> SUFFICES ASSUME h[k - 1] = t, x = row PROVE FALSE
            OBVIOUS
          <6>1. k - 1 = depth - 1 /\ SameWay(p, page, k - 1)
            BY <1>1, <1>2, <3>1, <4>1, <4>4, OneWay
          <6>2. k = depth
            BY <6>1
          <6>3. SameWay(p, page, k - 1 + 1)
            BY <3>1, <6>1, <6>2, SameWayFacts
          <6> QED
            BY <3>4, <6>2, <6>3
        <5>2. h[k - 1] \in Frames
          BY <3>1, <4>1 DEF Tree
        <5>3. new[h[k - 1]][x] = ram[h[k - 1]][x]
          BY <3>2, <5>1, <5>2
        <5> QED
          BY <4>2, <4>3, <4>4, <5>3
      <4>5. CASE ~reaches(ram, p, k - 1)
        BY <4>2, <4>3, <4>5
      <4> QED
        BY <4>4, <4>5
    <3> QED
      BY <3>3, <3>4
  <2>4. \A k \in 0 .. TABLES_DEPTH : frameAt(new, p, k) = h[k]
    <3>1. \A k \in 1 .. TABLES_DEPTH : h[k] = after(new, p, k, h[k - 1])
      BY <2>3 DEF after
    <3> QED
      BY <2>2, <3>1, OneWalk, SizeFacts DEF frameAt
  <2> QED
    BY <2>1, <2>4
<1>5. \A p \in Pages, d \in 0 .. TABLES_DEPTH :
        frameAt(new, p, d) # 0 => frameAt(new, p, d) = frameAt(ram, p, d)
  BY <1>4
<1>6. \A p \in Pages, d \in 0 .. TABLES_DEPTH : reaches(new, p, d) =>
        reaches(ram, p, d) /\ frameAt(new, p, d) = frameAt(ram, p, d)
  BY <1>5, FrameFacts DEF reaches
<1>7. 0 \in Frames
  BY SizeFacts DEF Frames
<1>8. \A p \in Pages, d \in 0 .. TABLES_DEPTH : frameAt(new, p, d) \in Frames
  BY <1>4, <1>7 DEF Tree
<1>9. ASSUME NEW p \in Pages, NEW q \in Pages,
             NEW d \in 1 .. TABLES_DEPTH, NEW e \in 1 .. TABLES_DEPTH,
             frameAt(new, p, d) # 0, frameAt(new, p, d) = frameAt(new, q, e)
      PROVE  d = e /\ SameWay(p, q, d)
  <2>1. d \in 0 .. TABLES_DEPTH /\ e \in 0 .. TABLES_DEPTH
    BY SizeFacts
  <2>2. frameAt(ram, p, d) # 0 /\ frameAt(ram, p, d) = frameAt(ram, q, e)
    BY <1>5, <1>9, <2>1
  <2> QED
    BY <2>2 DEF Tree
<1>10. ASSUME NEW p \in Pages, NEW d \in 0 .. TABLES_DEPTH - 1, NEW r \in Rows,
              reaches(new, p, d), new[frameAt(new, p, d)][r] # 0
       PROVE  \E q \in Pages : SameWay(p, q, d) /\ fetchDepthOffset(q, d) = r
  <2>1. d \in 0 .. TABLES_DEPTH
    BY SizeFacts
  <2>2. reaches(ram, p, d) /\ frameAt(new, p, d) = frameAt(ram, p, d) /\ frameAt(new, p, d) \in Frames
    BY <1>6, <1>8, <1>10, <2>1
  <2>3. ram[frameAt(ram, p, d)][r] # 0
    BY <1>10, <2>2
  <2> QED
    BY <2>2, <2>3 DEF Tree
<1>11. \A p, q \in Pages : \A d, e \in 1 .. TABLES_DEPTH :
         frameAt(new, p, d) # 0 /\ frameAt(new, p, d) = frameAt(new, q, e)
           => d = e /\ SameWay(p, q, d)
  BY <1>9
<1>12. \A p \in Pages, d \in 0 .. TABLES_DEPTH - 1, r \in Rows :
         reaches(new, p, d) /\ new[frameAt(new, p, d)][r] # 0
           => \E q \in Pages : SameWay(p, q, d) /\ fetchDepthOffset(q, d) = r
  BY <1>10
<1>13. Tree(new)
  BY <1>8, <1>11, <1>12, Zenon DEF Tree
<1> QED
  BY <1>4, <1>13

\* When an empty entry on the way to a page is led to an unused frame, only the
\* walks through that entry change: they now end with the frame.
LEMMA AddEntry ==
  ASSUME NEW ram, Tree(ram), NEW page \in Pages, NEW depth \in 1 .. TABLES_DEPTH,
         reaches(ram, page, depth - 1), NEW t, t = frameAt(ram, page, depth - 1),
         NEW row, row = fetchDepthOffset(page, depth - 1), ram[t][row] = 0,
         NEW f \in Frames \ {0}, f \notin Used(ram), depth < TABLES_DEPTH => ram[f] = Zeros,
         NEW new \in [Frames -> Words], new[t][row] = f,
         \A u \in Frames, r \in Rows : u # t \/ r # row => new[u][r] = ram[u][r]
  PROVE  /\ Tree(new)
         /\ \A p \in Pages, d \in 0 .. TABLES_DEPTH :
              frameAt(new, p, d) = IF d = depth /\ SameWay(p, page, depth) THEN f
                                   ELSE frameAt(ram, p, d)
<1>1. /\ depth - 1 \in 0 .. TABLES_DEPTH - 1 /\ depth - 1 \in 0 .. TABLES_DEPTH
      /\ depth \in 0 .. TABLES_DEPTH
  BY SizeFacts
<1>2. t \in Frames /\ row \in Rows
  BY <1>1, FrameFacts DEF Tree
<1>3. \A p \in Pages, d \in 0 .. TABLES_DEPTH : frameAt(ram, p, d) # f
  <2> TAKE p \in Pages, d \in 0 .. TABLES_DEPTH
  <2>1. d = 0 => frameAt(ram, p, d) = 0
    BY FrameFacts
  <2>2. d # 0 => d \in 1 .. TABLES_DEPTH
    BY SizeFacts
  <2> QED
    BY <2>1, <2>2 DEF Used
<1>4. \A p \in Pages, d \in 0 .. TABLES_DEPTH : d >= depth /\ SameWay(p, page, depth) =>
        frameAt(ram, p, d) = 0
  <2> TAKE p \in Pages, d \in 0 .. TABLES_DEPTH
  <2> SUFFICES ASSUME d >= depth, SameWay(p, page, depth) PROVE frameAt(ram, p, d) = 0
    OBVIOUS
  <2>1. frameAt(ram, page, depth) = 0
    BY FrameFacts
  <2>2. depth \in 0 .. depth
    BY SizeFacts
  <2>3. frameAt(ram, p, depth) = 0
    BY <1>1, <2>1, <2>2, SameFrames DEF frameAt
  <2>4. d \in depth .. TABLES_DEPTH
    BY SizeFacts
  <2> QED
    BY <2>3, <2>4, WalkEnds DEF frameAt
<1>5. ASSUME NEW p \in Pages, NEW d \in 0 .. TABLES_DEPTH
      PROVE  frameAt(new, p, d) = IF d = depth /\ SameWay(p, page, depth) THEN f
                                  ELSE frameAt(ram, p, d)
  <2> DEFINE through == SameWay(p, page, depth)
             h == [k \in 0 .. TABLES_DEPTH |->
                     IF k = depth /\ through THEN f ELSE frameAt(ram, p, k)]
  <2>1. \A k \in 0 .. TABLES_DEPTH : h[k] = IF k = depth /\ through THEN f ELSE frameAt(ram, p, k)
    OBVIOUS
  <2> HIDE DEF h
  <2>2. h[0] = 0
    BY <2>1, FrameFacts, SizeFacts
  <2>3. ASSUME NEW k \in 1 .. TABLES_DEPTH
        PROVE  h[k] = IF k > 1 /\ h[k - 1] = 0 THEN 0
                      ELSE new[h[k - 1]][fetchDepthOffset(p, k - 1)]
    <3> DEFINE x == fetchDepthOffset(p, k - 1)
    <3>1. /\ k - 1 \in 0 .. TABLES_DEPTH /\ k \in 0 .. TABLES_DEPTH
          /\ k - 1 \in 0 .. TABLES_DEPTH - 1
      BY SizeFacts
    <3>2. x \in Rows
      BY <3>1, FrameFacts
    <3>3. CASE k = depth /\ through
      <4>1. h[k] = f
        BY <2>1, <3>1, <3>3
      <4>2. h[k - 1] = frameAt(ram, p, k - 1)
        BY <2>1, <3>1, <3>3
      <4>3. k - 1 \in 0 .. k
        BY SizeFacts
      <4>4. frameAt(ram, p, k - 1) = t
        BY <3>1, <3>3, <4>3, SizeFacts, SameFrames DEF frameAt
      <4>5. x = row
        BY <3>1, <3>3 DEF SameWay
      <4>6. ~(k > 1 /\ h[k - 1] = 0)
        BY <3>1, <3>3, <4>2, <4>4, SizeFacts DEF reaches
      <4> QED
        BY <4>1, <4>2, <4>4, <4>5, <4>6
    <3>4. CASE k = depth + 1 /\ through
      <4>1. h[k - 1] = f
        BY <2>1, <3>1, <3>4, SizeFacts
      <4>2. h[k] = 0
        BY <1>4, <2>1, <3>1, <3>4, SizeFacts
      <4>3. ram[f] = Zeros
        BY <3>4, SizeFacts
      <4>4. f # t
        BY <1>1, <1>3
      <4>5. new[f][x] = 0
        BY <3>2, <4>3, <4>4 DEF Zeros
      <4> QED
        BY <4>1, <4>2, <4>5
    <3>5. CASE ~(k = depth /\ through) /\ ~(k = depth + 1 /\ through)
      <4>1. h[k] = frameAt(ram, p, k) /\ h[k - 1] = frameAt(ram, p, k - 1)
        <5>1. k - 1 = depth => k = depth + 1
          BY SizeFacts
        <5> QED
          BY <2>1, <3>1, <3>5, <5>1
      <4>2. h[k] = IF reaches(ram, p, k - 1) THEN ram[h[k - 1]][x] ELSE 0
        BY <4>1, FrameFacts
      <4>3. reaches(ram, p, k - 1) <=> ~(k > 1 /\ h[k - 1] = 0)
        BY <2>2, <3>1, <4>1 DEF reaches
      <4>4. CASE reaches(ram, p, k - 1)
        <5>1. h[k - 1] # t \/ x # row
          <6> SUFFICES ASSUME h[k - 1] = t, x = row PROVE FALSE
            OBVIOUS
          <6>1. k - 1 = depth - 1 /\ SameWay(p, page, k - 1)
            BY <1>1, <1>2, <3>1, <4>1, <4>4, OneWay
          <6>2. k = depth
            BY <6>1
          <6>3. SameWay(p, page, k - 1 + 1)
            BY <3>1, <6>1, <6>2, SameWayFacts
          <6> QED
            BY <3>5, <6>2, <6>3
        <5>2. h[k - 1] \in Frames
          BY <3>1, <4>1 DEF Tree
        <5>3. new[h[k - 1]][x] = ram[h[k - 1]][x]
          BY <3>2, <5>1, <5>2
        <5> QED
          BY <4>2, <4>3, <4>4, <5>3
      <4>5. CASE ~reaches(ram, p, k - 1)
        BY <4>2, <4>3, <4>5
      <4> QED
        BY <4>4, <4>5
    <3> QED
      BY <3>3, <3>4, <3>5
  <2>4. \A k \in 0 .. TABLES_DEPTH : frameAt(new, p, k) = h[k]
    <3>1. \A k \in 1 .. TABLES_DEPTH : h[k] = after(new, p, k, h[k - 1])
      BY <2>3 DEF after
    <3> QED
      BY <2>2, <3>1, OneWalk, SizeFacts DEF frameAt
  <2> QED
    BY <2>1, <2>4
<1>6. \A p \in Pages, d \in 0 .. TABLES_DEPTH : frameAt(new, p, d) \in Frames
  BY <1>5 DEF Tree
<1>7. \A p, q \in Pages : \A d, e \in 1 .. TABLES_DEPTH :
         frameAt(new, p, d) # 0 /\ frameAt(new, p, d) = frameAt(new, q, e)
           => d = e /\ SameWay(p, q, d)
  <2> SUFFICES ASSUME NEW p \in Pages, NEW q \in Pages,
                      NEW d \in 1 .. TABLES_DEPTH, NEW e \in 1 .. TABLES_DEPTH,
                      frameAt(new, p, d) # 0, frameAt(new, p, d) = frameAt(new, q, e)
               PROVE  d = e /\ SameWay(p, q, d)
    OBVIOUS
  <2>1. d \in 0 .. TABLES_DEPTH /\ e \in 0 .. TABLES_DEPTH /\ depth \in Nat
    BY SizeFacts
  <2>2. CASE frameAt(new, p, d) = f
    <3>1. d = depth /\ SameWay(p, page, depth) /\ e = depth /\ SameWay(q, page, depth)
      BY <1>3, <1>5, <2>1, <2>2
    <3> QED
      BY <2>1, <3>1, SameWayFacts
  <2>3. CASE frameAt(new, p, d) # f
    <3>1. frameAt(ram, p, d) # 0 /\ frameAt(ram, p, d) = frameAt(ram, q, e)
      BY <1>5, <2>1, <2>3
    <3> QED
      BY <3>1 DEF Tree
  <2> QED
    BY <2>2, <2>3
<1>8. \A p \in Pages, d \in 0 .. TABLES_DEPTH - 1, r \in Rows :
        reaches(new, p, d) /\ new[frameAt(new, p, d)][r] # 0
          => \E q \in Pages : SameWay(p, q, d) /\ fetchDepthOffset(q, d) = r
  <2> SUFFICES ASSUME NEW p \in Pages, NEW d \in 0 .. TABLES_DEPTH - 1, NEW r \in Rows,
                      reaches(new, p, d), new[frameAt(new, p, d)][r] # 0
               PROVE  \E q \in Pages : SameWay(p, q, d) /\ fetchDepthOffset(q, d) = r
    OBVIOUS
  <2>1. d \in 0 .. TABLES_DEPTH /\ d < TABLES_DEPTH /\ d \in Nat
    BY SizeFacts
  <2>2. CASE frameAt(new, p, d) = f
    <3>1. d = depth
      BY <1>3, <1>5, <2>1, <2>2
    <3>2. ram[f] = Zeros /\ f # t
      BY <1>1, <1>3, <2>1, <3>1
    <3>3. new[f][r] = 0
      BY <3>2 DEF Zeros
    <3> QED
      BY <2>2, <3>3
  <2>3. CASE frameAt(new, p, d) # f
    <3>1. frameAt(new, p, d) = frameAt(ram, p, d) /\ reaches(ram, p, d)
      BY <1>5, <2>1, <2>3 DEF reaches
    <3>2. CASE frameAt(ram, p, d) = t /\ r = row
      <4>1. d = depth - 1 /\ SameWay(p, page, d)
        BY <1>1, <2>1, <3>1, <3>2, OneWay
      <4> QED
        BY <3>2, <4>1
    <3>3. CASE ~(frameAt(ram, p, d) = t /\ r = row)
      <4>1. frameAt(ram, p, d) \in Frames
        BY <2>1 DEF Tree
      <4>2. ram[frameAt(ram, p, d)][r] # 0
        BY <3>1, <3>3, <4>1
      <4> QED
        BY <3>1, <4>2 DEF Tree
    <3> QED
      BY <3>2, <3>3
  <2> QED
    BY <2>2, <2>3
<1>9. Tree(new)
  BY <1>6, <1>7, <1>8, Zenon DEF Tree
<1> QED
  BY <1>5, <1>9

\* What is written to a frame that is no table changes no walk.
LEMMA SetFrame ==
  ASSUME NEW ram, Tree(ram), NEW f \in Frames,
         \A p \in Pages, d \in 0 .. TABLES_DEPTH - 1 : reaches(ram, p, d) => frameAt(ram, p, d) # f,
         NEW new \in [Frames -> Words], \A u \in Frames : u # f => new[u] = ram[u]
  PROVE  /\ Tree(new)
         /\ \A p \in Pages, d \in 0 .. TABLES_DEPTH : frameAt(new, p, d) = frameAt(ram, p, d)
<1>1. ASSUME NEW p \in Pages
      PROVE  \A d \in 0 .. TABLES_DEPTH : frameAt(new, p, d) = frameAt(ram, p, d)
  <2> DEFINE h == pathIn(ram, p)
  <2>1. h[0] = 0
    BY WalkFacts
  <2>2. ASSUME NEW d \in 1 .. TABLES_DEPTH PROVE h[d] = after(new, p, d, h[d - 1])
    <3>1. h[d] = after(ram, p, d, h[d - 1])
      BY WalkFacts
    <3>2. d - 1 \in 0 .. TABLES_DEPTH - 1 /\ d - 1 \in 0 .. TABLES_DEPTH
      BY SizeFacts
    <3>3. CASE reaches(ram, p, d - 1)
      <4>1. h[d - 1] \in Frames /\ h[d - 1] # f
        BY <3>2, <3>3 DEF Tree, frameAt
      <4>2. new[h[d - 1]] = ram[h[d - 1]]
        BY <4>1
      <4> HIDE DEF h
      <4> QED
        BY <3>1, <4>2 DEF after
    <3>4. CASE ~reaches(ram, p, d - 1)
      <4>1. h[d - 1] = 0 /\ d > 1
        BY <3>2, <3>4, SizeFacts DEF reaches, frameAt
      <4> HIDE DEF h
      <4> QED
        BY <3>1, <4>1 DEF after
    <3> QED
      BY <3>3, <3>4
  <2> HIDE DEF h
  <2>3. \A d \in 0 .. TABLES_DEPTH : pathIn(new, p)[d] = h[d]
    BY <2>1, <2>2, OneWalk, SizeFacts
  <2> QED
    BY <2>3 DEF frameAt, h
<1>2. \A p \in Pages, d \in 0 .. TABLES_DEPTH : frameAt(new, p, d) = frameAt(ram, p, d)
  BY <1>1
<1>3. \A p \in Pages, d \in 0 .. TABLES_DEPTH : frameAt(new, p, d) \in Frames
  BY <1>2 DEF Tree
<1>4. \A p, q \in Pages : \A d, e \in 1 .. TABLES_DEPTH :
         frameAt(new, p, d) # 0 /\ frameAt(new, p, d) = frameAt(new, q, e)
           => d = e /\ SameWay(p, q, d)
  <2>1. \A d \in 1 .. TABLES_DEPTH : d \in 0 .. TABLES_DEPTH
    OBVIOUS
  <2> QED
    BY <1>2, <2>1 DEF Tree
<1>5. \A p \in Pages, d \in 0 .. TABLES_DEPTH - 1, r \in Rows :
        reaches(new, p, d) /\ new[frameAt(new, p, d)][r] # 0
          => \E q \in Pages : SameWay(p, q, d) /\ fetchDepthOffset(q, d) = r
  <2> TAKE p \in Pages, d \in 0 .. TABLES_DEPTH - 1, r \in Rows
  <2> HAVE reaches(new, p, d) /\ new[frameAt(new, p, d)][r] # 0
  <2>1. d \in 0 .. TABLES_DEPTH
    BY SizeFacts
  <2>2. frameAt(new, p, d) = frameAt(ram, p, d) /\ reaches(ram, p, d) /\ frameAt(ram, p, d) \in Frames
    BY <1>2, <2>1 DEF reaches, Tree
  <2>3. new[frameAt(new, p, d)] = ram[frameAt(ram, p, d)]
    BY <2>2
  <2> QED
    BY <2>2, <2>3 DEF Tree
<1>6. Tree(new)
  BY <1>3, <1>4, <1>5, Zenon DEF Tree
<1> QED
  BY <1>2, <1>6

\* No entry leads anywhere in a cleared RAM.
LEMMA EmptyTree ==
  ASSUME NEW ram, ram = [frame \in Frames |-> Zeros]
  PROVE  /\ Tree(ram)
         /\ \A p \in Pages, d \in 0 .. TABLES_DEPTH : frameAt(ram, p, d) = 0
<1>1. 0 \in Frames /\ Zeros \in Words /\ \A r \in Rows : Zeros[r] = 0
  BY SizeFacts DEF Frames, Zeros, Words
<1>2. ram \in [Frames -> Words] /\ \A u \in Frames : ram[u] = Zeros
  BY <1>1
<1>3. ASSUME NEW p \in Pages PROVE \A d \in 0 .. TABLES_DEPTH : frameAt(ram, p, d) = 0
  <2> DEFINE h == [d \in 0 .. TABLES_DEPTH |-> 0]
  <2>1. h[0] = 0 /\ \A d \in 0 .. TABLES_DEPTH : h[d] = 0
    BY SizeFacts
  <2> HIDE DEF h
  <2>2. ASSUME NEW d \in 1 .. TABLES_DEPTH PROVE h[d] = after(ram, p, d, h[d - 1])
    <3>1. d - 1 \in 0 .. TABLES_DEPTH - 1 /\ d - 1 \in 0 .. TABLES_DEPTH
      BY SizeFacts
    <3>2. fetchDepthOffset(p, d - 1) \in Rows /\ h[d - 1] = 0 /\ h[d] = 0
      BY <2>1, <3>1, FrameFacts, SizeFacts
    <3> QED
      BY <1>1, <1>2, <3>2 DEF after
  <2>3. \A d \in 0 .. TABLES_DEPTH : pathIn(ram, p)[d] = h[d]
    BY <2>1, <2>2, OneWalk, SizeFacts
  <2> QED
    BY <2>1, <2>3 DEF frameAt
<1>4. \A p \in Pages, d \in 0 .. TABLES_DEPTH : frameAt(ram, p, d) = 0
  BY <1>3
<1>5. \A p \in Pages, d \in 0 .. TABLES_DEPTH - 1, r \in Rows : ram[frameAt(ram, p, d)][r] = 0
  BY <1>1, <1>2, <1>4, SizeFacts
<1>6. Tree(ram)
  BY <1>1, <1>2, <1>4, <1>5, SizeFacts DEF Tree
<1> QED
  BY <1>4, <1>6

-----------------------------------------------------------------------------
(* Frames *)

\* The frames in use are the first ones, and those after them are clear.
Taken(ram, n) ==
  /\ n \in Frames
  /\ Used(ram) = 1 .. n
  /\ \A u \in Frames : u > n => ram[u] = Zeros

\* What the walks reach of the pages between two states of the RAM: the same
\* frames with the same words, but for a page that goes and one that comes.
PagesStay(ram, new, gone, comes) ==
  /\ \A p \in Pages : reaches(new, p, TABLES_DEPTH)
       <=> (reaches(ram, p, TABLES_DEPTH) /\ p \notin gone) \/ p \in comes
  /\ \A p \in Pages : reaches(ram, p, TABLES_DEPTH) /\ p \notin gone =>
       /\ frameAt(new, p, TABLES_DEPTH) = frameAt(ram, p, TABLES_DEPTH)
       /\ new[frameAt(new, p, TABLES_DEPTH)] = ram[frameAt(ram, p, TABLES_DEPTH)]

\* The page that the frame for the next level makes present.
arriving(page, depth) == IF depth + 1 = TABLES_DEPTH THEN {page} ELSE {}

\* takeFreeFrame
LEMMA TakeFrame ==
  ASSUME NEW ram, Tree(ram), NEW n, Taken(ram, n), n + 1 \in Frames,
         NEW page \in Pages, NEW depth \in 0 .. TABLES_DEPTH - 1, reaches(ram, page, depth),
         NEW t, t = frameAt(ram, page, depth),
         NEW row, row = fetchDepthOffset(page, depth), ram[t][row] = 0,
         NEW new \in [Frames -> Words], new[t][row] = n + 1,
         \A u \in Frames, r \in Rows : u # t \/ r # row => new[u][r] = ram[u][r]
  PROVE  /\ Tree(new) /\ Taken(new, n + 1)
         /\ frameAt(new, page, depth + 1) = n + 1
         /\ PagesStay(ram, new, {}, arriving(page, depth))
<1> DEFINE f == n + 1
<1>1. /\ depth \in 0 .. TABLES_DEPTH /\ depth + 1 \in 1 .. TABLES_DEPTH /\ depth + 1 \in 0 .. TABLES_DEPTH
      /\ depth + 1 - 1 = depth /\ TABLES_DEPTH \in 1 .. TABLES_DEPTH /\ TABLES_DEPTH \in 0 .. TABLES_DEPTH
  BY SizeFacts
<1>2. n \in Nat /\ f \in Frames \ {0} /\ f \notin Used(ram) /\ ram[f] = Zeros
  BY SizeFacts DEF Taken, Frames
<1> HIDE DEF f
<1>3. /\ Tree(new)
      /\ \A p \in Pages, d \in 0 .. TABLES_DEPTH :
           frameAt(new, p, d) = IF d = depth + 1 /\ SameWay(p, page, depth + 1) THEN f
                                ELSE frameAt(ram, p, d)
  BY <1>1, <1>2, AddEntry DEF f
<1>4. frameAt(new, page, depth + 1) = f
  BY <1>1, <1>3 DEF SameWay
<1>5. ASSUME NEW p \in Pages, NEW d \in 0 .. TABLES_DEPTH, d = depth + 1, SameWay(p, page, depth + 1)
      PROVE  frameAt(ram, p, d) = 0
  <2>1. frameAt(ram, page, depth + 1) = 0
    BY NextFrame
  <2>2. depth + 1 \in 0 .. depth + 1
    BY SizeFacts
  <2> QED
    BY <1>1, <1>5, <2>1, <2>2, SameFrames DEF frameAt
<1>6. Used(new) = 1 .. n + 1
  <2>1. \A u \in Used(new) : u \in Used(ram) \/ u = f
    BY <1>1, <1>3 DEF Used
  <2>2. f \in Used(new)
    BY <1>1, <1>2, <1>4 DEF Used
  <2>3. ASSUME NEW u \in Used(ram) PROVE u \in Used(new)
    <3>1. PICK p \in Pages, d \in 1 .. TABLES_DEPTH : u = frameAt(ram, p, d) /\ u # 0
      BY DEF Used
    <3>2. d \in 0 .. TABLES_DEPTH
      BY SizeFacts
    <3>3. frameAt(new, p, d) = u
      BY <1>3, <1>5, <3>1, <3>2
    <3> QED
      BY <3>1, <3>3 DEF Used
  <2>4. Used(new) = Used(ram) \cup {f}
    BY <2>1, <2>2, <2>3
  <2>5. 1 .. n + 1 = (1 .. n) \cup {f}
    BY <1>2 DEF f
  <2> QED
    BY <2>4, <2>5 DEF Taken
<1>7. ASSUME NEW u \in Frames, u > n + 1 PROVE new[u] = Zeros
  <2>1. u # t
    <3>1. t \in Used(ram) \/ t = 0
      <4>1. depth # 0 => depth \in 1 .. TABLES_DEPTH
        BY <1>1
      <4>2. depth = 0 => t = 0
        BY FrameFacts
      <4> QED
        BY <4>1, <4>2 DEF Used
    <3> QED
      BY <1>2, <1>7, <3>1 DEF Taken
  <2>2. new[u] = ram[u]
    <3>1. new[u] \in Words /\ ram[u] \in Words
      BY DEF Tree
    <3>2. \A r \in Rows : new[u][r] = ram[u][r]
      BY <2>1
    <3> QED
      BY <3>1, <3>2 DEF Words
  <2>3. u > n
    BY <1>2, <1>7 DEF Frames
  <2> QED
    BY <2>2, <2>3 DEF Taken
<1>8. PagesStay(ram, new, {}, arriving(page, depth))
  <2>1. ASSUME NEW p \in Pages, reaches(ram, p, TABLES_DEPTH)
        PROVE  /\ frameAt(new, p, TABLES_DEPTH) = frameAt(ram, p, TABLES_DEPTH)
               /\ new[frameAt(new, p, TABLES_DEPTH)] = ram[frameAt(ram, p, TABLES_DEPTH)]
    <3> DEFINE g == frameAt(ram, p, TABLES_DEPTH)
    <3>1. g # 0
      BY <1>1, <2>1 DEF reaches
    <3>2. frameAt(new, p, TABLES_DEPTH) = g
      BY <1>1, <1>3, <1>5, <3>1
    <3>3. g # t
      BY <1>1, <2>1, OneWay
    <3>4. g \in Frames
      BY <1>1 DEF Tree
    <3> HIDE DEF g
    <3>5. new[g] \in Words /\ ram[g] \in Words /\ \A r \in Rows : new[g][r] = ram[g][r]
      BY <3>3, <3>4 DEF Tree
    <3>6. new[g] = ram[g]
      BY <3>5 DEF Words
    <3> QED
      BY <3>2, <3>6 DEF g
  <2>2. ASSUME NEW p \in Pages
        PROVE  reaches(new, p, TABLES_DEPTH)
                 <=> reaches(ram, p, TABLES_DEPTH) \/ p \in arriving(page, depth)
    <3>1. ASSUME reaches(ram, p, TABLES_DEPTH) PROVE reaches(new, p, TABLES_DEPTH)
      BY <2>1, <3>1 DEF reaches
    <3>2. ASSUME p \in arriving(page, depth) PROVE reaches(new, p, TABLES_DEPTH)
      BY <1>2, <1>4, <3>2 DEF arriving, reaches
    <3>3. ASSUME reaches(new, p, TABLES_DEPTH), ~reaches(ram, p, TABLES_DEPTH)
          PROVE  p \in arriving(page, depth)
      <4>1. TABLES_DEPTH = depth + 1 /\ SameWay(p, page, depth + 1)
        BY <1>1, <1>3, <3>3 DEF reaches
      <4>2. p = page
        BY <4>1, SameWayToPage
      <4> QED
        BY <4>1, <4>2 DEF arriving
    <3> QED
      BY <3>1, <3>2, <3>3
  <2> QED
    BY <2>1, <2>2 DEF PagesStay
<1>9. Taken(new, n + 1)
  BY <1>6, <1>7 DEF Taken
<1> QED
  BY <1>3, <1>4, <1>8, <1>9 DEF f

\* The frame of the other page's walk, a table without children or the page
\* itself, is taken from its place, given new words and put on the walk's way.
Relinked(ram, new, n, page, depth, other, level, words) ==
  /\ Tree(ram) /\ Taken(ram, n)
  /\ page \in Pages /\ depth \in 0 .. TABLES_DEPTH - 1 /\ reaches(ram, page, depth)
  /\ other \in Pages /\ level \in 1 .. TABLES_DEPTH
  /\ LET t == frameAt(ram, page, depth)
         row == fetchDepthOffset(page, depth)
         f == frameAt(ram, other, level)
     IN /\ ram[t][row] = 0
        /\ f # 0 /\ f # t /\ (level < TABLES_DEPTH => ram[f] = Zeros)
        /\ words \in Words /\ (depth + 1 < TABLES_DEPTH => words = Zeros)
        /\ \E ram1, ram2 :
             /\ EntrySet(ram, ram1, frameAt(ram, other, level - 1), fetchDepthOffset(other, level - 1), 0)
             /\ FrameSet(ram1, ram2, f, words)
             /\ EntrySet(ram2, new, t, row, f)

\* moveUnusedTable and evictFrame: a frame that leads nowhere, an empty table or
\* a page, leaves its place and becomes the frame of the next level.
LEMMA Relink ==
  ASSUME NEW ram, NEW new, NEW n, NEW page, NEW depth, NEW other, NEW level, NEW words,
         Relinked(ram, new, n, page, depth, other, level, words)
  PROVE  /\ Tree(new) /\ Taken(new, n)
         /\ frameAt(new, page, depth + 1) = frameAt(ram, other, level)
         /\ PagesStay(ram, new, IF level = TABLES_DEPTH THEN {other} ELSE {}, arriving(page, depth))
<1> DEFINE t == frameAt(ram, page, depth)
           row == fetchDepthOffset(page, depth)
           f == frameAt(ram, other, level)
           parent == frameAt(ram, other, level - 1)
           place == fetchDepthOffset(other, level - 1)
<1>0. PICK ram1, ram2 :
        /\ EntrySet(ram, ram1, parent, place, 0)
        /\ FrameSet(ram1, ram2, f, words)
        /\ EntrySet(ram2, new, t, row, f)
  BY DEF Relinked
<1>01. /\ Tree(ram) /\ Taken(ram, n)
       /\ page \in Pages /\ depth \in 0 .. TABLES_DEPTH - 1 /\ reaches(ram, page, depth)
       /\ other \in Pages /\ level \in 1 .. TABLES_DEPTH
       /\ ram[t][row] = 0
       /\ f # 0 /\ f # t /\ (level < TABLES_DEPTH => ram[f] = Zeros)
       /\ words \in Words /\ (depth + 1 < TABLES_DEPTH => words = Zeros)
  BY DEF Relinked
<1>02. /\ t = frameAt(ram, page, depth) /\ row = fetchDepthOffset(page, depth)
       /\ f = frameAt(ram, other, level) /\ parent = frameAt(ram, other, level - 1)
       /\ place = fetchDepthOffset(other, level - 1)
  OBVIOUS
<1> HIDE DEF t, row, f, parent, place
<1> USE <1>0, <1>01, <1>02
<1> DEFINE gone == IF level = TABLES_DEPTH THEN {other} ELSE {}
<1>1. /\ depth \in 0 .. TABLES_DEPTH /\ depth + 1 \in 1 .. TABLES_DEPTH /\ depth + 1 \in 0 .. TABLES_DEPTH
      /\ depth + 1 - 1 = depth /\ TABLES_DEPTH \in 1 .. TABLES_DEPTH /\ TABLES_DEPTH \in 0 .. TABLES_DEPTH
      /\ level \in 0 .. TABLES_DEPTH /\ level - 1 \in 0 .. TABLES_DEPTH - 1 /\ level - 1 \in 0 .. TABLES_DEPTH
      /\ 0 \in Int
  BY SizeFacts
<1>2. /\ ram \in [Frames -> Words] /\ f \in Frames /\ t \in Frames /\ parent \in Frames
      /\ row \in Rows /\ place \in Rows /\ n \in Nat
  <2>1. ram \in [Frames -> Words] /\ f \in Frames /\ t \in Frames /\ parent \in Frames
    BY <1>1 DEF Tree
  <2>2. row \in Rows /\ place \in Rows
    BY <1>1, RowFacts
  <2>3. n \in Nat
    BY DEF Taken, Frames
  <2> QED
    BY <2>1, <2>2, <2>3
<1>3. reaches(ram, other, level) /\ reaches(ram, other, level - 1)
  <2>1. reaches(ram, other, level) /\ level - 1 <= level
    BY <1>1 DEF reaches
  <2> QED
    BY <1>1, <2>1, ReachedBefore
<1>4. f # parent
  BY <1>1, <1>3, OneWay
<1>5. /\ ram1 \in [Frames -> Words] /\ ram1[parent][place] = 0
      /\ \A u \in Frames, r \in Rows : u # parent \/ r # place => ram1[u][r] = ram[u][r]
      /\ \A u \in Frames : u # parent => ram1[u] = ram[u]
  BY DEF EntrySet
<1> HIDE DEF gone
<1>7. /\ ram2 \in [Frames -> Words] /\ ram2[f] = words
      /\ \A u \in Frames : u # f => ram2[u] = ram1[u]
  BY DEF FrameSet
<1>8. /\ new \in [Frames -> Words] /\ new[t][row] = f
      /\ \A u \in Frames, r \in Rows : u # t \/ r # row => new[u][r] = ram2[u][r]
      /\ \A u \in Frames : u # t => new[u] = ram2[u]
  BY DEF EntrySet
<1>9. /\ Tree(ram1)
      /\ \A p \in Pages, d \in 0 .. TABLES_DEPTH :
           frameAt(ram1, p, d) = IF d >= level /\ SameWay(p, other, level) THEN 0
                                 ELSE frameAt(ram, p, d)
  BY <1>5, RemoveEntry
<1>10. \A p \in Pages, d \in 0 .. TABLES_DEPTH : frameAt(ram1, p, d) # f
  <2> SUFFICES ASSUME NEW p \in Pages, NEW d \in 0 .. TABLES_DEPTH, frameAt(ram1, p, d) = f
               PROVE  FALSE
    OBVIOUS
  <2>1. frameAt(ram, p, d) = f /\ reaches(ram, p, d)
    BY <1>9 DEF reaches
  <2>2. d = level /\ SameWay(p, other, d)
    BY <1>1, <1>3, <2>1, OneWay
  <2> QED
    BY <1>9, <2>2
<1>11. /\ Tree(ram2)
       /\ \A p \in Pages, d \in 0 .. TABLES_DEPTH : frameAt(ram2, p, d) = frameAt(ram1, p, d)
  <2>1. \A p \in Pages, d \in 0 .. TABLES_DEPTH - 1 : reaches(ram1, p, d) => frameAt(ram1, p, d) # f
    BY <1>10, SizeFacts
  <2> QED
    BY <1>2, <1>7, <1>9, <2>1, SetFrame
\* The frame leads nowhere.
<1>12. \A p \in Pages, d \in 0 .. TABLES_DEPTH : d > level /\ SameWay(p, other, level) =>
         frameAt(ram, p, d) = 0
  <2> SUFFICES ASSUME NEW p \in Pages, NEW d \in 0 .. TABLES_DEPTH, d > level, SameWay(p, other, level)
               PROVE  frameAt(ram, p, d) = 0
    OBVIOUS
  <2>1. level \in 0 .. TABLES_DEPTH - 1 /\ level + 1 \in 1 .. TABLES_DEPTH /\ d \in level + 1 .. TABLES_DEPTH
    BY SizeFacts
  <2>2. level \in 0 .. level
    BY SizeFacts
  <2>3. frameAt(ram, p, level) = f
    BY <1>1, <2>2, SameFrames DEF frameAt
  <2>4. ram[f] = Zeros /\ fetchDepthOffset(p, level) \in Rows
    BY <2>1, RowFacts, SizeFacts
  <2>5. frameAt(ram, p, level + 1) = 0
    BY <2>1, <2>3, <2>4, NextFrame DEF Zeros
  <2> QED
    BY <2>1, <2>5, WalkEnds DEF frameAt
<1>13. \A p \in Pages, d \in 0 .. TABLES_DEPTH :
         frameAt(ram2, p, d) = IF d = level /\ SameWay(p, other, level) THEN 0
                               ELSE frameAt(ram, p, d)
  <2> TAKE p \in Pages, d \in 0 .. TABLES_DEPTH
  <2>1. d >= level <=> d > level \/ d = level
    BY SizeFacts
  <2> QED
    BY <1>9, <1>11, <1>12, <2>1
<1>14. \A d \in 0 .. depth : frameAt(ram2, page, d) = frameAt(ram, page, d)
  <2> SUFFICES ASSUME NEW d \in 0 .. depth, d = level, SameWay(page, other, level) PROVE FALSE
    BY <1>1, <1>13
  <2>1. level \in 0 .. level
    BY SizeFacts
  <2>2. frameAt(ram, page, level) = f
    BY <1>1, <2>1, SameFrames DEF frameAt
  <2>3. depth > level
    BY <1>1, <2>2
  <2>4. frameAt(ram, page, depth) = 0 /\ depth # 0
    BY <1>1, <1>12, <2>3
  <2> QED
    BY <2>4 DEF reaches
<1>15. ram2[t][row] = 0
  BY <1>2, <1>5, <1>7
<1>16. /\ Tree(new)
       /\ \A p \in Pages, d \in 0 .. TABLES_DEPTH :
            frameAt(new, p, d) = IF d = depth + 1 /\ SameWay(p, page, depth + 1) THEN f
                                 ELSE frameAt(ram2, p, d)
  <2>1. f \notin Used(ram2)
    <3>1. \A d \in 1 .. TABLES_DEPTH : d \in 0 .. TABLES_DEPTH
      OBVIOUS
    <3> QED
      BY <1>10, <1>11, <3>1 DEF Used
  <2>2. f \in Frames \ {0} /\ (depth + 1 < TABLES_DEPTH => ram2[f] = Zeros)
    BY <1>2, <1>7
  <2>3. frameAt(ram2, page, depth) = t
    BY <1>1, <1>14
  <2>4. reaches(ram2, page, depth)
    BY <2>3 DEF reaches
  <2> QED
    BY <1>1, <1>8, <1>11, <1>15, <2>1, <2>2, <2>3, <2>4, AddEntry
<1>17. frameAt(new, page, depth + 1) = f
  BY <1>1, <1>16 DEF SameWay
<1>18. ASSUME NEW p \in Pages, NEW d \in 0 .. TABLES_DEPTH, d = depth + 1, SameWay(p, page, depth + 1)
      PROVE  frameAt(ram, p, d) = 0
  <2>1. frameAt(ram, page, depth + 1) = 0
    BY NextFrame
  <2>2. depth + 1 \in 0 .. depth + 1
    BY SizeFacts
  <2> QED
    BY <1>1, <1>18, <2>1, <2>2, SameFrames DEF frameAt
\* Where a walk met another frame it still does.
<1>19. ASSUME NEW p \in Pages, NEW d \in 0 .. TABLES_DEPTH,
              frameAt(ram, p, d) # 0, frameAt(ram, p, d) # f
       PROVE  frameAt(new, p, d) = frameAt(ram, p, d)
  <2>1. ASSUME d = level, SameWay(p, other, level) PROVE FALSE
    <3>1. level \in 0 .. level
      BY SizeFacts
    <3> QED
      BY <1>1, <1>19, <2>1, <3>1, SameFrames DEF frameAt
  <2>2. frameAt(ram2, p, d) = frameAt(ram, p, d)
    BY <1>13, <2>1
  <2> QED
    BY <1>16, <1>18, <1>19, <2>2
<1>20. \A p \in Pages, d \in 0 .. TABLES_DEPTH :
         frameAt(new, p, d) # 0 => frameAt(new, p, d) = f \/ frameAt(new, p, d) = frameAt(ram, p, d)
  BY <1>13, <1>16
<1>21. Used(new) = Used(ram)
  <2>1. \A d \in 1 .. TABLES_DEPTH : d \in 0 .. TABLES_DEPTH
    OBVIOUS
  <2>2. f \in Used(new) /\ f \in Used(ram)
    BY <1>1, <1>17 DEF Used
  <2>3. ASSUME NEW u \in Used(ram), u # f PROVE u \in Used(new)
    BY <1>19, <2>1, <2>3 DEF Used
  <2>4. ASSUME NEW u \in Used(new), u # f PROVE u \in Used(ram)
    BY <1>20, <2>1, <2>4 DEF Used
  <2>5. \A u : u \in Used(new) <=> u \in Used(ram)
    BY <2>2, <2>3, <2>4
  <2> QED
    BY <2>5 DEF Used
<1>22. \A p \in Pages, d \in 0 .. TABLES_DEPTH : frameAt(ram, p, d) \in Used(ram) \cup {0}
  <2> TAKE p \in Pages, d \in 0 .. TABLES_DEPTH
  <2>1. d # 0 => d \in 1 .. TABLES_DEPTH
    OBVIOUS
  <2>2. d = 0 => frameAt(ram, p, d) = 0
    BY FrameFacts
  <2> QED
    BY <2>1, <2>2 DEF Used
<1>23. Taken(new, n)
  <2>1. ASSUME NEW u \in Frames, u > n PROVE new[u] = Zeros
    <3>1. u # f /\ u # t /\ u # parent
      <4>1. Used(ram) = 1 .. n
        BY Zenon DEF Taken
      <4>2. f \in Used(ram) \cup {0} /\ t \in Used(ram) \cup {0} /\ parent \in Used(ram) \cup {0}
        BY <1>1, <1>22, Zenon
      <4>3. u \notin Used(ram) \cup {0}
        BY <1>2, <2>1, <4>1 DEF Frames
      <4> QED
        BY <4>2, <4>3, Zenon
    <3>2. new[u] = ram[u]
      BY <1>5, <1>7, <1>8, <3>1
    <3> QED
      BY <2>1, <3>2 DEF Taken
  <2> QED
    BY <1>21, <2>1 DEF Taken
<1>24. PagesStay(ram, new, gone, arriving(page, depth))
  <2> DEFINE D == TABLES_DEPTH
  <2>1. \A p \in Pages : p \in gone <=> level = TABLES_DEPTH /\ p = other
    BY DEF gone
  <2>2. ASSUME NEW p \in Pages, reaches(ram, p, D), p \notin gone
        PROVE  /\ frameAt(new, p, D) = frameAt(ram, p, D)
               /\ new[frameAt(new, p, D)] = ram[frameAt(ram, p, D)]
               /\ reaches(new, p, D)
    <3> DEFINE g == frameAt(ram, p, D)
    <3>1. g # 0 /\ g \in Frames
      BY <1>1, <2>2 DEF reaches, Tree
    <3>2. g # f
      <4> SUFFICES ASSUME g = f PROVE FALSE
        OBVIOUS
      <4>1. level = D /\ SameWay(p, other, D)
        BY <1>1, <1>3, <2>2, OneWay
      <4>2. p = other
        BY <4>1, SameWayToPage
      <4> QED
        BY <2>1, <2>2, <4>1, <4>2
    <3>3. g # t
      <4>1. depth # D
        BY <1>1
      <4> QED
        BY <1>1, <2>2, <4>1, OneWay
    <3>4. g # parent
      <4>1. level - 1 # D
        BY <1>1
      <4> QED
        BY <1>1, <1>3, <2>2, <4>1, OneWay
    <3>5. frameAt(new, p, D) = g
      BY <1>1, <1>19, <3>1, <3>2
    <3> HIDE DEF g
    <3>6. new[g] = ram[g]
      BY <1>5, <1>7, <1>8, <3>1, <3>2, <3>3, <3>4
    <3> QED
      BY <3>1, <3>5, <3>6 DEF g, reaches
  <2>3. ASSUME NEW p \in arriving(page, depth) PROVE reaches(new, p, D)
    BY <1>17, <2>3 DEF arriving, reaches
  <2>4. ASSUME NEW p \in Pages, reaches(new, p, D), p \notin arriving(page, depth)
        PROVE  reaches(ram, p, D) /\ p \notin gone
    <3>1. ~(D = depth + 1 /\ SameWay(p, page, depth + 1))
      <4> SUFFICES ASSUME D = depth + 1, SameWay(p, page, depth + 1) PROVE FALSE
        OBVIOUS
      <4>1. p = page
        BY SameWayToPage
      <4> QED
        BY <2>4, <4>1 DEF arriving
    <3>2. frameAt(new, p, D) = frameAt(ram2, p, D) /\ frameAt(new, p, D) # 0
      BY <1>1, <1>16, <2>4, <3>1 DEF reaches
    <3>3. frameAt(ram, p, D) # 0 /\ ~(D = level /\ SameWay(p, other, level))
      BY <1>1, <1>13, <3>2
    <3> QED
      BY <2>1, <3>3 DEF reaches, SameWay
  <2> QED
    BY <2>2, <2>3, <2>4 DEF PagesStay
<1> QED
  BY <1>16, <1>17, <1>23, <1>24 DEF gone

-----------------------------------------------------------------------------
(* What the searches of the tree find *)

\* The definitions of VirtualMemory, in the terms of this module.
LEMMA ViewFacts ==
  /\ \A p, d : walk(p)[d] = frameAt(RAM, p, d)
  /\ Mapped = {p \in Pages : frameAt(RAM, p, TABLES_DEPTH) # 0}
  /\ \A x, u : u \in UnusedTables(x) <=>
       /\ u # 0 /\ u # x /\ RAM[u] = Zeros
       /\ \E p \in Pages, d \in 0 .. TABLES_DEPTH - 1 : u = frameAt(RAM, p, d)
  BY DEF walk, Mapped, UnusedTables, Tables, frameAt

\* The largest frame in use is the number of the frames taken.
LEMMA MaxFrameFacts ==
  ASSUME Tree(RAM), NEW n, Taken(RAM, n)
  PROVE  maxFrame = n
<1> DEFINE S == {0} \union {walk(page)[depth] : page \in Pages, depth \in 1 .. TABLES_DEPTH}
<1>1. S = {0} \cup Used(RAM)
  BY DEF walk, Used, frameAt
<1>2. S = 0 .. n /\ n \in Nat
  BY <1>1, SizeFacts DEF Taken, Frames
<1> HIDE DEF S
<1>3. S \in SUBSET Nat /\ S # {} /\ \A x \in S : x <= n
  BY <1>2
<1>4. Max(S) \in S /\ \A x \in S : x <= Max(S)
  BY <1>2, <1>3, MaxFacts
<1>5. Max(S) = n
  BY <1>2, <1>4
<1> QED
  BY <1>5 DEF maxFrame, S

\* The table that moves is empty, it is not the one the walk has reached, and
\* the chosen place is where it hangs.
LEMMA UnusedFacts ==
  ASSUME Tree(RAM), NEW x, UnusedTables(x) # {}
  PROVE  \E p \in Pages, d \in 1 .. TABLES_DEPTH - 1 :
           /\ LastUnused(x) = <<p, d>>
           /\ frameAt(RAM, p, d) # 0 /\ frameAt(RAM, p, d) # x /\ RAM[frameAt(RAM, p, d)] = Zeros
<1> DEFINE S == {p \in Pages : \E d \in 1 .. TABLES_DEPTH - 1 : walk(p)[d] \in UnusedTables(x)}
           page == Max(S)
<1>1. S # {}
  <2>1. PICK u : u \in UnusedTables(x)
    OBVIOUS
  <2>2. PICK p \in Pages, d \in 0 .. TABLES_DEPTH - 1 : u = frameAt(RAM, p, d)
    BY <2>1, ViewFacts
  <2>3. d # 0
    BY <2>1, <2>2, ViewFacts, FrameFacts
  <2>4. d \in 1 .. TABLES_DEPTH - 1 /\ walk(p)[d] \in UnusedTables(x)
    BY <2>1, <2>2, <2>3, ViewFacts
  <2> QED
    BY <2>4
<1>2. S \in SUBSET Nat /\ \A p \in S : p <= NUM_PAGES
  BY SizeFacts DEF Pages
<1>3. page \in S
  BY <1>1, <1>2, MaxFacts, SizeFacts
<1> HIDE DEF page
<1>4. PICK d \in 1 .. TABLES_DEPTH - 1 : walk(page)[d] \in UnusedTables(x)
  BY <1>3
<1> DEFINE place == LastUnused(x)
<1>5. place = CHOOSE pl \in {page} \X (1 .. TABLES_DEPTH - 1) : walk(page)[pl[2]] \in UnusedTables(x)
  BY DEF LastUnused, page
<1> HIDE DEF place
<1>6. place \in {page} \X (1 .. TABLES_DEPTH - 1) /\ walk(page)[place[2]] \in UnusedTables(x)
  <2>1. <<page, d>> \in {page} \X (1 .. TABLES_DEPTH - 1) /\ walk(page)[<<page, d>>[2]] \in UnusedTables(x)
    BY <1>4
  <2> QED
    BY <1>5, <2>1
<1>7. place = <<page, place[2]>> /\ place[2] \in 1 .. TABLES_DEPTH - 1 /\ page \in Pages
  BY <1>3, <1>6
<1> QED
  BY <1>6, <1>7, ViewFacts DEF place

\* When all frames are in use and no table is empty, some page is in the RAM: a
\* walk takes fewer frames than there are, and the deepest frame off the walk
\* is a page, since a table there would have a frame below it.
LEMMA SomePageIsMapped ==
  ASSUME Tree(RAM), Taken(RAM, NUM_FRAMES - 1),
         NEW page \in Pages, NEW depth \in 0 .. TABLES_DEPTH - 1, reaches(RAM, page, depth),
         UnusedTables(frameAt(RAM, page, depth)) = {}
  PROVE  Mapped # {}
<1> DEFINE path == {frameAt(RAM, page, d) : d \in 0 .. depth}
           S == {d \in 1 .. TABLES_DEPTH : \E q \in Pages :
                   frameAt(RAM, q, d) # 0 /\ frameAt(RAM, q, d) \notin path}
           m == Max(S)
<1>1. /\ depth \in 0 .. TABLES_DEPTH /\ TABLES_DEPTH \in Nat /\ NUM_FRAMES \in Nat
      /\ depth + 1 < NUM_FRAMES /\ depth \in 0 .. depth /\ 0 \in 0 .. depth
  BY SizeFacts
<1>2. \E u \in Frames : u \notin path
  <2> SUFFICES ASSUME Frames \subseteq path PROVE FALSE
    OBVIOUS
  <2> DEFINE g == [d \in 0 .. depth |-> frameAt(RAM, page, d)]
  <2>1. g \in Surjection(0 .. depth, path)
    BY DEF Surjection
  <2>2. \A lo, hi \in Int : /\ IsFiniteSet(lo .. hi)
                           /\ Cardinality(lo .. hi) = IF lo > hi THEN 0 ELSE hi - lo + 1
    BY FS_Interval, Zenon
  <2>3. /\ IsFiniteSet(0 .. depth) /\ Cardinality(0 .. depth) = depth + 1
        /\ Cardinality(Frames) = NUM_FRAMES
    <3>1. NUM_FRAMES - 1 \in Int /\ ~(0 > NUM_FRAMES - 1) /\ NUM_FRAMES - 1 - 0 + 1 = NUM_FRAMES
      BY <1>1
    <3>2. depth \in Int /\ ~(0 > depth) /\ depth - 0 + 1 = depth + 1
      BY <1>1
    <3> QED
      BY <2>2, <3>1, <3>2 DEF Frames
  <2> HIDE DEF path, g
  <2>4. IsFiniteSet(path) /\ Cardinality(path) <= depth + 1
    BY <2>1, <2>3, FS_Surjection
  <2>5. Cardinality(Frames) <= Cardinality(path)
    BY <2>4, FS_Subset
  <2>6. Cardinality(path) \in Nat
    BY <2>4, FS_CardinalityType
  <2> QED
    BY <1>1, <2>3, <2>4, <2>5, <2>6
<1>3. S # {}
  <2>1. PICK u \in Frames : u \notin path
    BY <1>2
  <2>2. 0 \in path
    BY <1>1, FrameFacts
  <2>3. u \in Used(RAM)
    BY <1>1, <2>1, <2>2 DEF Taken, Frames
  <2>4. PICK q \in Pages, d \in 1 .. TABLES_DEPTH : u = frameAt(RAM, q, d) /\ u # 0
    BY <2>3 DEF Used
  <2>5. d \in S
    BY <2>1, <2>4
  <2> QED
    BY <2>5
<1>4. m \in S /\ \A d \in S : d <= m
  <2>1. S \in SUBSET Nat /\ \A d \in S : d <= TABLES_DEPTH
    OBVIOUS
  <2> HIDE DEF S
  <2> QED
    BY <1>1, <1>3, <2>1, MaxFacts
<1> HIDE DEF m
<1>5. PICK q \in Pages : frameAt(RAM, q, m) # 0 /\ frameAt(RAM, q, m) \notin path
  BY <1>4
<1>6. m \in 1 .. TABLES_DEPTH
  BY <1>4
<1>7. m = TABLES_DEPTH
  <2> SUFFICES ASSUME m # TABLES_DEPTH PROVE FALSE
    OBVIOUS
  <2> DEFINE u == frameAt(RAM, q, m)
  <2>1. /\ m \in 0 .. TABLES_DEPTH - 1 /\ m \in 0 .. TABLES_DEPTH /\ m + 1 \in 1 .. TABLES_DEPTH
        /\ m \in 0 .. m /\ m + 1 > m /\ m + 1 \in 0 .. TABLES_DEPTH
    BY <1>1, <1>6
  <2>2. RAM[u] # Zeros
    <3>1. u # frameAt(RAM, page, depth)
      BY <1>1, <1>5
    <3>2. u \notin UnusedTables(frameAt(RAM, page, depth))
      OBVIOUS
    <3> QED
      BY <1>5, <2>1, <3>1, <3>2, ViewFacts
  <2>3. PICK row \in Rows : RAM[u][row] # 0
    <3>1. RAM[u] \in [Rows -> Int]
      BY <2>1 DEF Tree, Words
    <3> HIDE DEF u
    <3> QED
      BY <2>2, <3>1 DEF Zeros
  <2>4. reaches(RAM, q, m)
    BY <1>5 DEF reaches
  <2>5. PICK p \in Pages : SameWay(q, p, m) /\ fetchDepthOffset(p, m) = row
    BY <2>1, <2>3, <2>4 DEF Tree
  <2>6. frameAt(RAM, p, m) = u
    BY <2>1, <2>5, SameFrames DEF frameAt
  <2>7. frameAt(RAM, p, m + 1) # 0
    BY <1>5, <2>1, <2>3, <2>5, <2>6, NextFrame DEF reaches
  <2>8. frameAt(RAM, p, m + 1) \in path
    BY <1>4, <2>1, <2>7
  <2>9. PICK d \in 0 .. depth : frameAt(RAM, p, m + 1) = frameAt(RAM, page, d)
    BY <2>8
  <2>10. d \in 0 .. TABLES_DEPTH /\ reaches(RAM, page, d) /\ reaches(RAM, p, m + 1)
    BY <1>1, <2>7, <2>9 DEF reaches
  <2>11. m + 1 = d /\ SameWay(p, page, m + 1)
    BY <2>1, <2>9, <2>10, OneWay
  <2>12. m \in 0 .. m + 1 /\ m \in 0 .. depth
    BY <1>1, <2>1, <2>11
  <2>13. frameAt(RAM, p, m) = frameAt(RAM, page, m)
    BY <2>1, <2>11, <2>12, SameFrames DEF frameAt
  <2> QED
    BY <1>5, <2>6, <2>12, <2>13
<1> QED
  BY <1>5, <1>7, ViewFacts

\* The victim is a page in the RAM, and not the one that is wanted.
LEMMA VictimFacts ==
  ASSUME Mapped # {}, NEW wanted \in Pages, wanted \notin Mapped
  PROVE  \E page \in Mapped : pageToEvict(wanted) =
           [page |-> page, frame |-> frameAt(RAM, page, TABLES_DEPTH),
            table |-> frameAt(RAM, page, TABLES_DEPTH - 1),
            row |-> fetchDepthOffset(page, TABLES_DEPTH - 1)]
<1> DEFINE far == {p \in Mapped :
                     /\ cyclicDistance(wanted, p) > 0
                     /\ \A q \in Mapped : cyclicDistance(wanted, q) <= cyclicDistance(wanted, p)}
           S == {cyclicDistance(wanted, p) : p \in Mapped}
<1>1. \A p \in Mapped : p \in Pages
  BY DEF Mapped
<1>2. ASSUME NEW p \in Mapped
      PROVE  cyclicDistance(wanted, p) \in 1 .. NUM_PAGES
  <2> DEFINE delta == IF wanted > p THEN wanted - p ELSE p - wanted
  <2>1. delta \in 1 .. NUM_PAGES - 1
    BY <1>1, SizeFacts DEF Pages
  <2>2. cyclicDistance(wanted, p) = Min({delta, NUM_PAGES - delta})
    BY DEF cyclicDistance
  <2> HIDE DEF delta
  <2>3. {delta, NUM_PAGES - delta} \in SUBSET (1 .. NUM_PAGES) /\ {delta, NUM_PAGES - delta} \in SUBSET Nat
    BY <2>1, SizeFacts
  <2>4. Min({delta, NUM_PAGES - delta}) \in {delta, NUM_PAGES - delta}
    BY <2>3, MinFacts
  <2> QED
    BY <2>2, <2>3, <2>4
<1>3. S \in SUBSET Nat /\ S # {} /\ \A x \in S : x <= NUM_PAGES
  BY <1>2
<1>4. Max(S) \in S /\ \A x \in S : x <= Max(S)
  BY <1>3, MaxFacts, SizeFacts
<1>5. PICK p \in Mapped : Max(S) = cyclicDistance(wanted, p)
  BY <1>4
<1>6. p \in far
  <2>1. cyclicDistance(wanted, p) > 0
    BY <1>2
  <2>2. \A q \in Mapped : cyclicDistance(wanted, q) <= cyclicDistance(wanted, p)
    BY <1>4, <1>5
  <2> QED
    BY <2>1, <2>2
<1>7. far \in SUBSET Nat
  BY <1>1 DEF Pages
<1>8. Min(far) \in far
  BY <1>6, <1>7, MinFacts
<1>9. pageToEvict(wanted) =
        [page |-> Min(far), frame |-> walk(Min(far))[TABLES_DEPTH],
         table |-> walk(Min(far))[TABLES_DEPTH - 1], row |-> fetchDepthOffset(Min(far), TABLES_DEPTH - 1)]
  BY <1>6 DEF pageToEvict
<1>10. Min(far) \in Mapped
  BY <1>8
<1> HIDE DEF far
<1> QED
  BY <1>9, <1>10, ViewFacts

-----------------------------------------------------------------------------
(* The invariant *)

\* The walk of the current call has come to the frame it says.
CallFollowsTree ==
  Busy => /\ thePage \in Pages
          /\ frameAt(RAM, thePage, call.depth) = call.frame
          /\ reaches(RAM, thePage, call.depth)
          /\ call.op = "write" => call.value \in Values

\* The words of a page that is kept, in the swap file or in the RAM.
kept(page) == page \in DOMAIN swapFile \/ reaches(RAM, page, TABLES_DEPTH)
wordsOf(page) == IF page \in DOMAIN swapFile THEN swapFile[page]
                 ELSE RAM[frameAt(RAM, page, TABLES_DEPTH)]

\* What was written is kept.
WrittenIsKept == \A a \in written : fetchPageAddress(a) \in Pages /\ kept(fetchPageAddress(a))

Others ==
  /\ DOMAIN swapFile \subseteq Pages
  /\ \A page \in DOMAIN swapFile : swapFile[page] \in Words
  /\ call \in {Idle} \union Calls
  /\ written \subseteq Addresses

VInv ==
  /\ Tree(RAM)
  /\ \E n \in Frames : Taken(RAM, n)
  /\ Others
  /\ CallFollowsTree
  /\ PageInOnePlace
  /\ WrittenIsKept

\* What is kept of the pages stays, wherever it is.
ContentStays == \A p \in Pages : kept(p) => kept(p)' /\ wordsOf(p)' = wordsOf(p)

\* Where the walk of the current call stands.
LEMMA CallFacts ==
  ASSUME Others, CallFollowsTree, walking
  PROVE  /\ call \in Calls /\ call.depth \in 0 .. TABLES_DEPTH - 1 /\ thePage \in Pages
         /\ frameAt(RAM, thePage, call.depth) = call.frame /\ reaches(RAM, thePage, call.depth)
         /\ TABLES_DEPTH \in Nat \ {0}
<1>1. call \in Calls /\ call.depth \in 0 .. TABLES_DEPTH
  BY DEF walking, Busy, Others, Calls
<1> QED
  BY <1>1, SizeFacts DEF walking, CallFollowsTree

\* The frame of the next level is found, and the pages that go are swapped out.
Level(frame, gone) ==
  /\ walking /\ descendTo(frame)
  /\ Tree(RAM)' /\ (\E n \in Frames : Taken(RAM, n))'
  /\ gone \in SUBSET Mapped /\ gone \cap DOMAIN swapFile = {}
  /\ PagesStay(RAM, RAM', gone, arriving(thePage, call.depth))
  /\ frameAt(RAM', thePage, call.depth + 1) = frame /\ frame # 0
  /\ DOMAIN swapFile' = gone \cup DOMAIN swapFile
  /\ \A p \in DOMAIN swapFile : swapFile'[p] = swapFile[p]
  /\ \A p \in gone : swapFile'[p] = RAM[frameAt(RAM, p, TABLES_DEPTH)]
  /\ UNCHANGED <<written, process>>

\* Each way to find it keeps the invariant.
LEMMA LevelKeeps ==
  ASSUME VInv, NEW frame, NEW gone, Level(frame, gone)
  PROVE  VInv' /\ ContentStays
<1> USE DEF Level
<1> DEFINE D == TABLES_DEPTH
           next == call.depth + 1
<1>1. /\ call \in Calls /\ call.depth \in 0 .. D - 1 /\ thePage \in Pages /\ D \in Nat \ {0}
      /\ next \in 1 .. D /\ next \in 0 .. D /\ D \in 0 .. D
  BY CallFacts, SizeFacts DEF VInv
<1>2. frame \in Frames
  BY <1>1 DEF Tree
<1>3. /\ call' \in Calls /\ call'.depth = next /\ call'.frame = frame /\ call'.address = call.address
      /\ call'.op = call.op /\ call'.value = call.value
  BY <1>1, <1>2 DEF descendTo, Calls
<1>4. thePage' = thePage
  BY <1>3 DEF thePage
<1>5. CallFollowsTree'
  <2>1. thePage \in Pages /\ frameAt(RAM', thePage, next) = frame /\ reaches(RAM', thePage, next)
    BY <1>1 DEF reaches
  <2>2. call.op = "write" => call.value \in Values
    BY DEF VInv, CallFollowsTree, walking
  <2>3. frameAt(RAM', thePage', call'.depth) = call'.frame /\ reaches(RAM', thePage', call'.depth)
    BY <1>3, <1>4, <2>1
  <2> QED
    BY <1>3, <1>4, <2>1, <2>2, <2>3 DEF CallFollowsTree, Values
<1>6. \A p \in Mapped : p \in Pages /\ reaches(RAM, p, D)
  BY ViewFacts DEF reaches
<1>7. Others'
  <2>1. DOMAIN swapFile \subseteq Pages /\ gone \subseteq Pages
    BY <1>6 DEF VInv, Others
  <2>2. ASSUME NEW p \in gone PROVE RAM[frameAt(RAM, p, D)] \in Words
    <3>1. frameAt(RAM, p, D) \in Frames
      BY <1>1, <2>1 DEF VInv, Tree
    <3> QED
      BY <3>1 DEF VInv, Tree
  <2>3. \A p \in DOMAIN swapFile' : swapFile'[p] \in Words
    BY <2>2 DEF VInv, Others
  <2>4. written' \subseteq Addresses /\ DOMAIN swapFile' \subseteq Pages
    BY <2>1 DEF VInv, Others
  <2> QED
    BY <1>3, <2>3, <2>4 DEF Others, Calls, Values
<1>8. \A p \in Mapped : p \notin DOMAIN swapFile
  BY <1>1, SizeFacts DEF VInv, PageInOnePlace
<1>9. PageInOnePlace'
  <2>1. \A p : p \in Mapped' <=> p \in Pages /\ frameAt(RAM', p, D) # 0
    BY DEF Mapped, walk, frameAt
  <2>2. ASSUME NEW p \in Mapped', p \in DOMAIN swapFile'
        PROVE  Busy' /\ call'.depth = D /\ p = thePage'
    <3>1. p \in Pages /\ reaches(RAM', p, D)
      BY <2>1, <2>2 DEF reaches
    <3>2. reaches(RAM, p, D) => p \in Mapped
      BY <1>1, <3>1, ViewFacts DEF reaches
    <3>3. p \in arriving(thePage, call.depth)
      BY <1>8, <2>2, <3>1, <3>2 DEF PagesStay
    <3>4. p = thePage /\ next = D
      BY <3>3 DEF arriving
    <3>5. Busy'
      BY <1>3 DEF Busy, Idle, Calls
    <3> QED
      BY <1>3, <1>4, <3>4, <3>5
  <2>3. process' = "up"
    BY DEF walking
  <2> QED
    BY <2>2, <2>3 DEF PageInOnePlace
<1>10. ContentStays
  <2> SUFFICES ASSUME NEW p \in Pages, kept(p) PROVE kept(p)' /\ wordsOf(p)' = wordsOf(p)
    BY DEF ContentStays
  <2>1. CASE p \in DOMAIN swapFile
    BY <2>1 DEF kept, wordsOf
  <2>2. CASE p \notin DOMAIN swapFile /\ p \in gone
    BY <2>2 DEF kept, wordsOf
  <2>3. CASE p \notin DOMAIN swapFile /\ p \notin gone
    <3>1. reaches(RAM, p, D) /\ p \notin DOMAIN swapFile'
      BY <2>3 DEF kept
    <3>2. /\ reaches(RAM', p, D)
          /\ RAM'[frameAt(RAM', p, D)] = RAM[frameAt(RAM, p, D)]
      BY <2>3, <3>1 DEF PagesStay
    <3> QED
      BY <2>3, <3>1, <3>2 DEF kept, wordsOf
  <2> QED
    BY <2>1, <2>2, <2>3
<1>11. WrittenIsKept'
  BY <1>10 DEF WrittenIsKept, ContentStays, VInv
<1> QED
  BY <1>5, <1>7, <1>9, <1>10, <1>11 DEF VInv

\* Where the walk stands before an entry is read.
LEMMA EntryOfWalk ==
  ASSUME VInv, walking
  PROVE  /\ call.depth \in 0 .. TABLES_DEPTH - 1 /\ thePage \in Pages
         /\ reaches(RAM, thePage, call.depth) /\ frameAt(RAM, thePage, call.depth) = call.frame
         /\ call.frame \in Frames /\ theRow \in Rows /\ theRow = fetchDepthOffset(thePage, call.depth)
         /\ frameAt(RAM, thePage, call.depth + 1) = RAM[call.frame][theRow]
         /\ missing => thePage \notin Mapped /\ RAM[call.frame][theRow] = 0
<1>1. /\ call.depth \in 0 .. TABLES_DEPTH - 1 /\ thePage \in Pages
      /\ reaches(RAM, thePage, call.depth) /\ frameAt(RAM, thePage, call.depth) = call.frame
      /\ call.depth \in 0 .. TABLES_DEPTH /\ call.depth + 1 \in 1 .. TABLES_DEPTH
      /\ TABLES_DEPTH \in call.depth + 1 .. TABLES_DEPTH
  BY CallFacts, SizeFacts DEF VInv
<1>2. call.frame \in Frames
  BY <1>1 DEF VInv, Tree
<1>3. theRow \in Rows /\ theRow = fetchDepthOffset(thePage, call.depth)
  BY <1>1, RowFacts DEF theRow
<1>4. frameAt(RAM, thePage, call.depth + 1) = RAM[call.frame][theRow]
  BY <1>1, <1>3, NextFrame
<1>5. ASSUME missing PROVE thePage \notin Mapped /\ RAM[call.frame][theRow] = 0
  <2>1. frameAt(RAM, thePage, call.depth + 1) = 0
    BY <1>4, <1>5 DEF missing
  <2>2. frameAt(RAM, thePage, TABLES_DEPTH) = 0
    BY <1>1, <2>1, WalkEnds DEF frameAt
  <2> QED
    BY <1>5, <2>2, ViewFacts DEF missing
<1> QED
  BY <1>1, <1>2, <1>3, <1>4, <1>5

\* followEntry: the entry is there.
LEMMA FollowKeeps == VInv /\ followEntry => VInv' /\ ContentStays
<1> SUFFICES ASSUME VInv, followEntry PROVE VInv' /\ ContentStays
  OBVIOUS
<1> DEFINE frame == RAM[call.frame][theRow]
<1>1. /\ walking /\ frame # 0 /\ descendTo(frame)
      /\ RAM' = RAM /\ swapFile' = swapFile /\ written' = written /\ process' = process
  BY DEF followEntry, missing
<1>2. call.depth \in 0 .. TABLES_DEPTH - 1 /\ thePage \in Pages /\ frameAt(RAM, thePage, call.depth + 1) = frame
  BY <1>1, EntryOfWalk
<1> HIDE DEF frame
<1>3. PagesStay(RAM, RAM, {}, arriving(thePage, call.depth))
  BY <1>1, <1>2 DEF PagesStay, arriving, reaches
<1>4. Tree(RAM') /\ \E n \in Frames : Taken(RAM', n)
  BY <1>1 DEF VInv
<1>5. PagesStay(RAM, RAM', {}, arriving(thePage, call.depth)) /\ frameAt(RAM', thePage, call.depth + 1) = frame
  BY <1>1, <1>2, <1>3
<1>6. Level(frame, {})
  BY <1>1, <1>4, <1>5 DEF Level
<1> QED
  BY <1>6, LevelKeeps

\* takeFreeFrame: the frame after the last one taken is clear and leads nowhere.
LEMMA TakeKeeps == VInv /\ takeFreeFrame => VInv' /\ ContentStays
<1> SUFFICES ASSUME VInv, takeFreeFrame PROVE VInv' /\ ContentStays
  OBVIOUS
<1>1. PICK n \in Frames : Taken(RAM, n)
  BY DEF VInv
<1>2. maxFrame = n
  BY <1>1, MaxFrameFacts DEF VInv
<1>3. /\ walking /\ missing /\ n < NUM_FRAMES - 1 /\ descendTo(n + 1)
      /\ RAM' = [RAM EXCEPT ![call.frame][theRow] = n + 1]
      /\ swapFile' = swapFile /\ written' = written /\ process' = process
  BY <1>2 DEF takeFreeFrame, hasFreeFrame, missing
<1>4. n + 1 \in Frames /\ n + 1 # 0 /\ n + 1 \in Int
  BY <1>3, SizeFacts DEF Frames
<1>5. /\ call.depth \in 0 .. TABLES_DEPTH - 1 /\ thePage \in Pages
      /\ reaches(RAM, thePage, call.depth) /\ call.frame = frameAt(RAM, thePage, call.depth)
      /\ call.frame \in Frames /\ theRow \in Rows /\ theRow = fetchDepthOffset(thePage, call.depth)
      /\ RAM[call.frame][theRow] = 0
  BY <1>3, EntryOfWalk
<1>6. Tree(RAM) /\ RAM \in [Frames -> Words]
  BY DEF VInv, Tree
<1>7. EntrySet(RAM, RAM', call.frame, theRow, n + 1)
  BY <1>3, <1>4, <1>5, <1>6, EntryFacts
<1>8. /\ RAM' \in [Frames -> Words] /\ RAM'[call.frame][theRow] = n + 1
      /\ \A u \in Frames, r \in Rows : u # call.frame \/ r # theRow => RAM'[u][r] = RAM[u][r]
  BY <1>7 DEF EntrySet
<1>9. /\ Tree(RAM') /\ Taken(RAM', n + 1)
      /\ frameAt(RAM', thePage, call.depth + 1) = n + 1
      /\ PagesStay(RAM, RAM', {}, arriving(thePage, call.depth))
  BY <1>1, <1>4, <1>5, <1>6, <1>8, TakeFrame
<1>10. \E m \in Frames : Taken(RAM', m)
  BY <1>4, <1>9
<1>11. Level(n + 1, {})
  BY <1>3, <1>4, <1>9, <1>10 DEF Level
<1> QED
  BY <1>11, LevelKeeps

\* moveUnusedTable: the empty table is not on the walk, whose last table is left
\* out and whose other tables lead on.
LEMMA MoveKeeps == VInv /\ moveUnusedTable => VInv' /\ ContentStays
<1> SUFFICES ASSUME VInv, moveUnusedTable PROVE VInv' /\ ContentStays
  OBVIOUS
<1>1. PICK n \in Frames : Taken(RAM, n)
  BY DEF VInv
<1>2. walking /\ missing /\ UnusedTables(call.frame) # {} /\ Tree(RAM) /\ RAM \in [Frames -> Words]
  BY DEF moveUnusedTable, missing, VInv, Tree
<1>3. PICK p \in Pages, d \in 1 .. TABLES_DEPTH - 1 :
        /\ LastUnused(call.frame) = <<p, d>>
        /\ frameAt(RAM, p, d) # 0 /\ frameAt(RAM, p, d) # call.frame /\ RAM[frameAt(RAM, p, d)] = Zeros
  BY <1>2, UnusedFacts
<1> DEFINE f == frameAt(RAM, p, d)
           parent == frameAt(RAM, p, d - 1)
           place == fetchDepthOffset(p, d - 1)
           ram1 == [RAM EXCEPT ![parent][place] = 0]
<1>4. /\ RAM' = [ram1 EXCEPT ![call.frame][theRow] = f] /\ descendTo(f)
      /\ swapFile' = swapFile /\ written' = written /\ process' = process
  <2>1. walk(p)[d] = f /\ walk(p)[d - 1] = parent
    BY ViewFacts
  <2>2. LastUnused(call.frame)[1] = p /\ LastUnused(call.frame)[2] = d
    BY <1>3
  <2>3. /\ RAM' = [RAM EXCEPT ![walk(p)[d - 1]][place] = 0, ![call.frame][theRow] = walk(p)[d]]
        /\ descendTo(walk(p)[d])
        /\ swapFile' = swapFile /\ written' = written /\ process' = process
    BY <2>2 DEF moveUnusedTable
  <2> HIDE DEF f, parent, place
  <2> QED
    BY <2>1, <2>3
<1>5. /\ call.depth \in 0 .. TABLES_DEPTH - 1 /\ thePage \in Pages
      /\ reaches(RAM, thePage, call.depth) /\ call.frame = frameAt(RAM, thePage, call.depth)
      /\ call.frame \in Frames /\ theRow \in Rows /\ theRow = fetchDepthOffset(thePage, call.depth)
      /\ RAM[call.frame][theRow] = 0
  BY <1>2, EntryOfWalk
<1>6. /\ d \in 1 .. TABLES_DEPTH /\ d < TABLES_DEPTH /\ d \in 0 .. TABLES_DEPTH
      /\ d - 1 \in 0 .. TABLES_DEPTH - 1 /\ d - 1 \in 0 .. TABLES_DEPTH
  BY SizeFacts
<1>7. f \in Frames /\ parent \in Frames /\ place \in Rows /\ f \in Int
  BY <1>2, <1>6, RowFacts DEF Tree, Frames
<1> HIDE DEF f, parent, place
<1>8. EntrySet(RAM, ram1, parent, place, 0)
  <2>1. 0 \in Int
    OBVIOUS
  <2> QED
    BY <1>2, <1>7, <2>1, EntryFacts, Zenon
<1> HIDE DEF ram1
<1>9. ram1 \in [Frames -> Words] /\ Zeros \in Words
  BY <1>8 DEF EntrySet, Zeros, Words
<1>10. ram1[f] = Zeros
  <2>1. \A r \in Rows : ram1[f][r] = 0
    BY <1>3, <1>7, <1>8 DEF EntrySet, Zeros, f
  <2>2. ram1[f] \in Words
    BY <1>7, <1>9
  <2> QED
    BY <2>1, <2>2 DEF Words, Zeros
<1>11. FrameSet(ram1, ram1, f, Zeros)
  BY <1>9, <1>10 DEF FrameSet
<1>12. EntrySet(ram1, RAM', call.frame, theRow, f)
  BY <1>4, <1>5, <1>7, <1>9, EntryFacts
<1>13. f # 0 /\ f # call.frame /\ (d < TABLES_DEPTH => RAM[f] = Zeros)
  BY <1>3 DEF f
<1>14. f = frameAt(RAM, p, d) /\ parent = frameAt(RAM, p, d - 1) /\ place = fetchDepthOffset(p, d - 1)
  BY DEF f, parent, place
<1>15. /\ Tree(RAM') /\ Taken(RAM', n)
       /\ frameAt(RAM', thePage, call.depth + 1) = f
       /\ PagesStay(RAM, RAM', IF d = TABLES_DEPTH THEN {p} ELSE {}, arriving(thePage, call.depth))
  <2>1. Relinked(RAM, RAM', n, thePage, call.depth, p, d, Zeros)
    BY <1>1, <1>2, <1>5, <1>6, <1>8, <1>9, <1>11, <1>12, <1>13, <1>14 DEF Relinked
  <2>2. /\ Tree(RAM') /\ Taken(RAM', n)
        /\ frameAt(RAM', thePage, call.depth + 1) = frameAt(RAM, p, d)
        /\ PagesStay(RAM, RAM', IF d = TABLES_DEPTH THEN {p} ELSE {}, arriving(thePage, call.depth))
    BY <2>1, Relink, Zenon
  <2> QED
    BY <1>14, <2>2
<1>16. PagesStay(RAM, RAM', {}, arriving(thePage, call.depth))
  BY <1>6, <1>15
<1>17. \E m \in Frames : Taken(RAM', m)
  BY <1>15
<1>18. Level(f, {})
  BY <1>2, <1>4, <1>13, <1>15, <1>16, <1>17 DEF Level
<1> QED
  BY <1>18, LevelKeeps

\* evictFrame: there is a page to evict, it is not the wanted one, and it is not
\* in the swap file.
LEMMA EvictKeeps == VInv /\ evictFrame => VInv' /\ ContentStays
<1> SUFFICES ASSUME VInv, evictFrame PROVE VInv' /\ ContentStays
  OBVIOUS
<1>1. PICK n \in Frames : Taken(RAM, n)
  BY DEF VInv
<1>2. /\ walking /\ missing /\ UnusedTables(call.frame) = {} /\ ~hasFreeFrame
      /\ Tree(RAM) /\ RAM \in [Frames -> Words] /\ process = "up"
  BY DEF evictFrame, missing, walking, VInv, Tree
<1>3. n = NUM_FRAMES - 1
  BY <1>1, <1>2, MaxFrameFacts, SizeFacts DEF hasFreeFrame, Frames
<1>4. /\ call.depth \in 0 .. TABLES_DEPTH - 1 /\ thePage \in Pages
      /\ reaches(RAM, thePage, call.depth) /\ call.frame = frameAt(RAM, thePage, call.depth)
      /\ call.frame \in Frames /\ theRow \in Rows /\ theRow = fetchDepthOffset(thePage, call.depth)
      /\ RAM[call.frame][theRow] = 0 /\ thePage \notin Mapped
  BY <1>2, EntryOfWalk
<1>5. Mapped # {}
  BY <1>1, <1>2, <1>3, <1>4, SomePageIsMapped
<1>6. PICK p \in Mapped : pageToEvict(thePage) =
           [page |-> p, frame |-> frameAt(RAM, p, TABLES_DEPTH),
            table |-> frameAt(RAM, p, TABLES_DEPTH - 1),
            row |-> fetchDepthOffset(p, TABLES_DEPTH - 1)]
  BY <1>4, <1>5, VictimFacts
<1> DEFINE D == TABLES_DEPTH
           f == frameAt(RAM, p, D)
           parent == frameAt(RAM, p, D - 1)
           place == fetchDepthOffset(p, D - 1)
           ram1 == [RAM EXCEPT ![parent][place] = 0]
           words == IF call.depth < D - 1 THEN Zeros ELSE RAM[f]
           ram2 == [ram1 EXCEPT ![f] = words]
<1>7. /\ RAM' = [ram2 EXCEPT ![call.frame][theRow] = f] /\ descendTo(f)
      /\ swapFile' = [q \in {p} \union DOMAIN swapFile |-> IF q = p THEN RAM[f] ELSE swapFile[q]]
      /\ written' = written
      /\ process' = IF p \in DOMAIN swapFile THEN "aborted" ELSE process
  <2> DEFINE victim == pageToEvict(thePage)
  <2>1. victim.page = p /\ victim.frame = f /\ victim.table = parent /\ victim.row = place
    BY <1>6
  <2> HIDE DEF f, parent, place
  <2> QED
    BY <2>1 DEF evictFrame
<1>8. /\ p \in Pages /\ f # 0 /\ D \in 1 .. D /\ D \in 0 .. D /\ D - 1 \in 0 .. D /\ D - 1 \in 0 .. D - 1
      /\ call.depth \in 0 .. D /\ D # call.depth /\ reaches(RAM, p, D)
  BY <1>4, ViewFacts, SizeFacts DEF reaches
<1>9. f \in Frames /\ parent \in Frames /\ place \in Rows /\ f \in Int
  BY <1>2, <1>8, RowFacts DEF Tree, Frames
<1>10. f # call.frame
  BY <1>2, <1>4, <1>8, OneWay
<1> HIDE DEF f, parent, place
<1>11. EntrySet(RAM, ram1, parent, place, 0)
  <2>1. 0 \in Int
    OBVIOUS
  <2> QED
    BY <1>2, <1>9, <2>1, EntryFacts, Zenon
<1> HIDE DEF ram1
<1>12. ram1 \in [Frames -> Words] /\ words \in Words
  <2>1. Zeros \in Words /\ RAM[f] \in Words
    BY <1>2, <1>9 DEF Zeros, Words
  <2> QED
    BY <1>11, <2>1 DEF EntrySet
<1>13. call.depth + 1 < D => words = Zeros
  BY <1>4, SizeFacts
<1> HIDE DEF words
<1>14. FrameSet(ram1, ram2, f, words)
  BY <1>9, <1>12 DEF FrameSet
<1> HIDE DEF ram2
<1>15. EntrySet(ram2, RAM', call.frame, theRow, f)
  <2>1. ram2 \in [Frames -> Words]
    BY <1>14 DEF FrameSet
  <2> QED
    BY <1>4, <1>7, <1>9, <2>1, EntryFacts
<1>16. f = frameAt(RAM, p, D) /\ parent = frameAt(RAM, p, D - 1) /\ place = fetchDepthOffset(p, D - 1)
  BY DEF f, parent, place
<1>17. /\ Tree(RAM') /\ Taken(RAM', n)
       /\ frameAt(RAM', thePage, call.depth + 1) = f
       /\ PagesStay(RAM, RAM', IF D = TABLES_DEPTH THEN {p} ELSE {}, arriving(thePage, call.depth))
  <2>1. Relinked(RAM, RAM', n, thePage, call.depth, p, D, words)
    BY <1>1, <1>2, <1>4, <1>8, <1>10, <1>11, <1>12, <1>13, <1>14, <1>15, <1>16 DEF Relinked
  <2>2. /\ Tree(RAM') /\ Taken(RAM', n)
        /\ frameAt(RAM', thePage, call.depth + 1) = frameAt(RAM, p, D)
        /\ PagesStay(RAM, RAM', IF D = TABLES_DEPTH THEN {p} ELSE {}, arriving(thePage, call.depth))
    BY <2>1, Relink, Zenon
  <2> QED
    BY <1>16, <2>2
<1>18. PagesStay(RAM, RAM', {p}, arriving(thePage, call.depth))
  BY <1>17
<1>19. p \notin DOMAIN swapFile
  BY <1>8 DEF VInv, PageInOnePlace
<1>20. /\ DOMAIN swapFile' = {p} \cup DOMAIN swapFile
       /\ \A q \in DOMAIN swapFile : swapFile'[q] = swapFile[q]
       /\ swapFile'[p] = RAM[frameAt(RAM, p, TABLES_DEPTH)]
  BY <1>7, <1>16, <1>19
<1>21. \E m \in Frames : Taken(RAM', m)
  BY <1>17
<1>22. {p} \in SUBSET Mapped /\ {p} \cap DOMAIN swapFile = {} /\ f # 0
  BY <1>8, <1>16, <1>19
<1>23. process' = process
  BY <1>7, <1>19
<1>24. Level(f, {p})
  BY <1>2, <1>7, <1>17, <1>18, <1>20, <1>21, <1>22, <1>23 DEF Level
<1> QED
  BY <1>24, LevelKeeps
\* The words that the access leaves in the page.
accessed == IF call.op = "write" THEN [restored EXCEPT ![fetchOffset(call.address)] = call.value]
            ELSE restored

\* Where a call stands that has come to its page.
LEMMA PageOfCall ==
  ASSUME VInv, access
  PROVE  /\ call \in Calls /\ call.depth = TABLES_DEPTH /\ thePage \in Pages
         /\ frameAt(RAM, thePage, TABLES_DEPTH) = call.frame /\ reaches(RAM, thePage, TABLES_DEPTH)
         /\ call.frame \in Frames /\ fetchOffset(call.address) \in Rows
         /\ restored \in Words /\ accessed \in Words
         /\ kept(thePage) /\ wordsOf(thePage) = restored
<1>1. call \in Calls /\ call.depth = TABLES_DEPTH /\ Busy
  BY DEF access, VInv, Others, Busy
<1>2. /\ thePage \in Pages /\ frameAt(RAM, thePage, TABLES_DEPTH) = call.frame
      /\ reaches(RAM, thePage, TABLES_DEPTH) /\ (call.op = "write" => call.value \in Values)
  BY <1>1 DEF VInv, CallFollowsTree
<1>3. call.frame \in Frames /\ RAM \in [Frames -> Words] /\ call.address \in Nat
  BY <1>1, ProgramAssumption DEF Calls, VInv, Tree
<1>4. fetchOffset(call.address) \in Rows
  BY <1>3, AddressFacts
<1>5. restored \in Words
  BY <1>2, <1>3 DEF restored, VInv, Others
<1>6. call.op = "write" => call.value \in Int
  BY <1>2, ProgramAssumption DEF Values
<1>7. accessed \in Words
  BY <1>4, <1>5, <1>6 DEF accessed, Words
<1>8. kept(thePage) /\ wordsOf(thePage) = restored
  BY <1>2 DEF kept, wordsOf, restored
<1> QED
  BY <1>1, <1>2, <1>3, <1>4, <1>5, <1>7, <1>8

\* The access changes the words of its own page only, which it takes out of the
\* swap file.
LEMMA AccessKeeps ==
  ASSUME VInv, access
  PROVE  /\ VInv'
         /\ \A p \in Pages : IF p = thePage THEN kept(p)' /\ wordsOf(p)' = accessed
                           ELSE kept(p) => kept(p)' /\ wordsOf(p)' = wordsOf(p)
<1> DEFINE D == TABLES_DEPTH
           f == call.frame
           page == thePage
<1>1. /\ call \in Calls /\ page \in Pages /\ frameAt(RAM, page, D) = f /\ reaches(RAM, page, D)
      /\ f \in Frames /\ accessed \in Words /\ D \in Nat /\ D \in 0 .. D
  BY PageOfCall, SizeFacts
<1>2. /\ RAM' = [RAM EXCEPT ![f] = accessed] /\ swapFile' = Restrict(swapFile, DOMAIN swapFile \ {page})
      /\ call' = Idle /\ process = "up" /\ process' = process
      /\ written' = IF call.op = "write" THEN written \union {call.address} ELSE written
  BY DEF access, accessed, notRestored
<1>3. Tree(RAM) /\ RAM \in [Frames -> Words]
  BY DEF VInv, Tree
<1> HIDE DEF f, page
<1>4. RAM' \in [Frames -> Words] /\ RAM'[f] = accessed /\ \A u \in Frames : u # f => RAM'[u] = RAM[u]
  BY <1>1, <1>2, <1>3
<1>5. \A p \in Pages, d \in 0 .. D - 1 : reaches(RAM, p, d) => frameAt(RAM, p, d) # f
  <2>1. ASSUME NEW p \in Pages, NEW d \in 0 .. D - 1, reaches(RAM, p, d), frameAt(RAM, p, d) = f
        PROVE  FALSE
    <3>1. d \in 0 .. D /\ d # D
      BY <1>1
    <3> QED
      BY <1>1, <1>3, <2>1, <3>1, OneWay
  <2> QED
    BY <2>1
<1>6. /\ Tree(RAM') /\ \A p \in Pages, d \in 0 .. D : frameAt(RAM', p, d) = frameAt(RAM, p, d)
  BY <1>1, <1>3, <1>4, <1>5, SetFrame
<1>7. \E n \in Frames : Taken(RAM', n)
  <2>1. PICK n \in Frames : Taken(RAM, n)
    BY DEF VInv
  <2>2. \A p \in Pages, d \in 1 .. D : frameAt(RAM', p, d) = frameAt(RAM, p, d)
    BY <1>1, <1>6
  <2>3. Used(RAM') = 1 .. n
    BY <2>1, <2>2 DEF Used, Taken
  <2>4. f = 0 \/ f \in Used(RAM)
    <3>1. D # 0 => D \in 1 .. D
      BY <1>1
    <3>2. D = 0 => f = 0
      BY <1>1, FrameFacts
    <3> QED
      BY <1>1, <3>1, <3>2 DEF Used
  <2>5. f <= n
    BY <2>1, <2>4 DEF Taken, Frames
  <2>6. \A u \in Frames : u > n => RAM'[u] = Zeros
    BY <1>1, <1>4, <2>1, <2>5 DEF Taken, Frames
  <2> QED
    BY <2>1, <2>3, <2>6 DEF Taken
<1>8. /\ DOMAIN swapFile' = DOMAIN swapFile \ {page}
      /\ \A p \in DOMAIN swapFile' : swapFile'[p] = swapFile[p]
  BY <1>2 DEF Restrict
<1>9. Others'
  BY <1>1, <1>2, <1>8 DEF Others, VInv, Calls
<1>10. CallFollowsTree'
  BY <1>2 DEF CallFollowsTree, Busy
<1>11. PageInOnePlace'
  <2>1. Mapped' = Mapped
    BY <1>1, <1>6 DEF Mapped, walk, frameAt
  <2>2. \A p \in Mapped \cap DOMAIN swapFile : p = page
    BY DEF VInv, PageInOnePlace, page
  <2> QED
    BY <1>2, <1>8, <2>1, <2>2 DEF PageInOnePlace
<1>12. ASSUME NEW p \in Pages, p = page PROVE kept(p)' /\ wordsOf(p)' = accessed
  <2>1. p \notin DOMAIN swapFile' /\ reaches(RAM', p, D) /\ RAM'[frameAt(RAM', p, D)] = accessed
    BY <1>1, <1>4, <1>6, <1>8, <1>12 DEF reaches
  <2> QED
    BY <2>1 DEF kept, wordsOf
<1>13. ASSUME NEW p \in Pages, p # page, kept(p) PROVE kept(p)' /\ wordsOf(p)' = wordsOf(p)
  <2>1. CASE p \in DOMAIN swapFile
    BY <1>8, <1>13, <2>1 DEF kept, wordsOf
  <2>2. CASE p \notin DOMAIN swapFile
    <3>1. reaches(RAM, p, D) /\ p \notin DOMAIN swapFile'
      BY <1>8, <1>13, <2>2 DEF kept
    <3>2. frameAt(RAM, p, D) # f
      <4> SUFFICES ASSUME frameAt(RAM, p, D) = f PROVE FALSE
        OBVIOUS
      <4>1. SameWay(p, page, D)
        BY <1>1, <1>3, <3>1, OneWay
      <4> QED
        BY <1>1, <1>13, <4>1, SameWayToPage
    <3>3. frameAt(RAM, p, D) \in Frames
      BY <1>1, <1>3 DEF Tree
    <3>4. reaches(RAM', p, D) /\ RAM'[frameAt(RAM', p, D)] = RAM[frameAt(RAM, p, D)]
      BY <1>1, <1>4, <1>6, <3>1, <3>2, <3>3 DEF reaches
    <3> QED
      BY <2>2, <3>1, <3>4 DEF kept, wordsOf
  <2> QED
    BY <2>1, <2>2
<1>14. WrittenIsKept'
  <2> SUFFICES ASSUME NEW a \in written'
               PROVE  fetchPageAddress(a) \in Pages /\ kept(fetchPageAddress(a))'
    BY DEF WrittenIsKept
  <2>1. CASE a \in written
    <3>1. fetchPageAddress(a) \in Pages /\ kept(fetchPageAddress(a))
      BY <2>1 DEF WrittenIsKept, VInv
    <3> QED
      BY <1>12, <1>13, <3>1
  <2>2. CASE a \notin written
    <3>1. a = call.address
      BY <1>2, <2>2
    <3>2. fetchPageAddress(a) = page
      BY <3>1 DEF page, thePage
    <3> QED
      BY <1>1, <1>12, <3>2
  <2> QED
    BY <2>1, <2>2
<1> QED
  BY <1>6, <1>7, <1>9, <1>10, <1>11, <1>12, <1>13, <1>14 DEF VInv, page

\* A call begins at the root of the tables, for a page that exists.
LEMMA BeginKeeps ==
  ASSUME VInv, NEW op \in {"read", "write"}, NEW a \in Addresses, NEW v \in Values \union {0},
         op = "write" => v \in Values,
         begin([op |-> op, address |-> a, value |-> v, depth |-> 0, frame |-> 0])
  PROVE  VInv'
<1> DEFINE request == [op |-> op, address |-> a, value |-> v, depth |-> 0, frame |-> 0]
<1>1. /\ RAM' = RAM /\ swapFile' = swapFile /\ written' = written /\ process' = process
      /\ ~Busy /\ process = "up"
  BY DEF begin
<1>2. /\ Tree(RAM)' /\ (\E n \in Frames : Taken(RAM, n))' /\ WrittenIsKept'
      /\ \A p : wordsOf(p)' = wordsOf(p)
  BY <1>1 DEF VInv, WrittenIsKept, kept, wordsOf
<1>3. PageInOnePlace'
  <2>1. Mapped \cap DOMAIN swapFile = {}
    BY <1>1 DEF VInv, PageInOnePlace
  <2>2. Mapped' = Mapped
    BY <1>1 DEF Mapped, walk
  <2> QED
    BY <1>1, <2>1, <2>2 DEF PageInOnePlace
<1>4. CASE a >= VIRTUAL_MEMORY_SIZE
  <2>1. call' = call
    BY <1>4 DEF begin
  <2>2. Others' /\ CallFollowsTree'
    BY <1>1, <2>1 DEF VInv, Others, CallFollowsTree, Busy
  <2> QED
    BY <1>2, <1>3, <2>2 DEF VInv
<1>5. CASE ~(a >= VIRTUAL_MEMORY_SIZE)
  <2>1. call' = request
    BY <1>5 DEF begin
  <2>2. a \in Nat /\ VIRTUAL_MEMORY_SIZE \in Nat
    BY SizeFacts, ProgramAssumption
  <2>3. fetchPageAddress(a) \in Pages
    BY <1>5, <2>2, AddressFacts
  <2>4. 0 \in 0 .. TABLES_DEPTH /\ 0 \in Frames
    BY SizeFacts DEF Frames
  <2>5. request \in Calls
    BY <2>4 DEF Calls
  <2>6. thePage' = fetchPageAddress(a) /\ call'.depth = 0 /\ call'.frame = 0 /\ call'.op = op
        /\ call'.value = v
    BY <2>1 DEF thePage
  <2>7. Others'
    BY <1>1, <2>1, <2>5 DEF VInv, Others, Calls, Values
  <2>8. frameAt(RAM', thePage', 0) = 0 /\ reaches(RAM', thePage', 0)
    BY <2>3, <2>6, FrameFacts
  <2>9. CallFollowsTree'
    BY <2>3, <2>6, <2>8 DEF CallFollowsTree, Values
  <2> QED
    BY <1>2, <1>3, <2>7, <2>9 DEF VInv
<1> QED
  BY <1>4, <1>5

\* The cleared RAM: no page is in it and no frame but the root is in use.
LEMMA ClearedKeeps ==
  ASSUME NEW ram, ram = [frame \in Frames |-> Zeros]
  PROVE  Tree(ram) /\ (\E n \in Frames : Taken(ram, n))
         /\ \A p \in Pages : frameAt(ram, p, TABLES_DEPTH) = 0
<1>1. Tree(ram) /\ \A p \in Pages, d \in 0 .. TABLES_DEPTH : frameAt(ram, p, d) = 0
  BY EmptyTree
<1>2. 0 \in Frames /\ TABLES_DEPTH \in 0 .. TABLES_DEPTH /\ 1 .. 0 = {}
  BY SizeFacts DEF Frames
<1>3. Used(ram) = {}
  BY <1>1, SizeFacts DEF Used
<1>4. Taken(ram, 0)
  BY <1>2, <1>3 DEF Taken
<1> QED
  BY <1>1, <1>2, <1>4

\* The invariant holds at first.
LEMMA InitKeeps == Init => VInv
<1> SUFFICES ASSUME Init PROVE VInv
  OBVIOUS
<1>1. /\ RAM = [frame \in Frames |-> Zeros] /\ DOMAIN swapFile = {} /\ call = Idle /\ written = {}
      /\ process = "up"
  BY DEF Init
<1>2. Tree(RAM) /\ \E n \in Frames : Taken(RAM, n)
  BY <1>1, ClearedKeeps
<1>3. Others /\ CallFollowsTree /\ PageInOnePlace /\ WrittenIsKept
  BY <1>1 DEF Others, CallFollowsTree, Busy, PageInOnePlace, WrittenIsKept
<1> QED
  BY <1>2, <1>3 DEF VInv

\* VMinitialize clears the RAM; the pages in the swap file stay there.
LEMMA InitializeKeeps == VInv /\ VMinitialize => VInv'
<1> SUFFICES ASSUME VInv, VMinitialize PROVE VInv'
  OBVIOUS
<1>1. /\ RAM' = [frame \in Frames |-> Zeros] /\ swapFile' = swapFile /\ call' = call /\ written' = {}
      /\ process' = process /\ process = "up" /\ ~Busy
  BY DEF VMinitialize
<1>2. /\ Tree(RAM') /\ (\E n \in Frames : Taken(RAM', n))
      /\ \A p \in Pages : frameAt(RAM', p, TABLES_DEPTH) = 0
  BY <1>1, ClearedKeeps
<1>3. Others'
  BY <1>1 DEF VInv, Others
<1>4. CallFollowsTree' /\ WrittenIsKept'
  BY <1>1 DEF CallFollowsTree, Busy, WrittenIsKept
<1>5. Mapped' = {}
  BY <1>2 DEF Mapped, walk, frameAt
<1>6. PageInOnePlace'
  BY <1>1, <1>5 DEF PageInOnePlace
<1> QED
  BY <1>2, <1>3, <1>4, <1>6 DEF VInv

\* Every step keeps the invariant.
LEMMA NextKeeps == VInv /\ [Next]_vars => VInv'
<1> SUFFICES ASSUME VInv, [Next]_vars PROVE VInv'
  OBVIOUS
<1>1. CASE VMinitialize
  BY <1>1, InitializeKeeps
<1>2. ASSUME NEW a \in Addresses, VMread(a) PROVE VInv'
  BY <1>2, BeginKeeps DEF VMread
<1>3. ASSUME NEW w \in Writes, VMwrite(w[1], w[2]) PROVE VInv'
  <2>1. w[1] \in Addresses /\ w[2] \in Values
    BY ProgramAssumption DEF Values
  <2> QED
    BY <1>3, <2>1, BeginKeeps DEF VMwrite
<1>4. CASE findFrame
  BY <1>4, FollowKeeps, MoveKeeps, TakeKeeps, EvictKeeps DEF findFrame
<1>5. CASE access
  BY <1>5, AccessKeeps
<1>6. CASE UNCHANGED vars
  BY <1>6 DEF vars, VInv, Others, CallFollowsTree, PageInOnePlace, WrittenIsKept, Busy, thePage,
              Mapped, walk, kept, wordsOf, Calls, Values
<1> QED
  BY <1>1, <1>2, <1>3, <1>4, <1>5, <1>6 DEF Next
-----------------------------------------------------------------------------
(* The invariants *)

\* The strengthened invariant holds in every state, whatever the widths, the
\* number of frames and the program.
THEOREM VInvariant == Spec => []VInv
<1>1. Init => VInv
  BY InitKeeps
<1>2. VInv /\ [Next]_vars => VInv'
  BY NextKeeps
<1> QED
  BY <1>1, <1>2, PTL DEF Spec

\* The invariant gives the types.
LEMMA VInvTyped == VInv => TypeOK
<1> SUFFICES ASSUME VInv PROVE TypeOK
  OBVIOUS
<1>1. RAM \in [Frames -> Words] /\ Others /\ process = "up"
  BY DEF VInv, Tree, PageInOnePlace
<1>2. Range(swapFile) \subseteq Words
  BY <1>1 DEF Others, Range
<1> QED
  BY <1>1, <1>2 DEF TypeOK, Others

\* An entry of a table leads one level down on the way to some page.
LEMMA EntryLeads ==
  ASSUME Tree(RAM), NEW e \in Entries
  PROVE  \E q \in Pages, d \in 0 .. TABLES_DEPTH - 1 :
           /\ frameAt(RAM, q, d) = e[1] /\ fetchDepthOffset(q, d) = e[2] /\ e = <<e[1], e[2]>>
           /\ frameAt(RAM, q, d + 1) = RAM[e[1]][e[2]] /\ RAM[e[1]][e[2]] # 0
<1>1. e[1] \in Tables /\ e[2] \in Rows /\ RAM[e[1]][e[2]] # 0 /\ e = <<e[1], e[2]>>
  BY DEF Entries
<1>2. \E p \in Pages, d \in 0 .. TABLES_DEPTH - 1 : frameAt(RAM, p, d) = e[1] /\ reaches(RAM, p, d)
  <2>1. PICK p \in Pages, d \in 0 .. TABLES_DEPTH - 1 : frameAt(RAM, p, d) = e[1]
    BY <1>1 DEF Tables, walk, frameAt
  <2>2. frameAt(RAM, p, 0) = 0 /\ reaches(RAM, p, 0) /\ 0 \in 0 .. TABLES_DEPTH - 1
    BY FrameFacts, SizeFacts
  <2>3. CASE reaches(RAM, p, d)
    BY <2>1, <2>3
  <2>4. CASE ~reaches(RAM, p, d)
    BY <2>1, <2>2, <2>4 DEF reaches
  <2> QED
    BY <2>3, <2>4
<1>3. PICK p \in Pages, d \in 0 .. TABLES_DEPTH - 1 : frameAt(RAM, p, d) = e[1] /\ reaches(RAM, p, d)
  BY <1>2
<1>4. PICK q \in Pages : SameWay(p, q, d) /\ fetchDepthOffset(q, d) = e[2]
  BY <1>1, <1>3 DEF Tree
<1>5. d \in 0 .. TABLES_DEPTH /\ d \in 0 .. d
  BY SizeFacts
<1>6. frameAt(RAM, q, d) = e[1]
  BY <1>3, <1>4, <1>5, SameFrames DEF frameAt
<1>7. reaches(RAM, q, d)
  BY <1>3, <1>6 DEF reaches
<1>8. frameAt(RAM, q, d + 1) = RAM[e[1]][e[2]]
  BY <1>4, <1>6, <1>7, NextFrame
<1> QED
  BY <1>1, <1>4, <1>6, <1>8

\* There is one way to a frame, so one entry leads to it, and the frames taken
\* are those that entries lead to.
LEMMA TreeOfEntries == VInv => FramesFormATree
<1> SUFFICES ASSUME VInv PROVE FramesFormATree
  OBVIOUS
<1> DEFINE D == TABLES_DEPTH
<1>1. Tree(RAM)
  BY DEF VInv
<1>2. PICK n \in Frames : Taken(RAM, n)
  BY DEF VInv
<1>3. maxFrame = n /\ Used(RAM) = 1 .. maxFrame
  BY <1>1, <1>2, MaxFrameFacts DEF Taken
<1>4. ASSUME NEW e \in Entries, NEW f \in Entries, RAM[e[1]][e[2]] = RAM[f[1]][f[2]] PROVE e = f
  <2>1. PICK p \in Pages, d \in 0 .. D - 1 :
           /\ frameAt(RAM, p, d) = e[1] /\ fetchDepthOffset(p, d) = e[2] /\ e = <<e[1], e[2]>>
           /\ frameAt(RAM, p, d + 1) = RAM[e[1]][e[2]] /\ RAM[e[1]][e[2]] # 0
    BY <1>1, EntryLeads
  <2>2. PICK q \in Pages, c \in 0 .. D - 1 :
           /\ frameAt(RAM, q, c) = f[1] /\ fetchDepthOffset(q, c) = f[2] /\ f = <<f[1], f[2]>>
           /\ frameAt(RAM, q, c + 1) = RAM[f[1]][f[2]] /\ RAM[f[1]][f[2]] # 0
    BY <1>1, EntryLeads
  <2>3. /\ d + 1 \in 1 .. D /\ c + 1 \in 1 .. D /\ d \in 0 .. D /\ d \in 0 .. d /\ d \in 0 .. d + 1 - 1
        /\ d + 1 \in 0 .. D /\ d \in 0 .. d + 1
    BY SizeFacts
  <2>4. d + 1 = c + 1 /\ SameWay(p, q, d + 1)
    BY <1>1, <1>4, <2>1, <2>2, <2>3 DEF Tree
  <2>5. fetchDepthOffset(p, d) = fetchDepthOffset(q, d) /\ d = c
    BY <2>3, <2>4 DEF SameWay
  <2>6. frameAt(RAM, p, d) = frameAt(RAM, q, d)
    BY <2>3, <2>4, SameFrames DEF frameAt
  <2> QED
    BY <2>1, <2>2, <2>5, <2>6
<1>5. ASSUME NEW e \in Entries PROVE RAM[e[1]][e[2]] \in Used(RAM)
  <2>1. PICK p \in Pages, d \in 0 .. D - 1 :
           frameAt(RAM, p, d + 1) = RAM[e[1]][e[2]] /\ RAM[e[1]][e[2]] # 0
    BY <1>1, EntryLeads
  <2>2. d + 1 \in 1 .. D
    BY SizeFacts
  <2> QED
    BY <2>1, <2>2 DEF Used
<1>6. ASSUME NEW u \in Used(RAM) PROVE \E e \in Entries : RAM[e[1]][e[2]] = u
  <2>1. PICK p \in Pages, d \in 1 .. D : u = frameAt(RAM, p, d) /\ u # 0
    BY DEF Used
  <2>2. d - 1 \in 0 .. D - 1 /\ d - 1 + 1 = d
    BY SizeFacts
  <2> DEFINE t == frameAt(RAM, p, d - 1)
             row == fetchDepthOffset(p, d - 1)
  <2>3. frameAt(RAM, p, d - 1 + 1) = IF reaches(RAM, p, d - 1) THEN RAM[t][row] ELSE 0
    BY <2>2, NextFrame
  <2>4. RAM[t][row] = u
    BY <2>1, <2>2, <2>3
  <2>5. t \in Tables /\ row \in Rows
    BY <2>2, RowFacts DEF Tables, walk, frameAt
  <2> HIDE DEF t, row
  <2>6. <<t, row>> \in Entries
    BY <2>1, <2>4, <2>5 DEF Entries
  <2> QED
    BY <2>4, <2>6
<1>7. {RAM[e[1]][e[2]] : e \in Entries} = 1 .. maxFrame
  BY <1>3, <1>5, <1>6
<1> QED
  BY <1>4, <1>7 DEF FramesFormATree

\* The frames that are not taken are clear.
LEMMA ClearBeyond == VInv => FreeFramesAreClear
<1> SUFFICES ASSUME VInv PROVE FreeFramesAreClear
  OBVIOUS
<1>1. PICK n \in Frames : Taken(RAM, n)
  BY DEF VInv
<1>2. maxFrame = n
  BY <1>1, MaxFrameFacts DEF VInv
<1> QED
  BY <1>1, <1>2, SizeFacts DEF FreeFramesAreClear, Taken, Frames

\* The walk, the tables and the swap file hold what they should.
THEOREM TypeCorrect == Spec => []TypeOK
  BY VInvariant, VInvTyped, PTL

\* No way to find a frame takes one from the walk it is for.
THEOREM PathLinked == Spec => []PathStaysLinked
<1>1. VInv => PathStaysLinked
  BY DEF VInv, CallFollowsTree, PathStaysLinked, walk, frameAt
<1> QED
  BY <1>1, VInvariant, PTL

\* The entries of the tables make a tree of the frames 0 .. maxFrame.
THEOREM TreeOfFrames == Spec => []FramesFormATree
  BY TreeOfEntries, VInvariant, PTL

\* A frame that takeFreeFrame takes is clear.
THEOREM FreeFramesClear == Spec => []FreeFramesAreClear
  BY ClearBeyond, VInvariant, PTL

\* The assert of PMevict never fails: no page is in the RAM and in the swap file,
\* but for the one that the current call is about to restore.
THEOREM OnePlace == Spec => []PageInOnePlace
<1>1. VInv => PageInOnePlace
  BY DEF VInv
<1> QED
  BY <1>1, VInvariant, PTL

-----------------------------------------------------------------------------
(* The flat memory *)

\* The flat memory that the tables, the frames and the swap file stand for.
flat == [a \in Addresses |-> IF a \in written THEN contentOf(a) ELSE Unwritten]

\* What is written at an address is a word of its page.
LEMMA ContentFacts ==
  \A a : /\ contentOf(a) = wordsOf(fetchPageAddress(a))[fetchOffset(a)]
         /\ contentOf(a)' = wordsOf(fetchPageAddress(a))'[fetchOffset(a)]
  BY DEF contentOf, wordsOf, walk, frameAt

\* While a call looks for its page, the flat memory stays.
LEMMA FlatStays ==
  ASSUME VInv, ContentStays, written' = written
  PROVE  flat' = flat
<1>1. ASSUME NEW a \in written PROVE contentOf(a)' = contentOf(a)
  <2>1. fetchPageAddress(a) \in Pages /\ kept(fetchPageAddress(a))
    BY DEF VInv, WrittenIsKept
  <2>2. wordsOf(fetchPageAddress(a))' = wordsOf(fetchPageAddress(a))
    BY <2>1 DEF ContentStays
  <2> QED
    BY <2>2, ContentFacts
<1> QED
  BY <1>1 DEF flat

\* Of the addresses that were written, an access changes its own one only.
LEMMA FlatAfterAccess ==
  ASSUME VInv, access, NEW a \in written
  PROVE  contentOf(a)' = IF call.op = "write" /\ a = call.address THEN call.value ELSE contentOf(a)
<1> DEFINE c == call.address
           p == fetchPageAddress(a)
           o == fetchOffset(a)
<1>1. p \in Pages /\ kept(p) /\ a \in Nat /\ c \in Nat
  BY PageOfCall, ProgramAssumption DEF VInv, WrittenIsKept, Others, Calls
<1>2. /\ contentOf(a) = wordsOf(p)[o] /\ contentOf(a)' = wordsOf(p)'[o]
      /\ thePage = fetchPageAddress(c) /\ o \in Rows /\ fetchOffset(c) \in Rows
      /\ restored \in Words /\ (p = thePage => wordsOf(p) = restored)
  BY <1>1, ContentFacts, AddressFacts, PageOfCall DEF thePage
<1>3. IF p = thePage THEN wordsOf(p)' = accessed ELSE wordsOf(p)' = wordsOf(p)
  BY <1>1, AccessKeeps
<1>4. p = thePage /\ o = fetchOffset(c) => a = c
  <2>1. a = PAGE_SIZE * p + o /\ c = PAGE_SIZE * fetchPageAddress(c) + fetchOffset(c)
    BY <1>1, AddressFacts
  <2> QED
    BY <1>2, <2>1
<1>5. a = c => p = thePage /\ o = fetchOffset(c)
  BY <1>2
<1> HIDE DEF c, p, o
<1>6. accessed[o] = IF call.op = "write" /\ o = fetchOffset(c) THEN call.value ELSE restored[o]
  BY <1>2 DEF accessed, Words, c
<1> QED
  BY <1>2, <1>3, <1>4, <1>5, <1>6 DEF c

\* The access is the read or the write of the flat memory.
LEMMA AccessRefines == VInv /\ access => M!Next
<1> SUFFICES ASSUME VInv, access PROVE M!Next
  OBVIOUS
<1>1. /\ call \in Calls /\ call.address \in Addresses /\ call.op \in {"read", "write"}
      /\ call.value \in Values \union {0} /\ fetchOffset(call.address) \in Rows /\ restored \in Words
      /\ wordsOf(thePage) = restored /\ thePage \in Pages
  BY PageOfCall DEF Calls
<1>2. PICK c \in Addresses, v \in Values \union {0}, o \in Rows :
         c = call.address /\ v = call.value /\ o = fetchOffset(c)
  BY <1>1
<1>3. /\ result' = Returned(c, accessed[o])
      /\ written' = IF call.op = "write" THEN written \union {c} ELSE written
  BY <1>2 DEF access, accessed
<1>4. \A a \in written : contentOf(a)' = IF call.op = "write" /\ a = c THEN v ELSE contentOf(a)
  BY <1>2, FlatAfterAccess
<1>5. contentOf(c) = restored[o] /\ contentOf(c)' = accessed[o]
  <2>1. fetchPageAddress(c) = thePage
    BY <1>2 DEF thePage
  <2>2. wordsOf(fetchPageAddress(c)) = restored /\ wordsOf(fetchPageAddress(c))' = accessed
    BY <1>1, <2>1, AccessKeeps
  <2> QED
    BY <1>2, <2>2, ContentFacts
<1>6. CASE call.op = "read"
  <2>1. accessed[o] = restored[o] /\ written' = written
    BY <1>3, <1>6 DEF accessed
  <2>2. flat' = flat
    BY <1>4, <1>6, <2>1 DEF flat
  <2>3. flat[c] # Unwritten => flat[c] = restored[o]
    BY <1>5 DEF flat
  <2>4. result' = Returned(c, restored[o]) /\ result'.value = restored[o]
    BY <1>3, <2>1 DEF Returned
  <2>5. M!Read(c)
    BY <2>2, <2>3, <2>4 DEF M!Read, M!Returned, Returned, flat
  <2> QED
    BY <2>5 DEF M!Next
<1>7. CASE call.op = "write"
  <2>1. v \in Values
    <3>1. Busy
      BY DEF access
    <3> QED
      BY <1>2, <1>7, <3>1 DEF VInv, CallFollowsTree
  <2>2. accessed[o] = v /\ written' = written \union {c}
    BY <1>1, <1>2, <1>3, <1>7 DEF accessed, Words
  <2>3. flat' = [flat EXCEPT ![c] = v]
    BY <1>4, <1>5, <1>7, <2>2 DEF flat
  <2>4. M!Write(c, v)
    BY <1>3, <2>2, <2>3 DEF M!Write, M!Returned, Returned, flat
  <2> QED
    BY <2>1, <2>4 DEF M!Next
<1> QED
  BY <1>1, <1>6, <1>7

\* Every step is one of the flat memory, or changes nothing of it.
LEMMA NextMaps == VInv /\ [Next]_vars => [M!Next]_(M!vars)
<1> SUFFICES ASSUME VInv, [Next]_vars PROVE [M!Next]_(M!vars)
  OBVIOUS
<1>1. ASSUME flat' = flat, result' = result PROVE [M!Next]_(M!vars)
  BY <1>1 DEF M!vars, flat
<1>2. ASSUME NEW request, begin(request) PROVE [M!Next]_(M!vars)
  <2>1. flat' = flat
    BY <1>2 DEF begin, flat, contentOf, walk
  <2>2. result' = Refused \/ result' = NoResult
    BY <1>2 DEF begin
  <2>3. M!Refuse \/ M!Begin
    BY <2>1, <2>2 DEF flat, M!Refuse, M!Begin, M!Refused, M!NoResult, Refused, NoResult
  <2> QED
    BY <2>3 DEF M!Next
<1>3. CASE VMinitialize
  <2>1. written' = {} /\ result' = NoResult
    BY <1>3 DEF VMinitialize
  <2>2. flat' = [a \in Addresses |-> Unwritten]
    BY <2>1 DEF flat
  <2>3. M!Initialize
    BY <2>1, <2>2 DEF flat, M!Initialize, M!NoResult, NoResult
  <2> QED
    BY <2>3 DEF M!Next
<1>4. CASE findFrame
  <2>1. ContentStays
    BY <1>4, FollowKeeps, MoveKeeps, TakeKeeps, EvictKeeps DEF findFrame
  <2>2. written' = written /\ result' = result
    BY <1>4 DEF findFrame, followEntry, moveUnusedTable, takeFreeFrame, evictFrame
  <2> QED
    BY <1>1, <2>1, <2>2, FlatStays
<1>5. CASE access
  BY <1>5, AccessRefines
<1>6. CASE UNCHANGED vars
  <2>1. flat' = flat /\ result' = result
    BY <1>6 DEF vars, flat, contentOf, walk
  <2> QED
    BY <1>1, <2>1
<1> QED
  BY <1>2, <1>3, <1>4, <1>5, <1>6 DEF Next, VMread, VMwrite

\* Every behaviour of the tables, the frames and the swap file is one of a flat
\* memory: a read returns what was last written, however often the page has been
\* to the swap file and back.
THEOREM VirtualMemoryIsMemory == Spec => ImplementsMemory
<1>1. Init => M!Init
  <2> SUFFICES ASSUME Init PROVE M!Init
    OBVIOUS
  <2>1. written = {} /\ result = NoResult
    BY DEF Init
  <2> QED
    BY <2>1 DEF M!Init, M!NoResult, NoResult
<1>2. VInv /\ [Next]_vars => [M!Next]_(M!vars)
  BY NextMaps
<1> QED
  BY <1>1, <1>2, VInvariant, PTL DEF Spec, ImplementsMemory, M!Spec
=============================================================================
