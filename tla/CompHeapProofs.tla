--------------------------- MODULE CompHeapProofs ---------------------------
(***************************************************************************)
(* Proofs about the compile-time heap: its state keeps its type, no two    *)
(* live blocks or free-list entries ever overlap, and it implements the    *)
(* contract of HeapContract, for every slot size, reservation and set of   *)
(* requests in which global members are aligned to at most one slot.       *)
(***************************************************************************)
EXTENDS CompHeap, NumberFacts

\* The requests comp_heap_alloc_global_member serves correctly.
NarrowHeaders == \A r \in Requests : r.hdr => r.align <= MinSize

-----------------------------------------------------------------------------
(* Arithmetic. *)

LEMMA Regroup ==
  ASSUME NEW c \in Nat, NEW t \in Nat, NEW q \in Nat
  PROVE  (2 * c * t) * q = c * (2 * (t * q)) /\ t * q \in Nat
OBVIOUS

LEMMA Parity ==
  ASSUME NEW x \in Nat, NEW a \in Nat, (2 * x + a) % 2 = 1
  PROVE  a % 2 = 1
OBVIOUS

\* In the binary decomposition of n by multiples of c, the part of weight c
\* lies below the part of any larger weight.
LEMMA SplitBelow ==
  ASSUME NEW n \in Nat, NEW c \in Nat \ {0}, NEW t \in Nat \ {0},
         (n \div c) % 2 = 1
  PROVE  (n % c) + c <= n % (2 * c * t)
<1> DEFINE D == 2 * c * t
           m == n % D
           q == n \div D
           a == m \div c
           r == m % c
<1>1. n = D * q + m /\ q \in Nat /\ m \in 0 .. D - 1
  <2>1. D \in Nat \ {0}
    OBVIOUS
  <2> QED
    BY <2>1, DivMod
<1>2. m = c * a + r /\ a \in Nat /\ r \in 0 .. c - 1
  <2>1. m \in Nat
    BY <1>1
  <2> HIDE DEF m
  <2> QED
    BY <2>1, DivMod
<1> HIDE DEF m, q, a, r
<1>3. D * q = c * (2 * (t * q)) /\ t * q \in Nat
  BY <1>1, Regroup
<1>4. n = c * (2 * (t * q) + a) + r
  BY <1>1, <1>2, <1>3
<1>5. 2 * (t * q) + a \in Nat
  BY <1>2, <1>3
<1>6. n \div c = 2 * (t * q) + a /\ n % c = r
  <2> HIDE DEF D
  <2> QED
    BY <1>4, <1>5, <1>2, DivModUnique
<1>7. a % 2 = 1
  <2> DEFINE x == t * q
  <2>1. (2 * x + a) % 2 = 1
    BY <1>6
  <2>2. x \in Nat
    BY <1>3
  <2> HIDE DEF x
  <2> QED
    BY <2>1, <2>2, <1>2, Parity
<1>8. c * a >= c
  BY <1>2, <1>7
<1> QED
  BY <1>2, <1>6, <1>8 DEF m

LEMMA RoundUpFacts ==
  ASSUME NEW a \in Nat, NEW n \in Nat \ {0}
  PROVE  /\ RoundUp(a, n) \in Nat
         /\ RoundUp(a, n) % n = 0
         /\ a <= RoundUp(a, n) /\ RoundUp(a, n) < a + n
<1>1. a = n * (a \div n) + (a % n) /\ a \div n \in Nat /\ a % n \in 0 .. n - 1
  BY DivMod
<1>2. CASE a % n = 0
  BY <1>1, <1>2 DEF RoundUp
<1>3. CASE a % n # 0
  <2> DEFINE q == a \div n
             r == a % n
  <2>1. RoundUp(a, n) = n * (q + 1) /\ q + 1 \in Nat
    BY <1>1, <1>3 DEF RoundUp
  <2>2. (n * (q + 1)) % n = 0
    <3> HIDE DEF q
    <3> QED
      BY <2>1, MultipleMod
  <2> QED
    BY <1>1, <1>3, <2>1, <2>2 DEF RoundUp
<1> QED
  BY <1>2, <1>3

\* Rounding up stays below every bound that is itself a multiple.
LEMMA RoundUpBound ==
  ASSUME NEW a \in Nat, NEW n \in Nat \ {0}, NEW b \in Nat, a <= b, b % n = 0
  PROVE  RoundUp(a, n) <= b
<1>1. a = n * (a \div n) + (a % n) /\ a \div n \in Nat /\ a % n \in 0 .. n - 1
  BY DivMod
<1>2. b = n * (b \div n) /\ b \div n \in Nat
  BY DivMod
<1>3. CASE a % n = 0
  BY <1>3 DEF RoundUp
<1>4. CASE a % n # 0
  <2> DEFINE p == a \div n
             q == b \div n
  <2>1. RoundUp(a, n) = n * (p + 1)
    BY <1>1, <1>4 DEF RoundUp
  <2>2. n * p < n * q /\ p \in Nat /\ q \in Nat
    BY <1>1, <1>2, <1>4
  <2> HIDE DEF p, q
  <2>3. p < q
    BY <2>2
  <2>4. n * (p + 1) <= n * q
    BY <2>2, <2>3
  <2> QED
    BY <2>1, <2>4, <1>2 DEF q
<1> QED
  BY <1>3, <1>4

-----------------------------------------------------------------------------
(* The free lists. *)

\* Largest class.
Last == NumLists - 1

LEMMA ClassFacts ==
  /\ Last \in Classes /\ Last > 0 /\ 0 \in Classes /\ 1 \in Classes
  /\ ClassSize[1] = 2 * MinSize
  /\ MaxFreelistSize = 2 * ClassSize[Last] /\ MaxFreelistSize \in Nat \ {0}
  /\ \A k \in Classes : /\ ClassSize[k] \in Nat \ {0}
                        /\ ClassSize[k] % MinSize = 0
                        /\ ClassSize[k] >= MinSize
<1>1. /\ Last \in Classes /\ Last > 0 /\ 0 \in Classes /\ 1 \in Classes
      /\ ClassSize[1] = 2 * MinSize
  BY ClassAssumption DEF Classes, Last
<1>2. ASSUME NEW k \in Classes
      PROVE  ClassSize[k] \in Nat \ {0} /\ ClassSize[k] % MinSize = 0
  <2>1. 0 <= k
    BY DEF Classes
  <2>2. ClassSize[k] % ClassSize[0] = 0
    BY <2>1, <1>1, ClassAssumption
  <2> QED
    BY <2>2, ClassAssumption
<1>3. ASSUME NEW k \in Classes
      PROVE  ClassSize[k] >= MinSize
  <2>1. PICK t \in Nat \ {0} : ClassSize[k] = MinSize * t
    BY <1>2, ClassAssumption, Multiple
  <2> QED
    BY <2>1, ClassAssumption, ProductGrows
<1> QED
  BY <1>1, <1>2, <1>3 DEF MaxFreelistSize, Last

LEMMA ClassSlots ==
  ASSUME NEW k \in Classes
  PROVE  \E t \in Nat \ {0} : ClassSize[k] = MinSize * t
<1>1. /\ ClassSize[k] \in Nat \ {0} /\ MinSize \in Nat \ {0}
      /\ ClassSize[k] % MinSize = 0
  BY ClassFacts, ClassAssumption
<1> DEFINE c == ClassSize[k]
<1> HIDE DEF c
<1>2. c \in Nat \ {0} /\ c % MinSize = 0
  BY <1>1 DEF c
<1>3. \E t \in Nat \ {0} : c = MinSize * t
  BY <1>1, <1>2, Multiple
<1> QED
  BY <1>3 DEF c

\* Classes double, so that every larger class is an even multiple.
LEMMA ClassMultiple ==
  ASSUME NEW j \in Classes, NEW k \in Classes, j < k
  PROVE  \E t \in Nat \ {0} : ClassSize[k] = 2 * ClassSize[j] * t
<1>1. j + 1 \in Classes /\ ClassSize[j + 1] = 2 * ClassSize[j]
  BY ClassAssumption DEF Classes
<1>2. ClassSize[k] % ClassSize[j + 1] = 0
  BY <1>1, ClassAssumption DEF Classes
<1>3. PICK t \in Nat \ {0} : ClassSize[k] = ClassSize[j + 1] * t
  BY <1>1, <1>2, ClassFacts, Multiple
<1> QED
  BY <1>1, <1>3

LEMMA MaxMultiple ==
  ASSUME NEW j \in Classes
  PROVE  \E t \in Nat \ {0} : MaxFreelistSize = 2 * ClassSize[j] * t
<1>1. CASE j = Last
  BY <1>1, ClassFacts
<1>2. CASE j # Last
  <2>1. j < Last
    BY <1>2, ClassAssumption DEF Classes, Last
  <2>2. PICK t \in Nat \ {0} : ClassSize[Last] = 2 * ClassSize[j] * t
    BY <2>1, ClassFacts, ClassMultiple
  <2>3. 2 * (2 * ClassSize[j] * t) = 2 * ClassSize[j] * (2 * t)
    BY ClassFacts
  <2> QED
    BY <2>2, <2>3, ClassFacts
<1> QED
  BY <1>1, <1>2

\* An entry e that splitting the range [at, at + size) can produce for list k.
Fresh(e, at, size, k) ==
  /\ e \in Entries
  /\ at <= e.at /\ e.at + e.size <= at + size
  /\ e.at % MinSize = 0 /\ e.size >= ClassSize[k]

LEMMA SmallFresh ==
  ASSUME NEW at \in Nat, NEW size \in Nat, CanAddToFreelist(at, size),
         NEW k \in Classes, (size \div ClassSize[k]) % 2 = 1
  PROVE  /\ Fresh([at |-> at + (size % ClassSize[k]), size |-> ClassSize[k]], at, size, k)
         /\ (size % ClassSize[k]) + ClassSize[k] <= size % MaxFreelistSize
         /\ size % MaxFreelistSize <= size
<1>1. PICK t \in Nat \ {0} : MaxFreelistSize = 2 * ClassSize[k] * t
  BY MaxMultiple
<1>2. (size % ClassSize[k]) + ClassSize[k] <= size % MaxFreelistSize
  BY <1>1, ClassFacts, SplitBelow
<1>3. size % MaxFreelistSize <= size /\ size % MaxFreelistSize \in Nat
  <2>1. MaxFreelistSize \in Nat \ {0}
    BY ClassFacts
  <2> QED
    BY <2>1, ModFacts
<1>4. size % ClassSize[k] \in Nat
  <2>1. ClassSize[k] \in Nat \ {0}
    BY ClassFacts
  <2> QED
    BY <2>1, ModFacts
<1>5. (at + (size % ClassSize[k])) % MinSize = 0
  <2>1. (size % ClassSize[k]) % MinSize = 0
    \* size and ClassSize[k] * (size \div ClassSize[k]) are whole slots.
    <3>1. size = ClassSize[k] * (size \div ClassSize[k]) + (size % ClassSize[k])
          /\ size \div ClassSize[k] \in Nat
      BY ClassFacts, DivMod
    <3>2. PICK t2 \in Nat \ {0} : ClassSize[k] = MinSize * t2
      BY ClassSlots
    <3> DEFINE q == size \div ClassSize[k]
    <3>3. ClassSize[k] * q = MinSize * (t2 * q) /\ t2 * q \in Nat
      BY <3>1, <3>2, ClassAssumption
    <3>4. (ClassSize[k] * q) % MinSize = 0 /\ ClassSize[k] * q \in Nat
      <4> DEFINE x == t2 * q
      <4>1. x \in Nat /\ ClassSize[k] * q = MinSize * x
        BY <3>3
      <4> HIDE DEF x, q
      <4> QED
        BY <4>1, ClassAssumption, MultipleMod
    <3>5. size % MinSize = 0
      BY DEF CanAddToFreelist
    <3>6. size % ClassSize[k] = size - ClassSize[k] * q
      BY <3>1, <1>4, <3>4
    <3>7. ClassSize[k] * q <= size
      BY <3>1, <1>4, <3>4
    <3> HIDE DEF q
    <3> QED
      BY <3>4, <3>5, <3>6, <3>7, SubMod, ClassAssumption
  <2> QED
    BY <2>1, <1>4, AddMod, ClassAssumption DEF CanAddToFreelist
<1> QED
  BY <1>2, <1>3, <1>4, <1>5, ClassFacts DEF Fresh, Entries

\* The entries a range contributes to list k.
New(at, size, k) ==
  (IF k = Last THEN LargeEntries(at, size) ELSE << >>) \o SmallEntries(at, size, k)

Large(at, size, m) == [at |-> at + size - m * MaxFreelistSize, size |-> MaxFreelistSize]

Small(at, size, k) == [at |-> at + (size % ClassSize[k]), size |-> ClassSize[k]]

LEMMA LargeFresh ==
  ASSUME NEW at \in Nat, NEW size \in Nat, CanAddToFreelist(at, size),
         NEW m \in 1 .. (size \div MaxFreelistSize)
  PROVE  /\ Fresh(Large(at, size, m), at, size, Last)
         /\ at + (size % MaxFreelistSize) <= Large(at, size, m).at
<1> DEFINE M == MaxFreelistSize
           q == size \div M
           r == size % M
<1>1. M \in Nat \ {0} /\ M >= ClassSize[Last] /\ ClassSize[Last] \in Nat
  BY ClassFacts
<1>2. size = M * q + r /\ q \in Nat /\ r \in Nat
  <2>1. M \in Nat \ {0}
    BY <1>1
  <2> HIDE DEF M
  <2>2. size = M * (size \div M) + (size % M) /\ size \div M \in Nat /\ size % M \in 0 .. M - 1
    BY <2>1, DivMod
  <2> QED
    BY <2>1, <2>2
<1>3. m \in Nat \ {0} /\ m <= q
  BY <1>2
<1>4. m * M <= M * q /\ m * M >= M /\ m * M \in Nat
  <2> HIDE DEF q, M
  <2> QED
    BY <1>1, <1>2, <1>3
<1>5. (m * M) % MinSize = 0
  <2>1. PICK t \in Nat \ {0} : M = 2 * MinSize * t
    BY MaxMultiple, ClassFacts, ClassAssumption
  <2>2. m * M = MinSize * (2 * (t * m)) /\ 2 * (t * m) \in Nat
    <3> HIDE DEF M
    <3> QED
      BY <2>1, <1>3, ClassAssumption
  <2> DEFINE x == 2 * (t * m)
  <2>3. m * M = MinSize * x /\ x \in Nat
    BY <2>2
  <2> HIDE DEF x, M
  <2> QED
    BY <2>3, MultipleMod, ClassAssumption
<1>6. at + size \in Nat /\ (at + size) % MinSize = 0 /\ m * M <= at + size
  <2>1. size >= m * M
    <3> HIDE DEF M, q, r
    <3> QED
      BY <1>1, <1>2, <1>4
  <2>2. (at + size) % MinSize = 0
    BY AddMod, ClassAssumption DEF CanAddToFreelist
  <2> HIDE DEF M
  <2> QED
    BY <2>1, <2>2, <1>4
<1>7. (at + size - m * M) % MinSize = 0 /\ at + size - m * M \in Nat
  <2> HIDE DEF M
  <2> QED
    BY <1>4, <1>5, <1>6, SubMod, ClassAssumption
<1>8. Large(at, size, m) = [at |-> at + size - m * M, size |-> M]
  BY DEF Large
<1> HIDE DEF M, q, r
<1>9. at + r <= at + size - m * M
  BY <1>1, <1>2, <1>4
<1>10. at + size - m * M + M <= at + size
  BY <1>1, <1>4
<1>11. Fresh([at |-> at + size - m * M, size |-> M], at, size, Last)
  BY <1>1, <1>2, <1>7, <1>9, <1>10 DEF Fresh, Entries
<1> QED
  BY <1>8, <1>9, <1>11 DEF r, M

\* What is at position m of New(at, size, k).
LEMMA NewShape ==
  ASSUME NEW at \in Nat, NEW size \in Nat, CanAddToFreelist(at, size), NEW k \in Classes
  PROVE  /\ New(at, size, k) \in Seq(Entries)
         /\ \A m \in DOMAIN New(at, size, k) :
              \/ /\ k = Last /\ m \in 1 .. (size \div MaxFreelistSize)
                 /\ New(at, size, k)[m] = Large(at, size, m)
              \/ /\ m = Len(New(at, size, k))
                 /\ (size \div ClassSize[k]) % 2 = 1
                 /\ New(at, size, k)[m] = Small(at, size, k)
<1> DEFINE A == IF k = Last THEN LargeEntries(at, size) ELSE << >>
           B == SmallEntries(at, size, k)
           n == size \div MaxFreelistSize
<1>1. n \in Nat
  <2>1. MaxFreelistSize \in Nat \ {0}
    BY ClassFacts
  <2> QED
    BY <2>1, DivMod
<1>2. /\ A \in Seq(Entries)
      /\ \A m \in 1 .. Len(A) : k = Last /\ m \in 1 .. n /\ A[m] = Large(at, size, m)
  <2>1. CASE k = Last
    <3>1. A = [j \in 1 .. n |-> Large(at, size, j)]
      BY <2>1 DEF LargeEntries, Large
    <3>2. \A j \in 1 .. n : Large(at, size, j) \in Entries
      BY LargeFresh DEF Fresh
    <3> HIDE DEF A, n
    <3> QED
      BY <3>1, <3>2, <1>1, <2>1
  <2>2. CASE k # Last
    BY <2>2
  <2> QED
    BY <2>1, <2>2
<1>3. /\ B \in Seq(Entries)
      /\ \A m \in 1 .. Len(B) : /\ m = 1 /\ Len(B) = 1
                               /\ (size \div ClassSize[k]) % 2 = 1 /\ B[m] = Small(at, size, k)
  <2>1. CASE (size \div ClassSize[k]) % 2 = 1
    <3>1. B = << Small(at, size, k) >>
      BY <2>1 DEF SmallEntries, Small
    <3>2. Small(at, size, k) \in Entries
      BY <2>1, SmallFresh DEF Fresh, Small
    <3> QED
      BY <3>1, <3>2, <2>1
  <2>2. CASE (size \div ClassSize[k]) % 2 # 1
    BY <2>2 DEF SmallEntries
  <2> QED
    BY <2>1, <2>2
<1>4. New(at, size, k) = A \o B
  BY DEF New
<1> HIDE DEF A, B, n
<1>5. /\ A \o B \in Seq(Entries)
      /\ Len(A \o B) = Len(A) + Len(B)
      /\ DOMAIN (A \o B) = 1 .. Len(A) + Len(B)
      /\ \A m \in 1 .. Len(A) + Len(B) :
           (A \o B)[m] = IF m <= Len(A) THEN A[m] ELSE B[m - Len(A)]
  BY <1>2, <1>3
<1>6. Len(A) \in Nat /\ Len(B) \in Nat
  BY <1>2, <1>3
<1>7. ASSUME NEW m \in DOMAIN (A \o B)
      PROVE  \/ k = Last /\ m \in 1 .. n /\ (A \o B)[m] = Large(at, size, m)
             \/ /\ m = Len(A \o B)
                /\ (size \div ClassSize[k]) % 2 = 1
                /\ (A \o B)[m] = Small(at, size, k)
  <2>1. CASE m <= Len(A)
    BY <2>1, <1>2, <1>5, <1>6
  <2>2. CASE m > Len(A)
    <3>1. m - Len(A) \in 1 .. Len(B)
      BY <2>2, <1>5, <1>6
    <3> QED
      BY <3>1, <2>2, <1>3, <1>5, <1>6
  <2> QED
    BY <2>1, <2>2, <1>5, <1>6
<1> QED
  BY <1>4, <1>5, <1>7 DEF n

LEMMA NewFresh ==
  ASSUME NEW at \in Nat, NEW size \in Nat, CanAddToFreelist(at, size), NEW k \in Classes,
         NEW m \in DOMAIN New(at, size, k)
  PROVE  Fresh(New(at, size, k)[m], at, size, k)
<1>1. CASE k = Last /\ m \in 1 .. (size \div MaxFreelistSize)
           /\ New(at, size, k)[m] = Large(at, size, m)
  BY <1>1, LargeFresh
<1>2. CASE (size \div ClassSize[k]) % 2 = 1 /\ New(at, size, k)[m] = Small(at, size, k)
  BY <1>2, SmallFresh DEF Small
<1> QED
  BY <1>1, <1>2, NewShape

\* The entries a range is split into share no byte.
LEMMA NewApart ==
  ASSUME NEW at \in Nat, NEW size \in Nat, CanAddToFreelist(at, size),
         NEW j \in Classes, NEW k \in Classes,
         NEW m \in DOMAIN New(at, size, j), NEW n \in DOMAIN New(at, size, k),
         j # k \/ m # n
  PROVE  Apart(New(at, size, j)[m], New(at, size, k)[n])
<1> DEFINE x == New(at, size, j)[m]
           y == New(at, size, k)[n]
           IsLarge(l, i) == /\ l = Last /\ i \in 1 .. (size \div MaxFreelistSize)
                            /\ New(at, size, l)[i] = Large(at, size, i)
           IsSmall(l, i) == /\ i = Len(New(at, size, l))
                            /\ (size \div ClassSize[l]) % 2 = 1
                            /\ New(at, size, l)[i] = Small(at, size, l)
<1>1. (IsLarge(j, m) \/ IsSmall(j, m)) /\ (IsLarge(k, n) \/ IsSmall(k, n))
  BY NewShape
<1>2. ASSUME NEW a \in Nat, NEW b \in Nat, a < b
      PROVE  Apart(Large(at, size, a), Large(at, size, b))
  <2> DEFINE M == MaxFreelistSize
  <2>1. M \in Nat \ {0}
    BY ClassFacts
  <2>2. a * M + M <= b * M /\ a * M \in Nat /\ b * M \in Nat
    <3> HIDE DEF M
    <3> QED
      BY <2>1, <1>2, ProductStep
  <2>3. /\ Large(at, size, b).at = at + size - b * M /\ Large(at, size, b).size = M
        /\ Large(at, size, a).at = at + size - a * M
    BY DEF Large
  <2> HIDE DEF M
  <2> QED
    BY <2>1, <2>2, <2>3 DEF Apart, M
<1>3. ASSUME NEW l \in Classes, NEW a \in 1 .. (size \div MaxFreelistSize),
             (size \div ClassSize[l]) % 2 = 1
      PROVE  Small(at, size, l).at + Small(at, size, l).size <= Large(at, size, a).at
  <2>1. (size % ClassSize[l]) + ClassSize[l] <= size % MaxFreelistSize
    BY <1>3, SmallFresh
  <2>2. at + (size % MaxFreelistSize) <= Large(at, size, a).at
    BY LargeFresh
  <2>3. /\ size % ClassSize[l] \in Nat /\ ClassSize[l] \in Nat /\ size % MaxFreelistSize \in Nat
        /\ Large(at, size, a).at \in Nat
    <3>1. ClassSize[l] \in Nat \ {0} /\ MaxFreelistSize \in Nat \ {0}
      BY ClassFacts
    <3>2. Large(at, size, a).at \in Nat
      BY LargeFresh DEF Fresh, Entries
    <3> QED
      BY <3>1, <3>2, ModFacts
  <2>4. /\ Small(at, size, l).at = at + (size % ClassSize[l])
        /\ Small(at, size, l).size = ClassSize[l]
    BY DEF Small
  <2> QED
    BY <2>1, <2>2, <2>3, <2>4
<1>4. ASSUME NEW l \in Classes, NEW l2 \in Classes, l < l2,
             (size \div ClassSize[l]) % 2 = 1
      PROVE  Small(at, size, l).at + Small(at, size, l).size <= Small(at, size, l2).at
  <2>1. PICK t \in Nat \ {0} : ClassSize[l2] = 2 * ClassSize[l] * t
    BY <1>4, ClassMultiple
  <2>2. (size % ClassSize[l]) + ClassSize[l] <= size % ClassSize[l2]
    BY <1>4, <2>1, ClassFacts, SplitBelow
  <2>3. size % ClassSize[l] \in Nat /\ ClassSize[l] \in Nat /\ size % ClassSize[l2] \in Nat
    <3>1. ClassSize[l] \in Nat \ {0} /\ ClassSize[l2] \in Nat \ {0}
      BY ClassFacts
    <3> QED
      BY <3>1, ModFacts
  <2> QED
    BY <2>2, <2>3 DEF Small
<1>5. CASE IsLarge(j, m) /\ IsLarge(k, n)
  <2>1. m \in Nat /\ n \in Nat /\ (m < n \/ n < m)
    BY <1>5
  <2>2. Apart(Large(at, size, m), Large(at, size, n))
    <3>1. CASE m < n
      BY <3>1, <2>1, <1>2
    <3>2. CASE n < m
      BY <3>2, <2>1, <1>2 DEF Apart
    <3> QED
      BY <3>1, <3>2, <2>1
  <2> QED
    BY <2>2, <1>5
<1>6. CASE IsSmall(j, m) /\ IsLarge(k, n)
  BY <1>6, <1>3 DEF Apart
<1>7. CASE IsLarge(j, m) /\ IsSmall(k, n)
  BY <1>7, <1>3 DEF Apart
<1>8. CASE IsSmall(j, m) /\ IsSmall(k, n)
  <2>1. j # k
    BY <1>8
  <2>2. CASE j < k
    BY <2>2, <1>4, <1>8 DEF Apart
  <2>3. CASE k < j
    BY <2>3, <1>4, <1>8 DEF Apart
  <2> QED
    BY <2>1, <2>2, <2>3, ClassAssumption DEF Classes
<1> QED
  BY <1>1, <1>5, <1>6, <1>7, <1>8

LEMMA AddShape ==
  ASSUME NEW at \in Nat, NEW size \in Nat, CanAddToFreelist(at, size),
         NEW ls \in [Classes -> Seq(Entries)]
  PROVE  LET after == AddToFreelist(ls, at, size)
         IN  /\ after \in [Classes -> Seq(Entries)]
             /\ \A k \in Classes : \A i \in DOMAIN after[k] :
                  LET p == Len(New(at, size, k))
                  IN  \/ i \in DOMAIN New(at, size, k) /\ after[k][i] = New(at, size, k)[i]
                      \/ /\ i - p \in DOMAIN ls[k] /\ i \notin DOMAIN New(at, size, k)
                         /\ after[k][i] = ls[k][i - p]
<1> DEFINE after == AddToFreelist(ls, at, size)
<1>1. ASSUME NEW k \in Classes
      PROVE  after[k] = New(at, size, k) \o ls[k]
  BY DEF AddToFreelist, New, Last
<1>2. ASSUME NEW k \in Classes
      PROVE  New(at, size, k) \in Seq(Entries) /\ ls[k] \in Seq(Entries)
  BY NewShape
<1>3. after = [k \in Classes |-> after[k]]
  BY DEF AddToFreelist
<1> HIDE DEF after
<1>4. after \in [Classes -> Seq(Entries)]
  <2>1. ASSUME NEW k \in Classes
        PROVE  New(at, size, k) \o ls[k] \in Seq(Entries)
    BY <1>2
  <2> QED
    BY <1>1, <1>3, <2>1
<1>5. ASSUME NEW k \in Classes, NEW i \in DOMAIN after[k]
      PROVE  \/ i \in DOMAIN New(at, size, k) /\ after[k][i] = New(at, size, k)[i]
             \/ /\ i - Len(New(at, size, k)) \in DOMAIN ls[k] /\ i \notin DOMAIN New(at, size, k)
                /\ after[k][i] = ls[k][i - Len(New(at, size, k))]
  <2> DEFINE A == New(at, size, k)
             B == ls[k]
  <2>1. A \in Seq(Entries) /\ B \in Seq(Entries) /\ after[k] = A \o B /\ i \in DOMAIN (A \o B)
    BY <1>1, <1>2, <1>5
  <2> HIDE DEF A, B
  <2>2. i \in 1 .. Len(A) + Len(B) /\ DOMAIN A = 1 .. Len(A) /\ DOMAIN B = 1 .. Len(B)
        /\ Len(A) \in Nat /\ Len(B) \in Nat
    BY <2>1
  <2>3. CASE i <= Len(A)
    BY <2>1, <2>2, <2>3 DEF A, B
  <2>4. CASE i > Len(A)
    BY <2>1, <2>2, <2>4 DEF A, B
  <2> QED
    BY <2>2, <2>3, <2>4
<1> QED
  BY <1>4, <1>5 DEF after

\* What the free lists hold stays well-formed, inside bounds and apart from
\* everything the new range was apart from.
LEMMA AddKeeps ==
  ASSUME NEW at \in Nat, NEW size \in Nat, CanAddToFreelist(at, size),
         NEW ls \in [Classes -> Seq(Entries)],
         ListsApart(ls), ListsApartFrom(ls, [at |-> at, size |-> size])
  PROVE  LET after == AddToFreelist(ls, at, size)
         IN  /\ ListsApart(after)
             /\ \A x \in Entries :
                  ListsApartFrom(ls, x) /\ Apart([at |-> at, size |-> size], x)
                    => ListsApartFrom(after, x)
             /\ \A P \in SUBSET Entries :
                  \A k \in Classes :
                    /\ \A i \in DOMAIN ls[k] : ls[k][i] \in P
                    /\ \A e \in Entries : Fresh(e, at, size, k) => e \in P
                    => \A i \in DOMAIN after[k] : after[k][i] \in P
<1> DEFINE after == AddToFreelist(ls, at, size)
           x0 == [at |-> at, size |-> size]
           New1(k) == New(at, size, k)
           p(k) == Len(New(at, size, k))
           IsNew(k, i) == i \in DOMAIN New1(k) /\ after[k][i] = New1(k)[i]
           IsOld(k, i) == /\ i - p(k) \in DOMAIN ls[k] /\ i \notin DOMAIN New1(k)
                          /\ after[k][i] = ls[k][i - p(k)]
<1>1. /\ after \in [Classes -> Seq(Entries)]
      /\ \A k \in Classes : \A i \in DOMAIN after[k] : IsNew(k, i) \/ IsOld(k, i)
  BY AddShape
<1>2. \A k \in Classes : \A i \in DOMAIN New1(k) : Fresh(New1(k)[i], at, size, k)
  BY NewFresh
<1>3. \A k \in Classes : p(k) \in Nat
  BY NewShape
<1>4. \A k \in Classes : \A i \in DOMAIN after[k] : i \in Nat
  BY <1>1
<1>5. \A k \in Classes : \A i \in DOMAIN ls[k] : ls[k][i] \in Entries
  OBVIOUS
<1>6. \A j, k \in Classes : \A m \in DOMAIN New1(j) : \A n \in DOMAIN New1(k) :
        j # k \/ m # n => Apart(New1(j)[m], New1(k)[n])
  BY NewApart
<1> HIDE DEF after, New1, p
\* A part of an extent is apart from what the extent is apart from.
<1>7. ASSUME NEW e, NEW k \in Classes, Fresh(e, at, size, k), NEW x \in Entries, Apart(x0, x)
      PROVE  Apart(e, x) /\ Apart(x, e)
  BY <1>7 DEF Fresh, Entries, Apart
<1>8. ListsApart(after)
  <2> SUFFICES ASSUME NEW j \in Classes, NEW k \in Classes,
                      NEW m \in DOMAIN after[j], NEW n \in DOMAIN after[k], j # k \/ m # n
               PROVE  Apart(after[j][m], after[k][n])
    BY DEF ListsApart
  <2>1. CASE IsNew(j, m) /\ IsNew(k, n)
    BY <2>1, <1>6
  <2>2. CASE IsNew(j, m) /\ IsOld(k, n)
    <3>1. Apart(ls[k][n - p(k)], x0) /\ ls[k][n - p(k)] \in Entries
      BY <2>2, <1>5 DEF ListsApartFrom
    <3>2. Apart(x0, ls[k][n - p(k)])
      BY <3>1 DEF Apart
    <3> QED
      BY <2>2, <3>1, <3>2, <1>2, <1>7
  <2>3. CASE IsOld(j, m) /\ IsNew(k, n)
    <3>1. Apart(ls[j][m - p(j)], x0) /\ ls[j][m - p(j)] \in Entries
      BY <2>3, <1>5 DEF ListsApartFrom
    <3>2. Apart(x0, ls[j][m - p(j)])
      BY <3>1 DEF Apart
    <3> QED
      BY <2>3, <3>1, <3>2, <1>2, <1>7
  <2>4. CASE IsOld(j, m) /\ IsOld(k, n)
    <3>1. j # k \/ m - p(j) # n - p(k)
      BY <1>3, <1>4
    <3> QED
      BY <3>1, <2>4 DEF ListsApart
  <2> QED
    BY <1>1, <2>1, <2>2, <2>3, <2>4
<1>9. ASSUME NEW x \in Entries, ListsApartFrom(ls, x), Apart(x0, x)
      PROVE  ListsApartFrom(after, x)
  <2> SUFFICES ASSUME NEW k \in Classes, NEW i \in DOMAIN after[k]
               PROVE  Apart(after[k][i], x)
    BY DEF ListsApartFrom
  <2>1. CASE IsNew(k, i)
    BY <2>1, <1>2, <1>7, <1>9
  <2>2. CASE IsOld(k, i)
    BY <2>2, <1>9 DEF ListsApartFrom
  <2> QED
    BY <1>1, <2>1, <2>2
<1>10. ASSUME NEW P \in SUBSET Entries, NEW k \in Classes,
              \A i \in DOMAIN ls[k] : ls[k][i] \in P,
              \A e \in Entries : Fresh(e, at, size, k) => e \in P,
              NEW i \in DOMAIN after[k]
       PROVE  after[k][i] \in P
  <2>1. CASE IsNew(k, i)
    BY <2>1, <1>2, <1>10 DEF Fresh
  <2>2. CASE IsOld(k, i)
    BY <2>2, <1>10
  <2> QED
    BY <1>1, <2>1, <2>2
<1> QED
  BY <1>8, <1>9, <1>10 DEF after

-----------------------------------------------------------------------------
(* Blocks and requests. *)

Blocks == [start : Nat, size : Nat, hdr : BOOLEAN]

LEMMA BlockFacts ==
  ASSUME NEW b \in Blocks
  PROVE  /\ Payload(b) \in Nat /\ Served(b.size, b.hdr) \in Nat
         /\ b.start <= Payload(b)
         /\ Payload(b) = b.start + HeaderBytes(b.hdr)
         /\ HeaderBytes(b.hdr) \in Nat
         /\ BlockEnd(b) \in Nat /\ BlockEnd(b) % MinSize = 0
         /\ b.start < BlockEnd(b)
         /\ Payload(b) + Served(b.size, b.hdr) <= BlockEnd(b)
         /\ BlockEnd(b) < Payload(b) + Served(b.size, b.hdr) + MinSize
         /\ Extent(b) \in Entries
         /\ Extent(b).at = b.start /\ Extent(b).at + Extent(b).size = BlockEnd(b)
<1>1. /\ b.start \in Nat /\ b.size \in Nat /\ b.hdr \in BOOLEAN
      /\ MinSize \in Nat \ {0}
  BY ClassAssumption DEF Blocks
<1>2. /\ HeaderBytes(b.hdr) \in Nat /\ Served(b.size, b.hdr) \in Nat
      /\ HeaderBytes(b.hdr) + Served(b.size, b.hdr) > 0
  BY <1>1 DEF HeaderBytes, Served
<1> DEFINE n == Payload(b) + Served(b.size, b.hdr)
<1>3. /\ n \in Nat /\ n > b.start /\ Payload(b) \in Nat
      /\ Payload(b) = b.start + HeaderBytes(b.hdr)
  BY <1>1, <1>2 DEF Payload
<1>4. BlockEnd(b) = RoundUp(n, MinSize)
  BY DEF BlockEnd
<1> HIDE DEF n
<1>5. /\ BlockEnd(b) \in Nat /\ BlockEnd(b) % MinSize = 0
      /\ n <= BlockEnd(b) /\ BlockEnd(b) < n + MinSize
  BY <1>1, <1>3, <1>4, RoundUpFacts
<1>6. /\ Extent(b) \in Entries
      /\ Extent(b).at = b.start /\ Extent(b).at + Extent(b).size = BlockEnd(b)
  BY <1>1, <1>3, <1>5 DEF Extent, Entries
<1> QED
  BY <1>1, <1>2, <1>3, <1>5, <1>6 DEF n

\* A total within the reuse limit has a list, of entries large enough.
LEMMA ClassOfFacts ==
  ASSUME NEW n \in Nat, n <= ReuseLimit
  PROVE  ClassOf(n) \in Classes /\ ClassSize[ClassOf(n)] >= n
<1> DEFINE Fits(k) == ClassSize[k] >= n /\ \A j \in Classes : ClassSize[j] >= n => k <= j
<1>1. \E k \in Classes : Fits(k)
  <2>1. CASE ClassSize[0] >= n
    BY <2>1, ClassFacts DEF Classes
  <2>2. CASE ~(ClassSize[0] >= n)
    <3>1. ClassSize[1] >= n
      BY ClassFacts, SizeAssumption, ClassAssumption
    <3>2. \A j \in Classes : ClassSize[j] >= n => 1 <= j
      BY <2>2 DEF Classes
    <3> QED
      BY <3>1, <3>2, ClassFacts
  <2> QED
    BY <2>1, <2>2
<1> QED
  BY <1>1 DEF ClassOf

LEMMA RequestFacts ==
  ASSUME NEW r \in Requests
  PROVE  /\ r.size \in Nat /\ r.align \in Nat \ {0} /\ r.hdr \in BOOLEAN
         /\ HeaderBytes(r.hdr) \in {0, MinSize} /\ Served(r.size, r.hdr) \in Nat
         /\ Total(r) \in Nat /\ Total(r) = Served(r.size, r.hdr) + HeaderBytes(r.hdr)
BY RequestAssumption, ClassAssumption DEF HeaderBytes, Served, Total

\* Where a request served from the end of the heap lands.
LEMMA BumpFacts ==
  ASSUME NarrowHeaders, NEW r \in Requests, used \in Nat, used % MinSize = 0
  PROVE  /\ Unaligned(r) \in Nat /\ Aligned(r) \in Nat /\ Start(r) \in Nat
         /\ Unaligned(r) = used + HeaderBytes(r.hdr)
         /\ Start(r) + HeaderBytes(r.hdr) = Aligned(r)
         /\ Unaligned(r) <= Aligned(r) /\ used <= Start(r)
         /\ Start(r) % MinSize = 0 /\ Aligned(r) % MinSize = 0 /\ Aligned(r) % r.align = 0
         /\ NewUsed(r) \in Nat /\ NewUsed(r) % MinSize = 0
         /\ Aligned(r) + Served(r.size, r.hdr) <= NewUsed(r)
         /\ Start(r) <= NewUsed(r)
         /\ Unaligned(r) # Aligned(r) => Unaligned(r) = used /\ Start(r) = Aligned(r)
                                         /\ CanAddToFreelist(used, Aligned(r) - used)
                                         /\ Aligned(r) - used \in Nat
<1> DEFINE h == HeaderBytes(r.hdr)
<1>1. /\ h \in {0, MinSize} /\ MinSize \in Nat \ {0} /\ r.align \in Nat \ {0}
      /\ Served(r.size, r.hdr) \in Nat
      /\ r.hdr <=> h = MinSize
  BY RequestFacts, ClassAssumption DEF HeaderBytes
<1>2. Unaligned(r) \in Nat /\ Unaligned(r) = used + h
  BY <1>1 DEF Unaligned
<1>3. Unaligned(r) % MinSize = 0
  <2>1. h % MinSize = 0 /\ h \in Nat
    BY <1>1
  <2> QED
    BY <1>1, <1>2, <2>1, AddMod
<1>4. /\ Aligned(r) = RoundUp(Unaligned(r), r.align)
      /\ Aligned(r) \in Nat /\ Aligned(r) % r.align = 0 /\ Unaligned(r) <= Aligned(r)
  BY <1>1, <1>2, RoundUpFacts DEF Aligned
<1>5. r.align <= MinSize => Aligned(r) = Unaligned(r)
  <2> SUFFICES ASSUME r.align <= MinSize PROVE Aligned(r) = Unaligned(r)
    OBVIOUS
  <2>1. MinSize % r.align = 0
    BY RequestAssumption
  <2>2. Unaligned(r) % r.align = 0
    BY <1>1, <1>2, <1>3, <2>1, ModTrans
  <2> QED
    BY <1>4, <2>2 DEF RoundUp
<1>6. Aligned(r) % MinSize = 0
  <2>1. CASE r.align <= MinSize
    BY <2>1, <1>3, <1>5
  <2>2. CASE r.align > MinSize
    <3>1. r.align % MinSize = 0
      BY <2>2, <1>1, RequestAssumption
    <3> QED
      BY <3>1, <1>1, <1>4, ModTrans
  <2> QED
    BY <2>1, <2>2, <1>1
<1>7. r.hdr => r.align <= MinSize
  BY DEF NarrowHeaders
<1>8. /\ Start(r) = Aligned(r) - h /\ Start(r) \in Nat
      /\ used <= Start(r) /\ Start(r) + h = Aligned(r) /\ Start(r) % MinSize = 0
  <2>1. CASE r.hdr
    <3>1. Aligned(r) = used + h
      BY <2>1, <1>2, <1>5, <1>7
    <3>2. Start(r) = Aligned(r) - h
      BY DEF Start
    <3> HIDE DEF h
    <3>3. h \in Nat
      BY <1>1
    <3>4. Start(r) = used
      BY <3>1, <3>2, <3>3
    <3> QED
      BY <3>1, <3>2, <3>3, <3>4
  <2>2. CASE ~r.hdr
    BY <2>2, <1>1, <1>2, <1>4, <1>6 DEF Start
  <2> QED
    BY <2>1, <2>2
<1>9. /\ NewUsed(r) \in Nat /\ NewUsed(r) % MinSize = 0
      /\ Aligned(r) + Served(r.size, r.hdr) <= NewUsed(r)
  <2> DEFINE n == Aligned(r) + Served(r.size, r.hdr)
  <2>1. n \in Nat /\ MinSize \in Nat \ {0}
    BY <1>1, <1>4
  <2>2. NewUsed(r) = RoundUp(n, MinSize)
    BY DEF NewUsed
  <2> HIDE DEF n
  <2>3. NewUsed(r) \in Nat /\ NewUsed(r) % MinSize = 0 /\ n <= NewUsed(r)
    BY <2>1, <2>2, RoundUpFacts
  <2> QED
    BY <2>3 DEF n
<1>10. ASSUME Unaligned(r) # Aligned(r)
       PROVE  /\ Unaligned(r) = used /\ Start(r) = Aligned(r)
              /\ CanAddToFreelist(used, Aligned(r) - used) /\ Aligned(r) - used \in Nat
  <2>1. h = 0
    BY <1>10, <1>1, <1>5, <1>7
  <2>2. Unaligned(r) = used /\ Start(r) = Aligned(r) /\ used < Aligned(r)
    BY <2>1, <1>2, <1>4, <1>8, <1>10
  <2> DEFINE d == Aligned(r) - used
  <2>3. d \in Nat /\ d % MinSize = 0 /\ d > 0
    BY <2>2, <1>1, <1>4, <1>6, SubMod
  <2>4. d >= MinSize
    <3> HIDE DEF d
    <3>0. d \in Nat \ {0} /\ MinSize \in Nat \ {0}
      BY <2>3, <1>1
    <3>1. PICK t \in Nat \ {0} : d = MinSize * t
      BY <2>3, <3>0, Multiple
    <3> QED
      BY <3>1, <1>1, ProductGrows
  <2> QED
    BY <2>2, <2>3, <2>4 DEF CanAddToFreelist
<1> QED
  BY <1>1, <1>2, <1>4, <1>6, <1>8, <1>9, <1>10

-----------------------------------------------------------------------------
(* The invariant. *)

IInv == TypeOK /\ NoOverlap

\* The block a served request becomes.
BlockOf(r, start) == [start |-> start, size |-> r.size, hdr |-> r.hdr]

LEMMA BlockOfFacts ==
  ASSUME NEW r \in Requests, NEW start \in Nat
  PROVE  /\ BlockOf(r, start) \in Blocks
         /\ Payload(BlockOf(r, start)) = start + HeaderBytes(r.hdr)
         /\ BlockOf(r, start).start = start /\ BlockOf(r, start).hdr = r.hdr
         /\ BlockOf(r, start).size = r.size
         /\ BlockEnd(BlockOf(r, start)) =
              RoundUp(start + HeaderBytes(r.hdr) + Served(r.size, r.hdr), MinSize)
BY RequestFacts DEF BlockOf, Blocks, Payload, BlockEnd

\* Allocating keeps the bitmaps and the blocks well-typed.
LEMMA MarkTyped ==
  ASSUME TypeOK, NEW r \in Requests, NEW start \in Nat, start % MinSize = 0,
         Mark(r, start)
  PROVE  /\ begin' \subseteq Nat /\ header' \subseteq begin' /\ \A s \in begin' : s % MinSize = 0
         /\ blocks' = blocks \cup {BlockOf(r, start)}
         /\ blocks' \subseteq Blocks
         /\ \A s \in header' : \E b \in blocks' : b.start = s /\ b.hdr
         /\ \A b \in blocks' : b.start % MinSize = 0
<1>1. blocks' = blocks \cup {BlockOf(r, start)} /\ BlockOf(r, start) \in Blocks
  BY BlockOfFacts DEF Mark, BlockOf
<1>2. begin' = begin \cup {start} /\ header' = IF r.hdr THEN header \cup {start} ELSE header
  BY DEF Mark
<1>3. \A s \in header' : \E b \in blocks' : b.start = s /\ b.hdr
  BY <1>1, <1>2, BlockOfFacts DEF TypeOK
<1>4. \A b \in blocks' : b.start % MinSize = 0
  BY <1>1, BlockOfFacts DEF TypeOK, Slotted
<1> QED
  BY <1>1, <1>2, <1>3, <1>4 DEF TypeOK, Blocks

\* What lies within e is apart from what e is apart from.
LEMMA PartApart ==
  ASSUME NEW e \in Entries, NEW x \in Entries, NEW y \in Entries,
         e.at <= x.at, x.at + x.size <= e.at + e.size
  PROVE  /\ Apart(e, y) => Apart(x, y) /\ Apart(y, x)
         /\ Apart(y, e) => Apart(x, y) /\ Apart(y, x)
BY DEF Entries, Apart

LEMMA AllocReuseInv ==
  ASSUME IInv, NEW r \in Requests, AllocReuse(r)
  PROVE  IInv'
<1> DEFINE k == ClassOf(Total(r))
           e == Head(lists[k])
           start == e.at
           nb == BlockOf(r, start)
<1>1. CASE ~CanMark(r, start)
  BY <1>1 DEF AllocReuse, Failed, IInv, TypeOK, NoOverlap, Slotted, Inside, ListsApart,
              ListsApartFrom
<1>2. CASE CanMark(r, start)
  <2>1. /\ lists' = [lists EXCEPT ![k] = Tail(lists[k])]
        /\ Mark(r, start) /\ used' = used /\ commit' = commit /\ leak' = leak
        /\ lists[k] # << >> /\ Total(r) <= ReuseLimit
    BY <1>2 DEF AllocReuse, CanReuse
  <2>2. k \in Classes /\ ClassSize[k] >= Total(r) /\ ClassSize[k] \in Nat
        /\ ClassSize[k] % MinSize = 0 /\ MinSize \in Nat \ {0}
    BY <2>1, RequestFacts, ClassOfFacts, ClassFacts, ClassAssumption
  <2> HIDE DEF k
  <2>3. \A j \in Classes : lists[j] \in Seq(Entries)
    BY DEF IInv, TypeOK
  <2>4. 1 \in DOMAIN lists[k] /\ e = lists[k][1] /\ e \in Entries
    BY <2>1, <2>2, <2>3
  <2>5. start % MinSize = 0 /\ e.size >= ClassSize[k] /\ Inside(e) /\ start \in Nat /\ e.size \in Nat
    BY <2>2, <2>4 DEF IInv, TypeOK, NoOverlap, Slotted, Entries
  <2>6. /\ lists' \in [Classes -> Seq(Entries)]
        /\ \A j \in Classes : \A i \in DOMAIN lists'[j] :
             \E m \in DOMAIN lists[j] : /\ lists'[j][i] = lists[j][m]
                                       /\ m = IF j = k THEN i + 1 ELSE i
    <3>1. Tail(lists[k]) \in Seq(Entries)
          /\ \A i \in DOMAIN Tail(lists[k]) : i + 1 \in DOMAIN lists[k]
                                             /\ Tail(lists[k])[i] = lists[k][i + 1]
      <4> DEFINE s == lists[k]
      <4>1. s \in Seq(Entries) /\ s # << >>
        BY <2>1, <2>2, <2>3
      <4> HIDE DEF s
      <4> QED
        BY <4>1 DEF s
    <3> HIDE DEF e
    <3>2. lists' \in [Classes -> Seq(Entries)]
      BY <2>1, <2>2, <3>1 DEF IInv, TypeOK
    <3>3. lists'[k] = Tail(lists[k]) /\ \A j \in Classes : j # k => lists'[j] = lists[j]
      BY <2>1, <2>2 DEF IInv, TypeOK
    <3> QED
      BY <3>1, <3>2, <3>3
  <2> HIDE DEF e
  <2>7. nb \in Blocks /\ BlockEnd(nb) <= start + e.size
    <3>1. start + HeaderBytes(r.hdr) + Served(r.size, r.hdr) <= start + ClassSize[k]
      BY <2>2, <2>5, RequestFacts
    <3>2. (start + ClassSize[k]) % MinSize = 0 /\ start + ClassSize[k] \in Nat
      BY <2>2, <2>5, AddMod
    <3>3. start + HeaderBytes(r.hdr) + Served(r.size, r.hdr) \in Nat
      BY <2>2, <2>5, RequestFacts
    <3>4. BlockEnd(nb) <= start + ClassSize[k]
      BY <2>2, <2>5, <3>1, <3>2, <3>3, BlockOfFacts, RoundUpBound
    <3>5. nb \in Blocks
      BY <2>5, BlockOfFacts
    <3> QED
      BY <2>2, <2>5, <3>4, <3>5, BlockFacts
  <2>8. Extent(nb) \in Entries /\ Extent(nb).at = e.at
        /\ e.at <= Extent(nb).at
        /\ Extent(nb).at + Extent(nb).size <= e.at + e.size
    BY <2>5, <2>7, BlockFacts, BlockOfFacts
  <2> HIDE DEF nb
  <2>9. blocks' = blocks \cup {nb} /\ \A b \in blocks : Extent(b) \in Entries
    BY <2>1, <2>5, MarkTyped, BlockFacts DEF IInv, TypeOK, Blocks, nb
  <2>10. TypeOK'
    <3>1. \A j \in Classes : \A i \in DOMAIN lists'[j] :
            lists'[j][i].at % MinSize = 0 /\ lists'[j][i].size >= ClassSize[j]
      BY <2>6 DEF IInv, TypeOK, Slotted
    <3> QED
      BY <2>1, <2>5, <2>6, <3>1, MarkTyped DEF IInv, TypeOK, Slotted, Blocks
  <2>11. (\A b \in blocks : Inside(Extent(b)))'
    <3>1. Inside(Extent(nb))
      BY <2>2, <2>5, <2>8 DEF Inside, Entries, IInv, TypeOK
    <3> QED
      BY <2>1, <2>9, <3>1 DEF IInv, NoOverlap, Inside
  <2>12. (\A j \in Classes : \A i \in DOMAIN lists[j] : Inside(lists[j][i]))'
    BY <2>1, <2>6 DEF IInv, NoOverlap, Inside
  <2>13. (\A b, c \in blocks : b # c => Apart(Extent(b), Extent(c)))'
    <3>1. ASSUME NEW b \in blocks PROVE Apart(Extent(nb), Extent(b)) /\ Apart(Extent(b), Extent(nb))
      <4>1. Apart(e, Extent(b))
        BY <2>2, <2>4 DEF IInv, NoOverlap, ListsApartFrom
      <4> QED
        BY <4>1, <2>4, <2>8, <2>9, PartApart
    <3> QED
      BY <2>9, <3>1 DEF IInv, NoOverlap
  <2>14. ListsApart(lists)'
    <3> SUFFICES ASSUME NEW j1 \in Classes, NEW j2 \in Classes,
                        NEW m1 \in DOMAIN lists'[j1], NEW m2 \in DOMAIN lists'[j2],
                        j1 # j2 \/ m1 # m2
                 PROVE  Apart(lists'[j1][m1], lists'[j2][m2])
      BY DEF ListsApart
    <3>1. PICK n1 \in DOMAIN lists[j1] : /\ lists'[j1][m1] = lists[j1][n1]
                                         /\ n1 = IF j1 = k THEN m1 + 1 ELSE m1
      BY <2>6
    <3>2. PICK n2 \in DOMAIN lists[j2] : /\ lists'[j2][m2] = lists[j2][n2]
                                         /\ n2 = IF j2 = k THEN m2 + 1 ELSE m2
      BY <2>6
    <3>3. m1 \in Nat /\ m2 \in Nat
      BY <2>6
    <3>4. j1 # j2 \/ n1 # n2
      BY <3>1, <3>2, <3>3
    <3> QED
      BY <3>1, <3>2, <3>4 DEF IInv, NoOverlap, ListsApart
  <2>15. (\A b \in blocks : ListsApartFrom(lists, Extent(b)))'
    <3> SUFFICES ASSUME NEW b \in blocks', NEW j \in Classes, NEW i \in DOMAIN lists'[j]
                 PROVE  Apart(lists'[j][i], Extent(b))
      BY DEF ListsApartFrom
    <3>1. PICK m \in DOMAIN lists[j] : /\ lists'[j][i] = lists[j][m]
                                       /\ m = IF j = k THEN i + 1 ELSE i
      BY <2>6
    <3>2. CASE b \in blocks
      BY <3>1, <3>2 DEF IInv, NoOverlap, ListsApartFrom
    <3>3. CASE b = nb
      <4>1. j # k \/ m # 1
        <5>1. i \in Nat /\ i >= 1
          BY <2>6
        <5> QED
          BY <3>1, <5>1
      <4>2. Apart(lists[j][m], e) /\ lists[j][m] \in Entries
        BY <2>2, <2>3, <2>4, <4>1 DEF IInv, NoOverlap, ListsApart
      <4> QED
        BY <3>1, <3>3, <4>2, <2>4, <2>8, PartApart
    <3> QED
      BY <3>2, <3>3, <2>9
  <2> QED
    BY <2>10, <2>11, <2>12, <2>13, <2>14, <2>15 DEF IInv, NoOverlap
<1> QED
  BY <1>1, <1>2

LEMMA AllocBumpInv ==
  ASSUME NarrowHeaders, IInv, NEW r \in Requests, AllocBump(r)
  PROVE  IInv'
<1> DEFINE start == Start(r)
           nb == BlockOf(r, start)
           pad == [at |-> used, size |-> Aligned(r) - used]
<1>1. CASE ~CanMark(r, start)
  BY <1>1 DEF AllocBump, Failed, IInv, TypeOK, NoOverlap, Slotted, Inside, ListsApart,
              ListsApartFrom
<1>2. CASE CanMark(r, start)
  <2>1. /\ commit' = IF NewUsed(r) <= commit THEN commit
                     ELSE RoundUp(NewUsed(r), CommitIncrement)
        /\ used' = NewUsed(r) /\ NewUsed(r) <= Reserve
        /\ lists' = IF Unaligned(r) = Aligned(r) THEN lists
                    ELSE AddToFreelist(lists, Unaligned(r), Aligned(r) - Unaligned(r))
        /\ Mark(r, start) /\ leak' = leak
    BY <1>2 DEF AllocBump
  <2>2. used \in Nat /\ used % MinSize = 0 /\ used >= MinSize /\ MinSize \in Nat \ {0}
    BY ClassAssumption DEF IInv, TypeOK
  <2>3. /\ start \in Nat /\ used <= start /\ start % MinSize = 0 /\ start <= NewUsed(r)
        /\ start + HeaderBytes(r.hdr) = Aligned(r) /\ NewUsed(r) \in Nat
        /\ NewUsed(r) % MinSize = 0 /\ Aligned(r) \in Nat
    BY <2>2, BumpFacts
  <2>4. nb \in Blocks /\ BlockEnd(nb) = NewUsed(r)
    BY <2>3, BlockOfFacts DEF NewUsed
  <2>5. /\ Extent(nb) \in Entries /\ Extent(nb).at = start
        /\ Extent(nb).at + Extent(nb).size = NewUsed(r)
    BY <2>4, BlockFacts, <2>3, BlockOfFacts
  <2> HIDE DEF nb
  <2>6. \A b \in blocks : Extent(b) \in Entries /\ Inside(Extent(b))
    BY BlockFacts DEF IInv, TypeOK, NoOverlap, Blocks
  <2>7. \A k \in Classes : \A i \in DOMAIN lists[k] : lists[k][i] \in Entries /\ Inside(lists[k][i])
    BY DEF IInv, TypeOK, NoOverlap
  \* Everything in use ends below used.
  <2>8. ASSUME NEW x \in Entries, Inside(x), NEW y \in Entries, used <= y.at
        PROVE  Apart(x, y) /\ Apart(y, x)
    BY <2>8, <2>2 DEF Inside, Apart, Entries
  <2>9. /\ lists' \in [Classes -> Seq(Entries)]
        /\ ListsApart(lists)'
        /\ \A b \in blocks : ListsApartFrom(lists', Extent(b))
        /\ ListsApartFrom(lists', Extent(nb))
        /\ \A k \in Classes : \A i \in DOMAIN lists'[k] :
             /\ lists'[k][i] \in Entries
             /\ lists'[k][i].at >= MinSize
             /\ lists'[k][i].at + lists'[k][i].size <= start
             /\ lists'[k][i].at % MinSize = 0 /\ lists'[k][i].size >= ClassSize[k]
    <3>1. CASE Unaligned(r) = Aligned(r)
      <4>1. lists' = lists
        BY <2>1, <3>1
      <4>2. ListsApartFrom(lists, Extent(nb))
        BY <2>3, <2>5, <2>7, <2>8 DEF ListsApartFrom
      <4>3. ASSUME NEW k \in Classes, NEW i \in DOMAIN lists[k]
            PROVE  lists[k][i].at >= MinSize /\ lists[k][i].at + lists[k][i].size <= start
        <5>1. Inside(lists[k][i]) /\ lists[k][i].at \in Nat /\ lists[k][i].size \in Nat
          BY <2>7 DEF Entries
        <5> QED
          BY <5>1, <2>2, <2>3 DEF Inside
      <4> QED
        BY <4>1, <4>2, <4>3, <2>7 DEF IInv, TypeOK, NoOverlap, Slotted
    <3>2. CASE Unaligned(r) # Aligned(r)
      <4>1. /\ Unaligned(r) = used /\ start = Aligned(r)
            /\ CanAddToFreelist(used, Aligned(r) - used) /\ Aligned(r) - used \in Nat
        BY <2>2, <3>2, BumpFacts
      <4>2. lists' = AddToFreelist(lists, used, Aligned(r) - used)
        BY <2>1, <3>2, <4>1
      <4>3. pad \in Entries /\ pad.at = used /\ pad.at + pad.size = start
        BY <2>2, <2>3, <4>1 DEF Entries
      <4>4. ListsApartFrom(lists, pad)
        BY <2>2, <2>7, <2>8, <4>3 DEF ListsApartFrom
      <4>5. \A b \in blocks : ListsApartFrom(lists, Extent(b)) /\ Apart(pad, Extent(b))
        BY <2>2, <2>6, <2>8, <4>3 DEF IInv, NoOverlap
      <4>6. ListsApartFrom(lists, Extent(nb)) /\ Apart(pad, Extent(nb))
        <5>1. Apart(pad, Extent(nb))
          BY <2>3, <2>5, <4>3 DEF Apart
        <5>2. ListsApartFrom(lists, Extent(nb))
          BY <2>3, <2>5, <2>7, <2>8 DEF ListsApartFrom
        <5> QED
          BY <5>1, <5>2
      <4>7. lists \in [Classes -> Seq(Entries)] /\ ListsApart(lists)
        BY DEF IInv, TypeOK, NoOverlap
      <4> DEFINE d == Aligned(r) - used
                 OK(k) == {x \in Entries : /\ x.at >= MinSize /\ x.at + x.size <= start
                                           /\ x.at % MinSize = 0 /\ x.size >= ClassSize[k]}
      <4>8. d \in Nat /\ CanAddToFreelist(used, d) /\ pad = [at |-> used, size |-> d]
            /\ lists' = AddToFreelist(lists, used, d) /\ used + d = start
        BY <4>1, <4>2, <2>2, <2>3
      <4> HIDE DEF d, pad
      <4>9. ListsApart(lists') /\ lists' \in [Classes -> Seq(Entries)]
        BY <2>2, <4>4, <4>7, <4>8, AddKeeps, AddShape
      <4>10. \A b \in blocks : ListsApartFrom(lists', Extent(b))
        BY <2>2, <2>6, <4>4, <4>5, <4>7, <4>8, AddKeeps
      <4>11. ListsApartFrom(lists', Extent(nb))
        BY <2>2, <2>5, <4>4, <4>6, <4>7, <4>8, AddKeeps
      <4>12. ASSUME NEW k \in Classes, NEW i \in DOMAIN lists'[k]
             PROVE  lists'[k][i] \in OK(k)
        <5>1. OK(k) \in SUBSET Entries
          OBVIOUS
        <5>2. \A m \in DOMAIN lists[k] : lists[k][m] \in OK(k)
          <6> SUFFICES ASSUME NEW m \in DOMAIN lists[k] PROVE lists[k][m] \in OK(k)
            OBVIOUS
          <6>1. lists[k][m] \in Entries /\ Inside(lists[k][m])
            BY <2>7
          <6>2. lists[k][m].at % MinSize = 0 /\ lists[k][m].size >= ClassSize[k]
            BY DEF IInv, TypeOK, Slotted
          <6> QED
            BY <6>1, <6>2, <2>2, <2>3 DEF Inside, Entries
        <5>3. \A x \in Entries : Fresh(x, used, d, k) => x \in OK(k)
          BY <2>2, <2>3, <4>8 DEF Fresh, Entries
        <5> HIDE DEF OK
        <5> QED
          BY <2>2, <4>4, <4>7, <4>8, <5>1, <5>2, <5>3, AddKeeps
      <4> QED
        BY <4>9, <4>10, <4>11, <4>12
    <3> QED
      BY <3>1, <3>2
  <2>10. blocks' = blocks \cup {nb}
    BY <2>1, <2>3, MarkTyped DEF IInv, nb
  <2>11. TypeOK'
    <3>1. commit' \in Nat /\ commit' % CommitIncrement = 0 /\ used' <= commit' /\ commit' <= Reserve
      <4>1. CASE NewUsed(r) <= commit
        BY <2>1, <4>1 DEF IInv, TypeOK
      <4>2. CASE ~(NewUsed(r) <= commit)
        <5>1. commit' = RoundUp(NewUsed(r), CommitIncrement)
          BY <2>1, <4>2
        <5>2. used' = NewUsed(r) /\ NewUsed(r) \in Nat /\ NewUsed(r) <= Reserve
          BY <2>1, <2>3
        <5>3. CommitIncrement \in Nat \ {0} /\ Reserve \in Nat /\ Reserve % CommitIncrement = 0
          BY SizeAssumption
        <5>4. RoundUp(NewUsed(r), CommitIncrement) <= Reserve
          BY <5>2, <5>3, RoundUpBound
        <5>5. /\ RoundUp(NewUsed(r), CommitIncrement) \in Nat
              /\ RoundUp(NewUsed(r), CommitIncrement) % CommitIncrement = 0
              /\ NewUsed(r) <= RoundUp(NewUsed(r), CommitIncrement)
          BY <5>2, <5>3, RoundUpFacts
        <5> QED
          BY <5>1, <5>2, <5>4, <5>5
      <4> QED
        BY <4>1, <4>2
    <3>2. used' \in Nat /\ used' % MinSize = 0 /\ used' >= MinSize
      BY <2>1, <2>2, <2>3
    <3>3. /\ begin' \subseteq Nat /\ header' \subseteq begin'
          /\ \A s \in begin' : s % MinSize = 0
          /\ blocks' \subseteq Blocks
          /\ \A s \in header' : \E b \in blocks' : b.start = s /\ b.hdr
          /\ \A b \in blocks' : b.start % MinSize = 0
      BY <2>1, <2>3, MarkTyped DEF IInv
    <3>4. leak' \subseteq Nat /\ \A s \in leak' : s % MinSize = 0
      BY <2>1 DEF IInv, TypeOK
    <3>5. Slotted'
      BY <2>9, <3>3 DEF Slotted
    <3> QED
      BY <2>9, <3>1, <3>2, <3>3, <3>4, <3>5 DEF TypeOK, Blocks
  <2>12. (\A b \in blocks : Inside(Extent(b)))'
    <3> SUFFICES ASSUME NEW b \in blocks' PROVE Inside(Extent(b))'
      OBVIOUS
    <3>1. CASE b \in blocks
      <4>1. Extent(b) \in Entries /\ Inside(Extent(b))
        BY <3>1, <2>6
      <4> QED
        BY <4>1, <2>1, <2>2, <2>3 DEF Inside, Entries
    <3>2. CASE b = nb
      BY <3>2, <2>1, <2>2, <2>3, <2>5 DEF Inside
    <3> QED
      BY <3>1, <3>2, <2>10
  <2>13. (\A k \in Classes : \A i \in DOMAIN lists[k] : Inside(lists[k][i]))'
    <3> SUFFICES ASSUME NEW k \in Classes, NEW i \in DOMAIN lists'[k]
                 PROVE  Inside(lists[k][i])'
      OBVIOUS
    <3>1. /\ lists'[k][i].at \in Nat /\ lists'[k][i].size \in Nat
          /\ lists'[k][i].at >= MinSize /\ lists'[k][i].at + lists'[k][i].size <= start
      BY <2>9 DEF Entries
    <3> QED
      BY <3>1, <2>1, <2>3 DEF Inside
  <2>14. (\A b, c \in blocks : b # c => Apart(Extent(b), Extent(c)))'
    <3>1. \A b \in blocks : Apart(Extent(b), Extent(nb)) /\ Apart(Extent(nb), Extent(b))
      BY <2>3, <2>5, <2>6, <2>8
    <3> QED
      BY <3>1, <2>10 DEF IInv, NoOverlap
  <2>15. (\A b \in blocks : ListsApartFrom(lists, Extent(b)))'
    BY <2>9, <2>10
  <2> QED
    BY <2>9, <2>11, <2>12, <2>13, <2>14, <2>15 DEF IInv, NoOverlap
<1> QED
  BY <1>1, <1>2

LEMMA AllocFailInv ==
  ASSUME IInv, NEW r \in Requests, AllocFail(r)
  PROVE  IInv'
BY DEF AllocFail, IInv, TypeOK, NoOverlap, Slotted, Inside, ListsApart, ListsApartFrom

\* A deallocated block leaves everything else below it if it was the last.
LEMMA TopFacts ==
  ASSUME IInv, NEW b \in blocks, ~b.hdr, IsTop(DeallocEnd(b)),
         NEW x \in Entries, Inside(x), x.size > 0, Apart(x, Extent(b))
  PROVE  x.at + x.size <= b.start
<1>1. b \in Blocks /\ used \in Nat /\ used % MinSize = 0 /\ MinSize \in Nat \ {0}
      /\ Inside(Extent(b))
  BY ClassAssumption DEF IInv, TypeOK, NoOverlap, Blocks
<1>2. DeallocEnd(b) = Payload(b) + Served(b.size, b.hdr) /\ DeallocEnd(b) \in Nat
  BY <1>1, BlockFacts DEF DeallocEnd, Payload, HeaderBytes, Blocks
<1>3. /\ BlockEnd(b) \in Nat /\ BlockEnd(b) % MinSize = 0 /\ DeallocEnd(b) <= BlockEnd(b)
      /\ Extent(b).at = b.start /\ Extent(b).at + Extent(b).size = BlockEnd(b)
      /\ BlockEnd(b) <= used
  BY <1>1, <1>2, BlockFacts DEF Inside
<1>4. used - BlockEnd(b) \in Nat /\ (used - BlockEnd(b)) % MinSize = 0
  BY <1>1, <1>3, SubMod
<1>5. used - BlockEnd(b) < MinSize
  BY <1>1, <1>2, <1>3 DEF IsTop
<1>6. used = BlockEnd(b)
  <2> DEFINE d == used - BlockEnd(b)
  <2>1. d \in Nat /\ d % MinSize = 0 /\ d < MinSize
    BY <1>4, <1>5
  <2> HIDE DEF d
  <2>2. d = 0
    BY <2>1, <1>1
  <2> QED
    BY <2>2, <1>1, <1>3 DEF d
<1>7. b.start \in Nat /\ x.at \in Nat /\ x.size \in Nat
  BY <1>1 DEF Blocks, Entries
<1> QED
  BY <1>1, <1>3, <1>6, <1>7 DEF Apart, Inside

LEMMA DeallocInv ==
  ASSUME IInv, NEW b \in blocks, Dealloc(b)
  PROVE  IInv'
<1> DEFINE end == DeallocEnd(b)
<1>1. CASE reply' = [op |-> "assert"] /\ UNCHANGED <<used, commit, lists, begin, header, leak, blocks>>
  BY <1>1 DEF IInv, TypeOK, NoOverlap, Slotted, Inside, ListsApart, ListsApartFrom
<1>2. CASE /\ begin' = begin \ {b.start}
           /\ blocks' = blocks \ {b}
           /\ b.start \notin header
           /\ UNCHANGED <<commit, header, leak>>
           /\ \/ IsTop(end) /\ used' = b.start /\ UNCHANGED lists
              \/ /\ CanAddToFreelist(b.start, end - b.start)
                 /\ lists' = AddToFreelist(lists, b.start, end - b.start)
                 /\ UNCHANGED used
  <2>1. ~b.hdr
    BY DEF Dealloc
  <2>2. /\ b \in Blocks /\ b.start \in Nat /\ Inside(Extent(b)) /\ b.start % MinSize = 0
        /\ MinSize \in Nat \ {0} /\ used \in Nat
    BY ClassAssumption DEF IInv, TypeOK, NoOverlap, Slotted, Blocks
  <2>3. /\ Extent(b) \in Entries /\ Extent(b).at = b.start
        /\ Extent(b).at + Extent(b).size = BlockEnd(b) /\ end <= BlockEnd(b) /\ end \in Nat
        /\ BlockEnd(b) \in Nat /\ b.start < BlockEnd(b) /\ BlockEnd(b) <= used /\ b.start <= end
    <3>1. Payload(b) = b.start
      BY <2>1, <2>2 DEF Payload, HeaderBytes
    <3>2. end = b.start + Served(b.size, b.hdr)
      BY DEF DeallocEnd
    <3> HIDE DEF end
    <3>3. end \in Nat /\ b.start <= end /\ end <= BlockEnd(b)
      BY <2>2, <3>1, <3>2, BlockFacts
    <3>4. /\ Extent(b) \in Entries /\ Extent(b).at = b.start
          /\ Extent(b).at + Extent(b).size = BlockEnd(b)
          /\ BlockEnd(b) \in Nat /\ b.start < BlockEnd(b)
      BY <2>2, BlockFacts
    <3> QED
      BY <2>2, <3>3, <3>4 DEF Inside
  <2>4. \A c \in blocks : /\ Extent(c) \in Entries /\ Inside(Extent(c)) /\ Extent(c).size > 0
                          /\ c \in Blocks
    <3> SUFFICES ASSUME NEW c \in blocks
                 PROVE  /\ Extent(c) \in Entries /\ Inside(Extent(c)) /\ Extent(c).size > 0
                        /\ c \in Blocks
      OBVIOUS
    <3>1. c \in Blocks /\ Inside(Extent(c))
      BY DEF IInv, TypeOK, NoOverlap, Blocks
    <3>2. /\ Extent(c) \in Entries /\ Extent(c).at + Extent(c).size = BlockEnd(c)
          /\ Extent(c).at = c.start /\ c.start < BlockEnd(c) /\ BlockEnd(c) \in Nat
      BY <3>1, BlockFacts
    <3> QED
      BY <3>1, <3>2 DEF Entries
  <2>5. \A k \in Classes : \A i \in DOMAIN lists[k] :
          /\ lists[k][i] \in Entries /\ Inside(lists[k][i]) /\ lists[k][i].size > 0
          /\ lists[k][i].size >= ClassSize[k] /\ lists[k][i].at % MinSize = 0
          /\ Apart(lists[k][i], Extent(b))
    <3> SUFFICES ASSUME NEW k \in Classes, NEW i \in DOMAIN lists[k]
                 PROVE  /\ lists[k][i] \in Entries /\ Inside(lists[k][i]) /\ lists[k][i].size > 0
                        /\ lists[k][i].size >= ClassSize[k] /\ lists[k][i].at % MinSize = 0
                        /\ Apart(lists[k][i], Extent(b))
      OBVIOUS
    <3>1. /\ lists[k][i] \in Entries /\ Inside(lists[k][i])
          /\ lists[k][i].size >= ClassSize[k] /\ lists[k][i].at % MinSize = 0
          /\ Apart(lists[k][i], Extent(b))
      BY DEF IInv, TypeOK, NoOverlap, Slotted, ListsApartFrom
    <3>2. ClassSize[k] \in Nat \ {0}
      BY ClassFacts
    <3> QED
      BY <3>1, <3>2 DEF Entries
  <2>6. /\ begin' \subseteq Nat /\ header' \subseteq begin' /\ leak' \subseteq Nat
        /\ \A s \in begin' \cup leak' : s % MinSize = 0
        /\ blocks' \subseteq Blocks /\ commit' = commit
        /\ \A s \in header' : \E c \in blocks' : c.start = s /\ c.hdr
        /\ \A c \in blocks' : c.start % MinSize = 0
    BY <1>2, <2>1 DEF IInv, TypeOK, Slotted, Blocks
  <2>7. (\A c, d \in blocks : c # d => Apart(Extent(c), Extent(d)))'
    BY <1>2 DEF IInv, NoOverlap
  <2>8. CASE IsTop(end) /\ used' = b.start /\ lists' = lists
    <3>1. ASSUME NEW x \in Entries, Inside(x), x.size > 0, Apart(x, Extent(b))
          PROVE  Inside(x)'
      <4>1. x.at + x.size <= b.start
        BY <2>1, <2>8, <3>1, TopFacts
      <4> QED
        BY <4>1, <2>8, <3>1 DEF Inside
    <3>2. (\A c \in blocks : Inside(Extent(c)))'
      <4> SUFFICES ASSUME NEW c \in blocks' PROVE Inside(Extent(c))'
        OBVIOUS
      <4>1. c \in blocks /\ Apart(Extent(c), Extent(b))
        BY <1>2 DEF IInv, NoOverlap
      <4> QED
        BY <4>1, <2>4, <3>1
    <3>3. (\A k \in Classes : \A i \in DOMAIN lists[k] : Inside(lists[k][i]))'
      <4> SUFFICES ASSUME NEW k \in Classes, NEW i \in DOMAIN lists[k] PROVE Inside(lists[k][i])'
        BY <2>8
      <4> QED
        BY <2>5, <2>8, <3>1 DEF Inside
    <3>4. ListsApart(lists)' /\ (\A c \in blocks : ListsApartFrom(lists, Extent(c)))'
      BY <1>2, <2>8 DEF IInv, NoOverlap, ListsApart, ListsApartFrom
    <3>5. TypeOK'
      <4>1. used' >= MinSize /\ used' <= used /\ used' \in Nat /\ used' % MinSize = 0
        BY <2>2, <2>3, <2>8 DEF Inside
      <4>2. Slotted'
        BY <2>6, <2>8 DEF IInv, TypeOK, Slotted
      <4>3. used <= commit /\ commit \in Nat /\ commit % CommitIncrement = 0 /\ commit <= Reserve
            /\ lists \in [Classes -> Seq(Entries)]
        BY DEF IInv, TypeOK
      <4> QED
        BY <4>1, <4>2, <4>3, <2>2, <2>6, <2>8 DEF TypeOK, Blocks
    <3> QED
      BY <2>7, <3>2, <3>3, <3>4, <3>5 DEF IInv, NoOverlap
  <2>9. CASE /\ CanAddToFreelist(b.start, end - b.start)
             /\ lists' = AddToFreelist(lists, b.start, end - b.start)
             /\ used' = used
    <3> DEFINE n == end - b.start
               x0 == [at |-> b.start, size |-> n]
               OK(k) == {x \in Entries : /\ Inside(x)
                                         /\ x.at % MinSize = 0 /\ x.size >= ClassSize[k]}
    <3>1. n \in Nat /\ x0 \in Entries /\ x0.at = b.start /\ x0.at + x0.size <= BlockEnd(b)
          /\ x0.at + x0.size = end
      BY <2>2, <2>3 DEF Entries
    <3>2. CanAddToFreelist(b.start, n) /\ lists' = AddToFreelist(lists, b.start, n)
      BY <2>9
    <3>3. x0 = [at |-> b.start, size |-> n]
      OBVIOUS
    <3> HIDE DEF n, x0
    <3>4. ASSUME NEW x \in Entries, Apart(x, Extent(b)) PROVE Apart(x0, x) /\ Apart(x, x0)
      <4>1. Apart(Extent(b), x)
        BY <3>4 DEF Apart
      <4> QED
        BY <4>1, <2>2, <2>3, <3>1, PartApart
    <3>5. lists \in [Classes -> Seq(Entries)] /\ ListsApart(lists) /\ ListsApartFrom(lists, x0)
      <4>1. ListsApartFrom(lists, x0)
        BY <2>5, <3>4 DEF ListsApartFrom
      <4> QED
        BY <4>1 DEF IInv, TypeOK, NoOverlap
    <3>6. lists' \in [Classes -> Seq(Entries)] /\ ListsApart(lists)'
      BY <2>2, <3>1, <3>2, <3>3, <3>5, AddKeeps, AddShape
    <3>7. (\A c \in blocks : ListsApartFrom(lists, Extent(c)))'
      <4> SUFFICES ASSUME NEW c \in blocks' PROVE ListsApartFrom(lists', Extent(c))
        OBVIOUS
      <4>1. c \in blocks /\ Apart(Extent(c), Extent(b)) /\ ListsApartFrom(lists, Extent(c))
        BY <1>2 DEF IInv, NoOverlap
      <4>2. Extent(c) \in Entries /\ Apart(x0, Extent(c))
        BY <4>1, <2>4, <3>4
      <4> QED
        BY <4>1, <4>2, <2>2, <3>1, <3>2, <3>3, <3>5, AddKeeps
    <3>8. ASSUME NEW k \in Classes, NEW i \in DOMAIN lists'[k]
          PROVE  lists'[k][i] \in OK(k)
      <4>1. OK(k) \in SUBSET Entries
        OBVIOUS
      <4>2. \A m \in DOMAIN lists[k] : lists[k][m] \in OK(k)
        BY <2>5
      <4>3. \A x \in Entries : Fresh(x, b.start, n, k) => x \in OK(k)
        <5> SUFFICES ASSUME NEW x \in Entries, Fresh(x, b.start, n, k) PROVE x \in OK(k)
          OBVIOUS
        <5>1. /\ b.start <= x.at /\ x.at + x.size <= b.start + n /\ x.at % MinSize = 0
              /\ x.size >= ClassSize[k] /\ x.at \in Nat /\ x.size \in Nat
          BY DEF Fresh, Entries
        <5>2. b.start + n = end /\ b.start >= MinSize
          BY <2>2, <2>3, <3>1, <3>3 DEF Inside
        <5>3. Inside(x)
          BY <2>2, <2>3, <5>1, <5>2 DEF Inside
        <5> QED
          BY <5>1, <5>3
      <4> HIDE DEF OK
      <4> QED
        BY <2>2, <3>1, <3>2, <3>3, <3>5, <4>1, <4>2, <4>3, AddKeeps
    <3>9. (\A k \in Classes : \A i \in DOMAIN lists[k] : Inside(lists[k][i]))'
      BY <2>9, <3>8 DEF Inside
    <3>10. (\A c \in blocks : Inside(Extent(c)))'
      BY <1>2, <2>4, <2>9 DEF Inside
    <3>11. TypeOK'
      <4>1. Slotted'
        BY <2>6, <3>8 DEF Slotted
      <4> QED
        BY <4>1, <2>6, <2>9, <3>6 DEF IInv, TypeOK, Blocks
    <3> QED
      BY <2>7, <3>6, <3>7, <3>9, <3>10, <3>11 DEF IInv, NoOverlap
  <2> QED
    BY <1>2, <2>8, <2>9
<1> QED
  <2>1. \/ reply' = [op |-> "assert"] /\ UNCHANGED <<used, commit, lists, begin, header, leak, blocks>>
        \/ /\ begin' = begin \ {b.start}
           /\ blocks' = blocks \ {b}
           /\ b.start \notin header
           /\ UNCHANGED <<commit, header, leak>>
           /\ \/ IsTop(end) /\ used' = b.start /\ UNCHANGED lists
              \/ /\ CanAddToFreelist(b.start, end - b.start)
                 /\ lists' = AddToFreelist(lists, b.start, end - b.start)
                 /\ UNCHANGED used
    BY DEF Dealloc, Failed
  <2> QED
    BY <2>1, <1>1, <1>2

LEMMA LeakInv ==
  ASSUME IInv, NEW b \in blocks, LeakObject(b)
  PROVE  IInv'
<1>1. PICK a, n : Leak(a, n)
  BY DEF LeakObject
<1>2. UNCHANGED <<used, commit, lists, begin, header, blocks>>
  BY <1>1 DEF Leak
<1>3. leak' \subseteq Nat /\ \A s \in leak' : s % MinSize = 0
  <2> DEFINE s == NearestBegin(SlotOf(a))
             at == s + MinSize
             size == StoredSize(s)
  <2>1. CASE leak' = leak
    BY <2>1 DEF IInv, TypeOK
  <2>2. CASE leak' = leak \cup SlotsOf(at, size) /\ s \in header
    <3>1. s \in Nat /\ \E c \in blocks : c.start = s /\ c.hdr
      BY <2>2 DEF IInv, TypeOK
    <3>2. size \in Nat
      <4>1. (CHOOSE c \in blocks : c.start = s /\ c.hdr) \in blocks
        BY <3>1
      <4> QED
        BY <4>1 DEF StoredSize, IInv, TypeOK
    <3>3. at \in Nat /\ SlotOf(at) \in Nat
      <4>1. at \in Nat /\ MinSize \in Nat \ {0}
        BY <3>1, ClassAssumption
      <4> HIDE DEF at
      <4>2. at % MinSize \in Nat /\ at % MinSize <= at
        BY <4>1, ModFacts
      <4> QED
        BY <4>1, <4>2 DEF SlotOf
    <3> HIDE DEF at, size
    <3>4. \A x \in SlotsOf(at, size) : x \in Nat /\ x % MinSize = 0
      BY <3>2, <3>3 DEF SlotsOf
    <3> QED
      BY <2>2, <3>4 DEF IInv, TypeOK
  <2>3. leak' = leak \/ (leak' = leak \cup SlotsOf(at, size) /\ s \in header)
    BY <1>1 DEF Leak
  <2> QED
    BY <2>1, <2>2, <2>3
<1> QED
  BY <1>2, <1>3 DEF IInv, TypeOK, NoOverlap, Slotted, Inside, ListsApart, ListsApartFrom

LEMMA InitInv == Init => IInv
<1> SUFFICES ASSUME Init PROVE IInv
  OBVIOUS
<1>1. /\ MinSize \in Nat \ {0} /\ CommitIncrement \in Nat \ {0} /\ CommitIncrement % MinSize = 0
      /\ Reserve \in Nat \ {0} /\ Reserve % CommitIncrement = 0
  BY ClassAssumption, SizeAssumption
<1>2. MinSize <= CommitIncrement
  <2>1. PICK t \in Nat \ {0} : CommitIncrement = MinSize * t
    BY <1>1, Multiple
  <2> QED
    BY <2>1, <1>1, ProductGrows
<1>3. CommitIncrement <= Reserve
  <2>1. PICK t \in Nat \ {0} : Reserve = CommitIncrement * t
    BY <1>1, Multiple
  <2> QED
    BY <2>1, <1>1, ProductGrows
<1>4. MinSize % MinSize = 0 /\ CommitIncrement % CommitIncrement = 0
  BY <1>1
<1>5. lists \in [Classes -> Seq(Entries)] /\ \A k \in Classes : DOMAIN lists[k] = {}
  BY DEF Init
<1>6. TypeOK
  BY <1>1, <1>2, <1>3, <1>4, <1>5 DEF Init, TypeOK, Slotted
<1>7. NoOverlap
  BY <1>5 DEF Init, NoOverlap, ListsApart, ListsApartFrom
<1> QED
  BY <1>6, <1>7 DEF IInv

LEMMA NextInv ==
  ASSUME NarrowHeaders, IInv, [Next]_vars
  PROVE  IInv'
<1>1. CASE UNCHANGED vars
  BY <1>1 DEF vars, IInv, TypeOK, NoOverlap, Slotted, Inside, ListsApart, ListsApartFrom
<1>2. CASE Next
  BY <1>2, AllocReuseInv, AllocBumpInv, AllocFailInv, DeallocInv, LeakInv DEF Next
<1> QED
  BY <1>1, <1>2

\* The state of the heap always has its type: every bitmap bit, block and
\* free-list entry is on a slot, and used <= commit <= Reserve.
THEOREM SpecTypeOK == ASSUME NarrowHeaders PROVE Spec => []TypeOK
<1>1. Init => IInv
  BY InitInv
<1>2. IInv /\ [Next]_vars => IInv'
  BY NextInv
<1>3. IInv => TypeOK
  BY DEF IInv
<1> QED
  BY <1>1, <1>2, <1>3, PTL DEF Spec

\* No sequence of allocations, deallocations and leaks hands out memory twice
\* or puts memory in use on a free list.
THEOREM SpecNoOverlap == ASSUME NarrowHeaders PROVE Spec => []NoOverlap
<1>1. Init => IInv
  BY InitInv
<1>2. IInv /\ [Next]_vars => IInv'
  BY NextInv
<1>3. IInv => NoOverlap
  BY DEF IInv
<1> QED
  BY <1>1, <1>2, <1>3, PTL DEF Spec

-----------------------------------------------------------------------------
(* The heap implements its contract. *)

Objects == {Object(b) : b \in blocks}

LEMMA ObjectFacts ==
  ASSUME NEW b \in Blocks
  PROVE  /\ Object(b) \in Entries /\ Object(b).at = Payload(b)
         /\ Object(b).size = Served(b.size, b.hdr)
         /\ Extent(b).at <= Object(b).at
         /\ Object(b).at + Object(b).size <= Extent(b).at + Extent(b).size
<1>1. Object(b).at = Payload(b) /\ Object(b).size = Served(b.size, b.hdr)
      /\ Object(b) = [at |-> Payload(b), size |-> Served(b.size, b.hdr)]
  BY DEF Object
<1> QED
  BY <1>1, BlockFacts DEF Entries

LEMMA BlocksTyped == ASSUME IInv PROVE \A b \in blocks : b \in Blocks
BY DEF IInv, TypeOK, Blocks

\* Blocks that share no byte have objects that share none.
LEMMA ObjectsApart ==
  ASSUME NEW b \in Blocks, NEW c \in Blocks, Apart(Extent(b), Extent(c))
  PROVE  Apart(Object(b), Object(c))
<1>1. /\ Extent(b) \in Entries /\ Extent(c) \in Entries
      /\ Object(b) \in Entries /\ Object(c) \in Entries
  BY BlockFacts, ObjectFacts
<1>2. Apart(Object(b), Extent(c))
  BY <1>1, ObjectFacts, PartApart
<1> QED
  BY <1>1, <1>2, ObjectFacts, PartApart

\* No two live blocks are one object to their holders.
LEMMA ObjectInjective ==
  ASSUME IInv, NEW b \in blocks, NEW c \in blocks, Object(b) = Object(c)
  PROVE  b = c
<1> SUFFICES ASSUME b # c PROVE FALSE
  OBVIOUS
<1>1. b \in Blocks /\ c \in Blocks /\ Apart(Extent(b), Extent(c)) /\ MinSize \in Nat \ {0}
  BY ClassAssumption DEF IInv, TypeOK, NoOverlap, Blocks
<1>2. /\ Payload(b) = Payload(c)
      /\ Served(b.size, b.hdr) = Served(c.size, c.hdr)
  BY <1>1, ObjectFacts
<1>3. /\ \/ BlockEnd(b) <= c.start
         \/ BlockEnd(c) <= b.start
      /\ b.start \in Nat /\ c.start \in Nat /\ BlockEnd(b) \in Nat /\ BlockEnd(c) \in Nat
      /\ b.start < BlockEnd(b) /\ c.start < BlockEnd(c)
  BY <1>1, BlockFacts DEF Apart, Blocks
<1>4. /\ Payload(b) + Served(b.size, b.hdr) <= BlockEnd(b)
      /\ Payload(c) + Served(c.size, c.hdr) <= BlockEnd(c)
      /\ Served(b.size, b.hdr) \in Nat /\ Payload(b) \in Nat
  BY <1>1, BlockFacts
<1>5. CASE b.hdr = c.hdr
  <2>1. b.start = c.start
    BY <1>1, <1>2, <1>3, <1>5 DEF Payload, HeaderBytes
  <2> QED
    BY <2>1, <1>3
<1>6. CASE b.hdr /\ ~c.hdr
  <2>1. Served(c.size, c.hdr) > 0 /\ c.start = Payload(c) /\ b.start < c.start
    BY <1>1, <1>2, <1>3, <1>6 DEF Served, Payload, HeaderBytes, Blocks
  <2> QED
    BY <2>1, <1>2, <1>3, <1>4
<1>7. CASE ~b.hdr /\ c.hdr
  <2>1. Served(b.size, b.hdr) > 0 /\ b.start = Payload(b) /\ c.start < b.start
    BY <1>1, <1>2, <1>3, <1>7 DEF Served, Payload, HeaderBytes, Blocks
  <2> QED
    BY <2>1, <1>2, <1>3, <1>4
<1> QED
  BY <1>1, <1>5, <1>6, <1>7 DEF Blocks

\* A block placed apart from every live one is an allocation of the contract.
LEMMA MarkRefines ==
  ASSUME IInv, IInv', NEW r \in Requests, NEW start \in Nat, start % MinSize = 0,
         Mark(r, start), (start + HeaderBytes(r.hdr)) % r.align = 0,
         \A b \in blocks : Apart(Extent(b), Extent(BlockOf(r, start)))
  PROVE  Contract!Next
<1> DEFINE nb == BlockOf(r, start)
           at == start + HeaderBytes(r.hdr)
           new == [at |-> at, size |-> Served(r.size, r.hdr)]
<1>1. /\ nb \in Blocks /\ Payload(nb) = at /\ nb.start = start
      /\ nb.size = r.size /\ nb.hdr = r.hdr
  BY BlockOfFacts
<1>2. blocks' = blocks \cup {nb} /\ reply' = [op |-> "alloc", at |-> at]
  BY MarkTyped DEF IInv, Mark
<1>3. Object(nb) = new
  BY <1>1 DEF Object
<1>4. /\ Extent(nb) \in Entries /\ Extent(nb).at = start
      /\ Extent(nb).at + Extent(nb).size = BlockEnd(nb) /\ BlockEnd(nb) \in Nat
      /\ at + Served(r.size, r.hdr) <= BlockEnd(nb)
      /\ HeaderBytes(r.hdr) \in Nat /\ Served(r.size, r.hdr) \in Nat
  BY <1>1, BlockFacts
<1>5. /\ start >= MinSize /\ BlockEnd(nb) <= used' /\ used' <= commit' /\ commit' <= Reserve
      /\ used' \in Nat /\ commit' \in Nat /\ Reserve \in Nat /\ MinSize \in Nat
  <2> HIDE DEF nb
  <2>1. Inside(Extent(nb))'
    BY <1>2 DEF IInv, NoOverlap
  <2>2. Extent(nb).at >= MinSize /\ Extent(nb).at + Extent(nb).size <= used'
    BY <2>1 DEF Inside
  <2>3. used' <= commit' /\ commit' <= Reserve /\ used' \in Nat /\ commit' \in Nat
    BY DEF IInv, TypeOK
  <2> QED
    BY <1>4, <2>2, <2>3, ClassAssumption, SizeAssumption
<1>6. \A o \in Objects : Apart(o, new)
  <2>1. ASSUME NEW b \in blocks PROVE Apart(Object(b), Object(nb))
    BY <1>1, BlocksTyped, ObjectsApart
  <2> QED
    BY <2>1, <1>3 DEF Objects
<1>7. {Object(b) : b \in blocks'} = Objects \cup {new}
  BY <1>2, <1>3 DEF Objects
<1>8. at \in MinSize .. Reserve /\ at + Served(r.size, r.hdr) <= Reserve
  <2> HIDE DEF nb
  <2> QED
    BY <1>4, <1>5
<1>9. Contract!Alloc(r, at)
  <2>1. \A o \in Objects : Contract!Apart(o, new)
    BY <1>6 DEF Apart, Contract!Apart
  <2>2. Contract!Served(r) = Served(r.size, r.hdr)
    BY DEF Contract!Served, Served
  <2> HIDE DEF nb
  <2> QED
    BY <1>2, <1>7, <1>8, <2>1, <2>2 DEF Contract!Alloc, Objects
<1> HIDE DEF at
<1> QED
  BY <1>8, <1>9 DEF Contract!Next

LEMMA FailedRefines == ASSUME Failed PROVE Contract!Next
BY DEF Failed, Contract!Next, Contract!Other

LEMMA AllocReuseRefines ==
  ASSUME IInv, IInv', NEW r \in Requests, AllocReuse(r)
  PROVE  Contract!Next
<1> DEFINE k == ClassOf(Total(r))
           e == Head(lists[k])
           start == e.at
           nb == BlockOf(r, start)
<1>1. CASE ~CanMark(r, start)
  BY <1>1, FailedRefines DEF AllocReuse
<1>2. CASE CanMark(r, start)
  <2>1. /\ Mark(r, start) /\ lists[k] # << >> /\ Total(r) <= ReuseLimit
        /\ r.align <= MinSize
    BY <1>2 DEF AllocReuse, CanReuse
  <2>2. k \in Classes /\ ClassSize[k] >= Total(r) /\ ClassSize[k] \in Nat
        /\ ClassSize[k] % MinSize = 0 /\ MinSize \in Nat \ {0}
    BY <2>1, RequestFacts, ClassOfFacts, ClassFacts, ClassAssumption
  <2> HIDE DEF k
  <2>3. lists[k] \in Seq(Entries)
    BY <2>2 DEF IInv, TypeOK
  <2>4. 1 \in DOMAIN lists[k] /\ e = lists[k][1] /\ e \in Entries
    BY <2>1, <2>3
  <2>5. start % MinSize = 0 /\ e.size >= ClassSize[k] /\ start \in Nat /\ e.size \in Nat
    BY <2>2, <2>4 DEF IInv, TypeOK, Slotted, Entries
  <2> HIDE DEF e
  <2>6. nb \in Blocks /\ BlockEnd(nb) <= start + e.size
    <3>1. start + HeaderBytes(r.hdr) + Served(r.size, r.hdr) <= start + ClassSize[k]
      BY <2>2, <2>5, RequestFacts
    <3>2. (start + ClassSize[k]) % MinSize = 0 /\ start + ClassSize[k] \in Nat
      BY <2>2, <2>5, AddMod
    <3>3. start + HeaderBytes(r.hdr) + Served(r.size, r.hdr) \in Nat
      BY <2>2, <2>5, RequestFacts
    <3>4. BlockEnd(nb) <= start + ClassSize[k]
      BY <2>2, <2>5, <3>1, <3>2, <3>3, BlockOfFacts, RoundUpBound
    <3>5. nb \in Blocks
      BY <2>5, BlockOfFacts
    <3> QED
      BY <2>2, <2>5, <3>4, <3>5, BlockFacts
  <2>7. /\ Extent(nb) \in Entries /\ Extent(nb).at = start /\ start <= Extent(nb).at
        /\ Extent(nb).at + Extent(nb).size <= e.at + e.size
    BY <2>5, <2>6, BlockFacts, BlockOfFacts
  <2> HIDE DEF nb
  <2>8. ASSUME NEW b \in blocks PROVE Apart(Extent(b), Extent(nb))
    <3>1. Apart(e, Extent(b)) /\ Extent(b) \in Entries
      BY <2>2, <2>4, BlocksTyped, BlockFacts DEF IInv, NoOverlap, ListsApartFrom
    <3> QED
      BY <3>1, <2>4, <2>7, PartApart
  <2>9. (start + HeaderBytes(r.hdr)) % r.align = 0
    <3>1. MinSize % r.align = 0 /\ r.align \in Nat \ {0}
      BY <2>1, RequestAssumption
    <3>2. HeaderBytes(r.hdr) \in Nat /\ HeaderBytes(r.hdr) % MinSize = 0
      BY <2>2 DEF HeaderBytes
    <3>3. (start + HeaderBytes(r.hdr)) % MinSize = 0 /\ start + HeaderBytes(r.hdr) \in Nat
      BY <3>2, <2>2, <2>5, AddMod
    <3> QED
      BY <3>1, <3>3, <2>2, ModTrans
  <2> QED
    BY <2>1, <2>5, <2>8, <2>9, MarkRefines DEF nb
<1> QED
  BY <1>1, <1>2

LEMMA AllocBumpRefines ==
  ASSUME NarrowHeaders, IInv, IInv', NEW r \in Requests, AllocBump(r)
  PROVE  Contract!Next
<1> DEFINE start == Start(r)
           nb == BlockOf(r, start)
<1>1. CASE ~CanMark(r, start)
  BY <1>1, FailedRefines DEF AllocBump
<1>2. CASE CanMark(r, start)
  <2>1. Mark(r, start)
    BY <1>2 DEF AllocBump
  <2>2. used \in Nat /\ used % MinSize = 0
    BY DEF IInv, TypeOK
  <2>3. /\ start \in Nat /\ used <= start /\ start % MinSize = 0
        /\ start + HeaderBytes(r.hdr) = Aligned(r) /\ Aligned(r) % r.align = 0
    BY <2>2, BumpFacts
  <2>4. Extent(nb) \in Entries /\ Extent(nb).at = start
    BY <2>3, BlockFacts, BlockOfFacts
  <2> HIDE DEF nb
  <2>5. ASSUME NEW b \in blocks PROVE Apart(Extent(b), Extent(nb))
    <3>1. Extent(b) \in Entries /\ Inside(Extent(b))
      BY BlocksTyped, BlockFacts DEF IInv, NoOverlap
    <3> QED
      BY <3>1, <2>2, <2>3, <2>4 DEF Apart, Inside, Entries
  <2> QED
    BY <2>1, <2>3, <2>5, MarkRefines DEF nb
<1> QED
  BY <1>1, <1>2

LEMMA DeallocRefines ==
  ASSUME IInv, NEW b \in blocks, Dealloc(b)
  PROVE  Contract!Next
<1>1. CASE Failed
  BY <1>1, FailedRefines
<1>2. CASE blocks' = blocks \ {b} /\ reply' = [op |-> "dealloc"]
  <2>1. {Object(c) : c \in blocks'} = Objects \ {Object(b)}
    BY <1>2, ObjectInjective DEF Objects
  <2>2. Object(b) \in Objects
    BY DEF Objects
  <2>3. Contract!Dealloc(Object(b))
    BY <1>2, <2>1, <2>2 DEF Contract!Dealloc, Objects
  <2> QED
    BY <2>2, <2>3 DEF Contract!Next, Objects
<1> QED
  BY <1>1, <1>2 DEF Dealloc

\* Every allocation of the heap is aligned, in range and disjoint from every
\* object still allocated, and only allocation and deallocation move objects:
\* the heap implements HeapContract.
THEOREM SpecContract == ASSUME NarrowHeaders PROVE Spec => ContractSpec
<1>1. Init => IInv
  BY InitInv
<1>2. IInv /\ [Next]_vars => IInv'
  BY NextInv
<1>3. Init => Contract!Init
  BY DEF Init, Contract!Init
<1>4. IInv /\ IInv' /\ [Next]_vars => [Contract!Next]_Contract!vars
  <2> SUFFICES ASSUME IInv, IInv', [Next]_vars
               PROVE  [Contract!Next]_Contract!vars
    OBVIOUS
  <2>1. CASE UNCHANGED vars
    BY <2>1 DEF vars, Contract!vars
  <2>2. ASSUME NEW r \in Requests, AllocReuse(r) PROVE Contract!Next
    BY <2>2, AllocReuseRefines
  <2>3. ASSUME NEW r \in Requests, AllocBump(r) PROVE Contract!Next
    BY <2>3, AllocBumpRefines
  <2>4. ASSUME NEW r \in Requests, AllocFail(r) PROVE Contract!Next
    BY <2>4 DEF AllocFail, Contract!Next, Contract!Refuse
  <2>5. ASSUME NEW b \in blocks, Dealloc(b) PROVE Contract!Next
    BY <2>5, DeallocRefines
  <2>6. ASSUME NEW b \in blocks, LeakObject(b) PROVE Contract!Next
    <3>1. PICK a, n : Leak(a, n)
      BY <2>6 DEF LeakObject
    <3>2. blocks' = blocks /\ \E ok \in BOOLEAN : reply' = [op |-> "leak", ok |-> ok]
      BY <3>1 DEF Leak, LeakReply
    <3>3. Contract!Other
      BY <3>2 DEF Contract!Other
    <3> QED
      BY <3>3 DEF Contract!Next
  <2> QED
    BY <2>1, <2>2, <2>3, <2>4, <2>5, <2>6 DEF Next
<1> QED
  BY <1>1, <1>2, <1>3, <1>4, PTL DEF Spec, ContractSpec, Contract!Spec
-----------------------------------------------------------------------------
(* Nothing is lost, headers are found, leaks are whole. *)

\* Lists below the last hold entries of exactly their class's size.
Exact == \A k \in Classes \ {Last} : \A i \in DOMAIN lists[k] : lists[k][i].size = ClassSize[k]

\* A bit of the begin bitmap is a live block, a bit of the header bitmap a live
\* global member.
Bits ==
  /\ begin = {b.start : b \in blocks}
  /\ header = {b.start : b \in {c \in blocks : c.hdr}}

KInv == IInv /\ Exact /\ Bits /\ NothingLost /\ LeakWhole

InLists(ls, a) == \E k \in Classes : \E i \in DOMAIN ls[k] : Covers(ls[k][i], a)

InBlocks(bs, a) == \E b \in bs : Covers(Extent(b), a)

-----------------------------------------------------------------------------
\* The remainders modulo two neighbouring classes differ by the class if its bit
\* is set.
LEMMA BitSet ==
  ASSUME NEW n \in Nat, NEW c \in Nat \ {0}, (n % c) < (n % (2 * c))
  PROVE  (n \div c) % 2 = 1 /\ n % (2 * c) = (n % c) + c
<1> DEFINE q == n \div c
           r == n % c
           p == q \div 2
<1>1. n = c * q + r /\ q \in Nat /\ r \in 0 .. c - 1
  BY DivMod
<1>2. n % c = r /\ n \div c = q
  OBVIOUS
<1> HIDE DEF r, q
<1>3. q = 2 * p + (q % 2) /\ p \in Nat /\ q % 2 \in 0 .. 1
  BY <1>1
<1> HIDE DEF p
<1>4. CASE q % 2 = 0
  <2>1. q = 2 * p
    BY <1>3, <1>4, <1>1
  <2>2. n = (2 * c) * p + r
    BY <2>1, <1>1, <1>3
  <2>3. r \in 0 .. (2 * c) - 1 /\ 2 * c \in Nat \ {0}
    BY <1>1
  <2>4. n % (2 * c) = r
    <3> DEFINE d == 2 * c
    <3> HIDE DEF d
    <3>1. n = d * p + r /\ r \in 0 .. d - 1 /\ d \in Nat \ {0}
      BY <2>2, <2>3 DEF d
    <3>2. n % d = r
      BY <3>1, <1>3, DivModUnique
    <3> QED
      BY <3>2 DEF d
  <2> QED
    BY <2>4, <1>2, <1>1
<1>5. CASE q % 2 = 1
  <2>1. q = 2 * p + 1
    BY <1>3, <1>5
  <2>2. n = (2 * c) * p + (r + c)
    BY <2>1, <1>1, <1>3
  <2>3. r + c \in 0 .. (2 * c) - 1 /\ 2 * c \in Nat \ {0}
    BY <1>1
  <2>4. n % (2 * c) = r + c
    <3> DEFINE d == 2 * c
               s == r + c
    <3> HIDE DEF d, s
    <3>1. n = d * p + s /\ s \in 0 .. d - 1 /\ d \in Nat \ {0}
      BY <2>2, <2>3 DEF d, s
    <3>2. n % d = s
      BY <3>1, <1>3, DivModUnique
    <3> QED
      BY <3>2 DEF d, s
  <2> QED
    BY <2>4, <1>2, <1>5
<1> QED
  BY <1>3, <1>4, <1>5

\* Every byte of a range is in one of the entries it is split into.
LEMMA NewCovers ==
  ASSUME NEW at \in Nat, NEW size \in Nat, CanAddToFreelist(at, size),
         NEW x \in Nat, x < size
  PROVE  \E k \in Classes : \E m \in DOMAIN New(at, size, k) :
           Covers(New(at, size, k)[m], at + x)
<1> DEFINE M == MaxFreelistSize
           Bound(k) == IF k = Last THEN size % M ELSE size % ClassSize[k + 1]
<1>0. M \in Nat \ {0} /\ Last \in Nat /\ Last \in Classes
  BY ClassFacts DEF Classes
<1>1. CASE x < size % M
  <2> DEFINE K == {k \in Classes : x < Bound(k)}
  <2>1. Last \in K /\ K \in SUBSET Nat
    BY <1>0, <1>1 DEF Classes
  <2>2. PICK k \in K : \A j \in K : k <= j
    <3> HIDE DEF K
    <3> QED
      BY <2>1, LeastNumber
  <2>3. k \in Classes /\ k \in Nat /\ x < Bound(k) /\ ClassSize[k] \in Nat \ {0}
    BY <2>1, <2>2, ClassFacts
  <2>4. size % ClassSize[k] <= x
    <3>1. CASE k = 0
      BY <3>1, ClassAssumption DEF CanAddToFreelist
    <3>2. CASE k # 0
      <4>1. k - 1 \in Classes /\ k - 1 # Last /\ k - 1 \in Nat
        BY <2>3, <3>2, ClassAssumption DEF Classes, Last
      <4>2. ~ (x < Bound(k - 1))
        BY <4>1, <2>2, <2>3
      <4>3. Bound(k - 1) = size % ClassSize[k]
        BY <4>1, <2>3
      <4>4. size % ClassSize[k] \in Nat
        BY <2>3, ModFacts
      <4> QED
        BY <4>2, <4>3, <4>4
    <3> QED
      BY <3>1, <3>2
  <2>5. Bound(k) = size % (2 * ClassSize[k])
    <3>1. CASE k = Last
      BY <3>1, ClassFacts
    <3>2. CASE k # Last
      <4>1. k + 1 \in Classes /\ k + 1 > 0
        BY <2>3, <3>2, ClassAssumption DEF Classes, Last
      <4>2. ClassSize[k + 1] = 2 * ClassSize[k]
        BY <4>1, <2>3, ClassAssumption
      <4> QED
        BY <4>2, <3>2
    <3> QED
      BY <3>1, <3>2
  <2>6. (size \div ClassSize[k]) % 2 = 1 /\ Bound(k) = (size % ClassSize[k]) + ClassSize[k]
    <3> DEFINE c == ClassSize[k]
    <3> HIDE DEF Bound
    <3>1. c \in Nat \ {0} /\ size % c \in Nat /\ size % (2 * c) \in Nat
      BY <2>3, ModFacts
    <3>2. (size % c) < (size % (2 * c))
      BY <2>3, <2>4, <2>5, <3>1
    <3> HIDE DEF c
    <3>3. (size \div c) % 2 = 1 /\ size % (2 * c) = (size % c) + c
      BY <3>1, <3>2, BitSet
    <3> QED
      BY <3>3, <2>5 DEF c
  <2> HIDE DEF Bound, K
  <2>7. Small(at, size, k).at <= at + x /\ at + x < Small(at, size, k).at + Small(at, size, k).size
    <3> DEFINE c == ClassSize[k]
               r == size % c
    <3>1. r \in Nat /\ c \in Nat
      BY <2>3, ModFacts
    <3>2. Small(at, size, k).at = at + r /\ Small(at, size, k).size = c
      BY DEF Small
    <3>3. r <= x /\ x < r + c
      BY <2>3, <2>4, <2>6
    <3> HIDE DEF r, c
    <3> QED
      BY <3>1, <3>2, <3>3
  <2>8. \E m \in DOMAIN New(at, size, k) : New(at, size, k)[m] = Small(at, size, k)
    <3> DEFINE A == IF k = Last THEN LargeEntries(at, size) ELSE << >>
    <3>1. SmallEntries(at, size, k) = <<Small(at, size, k)>>
      BY <2>6 DEF SmallEntries, Small
    <3>2. New(at, size, k) = A \o <<Small(at, size, k)>>
      BY <3>1 DEF New
    <3>3. A \in Seq(Entries)
      <4>1. size \div MaxFreelistSize \in Nat
        BY <1>0, DivMod
      <4>2. \A m \in 1 .. (size \div MaxFreelistSize) : Large(at, size, m) \in Entries
        BY LargeFresh DEF Fresh
      <4>3. LargeEntries(at, size) = [m \in 1 .. (size \div MaxFreelistSize) |-> Large(at, size, m)]
        BY DEF LargeEntries, Large
      <4> QED
        BY <4>1, <4>2, <4>3
    <3>4. Small(at, size, k) \in Entries
      BY <2>3, <2>6, SmallFresh DEF Small, Fresh
    <3> HIDE DEF A
    <3> DEFINE S == Small(at, size, k)
    <3> HIDE DEF S
    <3>5. S \in Entries /\ New(at, size, k) = A \o <<S>>
      BY <3>2, <3>4 DEF S
    <3>6. Len(A) + 1 \in DOMAIN (A \o <<S>>) /\ (A \o <<S>>)[Len(A) + 1] = S
      BY <3>3, <3>5
    <3> QED
      BY <3>5, <3>6 DEF S
  <2> QED
    BY <2>3, <2>7, <2>8 DEF Covers
<1>2. CASE ~ (x < size % M)
  <2> DEFINE q == size \div M
             r == size % M
             y == size - 1 - x
             m == y \div M + 1
  <2>1. size = M * q + r /\ q \in Nat /\ r \in 0 .. M - 1
    BY <1>0, DivMod
  <2>2. y \in Nat /\ y = M * (y \div M) + (y % M) /\ y \div M \in Nat /\ y % M \in 0 .. M - 1
    <3>1. y \in Nat
      OBVIOUS
    <3> HIDE DEF y, M
    <3> QED
      BY <3>1, <1>0, DivMod
  <2>3. x >= r
    BY <2>1, <1>2
  <2>4. m \in 1 .. q
    <3> DEFINE d == y \div M
               z == M * q
               w == M * d
    <3>1. y < M * q
      <4>1. size = z + r /\ z \in Int /\ r \in Int
        BY <2>1, <1>0
      <4> HIDE DEF z, r, M
      <4>2. y < z
        BY <4>1, <2>3
      <4> QED
        BY <4>2 DEF z
    <3>2. d \in Nat /\ M * d <= y
      <4>1. y = w + (y % M) /\ w \in Int /\ y % M \in Nat /\ d \in Nat
        BY <2>2, <1>0
      <4> HIDE DEF w, y, M, d
      <4>2. w <= y
        BY <4>1
      <4> QED
        BY <4>1, <4>2 DEF w
    <3> HIDE DEF d, y, q, M
    <3>3. M * d < M * q /\ d \in Nat /\ q \in Nat /\ M \in Nat
      BY <3>1, <3>2, <2>1, <2>2, <1>0
    <3>4. ~ (q <= d)
      <4> SUFFICES ASSUME q <= d PROVE FALSE
        OBVIOUS
      <4>1. CASE q = d
        BY <4>1, <3>3
      <4>2. CASE q < d
        BY <4>2, <3>3, ProductStep
      <4> QED
        BY <4>1, <4>2, <3>3
    <3>5. d < q
      BY <3>3, <3>4
    <3> QED
      BY <3>3, <3>5 DEF d
  <2>5. /\ Large(at, size, m).at = at + size - m * M /\ Large(at, size, m).size = M
        /\ at + size - m * M <= at + x /\ at + x < at + size - m * M + M
    <3> DEFINE d == y \div M
               s == y % M
    <3>1. Large(at, size, m).at = at + size - m * M /\ Large(at, size, m).size = M
      BY DEF Large
    <3>2. m * M = M * d + M /\ M * d \in Nat
      BY <2>2, <1>0
    <3>3. y = M * d + s /\ s \in 0 .. M - 1
      BY <2>2
    <3>4. x = size - 1 - y
      BY <2>2
    <3> DEFINE z == M * d
    <3>5. m * M = z + M /\ z \in Nat /\ y = z + s
      BY <3>2, <3>3
    <3>6. m \in Int /\ y \in Nat
      BY <2>2
    <3> HIDE DEF z, d, s, m, y, M
    <3> QED
      BY <3>1, <3>3, <3>4, <3>5, <3>6, <1>0
  <2>6. m \in DOMAIN New(at, size, Last) /\ New(at, size, Last)[m] = Large(at, size, m)
    <3> DEFINE A == LargeEntries(at, size)
               B == SmallEntries(at, size, Last)
    <3> HIDE DEF m
    <3>1. A \in Seq(Entries) /\ Len(A) = q /\ A[m] = Large(at, size, m)
      <4>2. \A i \in 1 .. (size \div MaxFreelistSize) : Large(at, size, i) \in Entries
        BY LargeFresh DEF Fresh
      <4>3. LargeEntries(at, size) = [i \in 1 .. (size \div MaxFreelistSize) |-> Large(at, size, i)]
        BY DEF LargeEntries, Large
      <4> QED
        BY <4>2, <4>3, <2>1, <2>4
    <3>2. New(at, size, Last) = A \o B
      BY DEF New
    <3>3. B \in Seq(Entries)
      <4>1. CASE (size \div ClassSize[Last]) % 2 = 1
        <5>1. Small(at, size, Last) \in Entries
          BY <4>1, ClassFacts, SmallFresh DEF Small, Fresh
        <5>2. B = <<Small(at, size, Last)>>
          BY <4>1 DEF SmallEntries, Small
        <5> QED
          BY <5>1, <5>2
      <4>2. CASE ~ ((size \div ClassSize[Last]) % 2 = 1)
        BY <4>2 DEF SmallEntries
      <4> QED
        BY <4>1, <4>2
    <3> HIDE DEF A, B
    <3>4. m \in DOMAIN (A \o B) /\ (A \o B)[m] = A[m]
      BY <3>1, <3>3, <2>1, <2>4
    <3> QED
      BY <3>1, <3>2, <3>4
  <2> QED
    BY <2>5, <2>6, <1>0 DEF Covers
<1> QED
  BY <1>1, <1>2

\* Splitting a range adds entries for all of it and keeps the others.
LEMMA AddLists ==
  ASSUME NEW at \in Nat, NEW size \in Nat, CanAddToFreelist(at, size),
         NEW ls \in [Classes -> Seq(Entries)], NEW k \in Classes
  PROVE  LET after == AddToFreelist(ls, at, size)
         IN  /\ \A m \in DOMAIN New(at, size, k) :
                  m \in DOMAIN after[k] /\ after[k][m] = New(at, size, k)[m]
             /\ \A i \in DOMAIN ls[k] : \E j \in DOMAIN after[k] : after[k][j] = ls[k][i]
             /\ \A j \in DOMAIN after[k] :
                  \/ \E m \in DOMAIN New(at, size, k) : after[k][j] = New(at, size, k)[m]
                  \/ \E i \in DOMAIN ls[k] : after[k][j] = ls[k][i]
<1> DEFINE A == New(at, size, k)
           B == ls[k]
           C == AddToFreelist(ls, at, size)[k]
<1>1. C = A \o B
  BY DEF AddToFreelist, New, Last
<1>2. A \in Seq(Entries) /\ B \in Seq(Entries)
  BY NewShape
<1> HIDE DEF A, B, C
<1>3. /\ \A m \in DOMAIN A : m \in DOMAIN (A \o B) /\ (A \o B)[m] = A[m]
      /\ \A i \in DOMAIN B : Len(A) + i \in DOMAIN (A \o B) /\ (A \o B)[Len(A) + i] = B[i]
      /\ \A j \in DOMAIN (A \o B) : 
           j \in DOMAIN A \/ (j - Len(A) \in DOMAIN B /\ (A \o B)[j] = B[j - Len(A)])
  <2>1. /\ Len(A) \in Nat /\ DOMAIN A = 1 .. Len(A) /\ Len(B) \in Nat /\ DOMAIN B = 1 .. Len(B)
    BY <1>2
  <2>2. A \o B \in Seq(Entries) /\ DOMAIN (A \o B) = 1 .. Len(A) + Len(B)
    BY <1>2
  <2>3. \A m \in DOMAIN A : (A \o B)[m] = A[m]
    BY <1>2
  <2>4. \A j \in Len(A) + 1 .. Len(A) + Len(B) : (A \o B)[j] = B[j - Len(A)]
    BY <1>2
  <2>5. ASSUME NEW i \in DOMAIN B
        PROVE  Len(A) + i \in DOMAIN (A \o B) /\ (A \o B)[Len(A) + i] = B[i]
    <3>1. Len(A) + i \in Len(A) + 1 .. Len(A) + Len(B) /\ Len(A) + i - Len(A) = i
      BY <2>1
    <3> QED
      BY <2>1, <2>2, <2>4, <3>1
  <2>6. ASSUME NEW j \in DOMAIN (A \o B)
        PROVE  j \in DOMAIN A \/ (j - Len(A) \in DOMAIN B /\ (A \o B)[j] = B[j - Len(A)])
    <3>1. j \in 1 .. Len(A) \/ (j \in Len(A) + 1 .. Len(A) + Len(B) /\ j - Len(A) \in 1 .. Len(B))
      BY <2>1, <2>2
    <3> QED
      BY <2>1, <2>4, <3>1
  <2>7. \A m \in DOMAIN A : m \in DOMAIN (A \o B)
    BY <2>1, <2>2
  <2> QED
    BY <2>3, <2>5, <2>6, <2>7
<1>4. /\ \A m \in DOMAIN A : m \in DOMAIN C /\ C[m] = A[m]
      /\ \A i \in DOMAIN B : \E j \in DOMAIN C : C[j] = B[i]
      /\ \A j \in DOMAIN C : (\E m \in DOMAIN A : C[j] = A[m]) \/ (\E i \in DOMAIN B : C[j] = B[i])
  BY <1>1, <1>3
<1> QED
  BY <1>4 DEF A, B, C

LEMMA AddCovers ==
  ASSUME NEW at \in Nat, NEW size \in Nat, CanAddToFreelist(at, size),
         NEW ls \in [Classes -> Seq(Entries)], NEW a \in Nat,
         InLists(ls, a) \/ (at <= a /\ a < at + size)
  PROVE  InLists(AddToFreelist(ls, at, size), a)
<1> DEFINE after == AddToFreelist(ls, at, size)
<1> HIDE DEF after
<1>1. CASE InLists(ls, a)
  <2>1. PICK k \in Classes : \E i \in DOMAIN ls[k] : Covers(ls[k][i], a)
    BY <1>1 DEF InLists
  <2>2. PICK i \in DOMAIN ls[k] : Covers(ls[k][i], a)
    BY <2>1
  <2>3. \E j \in DOMAIN after[k] : after[k][j] = ls[k][i]
    BY AddLists DEF after
  <2> QED
    BY <2>2, <2>3 DEF InLists, after
<1>2. CASE at <= a /\ a < at + size
  <2> DEFINE x == a - at
  <2>1. x \in Nat /\ x < size /\ at + x = a
    BY <1>2
  <2> HIDE DEF x
  <2>2. PICK k \in Classes : \E m \in DOMAIN New(at, size, k) : Covers(New(at, size, k)[m], at + x)
    BY <2>1, NewCovers
  <2>3. PICK m \in DOMAIN New(at, size, k) : Covers(New(at, size, k)[m], a)
    BY <2>1, <2>2
  <2>4. m \in DOMAIN after[k] /\ after[k][m] = New(at, size, k)[m]
    BY AddLists DEF after
  <2> QED
    BY <2>3, <2>4 DEF InLists, after
<1> QED
  BY <1>1, <1>2

LEMMA AddExact ==
  ASSUME NEW at \in Nat, NEW size \in Nat, CanAddToFreelist(at, size),
         lists \in [Classes -> Seq(Entries)], Exact, lists' = AddToFreelist(lists, at, size)
  PROVE  Exact'
<1> SUFFICES ASSUME NEW k \in Classes \ {Last}, NEW j \in DOMAIN lists'[k]
             PROVE  lists'[k][j].size = ClassSize[k]
  BY DEF Exact
<1>1. \/ \E m \in DOMAIN New(at, size, k) : lists'[k][j] = New(at, size, k)[m]
      \/ \E i \in DOMAIN lists[k] : lists'[k][j] = lists[k][i]
  BY AddLists
<1>2. \A m \in DOMAIN New(at, size, k) : New(at, size, k)[m].size = ClassSize[k]
  <2> SUFFICES ASSUME NEW m \in DOMAIN New(at, size, k)
               PROVE  New(at, size, k)[m].size = ClassSize[k]
    OBVIOUS
  <2>1. New(at, size, k)[m] = Small(at, size, k)
    BY NewShape
  <2> QED
    BY <2>1 DEF Small
<1> QED
  BY <1>1, <1>2 DEF Exact

-----------------------------------------------------------------------------
LEMMA StartInjective ==
  ASSUME IInv, NEW b \in blocks, NEW c \in blocks, b.start = c.start
  PROVE  b = c
<1> SUFFICES ASSUME b # c PROVE FALSE
  OBVIOUS
<1>1. Apart(Extent(b), Extent(c)) /\ b \in Blocks /\ c \in Blocks
  BY BlocksTyped DEF IInv, NoOverlap
<1>2. /\ BlockEnd(b) <= c.start \/ BlockEnd(c) <= b.start
      /\ b.start < BlockEnd(b) /\ c.start < BlockEnd(c)
      /\ BlockEnd(b) \in Nat /\ BlockEnd(c) \in Nat /\ b.start \in Nat /\ c.start \in Nat
  BY <1>1, BlockFacts DEF Apart, Blocks
<1> QED
  BY <1>2

LEMMA UsedSlots ==
  ASSUME NEW n \in Nat, n >= MinSize
  PROVE  SlotsOf(MinSize, n - MinSize) = {a \in Nat : a % MinSize = 0 /\ MinSize <= a /\ a < n}
<1>1. MinSize \in Nat \ {0} /\ SlotOf(MinSize) = MinSize
  BY ClassAssumption DEF SlotOf
<1> QED
  BY <1>1 DEF SlotsOf

LEMMA LostFacts ==
  ASSUME IInv
  PROVE  NothingLost <=> \A a \in Nat : a % MinSize = 0 /\ MinSize <= a /\ a < used
                                         => InBlocks(blocks, a) \/ InLists(lists, a)
<1>1. used \in Nat /\ used >= MinSize
  BY DEF IInv, TypeOK
<1>2. SlotsOf(MinSize, used - MinSize) = {a \in Nat : a % MinSize = 0 /\ MinSize <= a /\ a < used}
  BY <1>1, UsedSlots
<1> QED
  BY <1>2 DEF NothingLost, InBlocks, InLists

\* The slots of a block's payload are inside it.
LEMMA PayloadSlots ==
  ASSUME IInv, NEW b \in blocks, NEW s \in SlotsOf(Payload(b), b.size)
  PROVE  s \in Nat /\ Payload(b) <= s /\ s < BlockEnd(b) /\ s % MinSize = 0
<1>1. b \in Blocks /\ b.start % MinSize = 0 /\ MinSize \in Nat \ {0}
  BY BlocksTyped, ClassAssumption DEF IInv, TypeOK, Slotted
<1>2. HeaderBytes(b.hdr) \in Nat /\ HeaderBytes(b.hdr) % MinSize = 0
  BY <1>1 DEF HeaderBytes
<1>3. /\ Payload(b) \in Nat /\ Payload(b) = b.start + HeaderBytes(b.hdr)
      /\ Served(b.size, b.hdr) \in Nat /\ b.size \in Nat /\ b.start \in Nat
      /\ Payload(b) + Served(b.size, b.hdr) <= BlockEnd(b) /\ BlockEnd(b) \in Nat
  BY <1>1, BlockFacts DEF Blocks
<1>4. Payload(b) % MinSize = 0
  BY <1>1, <1>2, <1>3, AddMod
<1>5. SlotOf(Payload(b)) = Payload(b)
  BY <1>3, <1>4 DEF SlotOf
<1>6. b.size <= Served(b.size, b.hdr)
  BY <1>3 DEF Served
<1>7. s \in Payload(b) .. Payload(b) + b.size - 1 /\ s % MinSize = 0
  BY <1>5 DEF SlotsOf
<1> QED
  BY <1>3, <1>6, <1>7

\* The nearest begin bit at or below a slot of a block is the block's.
LEMMA NearestOwn ==
  ASSUME IInv, Bits, NEW b \in blocks, NEW s \in Nat, b.start <= s, s < BlockEnd(b)
  PROVE  NearestBegin(s) = b.start
<1> DEFINE P(t) == t <= s /\ \A u \in begin : u <= s => u <= t
<1>1. b.start \in begin /\ \A u \in begin : u \in Nat
  BY DEF Bits, IInv, TypeOK
<1>2. ASSUME NEW u \in begin, u <= s
      PROVE  u <= b.start
  <2>1. PICK c \in blocks : c.start = u
    BY DEF Bits
  <2>2. b \in Blocks /\ c \in Blocks /\ (b = c \/ Apart(Extent(b), Extent(c)))
    BY BlocksTyped DEF IInv, NoOverlap
  <2>3. /\ b = c \/ BlockEnd(b) <= c.start \/ BlockEnd(c) <= b.start
        /\ c.start < BlockEnd(c) /\ BlockEnd(b) \in Nat /\ BlockEnd(c) \in Nat
        /\ b.start \in Nat /\ c.start \in Nat
    BY <2>2, BlockFacts DEF Apart, Blocks
  <2> QED
    BY <1>2, <2>1, <2>3
<1>3. P(b.start)
  BY <1>2
<1>4. \A t \in begin : P(t) => t = b.start
  <2> SUFFICES ASSUME NEW t \in begin, P(t) PROVE t = b.start
    OBVIOUS
  <2>1. t <= b.start /\ b.start <= t /\ t \in Nat /\ b.start \in Nat
    BY <1>1, <1>2
  <2> QED
    BY <2>1
<1>5. NearestBegin(s) = CHOOSE t \in begin : P(t)
  BY DEF NearestBegin
<1> HIDE DEF P
<1> QED
  BY <1>1, <1>3, <1>4, <1>5

LEMMA HeadersFound ==
  ASSUME KInv
  PROVE  HeaderFound
<1> USE DEF KInv
<1> SUFFICES ASSUME NEW b \in blocks, NEW s \in SlotsOf(Payload(b), b.size)
             PROVE  NearestBegin(s) = b.start /\ (b.start \in header <=> b.hdr)
  BY DEF HeaderFound
<1>1. s \in Nat /\ b.start <= s /\ s < BlockEnd(b)
  <2>1. b.start <= Payload(b) /\ b.start \in Nat /\ Payload(b) \in Nat
    BY BlocksTyped, BlockFacts DEF Blocks
  <2> QED
    BY <2>1, PayloadSlots
<1>2. b.start \in header <=> b.hdr
  BY StartInjective DEF Bits
<1> QED
  BY <1>1, <1>2, NearestOwn

-----------------------------------------------------------------------------
(* The steps. *)

\* A step that changes the reply or the commit only.
LEMMA SameKept ==
  ASSUME KInv, IInv', UNCHANGED <<used, lists, begin, header, leak, blocks>>
  PROVE  KInv'
<1>1. NothingLost'
  BY DEF KInv, NothingLost
<1>2. Exact' /\ Bits' /\ LeakWhole'
  BY DEF KInv, Exact, Bits, LeakWhole
<1> QED
  BY <1>1, <1>2 DEF KInv

\* What allocating does to the bitmaps.
LEMMA MarkKept ==
  ASSUME KInv, NEW r \in Requests, NEW start \in Nat, start % MinSize = 0, Mark(r, start),
         UNCHANGED leak
  PROVE  /\ Bits' /\ LeakWhole'
         /\ blocks' = blocks \cup {BlockOf(r, start)}
<1> DEFINE nb == BlockOf(r, start)
<1>1. blocks' = blocks \cup {nb} /\ nb.start = start /\ nb.hdr = r.hdr
  BY BlockOfFacts DEF Mark, BlockOf
<1> HIDE DEF nb
<1>2. begin' = begin \cup {start} /\ header' = IF r.hdr THEN header \cup {start} ELSE header
  BY DEF Mark
<1>3. begin' = {b.start : b \in blocks'}
  BY <1>1, <1>2 DEF KInv, Bits
<1>4. header' = {b.start : b \in {c \in blocks' : c.hdr}}
  BY <1>1, <1>2 DEF KInv, Bits
<1>5. LeakWhole'
  BY <1>1 DEF KInv, LeakWhole
<1> QED
  BY <1>1, <1>3, <1>4, <1>5 DEF Bits, nb

\* A list of the first two classes serves exactly its class.
LEMMA ReuseFits ==
  ASSUME NEW r \in Requests, Total(r) <= ReuseLimit, NEW start \in Nat, start % MinSize = 0
  PROVE  /\ ClassOf(Total(r)) \in Classes \ {Last}
         /\ BlockEnd(BlockOf(r, start)) = start + ClassSize[ClassOf(Total(r))]
<1> DEFINE n == Total(r)
           k == ClassOf(n)
<1>1. n \in Nat \ {0} /\ n = HeaderBytes(r.hdr) + Served(r.size, r.hdr) /\ HeaderBytes(r.hdr) \in Nat
      /\ Served(r.size, r.hdr) \in Nat
  BY RequestFacts, ClassAssumption DEF Total, Served, HeaderBytes
<1>2. n < 2 * MinSize /\ n <= ReuseLimit /\ MinSize \in Nat \ {0}
  BY <1>1, SizeAssumption, ClassAssumption
<1>3. BlockEnd(BlockOf(r, start)) = RoundUp(start + n, MinSize)
  <2>1. start + HeaderBytes(r.hdr) + Served(r.size, r.hdr) = start + n
    BY <1>1
  <2> QED
    BY <2>1, BlockOfFacts
<1> HIDE DEF n
<1>4. k \in Classes /\ ClassSize[k] >= n /\ \A j \in Classes : ClassSize[j] >= n => k <= j
  <2> DEFINE Fits(i) == ClassSize[i] >= n /\ \A j \in Classes : ClassSize[j] >= n => i <= j
  <2>1. \E i \in Classes : Fits(i)
    <3>1. CASE MinSize >= n
      BY <3>1, ClassFacts, ClassAssumption DEF Classes
    <3>2. CASE ~ (MinSize >= n)
      <4>1. ClassSize[1] >= n
        BY <1>1, <1>2, ClassFacts
      <4>2. \A j \in Classes : ClassSize[j] >= n => 1 <= j
        BY <3>2, ClassAssumption DEF Classes
      <4> QED
        BY <4>1, <4>2, ClassFacts
    <3> QED
      BY <3>1, <3>2
  <2>2. k = CHOOSE i \in Classes : Fits(i)
    BY DEF ClassOf
  <2> HIDE DEF Fits, k
  <2>3. k \in Classes /\ Fits(k)
    BY <2>1, <2>2
  <2> QED
    BY <2>3 DEF Fits
<1> HIDE DEF k
<1>5. k \in {0, 1} /\ (n <= MinSize <=> k = 0)
  <2>1. ClassSize[0] = MinSize /\ ClassSize[1] = 2 * MinSize /\ 0 \in Classes /\ 1 \in Classes
    BY ClassFacts, ClassAssumption
  <2>2. k <= 1 /\ k \in Nat
    BY <1>1, <1>2, <1>4, <2>1 DEF Classes
  <2> QED
    BY <1>1, <1>2, <1>4, <2>1, <2>2
<1>6. ClassSize[k] \in {MinSize, 2 * MinSize} /\ (k = 0 <=> ClassSize[k] = MinSize) /\ k # Last
      /\ ClassSize[k] \in Nat
  BY <1>2, <1>5, ClassFacts, ClassAssumption DEF Last
<1>7. RoundUp(start + n, MinSize) = start + ClassSize[k]
  <2> DEFINE m == start + n
             R == RoundUp(m, MinSize)
  <2>1. m \in Nat
    BY <1>1
  <2>2. R \in Nat /\ R % MinSize = 0 /\ m <= R /\ R < m + MinSize
    <3> HIDE DEF m
    <3> QED
      BY <2>1, <1>2, RoundUpFacts
  <2> HIDE DEF R
  <2> DEFINE d == R - start
  <2>3. d \in Nat /\ n <= d /\ d < n + MinSize /\ d % MinSize = 0
    BY <1>1, <1>2, <2>2, SubMod
  <2> HIDE DEF d
  <2>4. PICK q \in Nat : d = MinSize * q
    <3>1. d \in Nat \ {0}
      BY <1>1, <2>3
    <3> QED
      BY <3>1, <1>2, <2>3, Multiple
  <2>5. q \in {1, 2}
    <3>1. MinSize * q < 3 * MinSize /\ q # 0
      BY <1>1, <1>2, <2>3, <2>4
    <3>2. ~ (3 <= q)
      <4> SUFFICES ASSUME 3 <= q PROVE FALSE
        OBVIOUS
      <4>1. 3 * MinSize <= q * MinSize
        <5>1. CASE q = 3
          BY <5>1, <1>2
        <5>2. CASE 3 < q
          BY <5>2, <1>2, ProductStep
        <5> QED
          BY <5>1, <5>2
      <4> QED
        BY <3>1, <4>1, <1>2
    <3> QED
      BY <3>1, <3>2
  <2>6. d = ClassSize[k]
    <3>1. CASE q = 1
      BY <3>1, <2>3, <2>4, <1>1, <1>2, <1>5, <1>6
    <3>2. CASE q = 2
      <4>1. d = 2 * MinSize
        BY <3>2, <2>4, <1>2
      <4> QED
        BY <4>1, <2>3, <1>1, <1>2, <1>5, <1>6
    <3> QED
      BY <3>1, <3>2, <2>5
  <2> QED
    BY <2>2, <2>6 DEF d, R
<1> QED
  BY <1>3, <1>4, <1>6, <1>7 DEF n, k

\* Nothing is lost after a step that leaves every slot in use covered.
LEMMA LostAfter ==
  ASSUME IInv',
         \A a \in Nat : a % MinSize = 0 /\ MinSize <= a /\ a < used'
                        => InBlocks(blocks', a) \/ InLists(lists', a)
  PROVE  NothingLost'
<1>1. used' \in Nat /\ used' >= MinSize
  BY DEF IInv, TypeOK
<1>2. SlotsOf(MinSize, used' - MinSize) = {a \in Nat : a % MinSize = 0 /\ MinSize <= a /\ a < used'}
  BY <1>1, UsedSlots
<1> QED
  BY <1>2 DEF NothingLost, InBlocks, InLists

LEMMA AllocReuseKept ==
  ASSUME KInv, NEW r \in Requests, AllocReuse(r)
  PROVE  KInv'
<1> DEFINE k == ClassOf(Total(r))
           e == Head(lists[k])
           start == e.at
           nb == BlockOf(r, start)
<1>1. IInv'
  BY AllocReuseInv DEF KInv
<1>2. CASE ~CanMark(r, start)
  BY <1>1, <1>2, SameKept DEF AllocReuse, Failed
<1>3. CASE CanMark(r, start)
  <2>1. /\ Mark(r, start) /\ lists[k] # << >> /\ Total(r) <= ReuseLimit
        /\ lists' = [lists EXCEPT ![k] = Tail(lists[k])]
        /\ used' = used /\ leak' = leak
    BY <1>3 DEF AllocReuse, CanReuse
  <2>2. k \in Classes /\ k # Last
    <3>1. \A n \in Nat : n % MinSize = 0 => k \in Classes \ {Last}
      BY <2>1, ReuseFits
    <3>2. 0 % MinSize = 0
      BY ClassAssumption
    <3> QED
      BY <3>1, <3>2
  <2>3. lists[k] \in Seq(Entries) /\ lists \in [Classes -> Seq(Entries)]
    BY <2>2 DEF KInv, IInv, TypeOK
  <2>4. 1 \in DOMAIN lists[k] /\ e = lists[k][1] /\ e \in Entries
    BY <2>1, <2>3
  <2>5. start % MinSize = 0 /\ start \in Nat /\ e.size = ClassSize[k] /\ ClassSize[k] \in Nat
    BY <2>2, <2>4, ClassFacts DEF KInv, IInv, TypeOK, Slotted, Entries, Exact
  <2>6. /\ nb \in Blocks /\ BlockEnd(nb) = start + ClassSize[k]
        /\ Extent(nb) \in Entries /\ Extent(nb).at = start
        /\ Extent(nb).at + Extent(nb).size = BlockEnd(nb)
    BY <2>1, <2>5, ReuseFits, BlockOfFacts, BlockFacts
  <2>7. Bits' /\ LeakWhole' /\ blocks' = blocks \cup {nb}
    BY <2>1, <2>5, MarkKept
  <2> HIDE DEF k, nb
  <2>8. /\ lists'[k] = Tail(lists[k])
        /\ \A j \in Classes \ {k} : lists'[j] = lists[j]
    BY <2>1, <2>2, <2>3
  <2>9. /\ \A i \in DOMAIN lists[k] : i = 1 \/ (i - 1 \in DOMAIN Tail(lists[k]) /\ Tail(lists[k])[i - 1] = lists[k][i])
        /\ \A i \in DOMAIN Tail(lists[k]) : i + 1 \in DOMAIN lists[k] /\ Tail(lists[k])[i] = lists[k][i + 1]
    BY <2>1, <2>3
  <2>10. Exact'
    <3> SUFFICES ASSUME NEW j \in Classes \ {Last}, NEW i \in DOMAIN lists'[j]
                 PROVE  lists'[j][i].size = ClassSize[j]
      BY DEF Exact
    <3>1. \E m \in DOMAIN lists[j] : lists'[j][i] = lists[j][m]
      <4>1. CASE j = k
        BY <4>1, <2>8, <2>9
      <4>2. CASE j # k
        BY <4>2, <2>8
      <4> QED
        BY <4>1, <4>2
    <3> QED
      BY <3>1 DEF KInv, Exact
  <2>11. ASSUME NEW a \in Nat, a % MinSize = 0, MinSize <= a, a < used'
         PROVE  InBlocks(blocks', a) \/ InLists(lists', a)
    <3>1. InBlocks(blocks, a) \/ InLists(lists, a)
      BY <2>1, <2>11, LostFacts DEF KInv
    <3>2. CASE InBlocks(blocks, a)
      BY <3>2, <2>7 DEF InBlocks
    <3>3. CASE InLists(lists, a)
      <4>1. PICK j \in Classes : \E i \in DOMAIN lists[j] : Covers(lists[j][i], a)
        BY <3>3 DEF InLists
      <4>2. PICK i \in DOMAIN lists[j] : Covers(lists[j][i], a)
        BY <4>1
      <4>3. CASE j = k /\ i = 1
        <5>1. Covers(Extent(nb), a)
          BY <4>2, <4>3, <2>4, <2>5, <2>6 DEF Covers
        <5> QED
          BY <5>1, <2>7 DEF InBlocks
      <4>4. CASE ~ (j = k /\ i = 1)
        <5>1. \E m \in DOMAIN lists'[j] : lists'[j][m] = lists[j][i]
          <6>1. CASE j = k
            BY <6>1, <4>4, <2>8, <2>9
          <6>2. CASE j # k
            BY <6>2, <2>8
          <6> QED
            BY <6>1, <6>2
        <5> QED
          BY <5>1, <4>2 DEF InLists
      <4> QED
        BY <4>3, <4>4
    <3> QED
      BY <3>1, <3>2, <3>3
  <2> QED
    BY <1>1, <2>7, <2>10, <2>11, LostAfter DEF KInv
<1> QED
  BY <1>2, <1>3

LEMMA AllocBumpKept ==
  ASSUME NarrowHeaders, KInv, NEW r \in Requests, AllocBump(r)
  PROVE  KInv'
<1> DEFINE start == Start(r)
           nb == BlockOf(r, start)
           d == Aligned(r) - used
<1>1. IInv'
  BY AllocBumpInv DEF KInv
<1>2. CASE ~CanMark(r, start)
  BY <1>1, <1>2, SameKept DEF AllocBump, Failed
<1>3. CASE CanMark(r, start)
  <2>1. /\ used' = NewUsed(r)
        /\ lists' = IF Unaligned(r) = Aligned(r) THEN lists
                    ELSE AddToFreelist(lists, Unaligned(r), Aligned(r) - Unaligned(r))
        /\ Mark(r, start) /\ leak' = leak
    BY <1>3 DEF AllocBump
  <2>2. used \in Nat /\ used % MinSize = 0 /\ used >= MinSize /\ MinSize \in Nat \ {0}
        /\ lists \in [Classes -> Seq(Entries)]
    BY ClassAssumption DEF KInv, IInv, TypeOK
  <2>3. /\ start \in Nat /\ used <= start /\ start % MinSize = 0
        /\ start + HeaderBytes(r.hdr) = Aligned(r) /\ NewUsed(r) \in Nat /\ Aligned(r) \in Nat
    BY <2>2, BumpFacts
  <2>4. /\ nb \in Blocks /\ BlockEnd(nb) = NewUsed(r)
        /\ Extent(nb).at = start /\ Extent(nb).at + Extent(nb).size = NewUsed(r)
    BY <2>3, BlockOfFacts, BlockFacts DEF NewUsed
  <2>5. Bits' /\ LeakWhole' /\ blocks' = blocks \cup {nb}
    BY <2>1, <2>3, MarkKept
  <2> HIDE DEF nb
  <2>6. \/ Unaligned(r) = Aligned(r) /\ lists' = lists /\ start = used
        \/ /\ CanAddToFreelist(used, d) /\ d \in Nat /\ start = used + d
           /\ lists' = AddToFreelist(lists, used, d)
    <3>1. CASE Unaligned(r) = Aligned(r)
      BY <3>1, <2>1, <2>2 DEF Start, Unaligned, HeaderBytes
    <3>2. CASE Unaligned(r) # Aligned(r)
      BY <3>2, <2>1, <2>2, <2>3, BumpFacts
    <3> QED
      BY <3>1, <3>2
  <2> HIDE DEF d
  <2>7. Exact'
    <3>1. CASE lists' = lists
      BY <3>1 DEF KInv, Exact
    <3>2. CASE CanAddToFreelist(used, d) /\ d \in Nat /\ lists' = AddToFreelist(lists, used, d)
      BY <3>2, <2>2, AddExact DEF KInv
    <3> QED
      BY <3>1, <3>2, <2>6
  <2>8. \A a \in Nat : InLists(lists, a) => InLists(lists', a)
    BY <2>2, <2>6, AddCovers
  <2>9. ASSUME NEW a \in Nat, a % MinSize = 0, MinSize <= a, a < used'
         PROVE  InBlocks(blocks', a) \/ InLists(lists', a)
    <3>1. CASE a < used
      <4>1. InBlocks(blocks, a) \/ InLists(lists, a)
        BY <3>1, <2>9, LostFacts DEF KInv
      <4> QED
        BY <4>1, <2>5, <2>8 DEF InBlocks
    <3>2. CASE used <= a /\ a < start
      BY <3>2, <2>2, <2>6, AddCovers
    <3>3. CASE start <= a
      <4>1. Covers(Extent(nb), a)
        BY <3>3, <2>1, <2>4, <2>9 DEF Covers
      <4> QED
        BY <4>1, <2>5 DEF InBlocks
    <3> QED
      BY <3>1, <3>2, <3>3, <2>2, <2>3
  <2> QED
    BY <1>1, <2>5, <2>7, <2>9, LostAfter DEF KInv
<1> QED
  BY <1>2, <1>3

LEMMA DeallocKept ==
  ASSUME KInv, NEW b \in blocks, Dealloc(b)
  PROVE  KInv'
<1> DEFINE end == DeallocEnd(b)
<1>1. IInv'
  BY DeallocInv DEF KInv
<1>2. CASE reply' = [op |-> "assert"] /\ UNCHANGED <<used, commit, lists, begin, header, leak, blocks>>
  BY <1>1, <1>2, SameKept
<1>3. CASE /\ begin' = begin \ {b.start}
           /\ blocks' = blocks \ {b}
           /\ UNCHANGED <<commit, header, leak>>
           /\ \/ IsTop(end) /\ used' = b.start /\ UNCHANGED lists
              \/ /\ CanAddToFreelist(b.start, end - b.start)
                 /\ lists' = AddToFreelist(lists, b.start, end - b.start)
                 /\ UNCHANGED used
  <2>1. ~b.hdr
    BY DEF Dealloc
  <2>2. /\ b \in Blocks /\ b.start \in Nat /\ Inside(Extent(b)) /\ b.start % MinSize = 0
        /\ MinSize \in Nat \ {0} /\ used \in Nat /\ lists \in [Classes -> Seq(Entries)]
    BY ClassAssumption DEF KInv, IInv, TypeOK, NoOverlap, Slotted, Blocks
  <2>3. /\ Extent(b).at = b.start /\ Extent(b).at + Extent(b).size = BlockEnd(b)
        /\ BlockEnd(b) \in Nat /\ b.start < BlockEnd(b) /\ BlockEnd(b) <= used
        /\ end \in Nat /\ b.start <= end
    <3>1. Payload(b) = b.start /\ end = b.start + Served(b.size, b.hdr)
      BY <2>1, <2>2 DEF Payload, HeaderBytes, DeallocEnd
    <3> HIDE DEF end
    <3>2. /\ Extent(b).at = b.start /\ Extent(b).at + Extent(b).size = BlockEnd(b)
          /\ BlockEnd(b) \in Nat /\ b.start < BlockEnd(b)
          /\ Served(b.size, b.hdr) \in Nat
      BY <2>2, BlockFacts
    <3> QED
      BY <2>2, <3>1, <3>2 DEF Inside
  <2>4. BlockEnd(b) = RoundUp(end, MinSize)
    BY <2>1, <2>2 DEF BlockEnd, Payload, HeaderBytes, DeallocEnd
  <2> HIDE DEF end
  <2>5. Bits'
    <3>1. begin' = {c.start : c \in blocks'}
      BY <1>3, StartInjective DEF KInv, Bits
    <3>2. {c \in blocks' : c.hdr} = {c \in blocks : c.hdr}
      BY <1>3, <2>1
    <3> QED
      BY <1>3, <3>1, <3>2 DEF KInv, Bits
  <2>6. LeakWhole'
    BY <1>3, <2>1 DEF KInv, LeakWhole
  <2>7. CASE IsTop(end) /\ used' = b.start /\ lists' = lists
    <3>1. Exact'
      BY <2>7 DEF KInv, Exact
    <3>2. ASSUME NEW a \in Nat, a % MinSize = 0, MinSize <= a, a < used'
          PROVE  InBlocks(blocks', a) \/ InLists(lists', a)
      <4>1. a < b.start /\ a < used
        BY <2>2, <2>3, <2>7, <3>2
      <4>2. InBlocks(blocks, a) \/ InLists(lists, a)
        BY <4>1, <3>2, LostFacts DEF KInv
      <4>3. ~ Covers(Extent(b), a)
        BY <4>1, <2>2, <2>3 DEF Covers
      <4> QED
        BY <1>3, <2>7, <4>2, <4>3 DEF InBlocks
    <3> QED
      BY <1>1, <2>5, <2>6, <3>1, <3>2, LostAfter DEF KInv
  <2>8. CASE /\ CanAddToFreelist(b.start, end - b.start)
             /\ lists' = AddToFreelist(lists, b.start, end - b.start)
             /\ used' = used
    <3> DEFINE d == end - b.start
    <3>1. d \in Nat /\ b.start + d = end /\ CanAddToFreelist(b.start, d) /\ d % MinSize = 0
          /\ lists' = AddToFreelist(lists, b.start, d)
      BY <2>2, <2>3, <2>8 DEF CanAddToFreelist
    <3> HIDE DEF d
    <3>2. BlockEnd(b) = end
      <4>1. (b.start + d) % MinSize = 0
        BY <3>1, <2>2, AddMod
      <4> QED
        BY <4>1, <3>1, <2>3, <2>4 DEF RoundUp
    <3>3. Exact'
      BY <2>2, <3>1, AddExact DEF KInv
    <3>4. ASSUME NEW a \in Nat, a % MinSize = 0, MinSize <= a, a < used'
          PROVE  InBlocks(blocks', a) \/ InLists(lists', a)
      <4>1. InBlocks(blocks, a) \/ InLists(lists, a)
        BY <2>8, <3>4, LostFacts DEF KInv
      <4>2. CASE Covers(Extent(b), a)
        <5>1. b.start <= a /\ a < b.start + d
          BY <4>2, <2>3, <3>1, <3>2 DEF Covers
        <5> QED
          BY <5>1, <2>2, <3>1, AddCovers
      <4>3. CASE InBlocks(blocks, a) /\ ~ Covers(Extent(b), a)
        BY <1>3, <4>3 DEF InBlocks
      <4>4. CASE InLists(lists, a)
        BY <4>4, <2>2, <3>1, AddCovers
      <4> QED
        BY <4>1, <4>2, <4>3, <4>4
    <3> QED
      BY <1>1, <2>5, <2>6, <3>3, <3>4, LostAfter DEF KInv
  <2> QED
    BY <1>3, <2>7, <2>8
<1> QED
  BY <1>2, <1>3 DEF Dealloc, Failed

\* Leaking marks every slot of the object the address is in, and nothing else.
LEMMA LeakKept ==
  ASSUME KInv, NEW b \in blocks, LeakObject(b)
  PROVE  KInv'
<1>1. IInv'
  BY LeakInv DEF KInv
<1>2. PICK a, n : Leak(a, n)
  BY DEF LeakObject
<1>3. UNCHANGED <<used, commit, lists, begin, header, blocks>>
  BY <1>2 DEF Leak
<1>4. NothingLost' /\ Exact' /\ Bits'
  BY <1>3 DEF KInv, NothingLost, Exact, Bits
<1>5. LeakWhole'
  <2> DEFINE s == NearestBegin(SlotOf(a))
  <2>1. leak' = leak \/ (leak' = leak \cup SlotsOf(s + MinSize, StoredSize(s)) /\ s \in header)
    BY <1>2 DEF Leak
  <2> HIDE DEF s
  <2>2. CASE leak' = leak
    BY <2>2, <1>3 DEF KInv, LeakWhole
  <2>3. CASE leak' = leak \cup SlotsOf(s + MinSize, StoredSize(s)) /\ s \in header
    <3>1. PICK c \in blocks : c.start = s /\ c.hdr
      BY <2>3 DEF KInv, Bits
    <3>2. \A x \in blocks : x.start = s /\ x.hdr => x = c
      BY <3>1, StartInjective DEF KInv
    <3>3. StoredSize(s) = c.size
      <4>1. (CHOOSE x \in blocks : x.start = s /\ x.hdr) = c
        BY <3>1, <3>2
      <4> QED
        BY <4>1 DEF StoredSize
    <3>4. Payload(c) = s + MinSize
      BY <3>1 DEF Payload, HeaderBytes
    <3> DEFINE L == SlotsOf(Payload(c), c.size)
    <3>5. leak' = leak \cup L
      BY <2>3, <3>3, <3>4
    <3> HIDE DEF L
    <3>6. ASSUME NEW t \in leak'
          PROVE  \E x \in blocks : /\ x.hdr /\ t \in SlotsOf(Payload(x), x.size)
                                   /\ SlotsOf(Payload(x), x.size) \subseteq leak'
      <4>1. CASE t \in leak
        BY <4>1, <3>5 DEF KInv, LeakWhole
      <4>2. CASE t \in L
        BY <4>2, <3>1, <3>5 DEF L
      <4> QED
        BY <3>5, <4>1, <4>2
    <3> QED
      BY <1>3, <3>6 DEF LeakWhole
  <2> QED
    BY <2>1, <2>2, <2>3
<1> QED
  BY <1>1, <1>4, <1>5 DEF KInv

LEMMA InitKept == Init => KInv
<1> SUFFICES ASSUME Init PROVE KInv
  OBVIOUS
<1>1. IInv
  BY InitInv
<1>2. Exact /\ Bits /\ LeakWhole
  BY DEF Init, Exact, Bits, LeakWhole
<1>3. NothingLost
  <2>1. used = MinSize /\ MinSize \in Nat \ {0}
    BY ClassAssumption DEF Init
  <2> QED
    BY <2>1, <1>1, LostFacts
<1> QED
  BY <1>1, <1>2, <1>3 DEF KInv

LEMMA NextKept ==
  ASSUME NarrowHeaders, KInv, [Next]_vars
  PROVE  KInv'
<1>1. CASE UNCHANGED vars
  <2>1. IInv'
    BY NextInv DEF KInv
  <2> QED
    BY <1>1, <2>1, SameKept DEF vars
<1>2. ASSUME NEW r \in Requests, AllocFail(r) PROVE KInv'
  BY <1>2, AllocFailInv, SameKept DEF AllocFail, KInv
<1>3. CASE Next
  BY <1>2, <1>3, AllocReuseKept, AllocBumpKept, DeallocKept, LeakKept DEF Next
<1> QED
  BY <1>1, <1>3

\* No sequence of allocations and deallocations loses memory: every used slot
\* past the null slot always belongs to a live block or to a free list.
THEOREM SpecNothingLost == ASSUME NarrowHeaders PROVE Spec => []NothingLost
<1>1. KInv /\ [Next]_vars => KInv'
  BY NextKept
<1>2. KInv => NothingLost
  BY DEF KInv
<1> QED
  BY InitKept, <1>1, <1>2, PTL DEF Spec

\* comp_heap_find_header always finds, from any payload slot of a live block,
\* that block's first slot, and a header there exactly when it has one.
THEOREM SpecHeaderFound == ASSUME NarrowHeaders PROVE Spec => []HeaderFound
<1>1. KInv /\ [Next]_vars => KInv'
  BY NextKept
<1>2. KInv => HeaderFound
  BY HeadersFound
<1> QED
  BY InitKept, <1>1, <1>2, PTL DEF Spec

\* Leaking any slice of a global member marks all of it, and only live global
\* members are ever marked as leaked.
THEOREM SpecLeakWhole == ASSUME NarrowHeaders PROVE Spec => []LeakWhole
<1>1. KInv /\ [Next]_vars => KInv'
  BY NextKept
<1>2. KInv => LeakWhole
  BY DEF KInv
<1> QED
  BY InitKept, <1>1, <1>2, PTL DEF Spec
=============================================================================
