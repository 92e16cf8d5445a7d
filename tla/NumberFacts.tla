---------------------------- MODULE NumberFacts ----------------------------
(***************************************************************************)
(* Lemmas about natural numbers that the proofs of several components      *)
(* share: division, remainders, positions in a ring, and arguments by      *)
(* the least counterexample, which serve where a proof goes by induction.  *)
(***************************************************************************)
EXTENDS Integers, WellFoundedInduction, TLAPS

(* Division. *)

LEMMA DivMod ==
  ASSUME NEW n \in Nat, NEW d \in Nat \ {0}
  PROVE  n = d * (n \div d) + (n % d) /\ n \div d \in Nat /\ n % d \in 0 .. d - 1
OBVIOUS

LEMMA DivModUnique ==
  ASSUME NEW d \in Nat \ {0}, NEW q \in Nat, NEW r \in 0 .. d - 1
  PROVE  (d * q + r) \div d = q /\ (d * q + r) % d = r
OBVIOUS

\* A multiple that divides is a product.
LEMMA Multiple ==
  ASSUME NEW n \in Nat \ {0}, NEW d \in Nat \ {0}, n % d = 0
  PROVE  \E t \in Nat \ {0} : n = d * t
<1>1. n = d * (n \div d) /\ n \div d \in Nat
  BY DivMod
<1> QED
  BY <1>1

LEMMA MultipleMod ==
  ASSUME NEW d \in Nat \ {0}, NEW t \in Nat
  PROVE  (d * t) % d = 0 /\ d * t \in Nat
BY DivModUnique

LEMMA ModFacts ==
  ASSUME NEW n \in Nat, NEW d \in Nat \ {0}
  PROVE  n % d \in Nat /\ n % d < d /\ n % d <= n
<1>1. n = d * (n \div d) + (n % d) /\ n \div d \in Nat /\ n % d \in 0 .. d - 1
  BY DivMod
<1> DEFINE q == n \div d
<1>2. d * q >= 0
  <2>1. q \in Nat
    BY <1>1
  <2> HIDE DEF q
  <2> QED
    BY <2>1
<1> QED
  BY <1>1, <1>2

LEMMA ProductGrows ==
  ASSUME NEW d \in Nat \ {0}, NEW t \in Nat \ {0}
  PROVE  d * t >= d /\ d * t \in Nat \ {0}
OBVIOUS

LEMMA ProductStep ==
  ASSUME NEW a \in Nat, NEW b \in Nat, NEW d \in Nat, a < b
  PROVE  a * d + d <= b * d /\ a * d \in Nat /\ b * d \in Nat
<1> DEFINE c == b - (a + 1)
<1>1. c \in Nat /\ b = a + 1 + c
  OBVIOUS
<1> HIDE DEF c
<1>2. (a + 1 + c) * d = a * d + d + c * d
  BY <1>1
<1>3. c * d \in Nat /\ a * d \in Nat
  BY <1>1
<1> QED
  BY <1>1, <1>2, <1>3

LEMMA AddMod ==
  ASSUME NEW m \in Nat, NEW n \in Nat, NEW d \in Nat \ {0}, m % d = 0, n % d = 0
  PROVE  (m + n) % d = 0
<1>1. m = d * (m \div d) /\ m \div d \in Nat /\ n = d * (n \div d) /\ n \div d \in Nat
  BY DivMod
<1> DEFINE p == m \div d
           q == n \div d
<1>2. m + n = d * (p + q) /\ p + q \in Nat
  BY <1>1
<1> HIDE DEF p, q
<1> QED
  BY <1>2, MultipleMod

LEMMA SubMod ==
  ASSUME NEW m \in Nat, NEW n \in Nat, NEW d \in Nat \ {0}, m % d = 0, n % d = 0, n <= m
  PROVE  (m - n) % d = 0 /\ m - n \in Nat
<1>1. m = d * (m \div d) /\ m \div d \in Nat /\ n = d * (n \div d) /\ n \div d \in Nat
  BY DivMod
<1> DEFINE p == m \div d
           q == n \div d
<1>2. m - n = d * (p - q) /\ p \in Nat /\ q \in Nat
  BY <1>1
<1> HIDE DEF p, q
<1>3. p - q \in Nat
  BY <1>2
<1> QED
  BY <1>2, <1>3, MultipleMod

LEMMA ModTrans ==
  ASSUME NEW a \in Nat, NEW m \in Nat \ {0}, NEW d \in Nat \ {0}, a % m = 0, m % d = 0
  PROVE  a % d = 0
<1>1. m = d * (m \div d) /\ m \div d \in Nat /\ a = m * (a \div m) /\ a \div m \in Nat
  BY DivMod
<1> DEFINE p == m \div d
           q == a \div m
<1>2. a = d * (p * q) /\ p * q \in Nat
  <2>1. p \in Nat /\ q \in Nat /\ m = d * p /\ a = m * q
    BY <1>1
  <2> HIDE DEF p, q
  <2> QED
    BY <2>1
<1> DEFINE x == p * q
<1>3. a = d * x /\ x \in Nat
  BY <1>2
<1> HIDE DEF x
<1> QED
  BY <1>3, MultipleMod

-----------------------------------------------------------------------------
(* Positions in a ring of c places. *)

LEMMA RingBelow ==
  ASSUME NEW c \in Nat \ {0}, NEW x \in 0 .. (2 * c) - 1
  PROVE  x % c = IF x < c THEN x ELSE x - c
<1>1. CASE x < c
  <2>1. (c * 0 + x) % c = x
    BY <1>1, DivModUnique
  <2> QED
    BY <2>1, <1>1
<1>2. CASE ~ (x < c)
  <2> DEFINE r == x - c
  <2>1. r \in 0 .. c - 1 /\ x = c * 1 + r
    BY <1>2
  <2> HIDE DEF r
  <2>2. x % c = r
    BY <2>1, DivModUnique
  <2> QED
    BY <2>2, <1>2 DEF r
<1> QED
  BY <1>1, <1>2

LEMMA RingAdd ==
  ASSUME NEW c \in Nat \ {0}, NEW a \in Nat, NEW b \in Nat
  PROVE  ((a % c) + b) % c = (a + b) % c
<1> DEFINE q == a \div c
           r == a % c
           p == (r + b) \div c
           s == (r + b) % c
<1>1. a = c * q + r /\ q \in Nat /\ r \in 0 .. c - 1
  BY DivMod
<1> HIDE DEF q, r
<1>2. r + b = c * p + s /\ p \in Nat /\ s \in 0 .. c - 1
  <2>1. r + b \in Nat
    BY <1>1
  <2> QED
    BY <2>1, DivMod
<1>3. s = (r + b) % c
  OBVIOUS
<1> HIDE DEF p, s
<1>4. a + b = c * (q + p) + s /\ q + p \in Nat
  BY <1>1, <1>2
<1> DEFINE t == q + p
<1>5. a + b = c * t + s /\ t \in Nat
  BY <1>4
<1> HIDE DEF t
<1>6. (a + b) % c = s
  BY <1>5, <1>2, DivModUnique
<1> QED
  BY <1>3, <1>6 DEF r

LEMMA RingCancel ==
  ASSUME NEW c \in Nat \ {0}, NEW a \in 0 .. c - 1, NEW b \in 0 .. c - 1, NEW x \in Nat,
         (a + x) % c = (b + x) % c
  PROVE  a = b
<1> DEFINE r == x % c
<1>1. r \in 0 .. c - 1
  BY DivMod
<1>2. \A y \in Nat : (r + y) % c = (x + y) % c
  BY RingAdd
<1>3. a + x = x + a /\ b + x = x + b /\ a \in Nat /\ b \in Nat
  OBVIOUS
<1>4. (x + a) % c = (x + b) % c
  BY <1>3
<1>5. (r + a) % c = (r + b) % c
  BY <1>2, <1>3, <1>4
<1> HIDE DEF r
<1>6. r + a \in 0 .. (2 * c) - 1 /\ r + b \in 0 .. (2 * c) - 1
  BY <1>1
<1>7. \A y \in 0 .. (2 * c) - 1 : y % c = IF y < c THEN y ELSE y - c
  BY RingBelow
<1> DEFINE u == r + a
           v == r + b
<1>8. u \in 0 .. (2 * c) - 1 /\ v \in 0 .. (2 * c) - 1 /\ u % c = v % c
  BY <1>5, <1>6
<1> HIDE DEF u, v
<1>9. (IF u < c THEN u ELSE u - c) = (IF v < c THEN v ELSE v - c)
  BY <1>7, <1>8
<1>10. u = v \/ u = v + c \/ v = u + c
  BY <1>8, <1>9
<1> QED
  BY <1>1, <1>10 DEF u, v

LEMMA RingReach ==
  ASSUME NEW c \in Nat \ {0}, NEW h \in Nat, NEW s \in 0 .. c - 1
  PROVE  \E d \in 0 .. c - 1 : (h + d) % c = s
<1> DEFINE r == h % c
           d == IF r <= s THEN s - r ELSE s + c - r
<1>1. r \in 0 .. c - 1
  BY DivMod
<1>2. \A x \in Nat : (h + x) % c = (r + x) % c
  BY RingAdd
<1> HIDE DEF r
<1>3. d \in 0 .. c - 1 /\ r + d \in 0 .. (2 * c) - 1 /\ r + d = IF r <= s THEN s ELSE s + c
  BY <1>1
<1> HIDE DEF d
<1>4. (r + d) % c = s
  BY <1>1, <1>3, RingBelow
<1>5. (h + d) % c = s
  BY <1>2, <1>3, <1>4
<1> QED
  BY <1>3, <1>5

\* How far behind s the place t is.
LEMMA RingDistance ==
  ASSUME NEW c \in Nat \ {0}, NEW s \in 0 .. c - 1, NEW t \in 0 .. c - 1
  PROVE  (t - s) % c = IF s <= t THEN t - s ELSE t - s + c
<1> DEFINE x == t - s
           q == x \div c
           r == x % c
<1>1. x \in Int /\ x < c /\ x > 0 - c
  OBVIOUS
<1>2. x = c * q + r /\ q \in Int /\ r \in 0 .. c - 1
  <2> HIDE DEF x
  <2> QED
    BY <1>1
<1> HIDE DEF q, r
<1>3. \A a \in Nat \ {0} : c * a >= c
  BY ProductGrows
<1>4. ~ (q >= 1)
  <2> SUFFICES ASSUME q >= 1 PROVE FALSE
    OBVIOUS
  <2>1. q \in Nat \ {0}
    BY <1>2
  <2>2. c * q >= c /\ c * q \in Int
    BY <1>2, <1>3, <2>1
  <2> QED
    BY <1>1, <1>2, <2>2
<1>5. ~ (q <= 0 - 2)
  <2> SUFFICES ASSUME q <= 0 - 2 PROVE FALSE
    OBVIOUS
  <2> DEFINE u == 0 - q - 1
  <2>1. u \in Nat \ {0} /\ q = 0 - u - 1
    BY <1>2
  <2> HIDE DEF u
  <2>2. c * u >= c /\ c * u \in Int
    BY <1>3, <2>1
  <2>3. c * q = 0 - c * u - c
    BY <2>1
  <2> QED
    BY <1>1, <1>2, <2>2, <2>3
<1>6. q = 0 \/ q = 0 - 1
  BY <1>2, <1>4, <1>5
<1>7. x = r \/ x = r - c
  <2>1. c * 0 = 0 /\ c * (0 - 1) = 0 - c
    OBVIOUS
  <2> QED
    BY <1>2, <1>6, <2>1
<1> HIDE DEF x
<1>8. r = IF x >= 0 THEN x ELSE x + c
  BY <1>1, <1>2, <1>7
<1> QED
  BY <1>8 DEF x, r

\* Counting from s, every place has its own number.
NumberedFrom(s, c) ==
  /\ \A n \in 0 .. c - 1 : (((s + n) % c) - s) % c = n
  /\ \A t \in 0 .. c - 1 : (t - s) % c \in 0 .. c - 1 /\ (s + ((t - s) % c)) % c = t
  /\ (s + 0) % c = s /\ (s + c) % c = s

LEMMA RingPlaces ==
  ASSUME NEW c \in Nat \ {0}, NEW s \in 0 .. c - 1
  PROVE  NumberedFrom(s, c)
<1>1. \A x \in 0 .. (2 * c) - 1 : x % c = IF x < c THEN x ELSE x - c
  BY RingBelow
<1>2. \A t \in 0 .. c - 1 : (t - s) % c = IF s <= t THEN t - s ELSE t - s + c
  BY RingDistance
<1>3. ASSUME NEW n \in 0 .. c - 1 PROVE (((s + n) % c) - s) % c = n
  <2> DEFINE x == s + n
             t == x % c
  <2>1. x \in 0 .. (2 * c) - 1
    OBVIOUS
  <2>2. t = IF x < c THEN x ELSE x - c
    BY <1>1, <2>1
  <2> HIDE DEF t
  <2>3. t \in 0 .. c - 1
    BY <2>2
  <2>4. (t - s) % c = IF s <= t THEN t - s ELSE t - s + c
    BY <1>2, <2>3
  <2>5. (IF s <= t THEN t - s ELSE t - s + c) = n
    BY <2>2
  <2> QED
    BY <2>4, <2>5 DEF t
<1>4. ASSUME NEW t \in 0 .. c - 1
      PROVE  (t - s) % c \in 0 .. c - 1 /\ (s + ((t - s) % c)) % c = t
  <2> DEFINE d == (t - s) % c
             x == s + d
  <2>1. d = IF s <= t THEN t - s ELSE t - s + c
    BY <1>2
  <2> HIDE DEF d
  <2>2. d \in 0 .. c - 1 /\ x \in 0 .. (2 * c) - 1 /\ t = IF x < c THEN x ELSE x - c
    BY <2>1
  <2>3. x % c = t
    BY <1>1, <2>2
  <2> QED
    BY <2>2, <2>3 DEF d
<1>5. (s + 0) % c = s /\ (s + c) % c = s
  <2>1. s + 0 = s /\ s \in 0 .. (2 * c) - 1 /\ s + c \in 0 .. (2 * c) - 1 /\ ~ (s + c < c) /\ (s + c) - c = s
    OBVIOUS
  <2> QED
    BY <1>1, <2>1
<1> QED
  BY <1>3, <1>4, <1>5 DEF NumberedFrom

-----------------------------------------------------------------------------
(* Induction. *)

\* A non-empty set of numbers has a least one.
LEMMA LeastNumber ==
  ASSUME NEW S \in SUBSET Nat, S # {}
  PROVE  \E n \in S : \A m \in S : n <= m
<1> DEFINE R == {ss \in Nat \X Nat : ss[1] < ss[2]}
<1>1. IsWellFoundedOn(R, Nat)
  BY NatLessThanWellFounded DEF OpToRel
<1>2. \A m, n \in Nat : m < n => <<m, n>> \in R
  OBVIOUS
<1> HIDE DEF R
<1>3. PICK n \in S : \A m \in S : ~ (<<m, n>> \in R)
  BY <1>1, WFMin
<1>4. \A m \in S : m \in Nat /\ n \in Nat /\ ~ (m < n)
  BY <1>2, <1>3
<1>5. \A m \in S : n <= m
  BY <1>4
<1> QED
  BY <1>5

\* What holds at zero and passes from each number to the next holds up to N.
LEMMA Increasing ==
  ASSUME NEW S \in SUBSET Nat, NEW N \in Nat, 0 \in S, \A n \in 1 .. N : n - 1 \in S => n \in S
  PROVE  0 .. N \subseteq S
<1> SUFFICES ASSUME NEW x \in 0 .. N, x \notin S PROVE FALSE
  OBVIOUS
<1> DEFINE T == {n \in 0 .. N : n \notin S}
<1>1. T \in SUBSET Nat /\ T # {}
  OBVIOUS
<1> HIDE DEF T
<1>2. PICK n \in T : \A m \in T : n <= m
  BY <1>1, LeastNumber
<1> QED
  BY <1>2 DEF T

Iterates(g, X, init, N, step) ==
  g \in [0 .. N -> X] /\ g[0] = init /\ \A n \in 1 .. N : g[n] = step[n][g[n - 1]]

\* A function defined by its value at zero and by how each value follows from
\* the one before it.
LEMMA IterateExists ==
  ASSUME NEW X, NEW init \in X, NEW N \in Nat, NEW step \in [1 .. N -> [X -> X]]
  PROVE  \E g : Iterates(g, X, init, N, step)
<1> DEFINE Good(M) == \E g \in [0 .. M -> X] : g[0] = init /\ \A n \in 1 .. M : g[n] = step[n][g[n - 1]]
           S == {M \in 0 .. N : Good(M)}
<1>1. 0 \in S
  <2> DEFINE g == [m \in 0 .. 0 |-> init]
  <2>1. g \in [0 .. 0 -> X] /\ g[0] = init /\ \A n \in 1 .. 0 : g[n] = step[n][g[n - 1]]
    OBVIOUS
  <2> HIDE DEF g
  <2>2. Good(0)
    BY <2>1
  <2> HIDE DEF Good
  <2> QED
    BY <2>2
<1>2. ASSUME NEW M \in 1 .. N, M - 1 \in S PROVE M \in S
  <2>1. PICK g \in [0 .. M - 1 -> X] : g[0] = init /\ \A n \in 1 .. M - 1 : g[n] = step[n][g[n - 1]]
    BY <1>2
  <2> DEFINE h == [m \in 0 .. M |-> IF m = M THEN step[M][g[M - 1]] ELSE g[m]]
  <2>2. h \in [0 .. M -> X]
    BY <2>1
  <2>3. h[0] = init
    BY <2>1
  <2>4. \A n \in 1 .. M : h[n] = step[n][h[n - 1]]
    BY <2>1
  <2> HIDE DEF h
  <2>5. Good(M)
    BY <2>2, <2>3, <2>4
  <2>6. M \in 0 .. N
    OBVIOUS
  <2> HIDE DEF Good
  <2> QED
    BY <2>5, <2>6
<1> HIDE DEF S
<1>3. 0 .. N \subseteq S
  <2>1. S \in SUBSET Nat
    BY DEF S
  <2> QED
    BY <1>1, <1>2, <2>1, Increasing
<1>4. N \in S
  BY <1>3
<1> QED
  BY <1>4 DEF S, Iterates

\* The powers of two, as far as N.
LEMMA PowersExist ==
  ASSUME NEW N \in Nat
  PROVE  \E f : f = [j \in 0 .. N |-> IF j = 0 THEN 1 ELSE 2 * f[j - 1]]
<1> DEFINE step == [n \in 1 .. N |-> [x \in Nat |-> 2 * x]]
<1>1. step \in [1 .. N -> [Nat -> Nat]]
  OBVIOUS
<1>2. \A n \in 1 .. N, x \in Nat : step[n][x] = 2 * x
  OBVIOUS
<1> HIDE DEF step
<1>3. PICK g : Iterates(g, Nat, 1, N, step)
  BY <1>1, IterateExists
<1>4. g \in [0 .. N -> Nat] /\ g[0] = 1
  BY <1>3 DEF Iterates
<1>5. \A n \in 1 .. N : g[n] = 2 * g[n - 1]
  <2>1. \A n \in 1 .. N : n - 1 \in 0 .. N
    OBVIOUS
  <2>2. \A n \in 1 .. N : g[n] = step[n][g[n - 1]]
    BY <1>3 DEF Iterates
  <2> QED
    BY <1>2, <1>4, <2>1, <2>2
<1>6. g = [j \in 0 .. N |-> IF j = 0 THEN 1 ELSE 2 * g[j - 1]]
  BY <1>4, <1>5
<1> QED
  BY <1>6

(* Remainders of integers. *)

LEMMA ModInt ==
  ASSUME NEW x \in Int, NEW d \in Nat \ {0}
  PROVE  x = d * (x \div d) + (x % d) /\ x \div d \in Int /\ x % d \in 0 .. d - 1
OBVIOUS

LEMMA ModIntUnique ==
  ASSUME NEW d \in Nat \ {0}, NEW q \in Int, NEW r \in 0 .. d - 1
  PROVE  (d * q + r) \div d = q /\ (d * q + r) % d = r
OBVIOUS

LEMMA ModNear ==
  ASSUME NEW d \in Nat \ {0}, NEW x \in -d .. 2 * d - 1
  PROVE  x % d = IF x < 0 THEN x + d ELSE IF x < d THEN x ELSE x - d
OBVIOUS

\* A multiple of the divisor does not change the remainder.
LEMMA ModShift ==
  ASSUME NEW x \in Int, NEW k \in Int, NEW d \in Nat \ {0}
  PROVE  (x + d * k) % d = x % d
<1> DEFINE q == x \div d
           r == x % d
<1>1. x = d * q + r /\ q \in Int /\ r \in 0 .. d - 1
  BY ModInt
<1> HIDE DEF q, r
<1>2. x + d * k = d * (q + k) + r /\ q + k \in Int
  BY <1>1
<1> DEFINE p == q + k
<1>3. p \in Int
  BY <1>2
<1> HIDE DEF p
<1>4. (d * p + r) % d = r
  BY <1>1, <1>3, ModIntUnique
<1>5. (x + d * k) % d = r
  BY <1>2, <1>4 DEF p
<1> QED
  BY <1>5 DEF r
=============================================================================
