-------------------------- MODULE CompValuesProofs --------------------------
(***************************************************************************)
(* The numbers of comp_values.cpp and of the handlers of interpreter.cpp   *)
(* are exact or refused, for every size of byte and word, every set of     *)
(* fixed types no wider than a word and all operands.                      *)
(*                                                                         *)
(* An outcome depends on the operation and its operands alone, so the      *)
(* invariant is that the last outcome is what Apply gives (Recorded).      *)
(* Each of the properties is then a statement about Apply: a bit pattern   *)
(* is the only one of its value (FixedBack, CompBack), an operation in a   *)
(* word is exact when the check behind it lets it pass (InWordFacts,       *)
(* SubCheckedFacts, DivisionInWord), and what an operator, a comparison,   *)
(* a shift or a conversion makes of two operands follows from that.        *)
(***************************************************************************)
EXTENDS CompValues, NumberFacts

(* Powers of two and the sizes of the types. *)

LEMMA WordBitsBound == WordBits \in Nat /\ WordBits >= 2 /\ WordBits >= ByteBits
<1> DEFINE w == WordBytes
           b == ByteBits
<1>1. w \in Nat \ {0} /\ b \in Nat \ {0} /\ b >= 2
  BY SizeAssumption
<1> HIDE DEF w, b
<1>2. b * w >= b /\ b * w \in Nat \ {0}
  BY <1>1, ProductGrows
<1>3. w * b = b * w
  BY <1>1
<1> QED
  BY <1>1, <1>2, <1>3 DEF WordBits, w, b

LEMMA TwoToFacts ==
  /\ TwoTo[0] = 1
  /\ \A n \in 1 .. WordBits : TwoTo[n] = 2 * TwoTo[n - 1]
  /\ \A n \in 0 .. WordBits : TwoTo[n] \in Nat \ {0}
<1> DEFINE N == WordBits
           IsPower(f) == f = [j \in 0 .. N |-> IF j = 0 THEN 1 ELSE 2 * f[j - 1]]
<1>1. N \in Nat
  BY WordBitsBound
<1>2. TwoTo = CHOOSE f : IsPower(f)
  BY DEF TwoTo
<1> HIDE DEF N
<1>3. \E f : IsPower(f)
  BY <1>1, PowersExist
<1>4. IsPower(TwoTo)
  BY <1>2, <1>3
<1>5. TwoTo[0] = 1 /\ \A n \in 1 .. N : TwoTo[n] = 2 * TwoTo[n - 1]
  BY <1>1, <1>4
<1> DEFINE S == {n \in 0 .. N : TwoTo[n] \in Nat \ {0}}
<1>6. 0 .. N \subseteq S
  <2>1. 0 \in S
    BY <1>1, <1>5
  <2>2. ASSUME NEW n \in 1 .. N, n - 1 \in S PROVE n \in S
    BY <1>1, <1>5, <2>2
  <2>3. S \in SUBSET Nat
    BY <1>1
  <2> HIDE DEF S
  <2> QED
    BY <1>1, <2>1, <2>2, <2>3, Increasing
<1> QED
  BY <1>5, <1>6 DEF N

\* Exponents add up.
LEMMA TwoToSum ==
  ASSUME NEW m \in 0 .. WordBits, NEW n \in 0 .. WordBits, m + n <= WordBits
  PROVE  TwoTo[m + n] = TwoTo[m] * TwoTo[n]
<1> DEFINE N == WordBits - m
           S == {k \in 0 .. N : TwoTo[m + k] = TwoTo[m] * TwoTo[k]}
           p == TwoTo[m]
<1>1. N \in Nat /\ WordBits \in Nat /\ n \in 0 .. N
  BY WordBitsBound
<1>2. p \in Nat
  BY TwoToFacts
<1>3. 0 \in S
  <2>1. m + 0 = m
    OBVIOUS
  <2>2. p = p * 1
    BY <1>2
  <2>3. TwoTo[m + 0] = TwoTo[m] * TwoTo[0]
    BY <2>1, <2>2, TwoToFacts
  <2> QED
    BY <1>1, <2>3
<1>4. ASSUME NEW k \in 1 .. N, k - 1 \in S PROVE k \in S
  <2> DEFINE q == TwoTo[k - 1]
             s == TwoTo[m + (k - 1)]
  <2>1. s = p * q
    BY <1>4
  <2>2. q \in Nat /\ TwoTo[k] = 2 * q
    BY <1>1, TwoToFacts
  <2>3. TwoTo[m + k] = 2 * s
    <3>1. m + k \in 1 .. WordBits /\ (m + k) - 1 = m + (k - 1)
      BY <1>1
    <3> HIDE DEF s
    <3> QED
      BY <3>1, TwoToFacts DEF s
  <2> HIDE DEF p, q, s
  <2>4. TwoTo[m + k] = p * TwoTo[k]
    BY <1>2, <2>1, <2>2, <2>3
  <2> QED
    BY <2>4 DEF p
<1>5. S \in SUBSET Nat
  BY <1>1
<1> HIDE DEF S, N, p
<1>6. 0 .. N \subseteq S
  BY <1>1, <1>3, <1>4, <1>5, Increasing
<1> QED
  BY <1>1, <1>6 DEF S, p

LEMMA TwoToGrows ==
  ASSUME NEW m \in 0 .. WordBits, NEW n \in m .. WordBits
  PROVE  TwoTo[m] <= TwoTo[n]
<1>1. n - m \in 0 .. WordBits /\ m + (n - m) = n /\ m + (n - m) <= WordBits
  BY WordBitsBound
<1> DEFINE k == n - m
           p == TwoTo[m]
           q == TwoTo[k]
<1>2. TwoTo[n] = p * q
  <2> HIDE DEF k
  <2> QED
    BY <1>1, TwoToSum DEF k
<1>3. p \in Nat \ {0} /\ q \in Nat \ {0}
  <2> HIDE DEF k
  <2> QED
    BY <1>1, TwoToFacts DEF k
<1> HIDE DEF p, q
<1>4. p * q >= p
  BY <1>3, ProductGrows
<1> QED
  BY <1>2, <1>4 DEF p

\* What is used of a width: half and all of the numbers of that many bits.
LEMMA Halves ==
  ASSUME NEW b \in 1 .. WordBits
  PROVE  /\ TwoTo[b - 1] \in Nat \ {0}
         /\ TwoTo[b] = 2 * TwoTo[b - 1]
         /\ TwoTo[b] \in Nat \ {0}
<1>1. b - 1 \in 0 .. WordBits /\ b \in 0 .. WordBits
  BY WordBitsBound
<1> QED
  BY <1>1, TwoToFacts

\* A fixed type has the bits of a byte at least and of a word at most; a byte
\* less than a word if it is not as wide.
LEMMA BitsBound ==
  ASSUME NEW t \in Types
  PROVE  /\ t.bytes \in 1 .. WordBytes /\ t.signed \in BOOLEAN
         /\ Bits(t) \in ByteBits .. WordBits
         /\ t.bytes < WordBytes => Bits(t) + 2 <= WordBits
         /\ t.bytes = WordBytes => Bits(t) = WordBits
<1> DEFINE n == t.bytes
           w == WordBytes
           b == ByteBits
<1>1. t.bytes \in 1 .. WordBytes /\ t.signed \in BOOLEAN
  BY TypeAssumption
<1>2. n \in Nat \ {0} /\ w \in Nat \ {0} /\ n <= w /\ b \in Nat \ {0} /\ b >= 2
  BY <1>1, SizeAssumption
<1> HIDE DEF n, w, b
<1>3. b * n >= b /\ b * n \in Nat
  BY <1>2, ProductGrows
<1>4. n < w => n * b + b <= w * b
  BY <1>2, ProductStep
<1>5. n * b = b * n /\ w * b \in Nat
  BY <1>2
<1>6. Bits(t) = b * n /\ WordBits = w * b
  BY DEF Bits, WordBits, n, w, b
<1>7. n < w => b * n + b <= w * b
  BY <1>4, <1>5
<1>8. n = w => b * n = w * b
  BY <1>5
<1> DEFINE bn == b * n
           wb == w * b
<1>9. bn \in b .. wb
  <2>1. bn \in Nat /\ bn >= b /\ wb \in Nat /\ (n < w => bn + b <= wb) /\ (n = w => bn = wb)
    BY <1>3, <1>5, <1>7, <1>8
  <2> HIDE DEF bn, wb
  <2> QED
    BY <1>2, <2>1
<1>10. n < w => bn + 2 <= wb
  <2>1. bn \in Nat /\ wb \in Nat /\ (n < w => bn + b <= wb)
    BY <1>3, <1>5, <1>7
  <2> HIDE DEF bn, wb
  <2> QED
    BY <1>2, <2>1
<1> QED
  BY <1>1, <1>6, <1>8, <1>9, <1>10 DEF n, w, b

LEMMA NotCompInteger ==
  ASSUME NEW t \in Types
  PROVE  t # CompInteger
BY BitsBound DEF CompInteger

-----------------------------------------------------------------------------
(* Representations. *)

LEMMA SignedRange ==
  ASSUME NEW b \in 1 .. WordBits, NEW rep \in 0 .. TwoTo[b] - 1
  PROVE  /\ AsSigned(rep, b) = IF rep < TwoTo[b - 1] THEN rep ELSE rep - TwoTo[b]
         /\ AsSigned(rep, b) \in -TwoTo[b - 1] .. TwoTo[b - 1] - 1
         /\ AsSigned(rep, b) < 0 <=> rep >= TwoTo[b - 1]
<1> DEFINE h == TwoTo[b - 1]
           m == TwoTo[b]
<1>1. h \in Nat \ {0} /\ m = 2 * h /\ rep \in 0 .. m - 1
  BY Halves
<1>2. AsSigned(rep, b) = IF rep >= h THEN rep - m ELSE rep
  BY DEF AsSigned
<1> HIDE DEF h, m
<1>3. /\ AsSigned(rep, b) = IF rep < h THEN rep ELSE rep - m
      /\ AsSigned(rep, b) \in -h .. h - 1
      /\ AsSigned(rep, b) < 0 <=> rep >= h
  BY <1>1, <1>2
<1> QED
  BY <1>3 DEF h, m

LEMMA SignedMod ==
  ASSUME NEW b \in 1 .. WordBits, NEW x \in Int
  PROVE  /\ AsSigned(x % TwoTo[b], b) \in -TwoTo[b - 1] .. TwoTo[b - 1] - 1
         /\ x \in -TwoTo[b - 1] .. TwoTo[b - 1] - 1 => AsSigned(x % TwoTo[b], b) = x
<1> DEFINE h == TwoTo[b - 1]
           m == TwoTo[b]
           r == x % m
<1>1. h \in Nat \ {0} /\ m \in Nat \ {0} /\ m = 2 * h
  BY Halves
<1>2. r \in 0 .. m - 1
  <2> HIDE DEF m
  <2> QED
    BY <1>1, ModInt
<1>3. /\ AsSigned(r, b) = IF r < h THEN r ELSE r - m
      /\ AsSigned(r, b) \in -h .. h - 1
  <2> HIDE DEF r
  <2> QED
    BY <1>2, SignedRange
<1>4. ASSUME x \in -h .. h - 1 PROVE r = IF x < 0 THEN x + m ELSE x
  <2> HIDE DEF m, h
  <2>1. x \in -m .. 2 * m - 1 /\ x < m
    BY <1>1, <1>4
  <2> QED
    BY <1>1, <2>1, ModNear
<1> HIDE DEF r, h, m
<1>5. x \in -h .. h - 1 => AsSigned(r, b) = x
  BY <1>1, <1>3, <1>4
<1> QED
  BY <1>3, <1>5 DEF r, h, m

\* The values of a fixed type.
LEMMA FixedRange ==
  ASSUME NEW t \in Types
  PROVE  /\ Bits(t) \in 1 .. WordBits
         /\ t.signed => Least(t) = -TwoTo[Bits(t) - 1] /\ Greatest(t) = TwoTo[Bits(t) - 1] - 1
         /\ ~t.signed => Least(t) = 0 /\ Greatest(t) = TwoTo[Bits(t)] - 1
         /\ Least(t) \in Int /\ Greatest(t) \in Int
<1>1. t # CompInteger
  BY NotCompInteger
<1>2. Bits(t) \in 1 .. WordBits
  BY BitsBound, SizeAssumption, WordBitsBound
<1> DEFINE b == Bits(t)
<1> HIDE DEF b
<1>3. TwoTo[b - 1] \in Nat /\ TwoTo[b] \in Nat /\ b - 0 = b
  BY <1>2, Halves, WordBitsBound DEF b
<1>4. t.signed => Least(t) = -TwoTo[b - 1] /\ Greatest(t) = TwoTo[b - 1] - 1
  BY <1>1 DEF Least, Greatest, b
<1>5. ~t.signed => Least(t) = 0 /\ Greatest(t) = TwoTo[b] - 1
  <2>1. ~t.signed => Greatest(t) = TwoTo[b - 0] - 1
    BY <1>1 DEF Greatest, b
  <2> QED
    BY <1>1, <1>3, <2>1 DEF Least
<1>6. t.signed \in BOOLEAN
  BY BitsBound
<1>7. Least(t) \in Int /\ Greatest(t) \in Int
  BY <1>3, <1>4, <1>5, <1>6
<1> QED
  BY <1>2, <1>4, <1>5, <1>7 DEF b

\* The values of a compile-time integer: a quarter of those of a word on
\* either side of zero.
LEMMA CompRange ==
  /\ Least(CompInteger) = -TwoTo[WordBits - 2] /\ Greatest(CompInteger) = TwoTo[WordBits - 2] - 1
  /\ TwoTo[WordBits - 2] \in Nat \ {0}
  /\ TwoTo[WordBits - 1] = 2 * TwoTo[WordBits - 2]
  /\ TwoTo[WordBits] = 4 * TwoTo[WordBits - 2]
<1>1. WordBits - 1 \in 1 .. WordBits /\ (WordBits - 1) - 1 = WordBits - 2 /\ WordBits \in 1 .. WordBits
  BY WordBitsBound
<1> DEFINE v == WordBits - 1
<1>2. TwoTo[v - 1] \in Nat \ {0} /\ TwoTo[v] = 2 * TwoTo[v - 1]
  <2> HIDE DEF v
  <2> QED
    BY <1>1, Halves DEF v
<1>3. TwoTo[WordBits] = 2 * TwoTo[WordBits - 1]
  BY <1>1, Halves
<1>4. TwoTo[WordBits - 2] \in Nat \ {0} /\ TwoTo[WordBits - 1] = 2 * TwoTo[WordBits - 2]
  BY <1>1, <1>2
<1> DEFINE q == TwoTo[WordBits - 2]
           h == TwoTo[WordBits - 1]
           m == TwoTo[WordBits]
<1>5. m = 4 * q
  <2>1. q \in Nat \ {0} /\ h = 2 * q /\ m = 2 * h
    BY <1>3, <1>4
  <2> HIDE DEF q, h, m
  <2> QED
    BY <2>1
<1> QED
  BY <1>4, <1>5 DEF Least, Greatest

\* A fixed integer is its value modulo the numbers of its type.
LEMMA FixedValue ==
  ASSUME NEW t \in Types, NEW rep \in 0 .. TwoTo[Bits(t)] - 1
  PROVE  LET x == ValueOf([type |-> t, rep |-> rep])
         IN  /\ x \in Int /\ Fits(t, x)
             /\ rep = IF x < 0 THEN x + TwoTo[Bits(t)] ELSE x
             /\ x < 0 <=> t.signed /\ AsSigned(rep, Bits(t)) < 0
<1> DEFINE b == Bits(t)
           h == TwoTo[b - 1]
           m == TwoTo[b]
           x == ValueOf([type |-> t, rep |-> rep])
           s == AsSigned(rep, b)
<1>1. b \in 1 .. WordBits /\ t.signed \in BOOLEAN
  BY FixedRange, BitsBound
<1>2. h \in Nat \ {0} /\ m = 2 * h /\ rep \in 0 .. m - 1
  <2> HIDE DEF b
  <2> QED
    BY <1>1, Halves DEF b
<1>3. x = IF t.signed THEN s ELSE rep
  BY NotCompInteger DEF ValueOf
<1>4. s = (IF rep < h THEN rep ELSE rep - m) /\ s \in -h .. h - 1
  <2> HIDE DEF b
  <2> QED
    BY <1>1, SignedRange DEF b
<1>5. t.signed => Least(t) = -h /\ Greatest(t) = h - 1
  BY FixedRange
<1>6. ~t.signed => Least(t) = 0 /\ Greatest(t) = m - 1
  BY FixedRange
<1> HIDE DEF x, s, h, m
<1>7. x \in Int /\ Fits(t, x)
  BY <1>1, <1>2, <1>3, <1>4, <1>5, <1>6 DEF Fits
<1>8. rep = IF x < 0 THEN x + m ELSE x
  BY <1>1, <1>2, <1>3, <1>4
<1>9. x < 0 <=> t.signed /\ s < 0
  BY <1>1, <1>2, <1>3, <1>4
<1> QED
  BY <1>7, <1>8, <1>9 DEF x, m, b, s

LEMMA FixedBack ==
  ASSUME NEW t \in Types, NEW x \in Int, Fits(t, x)
  PROVE  ValueOf([type |-> t, rep |-> x % TwoTo[Bits(t)]]) = x
<1> DEFINE b == Bits(t)
           h == TwoTo[b - 1]
           m == TwoTo[b]
<1>1. b \in 1 .. WordBits /\ t.signed \in BOOLEAN
  BY FixedRange, BitsBound
<1>2. h \in Nat \ {0} /\ m \in Nat \ {0} /\ m = 2 * h
  <2> HIDE DEF b
  <2> QED
    BY <1>1, Halves DEF b
<1>3. CASE t.signed
  <2>1. x \in -h .. h - 1
    BY <1>3, FixedRange DEF Fits
  <2>2. AsSigned(x % m, b) = x
    <3> HIDE DEF b
    <3> QED
      BY <1>1, <2>1, SignedMod DEF b
  <2> QED
    BY <1>3, <2>2, NotCompInteger DEF ValueOf
<1>4. CASE ~t.signed
  <2>1. x \in 0 .. m - 1
    BY <1>4, FixedRange DEF Fits
  <2>2. x % m = x
    <3> HIDE DEF m, h
    <3>1. x \in -m .. 2 * m - 1 /\ x < m /\ ~ (x < 0)
      BY <1>2, <2>1
    <3>2. m \in Nat \ {0}
      BY <1>2
    <3> QED
      BY <3>1, <3>2, ModNear
  <2> QED
    BY <1>4, <2>2, NotCompInteger DEF ValueOf
<1> QED
  BY <1>1, <1>3, <1>4

\* A compile-time integer is twice its value in a word.
LEMMA CompIs ==
  ASSUME NEW rep \in Reps(CompInteger)
  PROVE  LET x == CompValue(rep)
         IN  /\ x \in Int /\ Fits(CompInteger, x)
             /\ rep \in 0 .. TwoTo[WordBits] - 1
             /\ AsSigned(rep, WordBits) = 2 * x
             /\ rep = IF x < 0 THEN 2 * x + TwoTo[WordBits] ELSE 2 * x
<1> DEFINE q == TwoTo[WordBits - 2]
           m == TwoTo[WordBits]
           x == CompValue(rep)
           s == AsSigned(rep, WordBits)
<1>1. q \in Nat \ {0} /\ TwoTo[WordBits - 1] = 2 * q /\ m = 4 * q
  BY CompRange
<1>2. PICK y \in 0 .. TwoTo[WordBits - 1] - 1 : rep = 2 * y
  BY DEF Reps
<1>3. y \in 0 .. 2 * q - 1
  BY <1>1, <1>2
<1>4. rep \in 0 .. m - 1
  <2> HIDE DEF m, q
  <2> QED
    BY <1>1, <1>2, <1>3
<1>5. s = IF rep < 2 * q THEN rep ELSE rep - m
  <2>1. WordBits \in 1 .. WordBits
    BY WordBitsBound
  <2> QED
    BY <1>1, <1>4, <2>1, SignedRange
<1>6. x = s \div 2
  BY DEF CompValue
<1>7. x = IF y < q THEN y ELSE y - 2 * q
  <2> HIDE DEF q, m, s, x
  <2>1. s = IF y < q THEN 2 * y ELSE 2 * (y - 2 * q)
    BY <1>1, <1>2, <1>3, <1>5
  <2> QED
    BY <1>1, <1>3, <1>6, <2>1
<1>8. Fits(CompInteger, x) <=> x \in -q .. q - 1
  BY CompRange DEF Fits
<1> HIDE DEF q, m, s, x
<1>9. x \in Int /\ x \in -q .. q - 1
  BY <1>1, <1>3, <1>7
<1>10. s = 2 * x /\ rep = IF x < 0 THEN 2 * x + m ELSE 2 * x
  BY <1>1, <1>2, <1>3, <1>5, <1>7
<1> QED
  BY <1>4, <1>8, <1>9, <1>10 DEF x, m, s

\* Twice a value, in a word, is that value again.
LEMMA CompBack ==
  ASSUME NEW x \in Int, Fits(CompInteger, x)
  PROVE  CompValue((2 * x) % TwoTo[WordBits]) = x
<1> DEFINE q == TwoTo[WordBits - 2]
           d == 2 * x
<1>1. q \in Nat \ {0} /\ TwoTo[WordBits - 1] = 2 * q
  BY CompRange
<1>2. x \in -q .. q - 1
  BY CompRange DEF Fits
<1>3. d \in -(2 * q) .. 2 * q - 1 /\ d \in Int
  <2> HIDE DEF q
  <2> QED
    BY <1>1, <1>2
<1>4. AsSigned(d % TwoTo[WordBits], WordBits) = d
  <2>1. WordBits \in 1 .. WordBits
    BY WordBitsBound
  <2> HIDE DEF d
  <2> QED
    BY <1>1, <1>3, <2>1, SignedMod
<1>5. d \div 2 = x
  OBVIOUS
<1> QED
  BY <1>4, <1>5 DEF CompValue

-----------------------------------------------------------------------------
(* Arithmetic. *)

\* C++ division: the quotient is no greater than the dividend, and less than
\* it unless the divisor is one or minus one.
LEMMA QuotientFacts ==
  ASSUME NEW a \in Int, NEW b \in Int, b # 0
  PROVE  LET q == Quotient(a, b)
             m == a - b * q
         IN  /\ q \in Int /\ m \in Int
             /\ Magnitude(q) <= Magnitude(a)
             /\ b \notin {-1, 1} => 2 * Magnitude(q) <= Magnitude(a)
             /\ b = 1 => q = a
             /\ b = -1 => q = -a
             /\ a >= 0 => m \in 0 .. a
             /\ a < 0 => m \in a .. 0
             /\ a >= 0 /\ b >= 0 => q >= 0
<1> DEFINE n == Magnitude(a)
           d == Magnitude(b)
           p == n \div d
           r == n % d
           q == Quotient(a, b)
<1>1. n = (IF a < 0 THEN -a ELSE a) /\ d = (IF b < 0 THEN -b ELSE b)
  BY DEF Magnitude
<1>2. n \in Nat /\ d \in Nat \ {0}
  BY <1>1
<1>3. n = d * p + r /\ p \in Nat /\ r \in 0 .. d - 1
  <2> HIDE DEF n, d
  <2> QED
    BY <1>2, DivMod
<1>4. q = IF (a < 0) = (b < 0) THEN p ELSE -p
  BY DEF Quotient
<1>5. b * q = IF a < 0 THEN -(d * p) ELSE d * p
  <2>1. p \in Nat /\ d \in Nat
    BY <1>2, <1>3
  <2> HIDE DEF p, d, q, n
  <2>2. CASE b < 0
    <3>1. d = -b
      BY <1>1, <2>2
    <3> QED
      BY <1>4, <2>1, <2>2, <3>1
  <2>3. CASE ~ (b < 0)
    <3>1. d = b
      BY <1>1, <2>3
    <3> QED
      BY <1>4, <2>1, <2>3, <3>1
  <2> QED
    BY <2>2, <2>3
<1> DEFINE e == d * p
<1>6. e \in Nat /\ e >= p /\ (d >= 2 => e >= 2 * p) /\ (d = 1 => e = p)
  <2>1. d \in Nat \ {0} /\ p \in Nat
    BY <1>2, <1>3
  <2> HIDE DEF d, p
  <2>2. d * p \in Nat /\ (d = 1 => d * p = p)
    BY <2>1
  <2>3. d * p = p + (d - 1) * p /\ (d - 1) * p >= 0
    BY <2>1
  <2>4. d >= 2 => d * p = 2 * p + (d - 2) * p /\ (d - 2) * p >= 0
    BY <2>1
  <2>5. (d - 1) * p \in Int /\ (d >= 2 => (d - 2) * p \in Int)
    BY <2>1
  <2> QED
    BY <2>1, <2>2, <2>3, <2>4, <2>5
<1> DEFINE bq == b * q
<1>7. n = e + r /\ p \in Nat /\ r \in Nat /\ r < d /\ bq = (IF a < 0 THEN -e ELSE e)
  <2> HIDE DEF n, d, p, r, q
  <2>1. n = e + r /\ bq = (IF a < 0 THEN -e ELSE e)
    BY <1>3, <1>5
  <2>2. p \in Nat /\ r \in Nat /\ r < d
    BY <1>2, <1>3
  <2> QED
    BY <2>1, <2>2
<1>8. Magnitude(q) = p
  <2> HIDE DEF p, n, d, q
  <2> QED
    BY <1>4, <1>7 DEF Magnitude
<1> HIDE DEF n, d, p, r, q, e, bq
<1>9. q \in Int /\ Magnitude(q) <= n /\ (b \notin {-1, 1} => 2 * Magnitude(q) <= n)
  BY <1>1, <1>2, <1>4, <1>6, <1>7, <1>8
<1>10. (b = 1 => q = a) /\ (b = -1 => q = -a)
  BY <1>1, <1>2, <1>4, <1>6, <1>7
<1>11. a >= 0 => a - bq \in 0 .. a
  BY <1>1, <1>2, <1>6, <1>7
<1>12. a < 0 => a - bq \in a .. 0
  BY <1>1, <1>2, <1>6, <1>7
<1>13. a - bq \in Int
  BY <1>6, <1>7
<1>14. a >= 0 /\ b >= 0 => q >= 0
  BY <1>1, <1>4, <1>7
<1> QED
  BY <1>9, <1>10, <1>11, <1>12, <1>13, <1>14 DEF n, q, bq

LEMMA ExactInt ==
  ASSUME NEW kind \in Kinds, NEW a \in Int, NEW b \in Int, kind \in {"Div", "Mod"} => b # 0
  PROVE  /\ Exact(kind, a, b) \in Int
         /\ kind = "Add" => Exact(kind, a, b) = a + b
         /\ kind = "Sub" => Exact(kind, a, b) = a - b
         /\ kind = "Mul" => Exact(kind, a, b) = a * b
         /\ kind = "Div" => Exact(kind, a, b) = Quotient(a, b)
         /\ kind = "Mod" => Exact(kind, a, b) = a - b * Quotient(a, b)
<1>1. kind = "Add" => Exact(kind, a, b) = a + b
  BY DEF Exact
<1>2. kind = "Sub" => Exact(kind, a, b) = a - b
  BY DEF Exact
<1>3. kind = "Mul" => Exact(kind, a, b) = a * b
  BY DEF Exact
<1>4. kind = "Div" => Exact(kind, a, b) = Quotient(a, b)
  BY DEF Exact
<1>5. kind = "Mod" => Exact(kind, a, b) = a - b * Quotient(a, b)
  BY DEF Exact
<1>6. kind \in {"Div", "Mod"} => Quotient(a, b) \in Int /\ a - b * Quotient(a, b) \in Int
  BY QuotientFacts
<1>7. a + b \in Int /\ a - b \in Int /\ a * b \in Int
  OBVIOUS
<1>8. Exact(kind, a, b) \in Int
  BY <1>1, <1>2, <1>3, <1>4, <1>5, <1>6, <1>7 DEF Kinds
<1> QED
  BY <1>1, <1>2, <1>3, <1>4, <1>5, <1>8

\* The integers of a word, signed or not.
LeastInWord(signed) == IF signed THEN -TwoTo[WordBits - 1] ELSE 0
GreatestInWord(signed) == IF signed THEN TwoTo[WordBits - 1] - 1 ELSE TwoTo[WordBits] - 1
WordRange(signed) == LeastInWord(signed) .. GreatestInWord(signed)

LEMMA InWordFacts ==
  ASSUME NEW signed \in BOOLEAN, NEW x \in Int
  PROVE  /\ InWord(signed, x) \in WordRange(signed)
         /\ InWord(signed, x) = x <=> x \in WordRange(signed)
<1> DEFINE h == TwoTo[WordBits - 1]
           m == TwoTo[WordBits]
<1>1. WordBits \in 1 .. WordBits
  BY WordBitsBound
<1>2. h \in Nat \ {0} /\ m \in Nat \ {0} /\ m = 2 * h
  BY <1>1, Halves
<1>3. CASE signed
  <2>1. InWord(signed, x) = AsSigned(x % m, WordBits)
    BY <1>3 DEF InWord
  <2>2. WordRange(signed) = -h .. h - 1
    BY <1>3 DEF WordRange, LeastInWord, GreatestInWord
  <2>3. AsSigned(x % m, WordBits) \in -h .. h - 1 /\ (x \in -h .. h - 1 => AsSigned(x % m, WordBits) = x)
    BY <1>1, SignedMod
  <2> HIDE DEF m, h
  <2> QED
    BY <2>1, <2>2, <2>3
<1>4. CASE ~signed
  <2>1. InWord(signed, x) = x % m
    BY <1>4 DEF InWord
  <2>2. WordRange(signed) = 0 .. m - 1
    BY <1>4 DEF WordRange, LeastInWord, GreatestInWord
  <2> HIDE DEF m, h
  <2>3. x % m \in 0 .. m - 1
    BY <1>2, ModInt
  <2>4. x \in 0 .. m - 1 => x % m = x
    BY <1>2, ModNear
  <2> QED
    BY <2>1, <2>2, <2>3, <2>4
<1> QED
  BY <1>3, <1>4

\* sub_checked_s64 lets one difference through that a word has not.
LEMMA SubCheckedFacts ==
  ASSUME NEW a \in WordRange(TRUE), NEW b \in WordRange(TRUE)
  PROVE  SubChecked(a, b) <=> a - b \in WordRange(TRUE) \/ (a = 0 /\ b = LeastInWord(TRUE))
<1> DEFINE h == TwoTo[WordBits - 1]
           m == TwoTo[WordBits]
           x == a - b
           w == InWord(TRUE, x)
<1>1. WordBits \in 1 .. WordBits
  BY WordBitsBound
<1>2. h \in Nat \ {0} /\ m \in Nat \ {0} /\ m = 2 * h
  BY <1>1, Halves
<1>3. WordRange(TRUE) = -h .. h - 1 /\ LeastInWord(TRUE) = -h
  BY DEF WordRange, LeastInWord, GreatestInWord
<1>4. SubChecked(a, b) <=> (a > 0 /\ b < 0 => w > 0) /\ (a < 0 /\ b > 0 => w < 0)
  BY DEF SubChecked
<1>5. w = AsSigned(x % m, WordBits)
  BY DEF InWord
<1>6. a \in -h .. h - 1 /\ b \in -h .. h - 1 /\ a \in Int /\ b \in Int
  <2>1. a \in -h .. h - 1 /\ b \in -h .. h - 1
    BY <1>3
  <2> HIDE DEF h, m
  <2> QED
    BY <1>2, <2>1
<1>7. x \in Int /\ x \in -m .. 2 * m - 1
  <2> HIDE DEF h, m
  <2> QED
    BY <1>2, <1>6
<1> DEFINE r == x % m
<1>8. r = IF x < 0 THEN x + m ELSE IF x < m THEN x ELSE x - m
  <2> HIDE DEF x, m
  <2> QED
    BY <1>2, <1>7, ModNear
<1>9. r \in 0 .. m - 1
  <2> HIDE DEF x, m
  <2> QED
    BY <1>2, <1>7, ModInt
<1>10. w = IF r < h THEN r ELSE r - m
  <2> HIDE DEF r
  <2> QED
    BY <1>1, <1>5, <1>9, SignedRange DEF r
<1>11. x = a - b
  OBVIOUS
<1> HIDE DEF h, m, x, w, r
<1>12. w = IF x < -h THEN x + m ELSE IF x < h THEN x ELSE x - m
  BY <1>2, <1>6, <1>8, <1>10, <1>11
<1>13. (a > 0 /\ b < 0 => w > 0) /\ (a < 0 /\ b > 0 => w < 0) <=> x \in -h .. h - 1 \/ (a = 0 /\ b = -h)
  BY <1>2, <1>6, <1>11, <1>12
<1> QED
  BY <1>3, <1>4, <1>11, <1>13

\* A type is a part of the word: all of it, or half of it at most.
LEMMA TypeInWord ==
  ASSUME NEW t \in Types
  PROVE  /\ Least(t) \in Int /\ Greatest(t) \in Int
         /\ LeastInWord(t.signed) \in Int /\ GreatestInWord(t.signed) \in Int
         /\ LeastInWord(t.signed) <= Least(t) /\ Greatest(t) <= GreatestInWord(t.signed)
         /\ t.signed => Greatest(t) = -Least(t) - 1 /\ Least(t) <= -1
         /\ ~t.signed => Least(t) = 0
         /\ t.bytes = WordBytes => Least(t) = LeastInWord(t.signed) /\ Greatest(t) = GreatestInWord(t.signed)
         /\ t.bytes < WordBytes /\ t.signed => LeastInWord(TRUE) < Least(t)
<1> DEFINE b == Bits(t)
           w == WordBits
           h == TwoTo[b - 1]
           m == TwoTo[b]
           hw == TwoTo[w - 1]
           mw == TwoTo[w]
<1>1. b \in 1 .. w /\ w \in 1 .. w /\ t.signed \in BOOLEAN /\ t.bytes \in 1 .. WordBytes
  BY FixedRange, BitsBound, WordBitsBound
<1>2. h \in Nat \ {0} /\ m = 2 * h /\ m \in Nat
  <2> HIDE DEF b
  <2> QED
    BY <1>1, Halves DEF b
<1>3. hw \in Nat \ {0} /\ mw = 2 * hw /\ mw \in Nat
  BY <1>1, Halves
<1>4. m <= mw
  <2>1. b \in 0 .. w /\ w \in b .. w
    BY <1>1
  <2> HIDE DEF b
  <2> QED
    BY <2>1, TwoToGrows DEF b
<1>5. t.bytes < WordBytes => m <= hw
  <2> SUFFICES ASSUME t.bytes < WordBytes PROVE m <= hw
    OBVIOUS
  <2>1. b + 2 <= w
    BY BitsBound
  <2>2. b \in 0 .. w /\ w - 1 \in b .. w
    BY <1>1, <2>1
  <2> DEFINE v == w - 1
  <2> HIDE DEF b, v
  <2>3. TwoTo[b] <= TwoTo[v]
    BY <2>2, TwoToGrows DEF v
  <2> QED
    BY <2>3 DEF b, v
<1>6. t.bytes = WordBytes => m = mw /\ h = hw
  BY BitsBound
<1>7. t.signed => Least(t) = -h /\ Greatest(t) = h - 1
  BY FixedRange
<1>8. ~t.signed => Least(t) = 0 /\ Greatest(t) = m - 1
  BY FixedRange
<1>9. t.signed => LeastInWord(t.signed) = -hw /\ GreatestInWord(t.signed) = hw - 1
  BY DEF LeastInWord, GreatestInWord
<1>10. ~t.signed => LeastInWord(t.signed) = 0 /\ GreatestInWord(t.signed) = mw - 1
  BY DEF LeastInWord, GreatestInWord
<1>11. LeastInWord(TRUE) = -hw
  BY DEF LeastInWord
<1> HIDE DEF b, w, h, m, hw, mw
<1> DEFINE g == Least(t)
           k == Greatest(t)
           gw == LeastInWord(t.signed)
           kw == GreatestInWord(t.signed)
<1> HIDE DEF g, k, gw, kw
<1>12. CASE t.signed
  <2>1. g = -h /\ k = h - 1 /\ gw = -hw /\ kw = hw - 1
    BY <1>7, <1>9, <1>12 DEF g, k, gw, kw
  <2>2. g \in Int /\ k \in Int /\ gw \in Int /\ kw \in Int /\ gw <= g /\ k <= kw /\ k = -g - 1 /\ g <= -1
    BY <1>2, <1>3, <1>4, <2>1
  <2>3. (t.bytes = WordBytes => g = gw /\ k = kw) /\ (t.bytes < WordBytes => -hw < g)
    BY <1>2, <1>3, <1>5, <1>6, <2>1
  <2> QED
    BY <1>11, <1>12, <2>2, <2>3 DEF g, k, gw, kw
<1>13. CASE ~t.signed
  <2>1. g = 0 /\ k = m - 1 /\ gw = 0 /\ kw = mw - 1
    BY <1>8, <1>10, <1>13 DEF g, k, gw, kw
  <2>2. g \in Int /\ k \in Int /\ gw \in Int /\ kw \in Int /\ gw <= g /\ k <= kw
    BY <1>2, <1>3, <1>4, <2>1
  <2>3. t.bytes = WordBytes => g = gw /\ k = kw
    BY <1>6, <2>1
  <2> QED
    BY <1>13, <2>1, <2>2, <2>3 DEF g, k, gw, kw
<1> QED
  BY <1>1, <1>12, <1>13

-----------------------------------------------------------------------------
(* What is claimed of the outcome of an arithmetic operator on two values of *)
(* a type, and that the two implementations satisfy it.                      *)

Delivers(t, outcome, x) == outcome.tag = "value" /\ outcome.type = t /\ ValueOf(outcome) = x

Refusal(t) == IF t = CompInteger THEN Panic ELSE Error("overflow")

ArithmeticClaim(kind, wraps, t, a, b, outcome) ==
  LET word == t \in {Word, CompInteger}
  IN  IF kind \in {"Div", "Mod"} /\ b = 0 THEN outcome = Error("zero")
      ELSE LET x == Exact(kind, a, b)
           IN  CASE kind = "Sub" /\ word /\ a = 0 /\ b = Least(t) -> TRUE
                 [] ((kind = "Div" /\ word) \/ (kind = "Mod" /\ t = Word)) /\ a = Least(t) /\ b = -1 -> TRUE
                 [] wraps /\ t # CompInteger ->
                      IF Fits(t, x) \/ t.bytes = WordBytes
                      THEN Delivers(t, outcome, Wrapped(t, x))
                      ELSE Delivers(t, outcome, Wrapped(t, x)) \/ outcome = Refusal(t)
                 [] OTHER -> IF Fits(t, x) THEN Delivers(t, outcome, x) ELSE outcome = Refusal(t)

\* Where nothing wraps, it is enough that the exact result is delivered or
\* refused, but for the corners.
LEMMA ClaimExact ==
  ASSUME NEW kind \in Kinds, NEW wraps \in BOOLEAN, NEW t, NEW a \in Int, NEW b \in Int, NEW outcome,
         ~wraps \/ t = CompInteger,
         ~ (kind \in {"Div", "Mod"} /\ b = 0),
         \/ kind = "Sub" /\ t \in {Word, CompInteger} /\ a = 0 /\ b = Least(t)
         \/ /\ (kind = "Div" /\ t \in {Word, CompInteger}) \/ (kind = "Mod" /\ t = Word)
            /\ a = Least(t) /\ b = -1
         \/ IF Fits(t, Exact(kind, a, b)) THEN Delivers(t, outcome, Exact(kind, a, b)) ELSE outcome = Refusal(t)
  PROVE  ArithmeticClaim(kind, wraps, t, a, b, outcome)
BY DEF ArithmeticClaim

LEMMA ValueIs ==
  ASSUME NEW t, NEW rep
  PROVE  /\ ValueOf(Value(t, rep)) = ValueOf([type |-> t, rep |-> rep])
         /\ Value(t, rep).tag = "value" /\ Value(t, rep).type = t
<1> DEFINE v == Value(t, rep)
           u == [type |-> t, rep |-> rep]
<1>1. v.type = t /\ v.rep = rep /\ v.tag = "value" /\ u.type = t /\ u.rep = rep
  BY DEF Value
<1> HIDE DEF v, u
<1>2. ValueOf(v) = ValueOf(u)
  BY <1>1 DEF ValueOf
<1> QED
  BY <1>1, <1>2 DEF v, u

LEMMA WordIs ==
  ASSUME NEW t \in Types
  PROVE  t = Word <=> t.signed /\ t.bytes = WordBytes
<1>1. t \in [bytes : 1 .. WordBytes, signed : BOOLEAN]
  BY TypeAssumption
<1> QED
  BY <1>1 DEF Word

\* A quotient or a remainder is in the word, but for the least word divided
\* by minus one.
LEMMA DivisionInWord ==
  ASSUME NEW t \in Types, NEW kind \in {"Div", "Mod"}, NEW a \in Int, NEW b \in Int, b # 0,
         Fits(t, a), Fits(t, b), ~ (t = Word /\ a = Least(t) /\ b = -1)
  PROVE  Exact(kind, a, b) \in WordRange(t.signed)
<1> DEFINE lo == Least(t)
           hi == Greatest(t)
           x == Exact(kind, a, b)
           q == Quotient(a, b)
           r == a - b * q
           low == LeastInWord(t.signed)
           high == GreatestInWord(t.signed)
<1>1. lo \in Int /\ hi \in Int /\ low \in Int /\ high \in Int /\ low <= lo /\ hi <= high
  BY TypeInWord
<1>2. a \in lo .. hi /\ b \in lo .. hi
  BY DEF Fits
<1>3. x = IF kind = "Div" THEN q ELSE r
  <2>1. kind \in Kinds
    BY DEF Kinds
  <2>2. (kind = "Div" => x = q) /\ (kind = "Mod" => x = r)
    BY <2>1, ExactInt
  <2> QED
    BY <2>2
<1>4. /\ q \in Int /\ r \in Int
      /\ a >= 0 => r \in 0 .. a
      /\ a < 0 => r \in a .. 0
      /\ a >= 0 /\ b >= 0 => q >= 0
      /\ Magnitude(q) <= Magnitude(a)
      /\ b \notin {-1, 1} => 2 * Magnitude(q) <= Magnitude(a)
      /\ b = 1 => q = a
      /\ b = -1 => q = -a
  BY QuotientFacts
<1>5. WordRange(t.signed) = low .. high
  BY DEF WordRange
<1>6. t.signed \in BOOLEAN /\ t.bytes \in 1 .. WordBytes /\ WordBytes \in Nat
  BY BitsBound, SizeAssumption
<1>7. CASE t.signed
  <2>1. hi = -lo - 1 /\ lo <= -1
    BY <1>7, TypeInWord
  <2>2. t = Word \/ low < lo
    <3>1. t.bytes = WordBytes \/ t.bytes < WordBytes
      BY <1>6
    <3>2. t.bytes < WordBytes => low < lo
      BY <1>7, TypeInWord
    <3> QED
      BY <1>7, <3>1, <3>2, WordIs
  <2>3. low = -high - 1
    BY <1>7, CompRange DEF LeastInWord, GreatestInWord
  <2>4. t = Word => ~ (a = lo /\ b = -1)
    OBVIOUS
  <2> HIDE DEF lo, hi, x, q, r, low, high
  <2>5. kind = "Mod" => x \in low .. high
    BY <1>1, <1>2, <1>3, <1>4, <2>1
  <2>6. b \notin {-1, 1} => q \in low .. high
    BY <1>1, <1>2, <1>4, <2>1, <2>3 DEF Magnitude
  <2>7. b = 1 => q \in low .. high
    BY <1>1, <1>2, <1>4
  <2>8. b = -1 => q \in low .. high
    BY <1>1, <1>2, <1>4, <2>1, <2>2, <2>3, <2>4
  <2>9. kind = "Div" => x \in low .. high
    BY <1>3, <2>6, <2>7, <2>8
  <2>10. x \in WordRange(t.signed)
    BY <1>5, <2>5, <2>9
  <2> QED
    BY <2>10 DEF x
<1>8. CASE ~t.signed
  <2>1. lo = 0 /\ low = 0
    BY <1>8, TypeInWord DEF LeastInWord
  <2> HIDE DEF lo, hi, x, q, r, low, high
  <2>2. a >= 0 /\ b >= 0 /\ a <= high
    BY <1>1, <1>2, <2>1
  <2>3. kind = "Mod" => x \in low .. high
    BY <1>1, <1>2, <1>3, <1>4, <2>1, <2>2
  <2>4. kind = "Div" => x \in low .. high
    BY <1>1, <1>2, <1>3, <1>4, <2>1, <2>2 DEF Magnitude
  <2>5. x \in WordRange(t.signed)
    BY <1>5, <2>3, <2>4
  <2> QED
    BY <2>5 DEF x
<1> QED
  BY <1>6, <1>7, <1>8

\* What fits a type fits the word.
LEMMA FitsWord ==
  ASSUME NEW t \in Types, NEW x \in Int
  PROVE  /\ Fits(t, x) => x \in WordRange(t.signed)
         /\ t.bytes = WordBytes /\ x \in WordRange(t.signed) => Fits(t, x)
<1>1. Least(t) \in Int /\ Greatest(t) \in Int /\ LeastInWord(t.signed) \in Int /\ GreatestInWord(t.signed) \in Int
      /\ LeastInWord(t.signed) <= Least(t) /\ Greatest(t) <= GreatestInWord(t.signed)
  BY TypeInWord
<1>2. t.bytes = WordBytes => Least(t) = LeastInWord(t.signed) /\ Greatest(t) = GreatestInWord(t.signed)
  BY TypeInWord
<1> QED
  BY <1>1, <1>2 DEF Fits, WordRange

LEMMA FixedClaim ==
  ASSUME NEW t \in Types, NEW kind \in Kinds, NEW wraps \in BOOLEAN, wraps => kind \in {"Add", "Sub", "Mul"},
         NEW l \in Reps(t), NEW r \in Reps(t)
  PROVE  ArithmeticClaim(kind, wraps, t, ValueOf([type |-> t, rep |-> l]), ValueOf([type |-> t, rep |-> r]),
                         FixedArithmetic(kind, wraps, t, l, r))
<1> DEFINE a == ValueOf([type |-> t, rep |-> l])
           b == ValueOf([type |-> t, rep |-> r])
           x == Exact(kind, a, b)
           w == InWord(t.signed, x)
           outcome == FixedArithmetic(kind, wraps, t, l, r)
           result == Value(t, x % TwoTo[Bits(t)])
           division == kind \in {"Div", "Mod"}
<1>1. t # CompInteger /\ Reps(t) = 0 .. TwoTo[Bits(t)] - 1 /\ t.signed \in BOOLEAN
  BY NotCompInteger, BitsBound DEF Reps
<1>2. a \in Int /\ b \in Int /\ Fits(t, a) /\ Fits(t, b)
  BY <1>1, FixedValue
<1>3. outcome = IF division /\ b = 0 THEN Error("zero")
                ELSE IF division /\ t = Word /\ a = Least(Word) /\ b = -1 THEN Undefined
                ELSE IF ~division /\ ~wraps /\ ~Checked(kind, t.signed, a, b) THEN Error("overflow")
                ELSE IF ~Fits(t, w) THEN Error("overflow")
                ELSE result
  BY DEF FixedArithmetic
<1>4. Refusal(t) = Error("overflow")
  BY <1>1 DEF Refusal
<1> SUFFICES ArithmeticClaim(kind, wraps, t, a, b, outcome)
  OBVIOUS
<1> HIDE DEF a, b, outcome
<1>5. CASE division /\ b = 0
  BY <1>3, <1>5 DEF ArithmeticClaim
<1>6. CASE t = Word /\ division /\ a = Least(t) /\ b = -1
  BY <1>6 DEF ArithmeticClaim
<1> SUFFICES ASSUME ~ (division /\ b = 0), ~ (t = Word /\ division /\ a = Least(t) /\ b = -1)
             PROVE  ArithmeticClaim(kind, wraps, t, a, b, outcome)
  BY <1>5, <1>6
<1>7. x \in Int
  BY <1>2, ExactInt
<1>8. outcome = IF ~division /\ ~wraps /\ ~Checked(kind, t.signed, a, b) THEN Error("overflow")
                ELSE IF ~Fits(t, w) THEN Error("overflow") ELSE result
  BY <1>3
<1>9. w \in WordRange(t.signed) /\ (w = x <=> x \in WordRange(t.signed))
  <2> HIDE DEF x
  <2> QED
    BY <1>1, <1>7, InWordFacts
<1>10. Fits(t, x) => x \in WordRange(t.signed)
  <2> HIDE DEF x
  <2> QED
    BY <1>7, FitsWord
<1>11. Delivers(t, result, Wrapped(t, x))
  BY ValueIs DEF Delivers, Wrapped
<1>12. Fits(t, x) => Delivers(t, result, x)
  <2>1. Fits(t, x) => ValueOf([type |-> t, rep |-> x % TwoTo[Bits(t)]]) = x
    <3> HIDE DEF x
    <3> QED
      BY <1>7, FixedBack
  <2> QED
    BY <2>1, ValueIs DEF Delivers
<1>13. CASE wraps
  <2>1. outcome = IF Fits(t, w) THEN result ELSE Refusal(t)
    BY <1>4, <1>8, <1>13
  <2>2. t.bytes = WordBytes => Fits(t, w)
    <3>1. w \in Int
      <4>1. LeastInWord(t.signed) \in Int /\ GreatestInWord(t.signed) \in Int
        BY TypeInWord
      <4> QED
        BY <1>9, <4>1 DEF WordRange
    <3> HIDE DEF w
    <3> QED
      BY <1>9, <3>1, FitsWord
  <2>3. Fits(t, x) => Fits(t, w)
    BY <1>9, <1>10
  <2>4. IF Fits(t, x) \/ t.bytes = WordBytes
        THEN Delivers(t, outcome, Wrapped(t, x))
        ELSE Delivers(t, outcome, Wrapped(t, x)) \/ outcome = Refusal(t)
    BY <1>11, <2>1, <2>2, <2>3
  <2> QED
    BY <1>1, <1>13, <2>4 DEF ArithmeticClaim
<1>14. CASE ~wraps
  <2>1. ASSUME division PROVE x \in WordRange(t.signed)
    BY <1>2, <2>1, DivisionInWord
  <2>2. ASSUME kind \in {"Add", "Mul"} PROVE Checked(kind, t.signed, a, b) <=> x \in WordRange(t.signed)
    BY <1>9, <2>2 DEF Checked
  <2>3. ASSUME kind = "Sub" PROVE
           \/ Checked(kind, t.signed, a, b) <=> x \in WordRange(t.signed)
           \/ t = Word /\ a = 0 /\ b = Least(t)
    <3>1. CASE ~t.signed
      BY <1>9, <2>3, <3>1 DEF Checked
    <3>2. CASE t.signed
      <4>1. a \in WordRange(TRUE) /\ b \in WordRange(TRUE)
        BY <1>2, <3>2, FitsWord
      <4>2. Checked(kind, t.signed, a, b) <=> SubChecked(a, b)
        BY <2>3, <3>2 DEF Checked
      <4>3. x = a - b
        BY <1>2, <2>3, ExactInt
      <4>4. SubChecked(a, b) <=> x \in WordRange(TRUE) \/ (a = 0 /\ b = LeastInWord(TRUE))
        BY <4>1, <4>3, SubCheckedFacts
      <4>5. b = LeastInWord(TRUE) => t = Word /\ b = Least(t)
        <5>1. t.bytes \in 1 .. WordBytes /\ WordBytes \in Nat
          BY BitsBound, SizeAssumption
        <5>2. t.bytes < WordBytes => LeastInWord(TRUE) < Least(t)
          BY <3>2, TypeInWord
        <5>3. b \in Least(t) .. Greatest(t) /\ Least(t) \in Int /\ Greatest(t) \in Int
          BY <1>2, TypeInWord DEF Fits
        <5>4. b = LeastInWord(TRUE) => t.bytes = WordBytes
          <6>1. b >= Least(t)
            BY <5>3
          <6>2. t.bytes = WordBytes \/ t.bytes < WordBytes
            BY <5>1
          <6> DEFINE lo == Least(t)
                     low == LeastInWord(TRUE)
          <6> HIDE DEF lo, low
          <6>3. b \in Int /\ lo \in Int /\ b >= lo
            BY <1>2, <5>3, <6>1 DEF lo
          <6>4. b = low => ~ (low < lo)
            BY <6>3
          <6> QED
            BY <5>2, <6>2, <6>4 DEF lo, low
        <5>5. t.bytes = WordBytes => Least(t) = LeastInWord(TRUE)
          BY <3>2, TypeInWord
        <5> QED
          BY <3>2, <5>4, <5>5, WordIs
      <4> QED
        BY <3>2, <4>2, <4>4, <4>5
    <3> QED
      BY <1>1, <3>1, <3>2
  <2>4. \/ kind = "Sub" /\ t \in {Word, CompInteger} /\ a = 0 /\ b = Least(t)
        \/ IF Fits(t, x) THEN Delivers(t, outcome, x) ELSE outcome = Refusal(t)
    <3>1. CASE division
      <4>1. w = x
        BY <1>9, <2>1, <3>1
      <4>2. outcome = IF ~Fits(t, x) THEN Error("overflow") ELSE result
        BY <1>8, <3>1, <4>1
      <4> QED
        BY <1>4, <1>12, <4>2
    <3>2. CASE ~division /\ (Checked(kind, t.signed, a, b) <=> x \in WordRange(t.signed))
      <4>1. outcome = IF ~ (x \in WordRange(t.signed)) THEN Error("overflow")
                      ELSE IF ~Fits(t, w) THEN Error("overflow") ELSE result
        BY <1>8, <1>14, <3>2
      <4> QED
        BY <1>4, <1>9, <1>10, <1>12, <4>1
    <3> QED
      BY <2>2, <2>3, <3>1, <3>2 DEF Kinds
  <2> HIDE DEF x, outcome
  <2>5. \/ kind = "Sub" /\ t \in {Word, CompInteger} /\ a = 0 /\ b = Least(t)
        \/ /\ (kind = "Div" /\ t \in {Word, CompInteger}) \/ (kind = "Mod" /\ t = Word)
           /\ a = Least(t) /\ b = -1
        \/ IF Fits(t, Exact(kind, a, b)) THEN Delivers(t, outcome, Exact(kind, a, b)) ELSE outcome = Refusal(t)
    BY <2>4 DEF x
  <2> QED
    BY <1>2, <1>14, <2>5, ClaimExact
<1> QED
  BY <1>13, <1>14

\* A compile-time integer has the values whose double a word has.
LEMMA CompFits ==
  ASSUME NEW x \in Int
  PROVE  /\ Fits(CompInteger, x) <=> 2 * x \in WordRange(TRUE)
         /\ 2 * x = LeastInWord(TRUE) <=> x = Least(CompInteger)
         /\ Fits(CompInteger, x) => Delivers(CompInteger, Value(CompInteger, (2 * x) % TwoTo[WordBits]), x)
<1> DEFINE q == TwoTo[WordBits - 2]
<1>1. q \in Nat \ {0} /\ TwoTo[WordBits - 1] = 2 * q
  BY CompRange
<1>2. Least(CompInteger) = -q /\ Greatest(CompInteger) = q - 1
  BY CompRange
<1>3. LeastInWord(TRUE) = -(2 * q) /\ GreatestInWord(TRUE) = 2 * q - 1
  BY <1>1 DEF LeastInWord, GreatestInWord
<1> HIDE DEF q
<1>4. Fits(CompInteger, x) <=> x \in -q .. q - 1
  BY <1>2 DEF Fits
<1>5. 2 * x \in WordRange(TRUE) <=> 2 * x \in -(2 * q) .. 2 * q - 1
  BY <1>3 DEF WordRange
<1>6. x \in -q .. q - 1 <=> 2 * x \in -(2 * q) .. 2 * q - 1
  BY <1>1
<1>7. 2 * x = LeastInWord(TRUE) <=> x = Least(CompInteger)
  <2>1. 2 * x = -(2 * q) <=> x = -q
    BY <1>1
  <2> QED
    BY <1>2, <1>3, <2>1
<1>8. Fits(CompInteger, x) => Delivers(CompInteger, Value(CompInteger, (2 * x) % TwoTo[WordBits]), x)
  <2> SUFFICES ASSUME Fits(CompInteger, x)
               PROVE  Delivers(CompInteger, Value(CompInteger, (2 * x) % TwoTo[WordBits]), x)
    OBVIOUS
  <2> DEFINE rep == (2 * x) % TwoTo[WordBits]
  <2>1. CompValue(rep) = x
    BY CompBack
  <2> HIDE DEF rep
  <2>2. ValueOf([type |-> CompInteger, rep |-> rep]) = x
    BY <2>1 DEF ValueOf
  <2>3. Delivers(CompInteger, Value(CompInteger, rep), x)
    BY <2>2, ValueIs DEF Delivers
  <2> QED
    BY <2>3 DEF rep
<1> QED
  BY <1>4, <1>5, <1>6, <1>7, <1>8

\* A quotient or a remainder of compile-time integers is one, but for the
\* least divided by minus one.
LEMMA DivisionInComp ==
  ASSUME NEW kind \in {"Div", "Mod"}, NEW a \in Int, NEW b \in Int, b # 0,
         Fits(CompInteger, a), Fits(CompInteger, b), ~ (kind = "Div" /\ a = Least(CompInteger) /\ b = -1)
  PROVE  Fits(CompInteger, Exact(kind, a, b))
<1> DEFINE h == TwoTo[WordBits - 2]
           x == Exact(kind, a, b)
           q == Quotient(a, b)
           r == a - b * q
<1>1. h \in Nat \ {0} /\ Least(CompInteger) = -h /\ Greatest(CompInteger) = h - 1
  BY CompRange
<1>2. a \in -h .. h - 1 /\ b \in -h .. h - 1
  BY <1>1 DEF Fits
<1>3. (kind = "Div" => x = q) /\ (kind = "Mod" => x = r)
  <2>1. kind \in Kinds
    BY DEF Kinds
  <2> QED
    BY <2>1, ExactInt
<1>4. /\ q \in Int /\ r \in Int
      /\ a >= 0 => r \in 0 .. a
      /\ a < 0 => r \in a .. 0
      /\ Magnitude(q) <= Magnitude(a)
      /\ b \notin {-1, 1} => 2 * Magnitude(q) <= Magnitude(a)
      /\ b = 1 => q = a
      /\ b = -1 => q = -a
  BY QuotientFacts
<1>5. kind = "Div" => ~ (a = -h /\ b = -1)
  BY <1>1
<1> HIDE DEF h, x, q, r
<1>6. kind = "Mod" => x \in -h .. h - 1
  BY <1>1, <1>2, <1>3, <1>4
<1>7. b \notin {-1, 1} => q \in -h .. h - 1
  BY <1>1, <1>2, <1>4 DEF Magnitude
<1>8. b = 1 => q \in -h .. h - 1
  BY <1>2, <1>4
<1>9. kind = "Div" /\ b = -1 => q \in -h .. h - 1
  BY <1>1, <1>2, <1>4, <1>5
<1>10. x \in -h .. h - 1
  BY <1>3, <1>6, <1>7, <1>8, <1>9
<1> QED
  BY <1>1, <1>10 DEF Fits, x

LEMMA CompClaim ==
  ASSUME NEW kind \in Kinds, NEW wraps \in BOOLEAN,
         NEW l \in Reps(CompInteger), NEW r \in Reps(CompInteger)
  PROVE  ArithmeticClaim(kind, wraps, CompInteger, CompValue(l), CompValue(r), CompArithmetic(kind, l, r))
<1> DEFINE a == CompValue(l)
           b == CompValue(r)
           x == Exact(kind, a, b)
           outcome == CompArithmetic(kind, l, r)
           aa == AsSigned(l, WordBits)
           bb == AsSigned(r, WordBits)
<1>1. a \in Int /\ b \in Int /\ Fits(CompInteger, a) /\ Fits(CompInteger, b) /\ aa = 2 * a /\ bb = 2 * b
  BY CompIs
<1>2. r = 0 <=> b = 0
  <2>1. r = (IF b < 0 THEN 2 * b + TwoTo[WordBits] ELSE 2 * b)
    BY CompIs
  <2>2. b < 0 => r # 0
    <3>1. b \in -TwoTo[WordBits - 2] .. TwoTo[WordBits - 2] - 1
      BY <1>1, CompRange DEF Fits
    <3> DEFINE q == TwoTo[WordBits - 2]
               m == TwoTo[WordBits]
    <3>2. q \in Nat \ {0} /\ m = 4 * q
      BY CompRange
    <3>3. b < 0 => r = 2 * b + m
      BY <2>1
    <3>4. b \in -q .. q - 1
      BY <3>1
    <3> HIDE DEF q, m, b
    <3> QED
      BY <1>1, <3>2, <3>3, <3>4
  <2> HIDE DEF b
  <2> QED
    BY <1>1, <2>1, <2>2
<1>3. Refusal(CompInteger) = Panic
  BY DEF Refusal
<1>4. kind \in {"Add", "Sub"} =>
        outcome = IF Checked(kind, TRUE, aa, bb) THEN Value(CompInteger, Exact(kind, aa, bb) % TwoTo[WordBits]) ELSE Panic
  BY DEF CompArithmetic
<1>5. kind = "Mul" =>
        outcome = IF Checked(kind, TRUE, aa, b) THEN Value(CompInteger, Exact(kind, aa, b) % TwoTo[WordBits]) ELSE Panic
  BY DEF CompArithmetic
<1>6. kind \in {"Div", "Mod"} => outcome = IF r = 0 THEN Error("zero") ELSE Value(CompInteger, CompRep(x))
  BY DEF CompArithmetic
<1> SUFFICES ArithmeticClaim(kind, wraps, CompInteger, a, b, outcome)
  OBVIOUS
<1> HIDE DEF a, b, outcome, aa, bb
<1>7. CASE kind \in {"Div", "Mod"} /\ b = 0
  BY <1>2, <1>6, <1>7 DEF ArithmeticClaim
<1> SUFFICES ASSUME ~ (kind \in {"Div", "Mod"} /\ b = 0)
             PROVE  ArithmeticClaim(kind, wraps, CompInteger, a, b, outcome)
  BY <1>7
<1>8. x \in Int
  BY <1>1, ExactInt
<1> DEFINE y == 2 * x
<1>9. y \in Int /\ (Fits(CompInteger, x) <=> y \in WordRange(TRUE))
      /\ (Fits(CompInteger, x) => Delivers(CompInteger, Value(CompInteger, y % TwoTo[WordBits]), x))
  <2> HIDE DEF x
  <2>1. y \in Int
    BY <1>8
  <2>2. Fits(CompInteger, x) <=> 2 * x \in WordRange(TRUE)
    BY <1>8, CompFits
  <2>3. Fits(CompInteger, x) => Delivers(CompInteger, Value(CompInteger, (2 * x) % TwoTo[WordBits]), x)
    BY <1>8, CompFits
  <2> QED
    BY <2>1, <2>2, <2>3
<1>10. InWord(TRUE, y) = y <=> y \in WordRange(TRUE)
  <2> HIDE DEF y
  <2> QED
    BY <1>9, InWordFacts
<1> DEFINE Settled == IF Fits(CompInteger, x) THEN Delivers(CompInteger, outcome, x) ELSE outcome = Refusal(CompInteger)
<1>11. ASSUME kind = "Add" PROVE Settled
  <2>1. x = a + b /\ Exact(kind, aa, bb) = aa + bb
    BY <1>1, <1>11, ExactInt
  <2>2. Exact(kind, aa, bb) = y
    BY <1>1, <2>1
  <2>3. Checked(kind, TRUE, aa, bb) <=> y = InWord(TRUE, y)
    BY <1>11, <2>2 DEF Checked
  <2> HIDE DEF x, y
  <2> QED
    BY <1>3, <1>4, <1>9, <1>10, <1>11, <2>2, <2>3
<1>12. ASSUME kind = "Sub" PROVE Settled \/ (a = 0 /\ b = Least(CompInteger))
  <2>1. x = a - b /\ Exact(kind, aa, bb) = aa - bb
    BY <1>1, <1>12, ExactInt
  <2>2. Exact(kind, aa, bb) = y /\ aa - bb = y
    BY <1>1, <2>1
  <2>3. Checked(kind, TRUE, aa, bb) <=> SubChecked(aa, bb)
    BY <1>12 DEF Checked
  <2>4. aa \in WordRange(TRUE) /\ bb \in WordRange(TRUE)
    BY <1>1, CompFits
  <2>5. SubChecked(aa, bb) <=> y \in WordRange(TRUE) \/ (aa = 0 /\ bb = LeastInWord(TRUE))
    <3> HIDE DEF y
    <3> QED
      BY <2>2, <2>4, SubCheckedFacts
  <2>6. aa = 0 => a = 0
    BY <1>1
  <2>7. bb = LeastInWord(TRUE) => b = Least(CompInteger)
    <3>1. 2 * b = LeastInWord(TRUE) <=> b = Least(CompInteger)
      BY <1>1, CompFits
    <3> QED
      BY <1>1, <3>1
  <2> HIDE DEF x, y
  <2> QED
    BY <1>3, <1>4, <1>9, <1>12, <2>2, <2>3, <2>5, <2>6, <2>7
<1>13. ASSUME kind = "Mul" PROVE Settled
  <2>1. x = a * b /\ Exact(kind, aa, b) = aa * b
    BY <1>1, <1>13, ExactInt
  <2>2. Exact(kind, aa, b) = y
    <3>1. (2 * a) * b = 2 * (a * b)
      BY <1>1
    <3> QED
      BY <1>1, <2>1, <3>1
  <2>3. Checked(kind, TRUE, aa, b) <=> y = InWord(TRUE, y)
    BY <1>13, <2>2 DEF Checked
  <2> HIDE DEF x, y
  <2> QED
    BY <1>3, <1>5, <1>9, <1>10, <1>13, <2>2, <2>3
<1>14. ASSUME kind \in {"Div", "Mod"} PROVE Settled \/ (kind = "Div" /\ a = Least(CompInteger) /\ b = -1)
  <2>1. outcome = Value(CompInteger, y % TwoTo[WordBits])
    BY <1>2, <1>6, <1>14 DEF CompRep
  <2>2. Fits(CompInteger, x) \/ (kind = "Div" /\ a = Least(CompInteger) /\ b = -1)
    BY <1>1, <1>14, DivisionInComp
  <2> HIDE DEF x, y
  <2> QED
    BY <1>9, <2>1, <2>2
<1>15. \/ kind = "Sub" /\ CompInteger \in {Word, CompInteger} /\ a = 0 /\ b = Least(CompInteger)
       \/ /\ (kind = "Div" /\ CompInteger \in {Word, CompInteger}) \/ (kind = "Mod" /\ CompInteger = Word)
          /\ a = Least(CompInteger) /\ b = -1
       \/ Settled
  <2> HIDE DEF Settled
  <2> QED
    BY <1>11, <1>12, <1>13, <1>14 DEF Kinds
<1> QED
  BY <1>1, <1>15, ClaimExact

-----------------------------------------------------------------------------
(* The operands. *)

IsValue(v) ==
  /\ v.type \in Types \cup {CompInteger}
  /\ v.rep \in Reps(v.type)
  /\ v = [type |-> v.type, rep |-> v.rep]

LEMMA OperandIs ==
  ASSUME NEW v \in Operands
  PROVE  IsValue(v)
<1>1. PICK t \in Types \cup {CompInteger} : v \in [type : {t}, rep : Reps(t)]
  BY OperandAssumption
<1> QED
  BY <1>1 DEF IsValue

\* A value fits its own type.
LEMMA ValueFits ==
  ASSUME NEW v, IsValue(v)
  PROVE  /\ ValueOf(v) \in Int /\ Fits(v.type, ValueOf(v))
         /\ v.type = CompInteger => ValueOf(v) = CompValue(v.rep) /\ v.rep \in Reps(CompInteger)
         /\ v.type # CompInteger => v.type \in Types /\ v.rep \in 0 .. TwoTo[Bits(v.type)] - 1
<1>1. CASE v.type = CompInteger
  <2>1. v.rep \in Reps(CompInteger) /\ ValueOf(v) = CompValue(v.rep)
    BY <1>1 DEF IsValue, ValueOf
  <2> QED
    BY <1>1, <2>1, CompIs
<1>2. CASE v.type # CompInteger
  <2> DEFINE t == v.type
             rep == v.rep
  <2>1. t \in Types /\ rep \in 0 .. TwoTo[Bits(t)] - 1 /\ v = [type |-> t, rep |-> rep]
    BY <1>2 DEF IsValue, Reps
  <2> HIDE DEF t, rep
  <2>2. ValueOf(v) \in Int /\ Fits(t, ValueOf(v))
    BY <2>1, FixedValue
  <2> QED
    BY <1>2, <2>1, <2>2 DEF t, rep
<1> QED
  BY <1>1, <1>2

Brought(v, t, rep) ==
  rep \in Reps(t) /\ Converted(v, t) = Value(t, rep) /\ ValueOf([type |-> t, rep |-> rep]) = ValueOf(v)

\* A value converts to a type that has it, and to itself.
LEMMA ConvertedIs ==
  ASSUME NEW v, IsValue(v), NEW t \in Types \cup {CompInteger}, v.type \in {t, CompInteger}, Fits(t, ValueOf(v))
  PROVE  \E rep : Brought(v, t, rep)
<1>1. CASE v.type = t
  BY <1>1 DEF IsValue, Converted, Brought
<1>2. CASE v.type # t
  <2> DEFINE x == ValueOf(v)
             m == TwoTo[Bits(t)]
             rep == x % m
             used == IF x < 0 THEN -x - 1 ELSE x
  <2>1. v.type = CompInteger /\ t \in Types
    BY <1>2
  <2>2. x \in Int /\ x = CompValue(v.rep)
    BY <2>1, ValueFits
  <2>3. Bits(t) \in 1 .. WordBits /\ t.signed \in BOOLEAN
    BY <2>1, FixedRange, BitsBound
  <2>4. m \in Nat \ {0} /\ TwoTo[Bits(t) - 1] \in Nat \ {0} /\ m = 2 * TwoTo[Bits(t) - 1]
    <3> DEFINE b == Bits(t)
    <3> HIDE DEF b
    <3> QED
      BY <2>3, Halves DEF b
  <2>5. rep \in 0 .. m - 1
    <3> HIDE DEF x, m
    <3> QED
      BY <2>2, <2>4, ModInt
  <2>6. x \in Least(t) .. Greatest(t)
    BY DEF Fits
  <2>7. ~ (~t.signed /\ x < 0) /\ ~ (m <= used)
    <3> DEFINE h == TwoTo[Bits(t) - 1]
    <3>1. t.signed => x \in -h .. h - 1
      BY <2>1, <2>6, FixedRange
    <3>2. ~t.signed => x \in 0 .. m - 1
      BY <2>1, <2>6, FixedRange
    <3>3. h \in Nat \ {0} /\ m = 2 * h
      BY <2>4
    <3> HIDE DEF h, m, x
    <3> QED
      BY <2>2, <2>3, <3>1, <3>2, <3>3
  <2>8. BitsFromComp(v.rep, t) = Value(t, rep)
    BY <2>2, <2>7 DEF BitsFromComp
  <2>9. Converted(v, t) = Value(t, rep)
    BY <1>2, <2>1, <2>8 DEF Converted
  <2>10. ValueOf([type |-> t, rep |-> rep]) = x
    BY <2>1, <2>2, FixedBack
  <2>11. rep \in Reps(t)
    BY <2>1, <2>5, NotCompInteger DEF Reps
  <2> QED
    BY <2>9, <2>10, <2>11 DEF Brought
<1> QED
  BY <1>1, <1>2

\* Two operands that have a value of their common type are brought to it.
LEMMA UnifiedOperands ==
  ASSUME NEW l \in Operands, NEW r \in Operands, NEW t, t = Unify(l, r),
         l.type \in {t, CompInteger}, r.type \in {t, CompInteger}, Fits(t, ValueOf(l)), Fits(t, ValueOf(r))
  PROVE  t \in Types \cup {CompInteger} /\ \E a, b : Brought(l, t, a) /\ Brought(r, t, b)
<1>1. IsValue(l) /\ IsValue(r)
  BY OperandIs
<1>2. t \in Types \cup {CompInteger}
  BY <1>1 DEF IsValue, Unify
<1>3. PICK a : Brought(l, t, a)
  BY <1>1, <1>2, ConvertedIs
<1>4. PICK b : Brought(r, t, b)
  BY <1>1, <1>2, ConvertedIs
<1> QED
  BY <1>2, <1>3, <1>4

ArithmeticOf(kind, wraps, lhs, rhs) ==
  LET Result(t, l, r) == Arithmetic(kind, wraps, t, l, r) IN WithUnified(lhs, rhs, Result)

ComparisonOf(lhs, rhs) ==
  LET Result(t, l, r) == [tag |-> "order", order |-> Compare(t, l, r)] IN WithUnified(lhs, rhs, Result)

LEMMA ArithmeticOfClaim ==
  ASSUME NEW l \in Operands, NEW r \in Operands, NEW t, t = Unify(l, r),
         l.type \in {t, CompInteger}, r.type \in {t, CompInteger}, Fits(t, ValueOf(l)), Fits(t, ValueOf(r)),
         NEW kind \in Kinds, NEW wraps \in BOOLEAN, wraps => kind \in {"Add", "Sub", "Mul"}
  PROVE  ArithmeticClaim(kind, wraps, t, ValueOf(l), ValueOf(r), ArithmeticOf(kind, wraps, l, r))
<1>1. t \in Types \cup {CompInteger} /\ \E a, b : Brought(l, t, a) /\ Brought(r, t, b)
  BY UnifiedOperands
<1>2. PICK a, b : Brought(l, t, a) /\ Brought(r, t, b)
  BY <1>1
<1>3. ArithmeticOf(kind, wraps, l, r) = Arithmetic(kind, wraps, t, a, b)
  <2>1. /\ Value(t, a).tag = "value" /\ Value(t, a).rep = a
        /\ Value(t, b).tag = "value" /\ Value(t, b).rep = b
    BY DEF Value
  <2> DEFINE cl == Converted(l, t)
             cr == Converted(r, t)
  <2>2. cl.tag = "value" /\ cl.rep = a /\ cr.tag = "value" /\ cr.rep = b
    BY <1>2, <2>1 DEF Brought
  <2>3. ArithmeticOf(kind, wraps, l, r) =
          IF cl.tag = "error" THEN cl ELSE IF cr.tag = "error" THEN cr ELSE Arithmetic(kind, wraps, t, cl.rep, cr.rep)
    BY DEF ArithmeticOf, WithUnified
  <2> HIDE DEF cl, cr
  <2> QED
    BY <2>2, <2>3
<1>4. CASE t = CompInteger
  <2>1. Arithmetic(kind, wraps, t, a, b) = CompArithmetic(kind, a, b)
    BY <1>4 DEF Arithmetic
  <2>2. ArithmeticClaim(kind, wraps, t, CompValue(a), CompValue(b), CompArithmetic(kind, a, b))
    BY <1>2, <1>4, CompClaim DEF Brought
  <2>3. CompValue(a) = ValueOf(l) /\ CompValue(b) = ValueOf(r)
    BY <1>2, <1>4 DEF ValueOf, Brought
  <2> QED
    BY <1>3, <2>1, <2>2, <2>3
<1>5. CASE t # CompInteger
  <2>1. Arithmetic(kind, wraps, t, a, b) = FixedArithmetic(kind, wraps, t, a, b)
    BY <1>5 DEF Arithmetic
  <2>2. t \in Types
    BY <1>1, <1>5
  <2>3. ArithmeticClaim(kind, wraps, t, ValueOf([type |-> t, rep |-> a]), ValueOf([type |-> t, rep |-> b]),
                        FixedArithmetic(kind, wraps, t, a, b))
    BY <1>2, <2>2, FixedClaim DEF Brought
  <2> QED
    BY <1>2, <1>3, <2>1, <2>3 DEF Brought
<1> QED
  BY <1>4, <1>5

-----------------------------------------------------------------------------
(* Negation and inversion. *)

\* The negation of a value is delivered where the type has it; a compile-time
\* integer stops the compiler where it has not.
LEMMA NegatedIs ==
  ASSUME NEW v, IsValue(v), v.type.signed
  PROVE  IF Fits(v.type, -ValueOf(v)) THEN Delivers(v.type, Negated(v), -ValueOf(v))
         ELSE v.type = CompInteger => Negated(v) = Panic
<1> DEFINE x == ValueOf(v)
<1>1. x \in Int /\ Fits(v.type, x)
  BY ValueFits
<1>2. CASE v.type = CompInteger
  <2> DEFINE q == TwoTo[WordBits - 2]
  <2>1. q \in Nat \ {0} /\ Least(CompInteger) = -q /\ Greatest(CompInteger) = q - 1
    BY CompRange
  <2>2. x \in -q .. q - 1 /\ (Fits(CompInteger, -x) <=> -x \in -q .. q - 1)
    BY <1>1, <1>2, <2>1 DEF Fits
  <2>3. Negated(v) = IF x = Least(CompInteger) THEN Panic ELSE Value(CompInteger, (2 * (-x)) % TwoTo[WordBits])
    BY <1>2 DEF Negated, CompRep
  <2> DEFINE y == -x
  <2>4. y \in Int
    BY <1>1
  <2>5. Fits(CompInteger, y) => Delivers(CompInteger, Value(CompInteger, (2 * y) % TwoTo[WordBits]), y)
    <3> HIDE DEF y
    <3> QED
      BY <2>4, CompFits
  <2>6. x = Least(CompInteger) <=> ~Fits(CompInteger, -x)
    <3> HIDE DEF q, x
    <3>1. x = -q <=> ~ (-x \in -q .. q - 1)
      BY <1>1, <2>1, <2>2
    <3> QED
      BY <2>1, <2>2, <3>1
  <2> QED
    BY <1>2, <2>3, <2>5, <2>6
<1>3. CASE v.type # CompInteger
  <2> DEFINE t == v.type
             m == TwoTo[Bits(t)]
             rep == v.rep
  <2>1. t \in Types /\ rep \in 0 .. m - 1 /\ v = [type |-> t, rep |-> rep]
    BY <1>3, ValueFits DEF IsValue
  <2>2. rep = IF x < 0 THEN x + m ELSE x
    <3> HIDE DEF t, rep
    <3> QED
      BY <2>1, FixedValue
  <2>3. m \in Nat \ {0}
    <3>1. Bits(t) \in 1 .. WordBits
      BY <2>1, FixedRange
    <3> DEFINE b == Bits(t)
    <3> HIDE DEF b
    <3> QED
      BY <3>1, Halves DEF b
  <2>4. (-rep) % m = (-x) % m
    <3> HIDE DEF rep, m, x
    <3>1. CASE x < 0
      <4> DEFINE u == -rep
      <4> PICK k \in Int : k = 1
        OBVIOUS
      <4>1. -x = u + m * k /\ u \in Int
        BY <1>1, <2>2, <2>3, <3>1
      <4> HIDE DEF u
      <4>2. (u + m * k) % m = u % m
        BY <2>3, <4>1, ModShift
      <4> QED
        BY <4>1, <4>2 DEF u
    <3>2. CASE ~ (x < 0)
      BY <2>2, <3>2
    <3> QED
      BY <3>1, <3>2
  <2>5. Negated(v) = Value(t, (-x) % m)
    <3>1. Negated(v) = Value(t, (-rep) % m)
      BY <1>3 DEF Negated
    <3> QED
      BY <2>4, <3>1
  <2> DEFINE y == -x
  <2>6. ASSUME Fits(t, y) PROVE Delivers(t, Value(t, y % m), y)
    <3>1. y \in Int
      BY <1>1
    <3>2. ValueOf([type |-> t, rep |-> y % m]) = y
      <4> HIDE DEF y, t
      <4> QED
        BY <2>1, <2>6, <3>1, FixedBack
    <3> QED
      BY <3>2, ValueIs DEF Delivers
  <2> QED
    BY <1>3, <2>5, <2>6
<1> QED
  BY <1>2, <1>3

\* The inversion of one or two bytes or of a compile-time integer is that of
\* all bits.
LEMMA InvertedIs ==
  ASSUME NEW v, IsValue(v), v.type.bytes <= 2
  PROVE  Delivers(v.type, Inverted(v), IF v.type.signed THEN -ValueOf(v) - 1 ELSE Greatest(v.type) - ValueOf(v))
<1> DEFINE x == ValueOf(v)
<1>1. x \in Int /\ Fits(v.type, x)
  BY ValueFits
<1>2. CASE v.type = CompInteger
  <2> DEFINE q == TwoTo[WordBits - 2]
             y == -x - 1
  <2>1. q \in Nat \ {0} /\ Least(CompInteger) = -q /\ Greatest(CompInteger) = q - 1
    BY CompRange
  <2>2. x \in -q .. q - 1
    BY <1>1, <1>2, <2>1 DEF Fits
  <2>3. y \in Int /\ y \in -q .. q - 1
    <3> HIDE DEF q, x
    <3> QED
      BY <1>1, <2>1, <2>2
  <2>4. Inverted(v) = Value(CompInteger, (2 * y) % TwoTo[WordBits])
    BY <1>2 DEF Inverted, CompRep, ValueOf
  <2>5. Delivers(CompInteger, Value(CompInteger, (2 * y) % TwoTo[WordBits]), y)
    <3> HIDE DEF y
    <3> QED
      BY <2>1, <2>3, CompFits DEF Fits
  <2>6. v.type.signed
    BY <1>2 DEF CompInteger
  <2> QED
    BY <1>2, <2>4, <2>5, <2>6
<1>3. CASE v.type # CompInteger
  <2> DEFINE t == v.type
             m == TwoTo[Bits(t)]
             h == TwoTo[Bits(t) - 1]
             rep == v.rep
             y == IF t.signed THEN -x - 1 ELSE m - 1 - x
             inverse == m - 1 - rep
  <2>1. t \in Types /\ rep \in 0 .. m - 1 /\ v = [type |-> t, rep |-> rep]
    BY <1>3, ValueFits DEF IsValue
  <2>2. rep = IF x < 0 THEN x + m ELSE x
    <3> HIDE DEF t, rep
    <3> QED
      BY <2>1, FixedValue
  <2>3. m \in Nat \ {0} /\ h \in Nat \ {0} /\ m = 2 * h
    <3>1. Bits(t) \in 1 .. WordBits
      BY <2>1, FixedRange
    <3> DEFINE b == Bits(t)
    <3> HIDE DEF b
    <3> QED
      BY <3>1, Halves DEF b
  <2>4. t.bytes \in {1, 2} /\ t.signed \in BOOLEAN
    <3>1. t.bytes \in 1 .. WordBytes /\ t.signed \in BOOLEAN /\ t.bytes <= 2 /\ WordBytes \in Nat
      BY <2>1, BitsBound, SizeAssumption
    <3> QED
      BY <3>1
  <2>5. Inverted(v) = Value(t, inverse)
    BY <1>3, <2>4 DEF Inverted
  <2>6. /\ t.signed => Least(t) = -h /\ Greatest(t) = h - 1
        /\ ~t.signed => Least(t) = 0 /\ Greatest(t) = m - 1
    BY <2>1, FixedRange
  <2>7. x \in Least(t) .. Greatest(t)
    BY <1>1 DEF Fits
  <2>8. y \in Int /\ Fits(t, y) /\ inverse \in 0 .. m - 1 /\ (t.signed => inverse = (IF y < 0 THEN y + m ELSE y)) /\ (~t.signed => inverse = y)
    <3> HIDE DEF m, h, rep, x, t
    <3>1. CASE t.signed
      <4>1. y = -x - 1 /\ x \in -h .. h - 1
        BY <2>6, <2>7, <3>1
      <4>2. y \in Int /\ y \in -h .. h - 1 /\ inverse \in 0 .. m - 1 /\ inverse = (IF y < 0 THEN y + m ELSE y)
        <5> HIDE DEF y
        <5> QED
          BY <1>1, <2>1, <2>2, <2>3, <4>1
      <4> QED
        BY <2>6, <3>1, <4>2 DEF Fits
    <3>2. CASE ~t.signed
      <4>1. y = m - 1 - x /\ x \in 0 .. m - 1
        BY <2>6, <2>7, <3>2
      <4>2. y \in Int /\ y \in 0 .. m - 1 /\ inverse \in 0 .. m - 1 /\ inverse = y
        <5> HIDE DEF y
        <5> QED
          BY <1>1, <2>1, <2>2, <2>3, <4>1
      <4> QED
        BY <2>6, <3>2, <4>2 DEF Fits
    <3> QED
      BY <2>4, <3>1, <3>2
  <2>9. inverse = y % m
    <3>1. y \in -m .. 2 * m - 1 /\ (y < 0 => inverse = y + m) /\ (y >= 0 => inverse = y) /\ (y >= 0 => y < m)
      <4> DEFINE i == inverse
      <4> HIDE DEF y, m, i
      <4>1. i \in 0 .. m - 1 /\ (i = y \/ (y < 0 /\ i = y + m))
        BY <2>4, <2>8 DEF i
      <4>2. y \in -m .. 2 * m - 1 /\ (y < 0 => i = y + m) /\ (y >= 0 => i = y) /\ (y >= 0 => y < m)
        BY <2>3, <2>8, <4>1
      <4> QED
        BY <4>2 DEF i
    <3> DEFINE i == inverse
    <3> HIDE DEF y, m, i
    <3> QED
      BY <2>3, <2>8, <3>1, ModNear DEF i
  <2>10. ValueOf([type |-> t, rep |-> inverse]) = y
    <3>1. ValueOf([type |-> t, rep |-> y % m]) = y
      <4> HIDE DEF y, t
      <4> QED
        BY <2>1, <2>8, FixedBack
    <3> QED
      BY <2>9, <3>1
  <2>11. Delivers(t, Inverted(v), y)
    BY <2>5, <2>10, ValueIs DEF Delivers
  <2>12. y = IF t.signed THEN -x - 1 ELSE Greatest(t) - x
    BY <2>4, <2>6
  <2> QED
    BY <2>11, <2>12
<1> QED
  BY <1>2, <1>3

-----------------------------------------------------------------------------
(* Comparison and conversion. *)

\* Representations are in the order of their values, but for those of two
\* fixed integers below zero and those of compile-time integers of different
\* sign.
LEMMA CompareIs ==
  ASSUME NEW t \in Types \cup {CompInteger}, NEW l \in Reps(t), NEW r \in Reps(t), NEW a, NEW b,
         a = ValueOf([type |-> t, rep |-> l]), b = ValueOf([type |-> t, rep |-> r])
  PROVE  \/ Compare(t, l, r) = Order(a, b)
         \/ t # CompInteger /\ a < 0 /\ b < 0
         \/ t = CompInteger /\ (a < 0) # (b < 0)
<1>1. CASE t = CompInteger
  <2> DEFINE m == TwoTo[WordBits]
  <2>1. a = CompValue(l) /\ b = CompValue(r)
    BY <1>1 DEF ValueOf
  <2>2. a \in Int /\ b \in Int /\ m \in Nat
    BY <1>1, <2>1, CompIs, TwoToFacts, WordBitsBound
  <2>3. l = (IF a < 0 THEN 2 * a + m ELSE 2 * a) /\ r = (IF b < 0 THEN 2 * b + m ELSE 2 * b)
    BY <1>1, <2>1, CompIs
  <2>4. Compare(t, l, r) = Order(l, r)
    BY <1>1 DEF Compare
  <2> HIDE DEF m
  <2>5. (a < 0) = (b < 0) => Order(l, r) = Order(a, b)
    BY <2>2, <2>3 DEF Order
  <2> QED
    BY <1>1, <2>4, <2>5
<1>2. CASE t # CompInteger
  <2> DEFINE m == TwoTo[Bits(t)]
             nl == t.signed /\ AsSigned(l, Bits(t)) < 0
             nr == t.signed /\ AsSigned(r, Bits(t)) < 0
  <2>1. t \in Types /\ l \in 0 .. m - 1 /\ r \in 0 .. m - 1
    BY <1>2 DEF Reps
  <2>2. a \in Int /\ l = (IF a < 0 THEN a + m ELSE a) /\ (a < 0 <=> nl)
    BY <2>1, FixedValue
  <2>3. b \in Int /\ r = (IF b < 0 THEN b + m ELSE b) /\ (b < 0 <=> nr)
    BY <2>1, FixedValue
  <2>4. Compare(t, l, r) = IF nl /\ nr THEN Reversed(Order(l, r)) ELSE IF nl THEN "less" ELSE IF nr THEN "greater" ELSE Order(l, r)
    BY <1>2 DEF Compare
  <2> HIDE DEF m, nl, nr
  <2>5. CASE nl /\ nr
    BY <1>2, <2>2, <2>3, <2>5
  <2>6. CASE nl /\ ~nr
    BY <2>2, <2>3, <2>4, <2>6 DEF Order
  <2>7. CASE ~nl /\ nr
    BY <2>2, <2>3, <2>4, <2>7 DEF Order
  <2>8. CASE ~nl /\ ~nr
    BY <2>2, <2>3, <2>4, <2>8 DEF Order
  <2> QED
    BY <2>5, <2>6, <2>7, <2>8
<1> QED
  BY <1>1, <1>2

LEMMA ComparisonOfExact ==
  ASSUME NEW l \in Operands, NEW r \in Operands, NEW t, t = Unify(l, r),
         l.type \in {t, CompInteger}, r.type \in {t, CompInteger}, Fits(t, ValueOf(l)), Fits(t, ValueOf(r))
  PROVE  \/ ComparisonOf(l, r) = [tag |-> "order", order |-> Order(ValueOf(l), ValueOf(r))]
         \/ t # CompInteger /\ ValueOf(l) < 0 /\ ValueOf(r) < 0
         \/ t = CompInteger /\ (ValueOf(l) < 0) # (ValueOf(r) < 0)
<1>1. t \in Types \cup {CompInteger} /\ \E a, b : Brought(l, t, a) /\ Brought(r, t, b)
  BY UnifiedOperands
<1>2. PICK a, b : Brought(l, t, a) /\ Brought(r, t, b)
  BY <1>1
<1>3. ComparisonOf(l, r) = [tag |-> "order", order |-> Compare(t, a, b)]
  <2>1. /\ Value(t, a).tag = "value" /\ Value(t, a).rep = a
        /\ Value(t, b).tag = "value" /\ Value(t, b).rep = b
    BY DEF Value
  <2> DEFINE cl == Converted(l, t)
             cr == Converted(r, t)
  <2>2. cl.tag = "value" /\ cl.rep = a /\ cr.tag = "value" /\ cr.rep = b
    BY <1>2, <2>1 DEF Brought
  <2>3. ComparisonOf(l, r) =
          IF cl.tag = "error" THEN cl ELSE IF cr.tag = "error" THEN cr
          ELSE [tag |-> "order", order |-> Compare(t, cl.rep, cr.rep)]
    BY DEF ComparisonOf, WithUnified
  <2> HIDE DEF cl, cr
  <2> QED
    BY <2>2, <2>3
<1> DEFINE x == ValueOf(l)
           y == ValueOf(r)
<1>4. a \in Reps(t) /\ b \in Reps(t) /\ x = ValueOf([type |-> t, rep |-> a]) /\ y = ValueOf([type |-> t, rep |-> b])
  BY <1>2 DEF Brought
<1> HIDE DEF x, y
<1>5. \/ Compare(t, a, b) = Order(x, y)
      \/ t # CompInteger /\ x < 0 /\ y < 0
      \/ t = CompInteger /\ (x < 0) # (y < 0)
  BY <1>1, <1>4, CompareIs
<1> QED
  BY <1>3, <1>5 DEF x, y

\* What a fixed type has not is refused, unless it only needs the sign bit.
LEMMA ConversionKeeps ==
  ASSUME NEW v, IsValue(v), v.type = CompInteger, NEW t \in Types
  PROVE  IF Fits(t, ValueOf(v)) THEN Converted(v, t) = Value(t, ValueOf(v) % TwoTo[Bits(t)])
         ELSE \/ t.signed /\ ValueOf(v) \in -TwoTo[Bits(t)] .. TwoTo[Bits(t)] - 1
              \/ Converted(v, t) = Error("too large")
<1> DEFINE x == ValueOf(v)
           m == TwoTo[Bits(t)]
           h == TwoTo[Bits(t) - 1]
           q == TwoTo[WordBits - 2]
           used == IF x < 0 THEN -x - 1 ELSE x
           small == t.bytes < WordBytes
<1>1. x \in Int /\ x = CompValue(v.rep) /\ Fits(CompInteger, x)
  BY ValueFits
<1>2. q \in Nat \ {0} /\ x \in -q .. q - 1
  BY <1>1, CompRange DEF Fits
<1>3. Bits(t) \in 1 .. WordBits /\ t.signed \in BOOLEAN /\ t.bytes \in 1 .. WordBytes /\ WordBytes \in Nat
  BY FixedRange, BitsBound, SizeAssumption
<1>4. m \in Nat \ {0} /\ h \in Nat \ {0} /\ m = 2 * h
  <2> DEFINE b == Bits(t)
  <2> HIDE DEF b
  <2> QED
    BY <1>3, Halves DEF b
<1>5. ~small => m = 4 * q
  <2>1. ~small => t.bytes = WordBytes
    BY <1>3
  <2>2. ~small => Bits(t) = WordBits
    BY <2>1, BitsBound
  <2> QED
    BY <2>2, CompRange
<1>6. Converted(v, t) = IF (~t.signed /\ x < 0) \/ (small /\ m <= used) THEN Error("too large") ELSE Value(t, x % m)
  <2>1. Converted(v, t) = BitsFromComp(v.rep, t)
    BY NotCompInteger DEF Converted
  <2> QED
    BY <1>1, <2>1 DEF BitsFromComp
<1>7. t.signed => (Fits(t, x) <=> x \in -h .. h - 1)
  BY FixedRange DEF Fits
<1>8. ~t.signed => (Fits(t, x) <=> x \in 0 .. m - 1)
  BY FixedRange DEF Fits
<1>9. small \in BOOLEAN
  OBVIOUS
<1> HIDE DEF x, m, h, q, used, small
<1>10. CASE Fits(t, x)
  <2>1. ~ (~t.signed /\ x < 0)
    BY <1>1, <1>4, <1>8, <1>10
  <2>2. ~ (m <= used)
    BY <1>1, <1>3, <1>4, <1>7, <1>8, <1>10 DEF used
  <2>3. Converted(v, t) = Value(t, x % m)
    BY <1>6, <2>1, <2>2
  <2> QED
    BY <1>10, <2>3 DEF x, m
<1>11. CASE ~Fits(t, x)
  <2>1. CASE t.signed
    <3>1. x \notin -m .. m - 1 => m <= used
      BY <1>1, <1>4 DEF used
    <3>2. x \notin -m .. m - 1 => small
      BY <1>1, <1>2, <1>4, <1>5, <1>9
    <3>3. x \in -m .. m - 1 \/ Converted(v, t) = Error("too large")
      BY <1>6, <3>1, <3>2
    <3> QED
      BY <1>11, <2>1, <3>3 DEF x, m
  <2>2. CASE ~t.signed
    <3>1. x < 0 \/ m <= used
      BY <1>1, <1>4, <1>8, <1>11, <2>2 DEF used
    <3>2. x >= 0 => small
      BY <1>1, <1>2, <1>4, <1>5, <1>8, <1>9, <1>11, <2>2
    <3>3. x < 0 \/ x >= 0
      BY <1>1
    <3>4. (~t.signed /\ x < 0) \/ (small /\ m <= used)
      BY <2>2, <3>1, <3>2, <3>3, Zenon
    <3>5. Converted(v, t) = Error("too large")
      BY <1>6, <3>4, Zenon
    <3> QED
      BY <1>11, <2>2, <3>5 DEF x
  <2> QED
    BY <1>3, <2>1, <2>2
<1> QED
  BY <1>10, <1>11

-----------------------------------------------------------------------------
(* Shifts. *)

LEMMA ShiftAmountIs ==
  ASSUME NEW v, IsValue(v)
  PROVE  /\ ValueOf(v) >= 0 => ShiftAmount(v) = [tag |-> "value", amount |-> ValueOf(v)]
         /\ ValueOf(v) < 0 => ShiftAmount(v).tag = "error"
<1>1. ValueOf(v) \in Int
  BY ValueFits
<1>2. \A what : Error(what).tag = "error"
  BY DEF Error
<1> DEFINE x == ValueOf(v)
<1>3. x >= 0 => ShiftAmount(v) = [tag |-> "value", amount |-> x]
  BY DEF ShiftAmount
<1>4. ~ (x >= 0) => ShiftAmount(v) \in {Error("negative"), Error("too large")}
  BY DEF ShiftAmount
<1>5. x < 0 => ~ (x >= 0)
  BY <1>1
<1> HIDE DEF x
<1>6. x < 0 => ShiftAmount(v).tag = "error"
  BY <1>2, <1>4, <1>5
<1> QED
  BY <1>3, <1>6 DEF x

\* One digit spells itself.
LEMMA SpelledOne ==
  ASSUME NEW digits, digits[0] \in Nat
  PROVE  Spelled(digits, 1, ByteBits) = digits[0]
<1> DEFINE body(f) == [i \in 0 .. 1 |-> IF i = 1 THEN 0 ELSE digits[i] * TwoTo[ByteBits * i] + f[i + 1]]
           g == [i \in 0 .. 1 |-> IF i = 1 THEN 0 ELSE digits[0]]
           chosen == CHOOSE f : f = body(f)
<1>1. ByteBits * 0 = 0 /\ TwoTo[0] = 1
  BY SizeAssumption, TwoToFacts
<1>2. \A i \in 0 .. 1 : i = 0 \/ i = 1
  OBVIOUS
<1>3. \A f : body(f)[1] = 0 /\ body(f)[0] = digits[0] + f[1]
  <2> SUFFICES ASSUME NEW f PROVE body(f)[1] = 0 /\ body(f)[0] = digits[0] + f[1]
    OBVIOUS
  <2>1. body(f)[1] = 0
    OBVIOUS
  <2>2. body(f)[0] = digits[0] * TwoTo[ByteBits * 0] + f[0 + 1]
    OBVIOUS
  <2>3. digits[0] * 1 = digits[0] /\ 0 + 1 = 1
    OBVIOUS
  <2>4. body(f)[0] = digits[0] * 1 + f[1]
    <3> HIDE DEF body
    <3> QED
      BY <1>1, <2>2, <2>3
  <2> HIDE DEF body
  <2> QED
    BY <2>1, <2>3, <2>4
<1>4. g = body(g)
  <2>1. g[1] = 0 /\ g[0] = digits[0]
    OBVIOUS
  <2> DEFINE d == body(g)
  <2>2. d = [i \in 0 .. 1 |-> d[i]] /\ g = [i \in 0 .. 1 |-> g[i]]
    OBVIOUS
  <2>3. d[1] = 0 /\ d[0] = digits[0] + 0
    <3> HIDE DEF body, g
    <3> QED
      BY <1>3, <2>1
  <2> HIDE DEF d, g, body
  <2>4. \A i \in 0 .. 1 : g[i] = d[i]
    BY <1>2, <2>1, <2>3
  <2> QED
    BY <2>2, <2>4 DEF d
<1>5. chosen = body(chosen)
  <2> HIDE DEF body, g
  <2> QED
    BY <1>4
<1>6. Spelled(digits, 1, ByteBits) = chosen[0]
  BY DEF Spelled
<1> HIDE DEF body, g, chosen
<1>7. chosen[0] = digits[0] + 0
  BY <1>3, <1>5
<1> QED
  BY <1>6, <1>7

\* Halving twice the number that is divided.
LEMMA HalfQuotient ==
  ASSUME NEW x \in Nat, NEW d \in Nat \ {0}
  PROVE  ((2 * x) \div d) \div 2 = x \div d /\ (2 * x) \div d \in Nat /\ x \div d \in Nat /\ x \div d <= x
<1> DEFINE q == x \div d
           r == x % d
           p == (2 * x) \div d
<1>1. x = d * q + r /\ q \in Nat /\ r \in 0 .. d - 1
  BY DivMod
<1>2. p = 2 * q \/ p = 2 * q + 1
  <2> HIDE DEF q, r
  <2>1. CASE 2 * r < d
    <3> DEFINE u == 2 * q
               e == 2 * r
    <3>1. 2 * x = d * u + e /\ u \in Nat /\ e \in 0 .. d - 1
      BY <1>1, <2>1
    <3> HIDE DEF u, e
    <3>2. (d * u + e) \div d = u
      BY <3>1, DivModUnique
    <3>3. p = u
      BY <3>1, <3>2
    <3> QED
      BY <3>3 DEF u
  <2>2. CASE ~ (2 * r < d)
    <3> DEFINE u == 2 * q + 1
               e == 2 * r - d
    <3>1. 2 * x = d * u + e /\ u \in Nat /\ e \in 0 .. d - 1
      <4>1. d * (2 * q + 1) = 2 * (d * q) + d
        BY <1>1
      <4>2. e \in 0 .. d - 1
        BY <1>1, <2>2
      <4> QED
        BY <1>1, <4>1, <4>2
    <3> HIDE DEF u, e
    <3>2. (d * u + e) \div d = u
      BY <3>1, DivModUnique
    <3>3. p = u
      BY <3>1, <3>2
    <3> QED
      BY <3>3 DEF u
  <2> QED
    BY <2>1, <2>2
<1>3. q <= x
  <2> HIDE DEF q, r
  <2>1. d * q >= q
    <3>1. q = 0 => d * q >= q
      BY <1>1
    <3>2. q # 0 => q * d >= q
      BY <1>1, ProductGrows
    <3>3. q * d = d * q
      BY <1>1
    <3> QED
      BY <3>1, <3>2, <3>3
  <2>2. d * q \in Nat
    BY <1>1
  <2> QED
    BY <1>1, <2>1, <2>2
<1> HIDE DEF q, r, p
<1>4. p \div 2 = q /\ p \in Nat
  BY <1>1, <1>2
<1> QED
  BY <1>1, <1>3, <1>4 DEF p, q

\* Within a byte.
LEMMA FixedShiftKeeps ==
  ASSUME NEW v, IsValue(v), v.type # CompInteger, NEW by, IsValue(by), NEW kind \in {"Left", "Right"},
         NEW outcome \in Shifted(kind, v, by)
  PROVE  IF ValueOf(by) \notin 0 .. Bits(v.type) - 1 THEN outcome.tag = "error"
         ELSE /\ outcome.tag = "value"
              /\ kind = "Left" /\ ValueOf(by) < ByteBits =>
                   outcome.rep = (v.rep * TwoTo[ValueOf(by)]) % TwoTo[Bits(v.type)]
              /\ kind = "Right" /\ v.type.bytes = 1 /\ ValueOf(v) >= 0 =>
                   ValueOf(outcome) = ValueOf(v) \div TwoTo[ValueOf(by)]
<1> DEFINE t == v.type
           rep == v.rep
           x == ValueOf(v)
           y == ValueOf(by)
           m == TwoTo[Bits(t)]
<1>1. x \in Int /\ Fits(t, x) /\ t \in Types /\ rep \in 0 .. m - 1
  BY ValueFits
<1>2. y \in Int
  BY ValueFits
<1>3. Bits(t) \in 1 .. WordBits /\ t.bytes \in 1 .. WordBytes /\ ByteBits \in Nat \ {0} /\ WordBytes \in Nat /\ WordBits \in Nat
      /\ ByteBits <= WordBits /\ t.signed \in BOOLEAN
  BY <1>1, FixedRange, BitsBound, SizeAssumption, WordBitsBound
<1>4. (y >= 0 => ShiftAmount(by) = [tag |-> "value", amount |-> y]) /\ (y < 0 => ShiftAmount(by).tag = "error")
  BY ShiftAmountIs
<1>5. Error("too large").tag = "error"
  BY DEF Error
<1>6. CASE y < 0
  <2>1. outcome = ShiftAmount(by)
    BY <1>4, <1>6 DEF Shifted
  <2>2. y \notin 0 .. Bits(t) - 1
    BY <1>6
  <2> QED
    BY <1>4, <1>6, <2>1, <2>2
<1>7. CASE y >= Bits(t)
  <2>1. y >= 0 /\ y \notin 0 .. Bits(t) - 1
    BY <1>2, <1>3, <1>7
  <2>2. ShiftAmount(by).tag = "value" /\ ShiftAmount(by).amount = y
    BY <1>4, <2>1
  <2>3. outcome = Error("too large")
    BY <1>7, <2>2 DEF Shifted
  <2> QED
    BY <1>5, <2>1, <2>3
<1>8. CASE y \in 0 .. Bits(t) - 1
  <2>1. ShiftAmount(by).tag = "value" /\ ShiftAmount(by).amount = y /\ ~ (y >= Bits(t))
    BY <1>2, <1>3, <1>4, <1>8
  <2>2. CASE kind = "Left"
    <3>1. outcome \in ShiftedLeft(t, rep, y)
      BY <2>1, <2>2 DEF Shifted
    <3>2. outcome.tag = "value"
      BY <3>1 DEF ShiftedLeft, Value
    <3>3. ASSUME y < ByteBits PROVE outcome.rep = (rep * TwoTo[y]) % m
      <4> DEFINE p == (rep * TwoTo[y]) % m
                 whole == y \div ByteBits
                 unset == IF whole <= t.bytes - whole THEN whole ELSE t.bytes - whole
      <4>1. whole = 0
        <5> HIDE DEF y
        <5> QED
          BY <1>2, <1>3, <1>8, <3>3
      <4>2. unset = 0
        BY <1>3, <4>1
      <4>3. PICK old \in 0 .. TwoTo[ByteBits * unset] - 1 : outcome = Value(t, p + old)
        BY <3>1 DEF ShiftedLeft
      <4>4. TwoTo[ByteBits * unset] = 1
        <5> HIDE DEF unset
        <5>1. ByteBits * unset = 0
          BY <1>3, <4>2
        <5> QED
          BY <5>1, TwoToFacts
      <4>5. old = 0
        <5> HIDE DEF unset
        <5> QED
          BY <4>4
      <4>6. p \in Int
        <5>1. TwoTo[y] \in Nat
          <6> HIDE DEF y
          <6> QED
            BY <1>2, <1>3, <1>8, TwoToFacts
        <5>2. m \in Nat \ {0}
          <6> DEFINE b == Bits(t)
          <6> HIDE DEF b
          <6> QED
            BY <1>3, Halves DEF b
        <5> DEFINE n == rep * TwoTo[y]
        <5>3. n \in Int
          BY <1>1, <5>1
        <5> HIDE DEF n, m
        <5> QED
          BY <5>2, <5>3, ModInt DEF n
      <4> HIDE DEF p
      <4>7. outcome = Value(t, p)
        BY <4>3, <4>5, <4>6
      <4> QED
        BY <4>7 DEF Value, p
    <3> QED
      BY <1>8, <2>2, <3>2, <3>3
  <2>3. CASE kind = "Right"
    <3>1. outcome = ShiftedRight(t, rep, y)
      BY <2>1, <2>3 DEF Shifted
    <3>2. outcome.tag = "value"
      BY <3>1 DEF ShiftedRight, Value
    <3>3. ASSUME t.bytes = 1, x >= 0 PROVE ValueOf(outcome) = x \div TwoTo[y]
      <4> DEFINE whole == y \div ByteBits
                 bits == y % ByteBits
                 fill == IF t.signed /\ AsSigned(rep, Bits(t)) < 0 THEN TwoTo[ByteBits] - 1 ELSE 0
                 carry(i) == (Byte(rep, i) * TwoTo[ByteBits - bits]) % TwoTo[ByteBits]
                 moved == [i \in 0 .. t.bytes - 1 |->
                             IF i < whole THEN fill
                             ELSE (Byte(rep, i) \div TwoTo[bits]) + (IF i = whole THEN 0 ELSE carry(i - 1))]
                 d == TwoTo[y]
                 z == x \div d
      <4>1. outcome = Value(t, Spelled(moved, t.bytes, ByteBits))
        BY <3>1 DEF ShiftedRight
      <4>2. Bits(t) = ByteBits
        BY <1>3, <3>3 DEF Bits
      <4>3. whole = 0 /\ bits = y
        <5> HIDE DEF y, t
        <5> QED
          BY <1>2, <1>3, <1>8, <4>2
      <4>4. rep = x
        <5>1. rep = IF x < 0 THEN x + m ELSE x
          <6>1. v = [type |-> t, rep |-> rep]
            BY DEF IsValue
          <6> HIDE DEF t, rep
          <6> QED
            BY <1>1, <6>1, FixedValue
        <5> HIDE DEF rep, m, x
        <5> QED
          BY <1>1, <3>3, <5>1
      <4>5. Byte(rep, 0) = rep
        <5>1. ByteBits * 0 = 0 /\ TwoTo[0] = 1 /\ m = TwoTo[ByteBits]
          BY <1>3, <4>2, TwoToFacts
        <5>2. m \in Nat \ {0}
          <6> DEFINE b == Bits(t)
          <6> HIDE DEF b
          <6> QED
            BY <1>3, Halves DEF b
        <5>3. Byte(rep, 0) = (rep \div 1) % m
          BY <5>1 DEF Byte
        <5> HIDE DEF rep, m
        <5>4. rep \div 1 = rep
          BY <1>1
        <5>5. rep % m = rep
          <6>1. rep \in -m .. 2 * m - 1 /\ ~ (rep < 0) /\ rep < m
            BY <1>1, <5>2
          <6> QED
            BY <5>2, <6>1, ModNear
        <5> QED
          BY <5>3, <5>4, <5>5
      <4>6. moved[0] = (x \div d) + 0
        <5>1. 0 \in 0 .. t.bytes - 1
          BY <3>3
        <5>2. moved[0] = IF 0 < whole THEN fill ELSE (Byte(rep, 0) \div TwoTo[bits]) + (IF 0 = whole THEN 0 ELSE carry(0 - 1))
          BY <5>1
        <5>3. ~ (0 < whole) /\ 0 = whole
          BY <4>3
        <5>4. moved[0] = (Byte(rep, 0) \div TwoTo[bits]) + 0
          <6> HIDE DEF moved, whole, bits, fill, carry
          <6> QED
            BY <5>2, <5>3
        <5> QED
          BY <4>3, <4>4, <4>5, <5>4
      <4>7. d \in Nat \ {0}
        <5> HIDE DEF y
        <5> QED
          BY <1>2, <1>3, <1>8, TwoToFacts
      <4>8. z \in Nat /\ z <= x
        <5> HIDE DEF d, x
        <5>1. x \in Nat
          BY <1>1, <3>3
        <5> QED
          BY <4>7, <5>1, HalfQuotient
      <4>9. Spelled(moved, t.bytes, ByteBits) = z
        <5>1. moved[0] = z
          <6> HIDE DEF moved
          <6>1. moved[0] = z + 0
            BY <4>6
          <6> HIDE DEF z
          <6> QED
            BY <4>8, <6>1
        <5> HIDE DEF moved
        <5>2. Spelled(moved, 1, ByteBits) = moved[0]
          <6>1. moved[0] \in Nat
            BY <4>8, <5>1
          <6> QED
            BY <6>1, SpelledOne
        <5> QED
          BY <3>3, <5>1, <5>2
      <4>10. Fits(t, z) /\ z \in Int
        <5>1. x \in Least(t) .. Greatest(t)
          BY <1>1 DEF Fits
        <5>2. Least(t) \in Int /\ Greatest(t) \in Int /\ Least(t) <= 0
          <6>1. t.signed => Least(t) <= -1
            BY <1>1, TypeInWord
          <6>2. ~t.signed => Least(t) = 0
            BY <1>1, TypeInWord
          <6>3. Least(t) \in Int /\ Greatest(t) \in Int
            BY <1>1, TypeInWord
          <6> DEFINE lo == Least(t)
          <6> HIDE DEF lo
          <6>4. lo <= 0
            BY <1>3, <6>1, <6>2, <6>3 DEF lo
          <6> QED
            BY <6>3, <6>4 DEF lo
        <5> DEFINE lo == Least(t)
                   hi == Greatest(t)
        <5> HIDE DEF z, x, lo, hi
        <5>3. z \in lo .. hi /\ z \in Int
          BY <1>1, <4>8, <5>1, <5>2 DEF lo, hi
        <5> QED
          BY <5>3 DEF Fits, lo, hi
      <4>11. z % m = z
        <5>1. m \in Nat \ {0}
          <6> DEFINE b == Bits(t)
          <6> HIDE DEF b
          <6> QED
            BY <1>3, Halves DEF b
        <5> HIDE DEF z, m, x, rep
        <5>2. z \in -m .. 2 * m - 1 /\ ~ (z < 0) /\ z < m
          BY <1>1, <4>4, <4>8, <5>1
        <5> QED
          BY <5>1, <5>2, ModNear
      <4>12. ValueOf([type |-> t, rep |-> z % m]) = z
        <5> HIDE DEF z, t
        <5> QED
          BY <1>1, <4>10, FixedBack
      <4>13. outcome = Value(t, z)
        BY <4>1, <4>9
      <4> HIDE DEF z
      <4>14. ValueOf(outcome) = z
        BY <4>11, <4>12, <4>13, ValueIs
      <4> QED
        BY <4>14 DEF z
    <3> QED
      BY <1>8, <2>3, <3>2, <3>3
  <2> QED
    BY <2>2, <2>3
<1> QED
  BY <1>2, <1>3, <1>6, <1>7, <1>8

\* A compile-time integer shifted to the left: the bits above the amount are
\* all clear or all set, so that the product is exact, or the compiler stops.
LEMMA CompShiftedLeftKeeps ==
  ASSUME NEW rep \in Reps(CompInteger), NEW y \in 1 .. WordBits \div 2
  PROVE  \/ CompShiftedLeft(rep, y) = Panic
         \/ ValueOf(CompShiftedLeft(rep, y)) = CompValue(rep) * TwoTo[y]
<1> DEFINE x == CompValue(rep)
           q == TwoTo[WordBits - 2]
           m == TwoTo[WordBits]
           low == TwoTo[y - 1]
           d == TwoTo[y]
           sign == rep - (rep % low)
           p == x * d
<1>1. WordBits \in Nat /\ WordBits >= 2
  BY WordBitsBound
<1>2. y \in Nat /\ y >= 1 /\ 2 * y <= WordBits
  BY <1>1
<1>3. WordAmount(y - 1) = y - 1 /\ WordAmount(y) = y
  <2> DEFINE w == WordBits
             u == y - 1
  <2>1. w \in Nat \ {0} /\ u \in 0 .. w - 1 /\ y \in 0 .. w - 1
    BY <1>1, <1>2
  <2> HIDE DEF w, u
  <2>2. u % w = u /\ y % w = y
    <3>1. u \in -w .. 2 * w - 1 /\ ~ (u < 0) /\ u < w /\ y \in -w .. 2 * w - 1 /\ ~ (y < 0) /\ y < w
      BY <2>1
    <3> QED
      BY <2>1, <3>1, ModNear
  <2> QED
    BY <2>2 DEF WordAmount, w, u
<1>4. /\ q \in Nat \ {0} /\ m = 4 * q /\ m \in Nat \ {0}
      /\ low \in Nat \ {0} /\ d = 2 * low
  <2>1. q \in Nat \ {0} /\ m = 4 * q
    BY CompRange
  <2>2. y \in 1 .. WordBits
    BY <1>1, <1>2
  <2>3. low \in Nat \ {0} /\ d = 2 * low
    BY <2>2, Halves
  <2> HIDE DEF q, m, low, d
  <2> QED
    BY <2>1, <2>3
<1>5. low * low <= q /\ low * low \in Nat
  <2> DEFINE k == y - 1
             n == k + k
             w == WordBits - 2
  <2>1. k \in 0 .. WordBits /\ n <= WordBits /\ n \in 0 .. WordBits /\ w \in n .. WordBits
    BY <1>1, <1>2
  <2>2. TwoTo[k + k] = TwoTo[k] * TwoTo[k]
    <3> HIDE DEF k
    <3> QED
      BY <2>1, TwoToSum
  <2>3. TwoTo[n] <= TwoTo[w]
    <3> HIDE DEF n, w
    <3> QED
      BY <2>1, TwoToGrows
  <2>4. TwoTo[n] \in Nat
    <3> HIDE DEF n
    <3> QED
      BY <2>1, TwoToFacts
  <2> QED
    BY <2>2, <2>3, <2>4
<1>6. low <= q
  <2> HIDE DEF low, q
  <2>1. low * low >= low
    BY <1>4, ProductGrows
  <2> QED
    BY <1>4, <1>5, <2>1
<1>7. /\ x \in Int /\ rep \in 0 .. m - 1
      /\ rep = IF x < 0 THEN 2 * x + m ELSE 2 * x
  BY CompIs
<1>8. x \in -q .. q - 1
  <2>1. Fits(CompInteger, x)
    BY CompIs
  <2> QED
    BY <2>1, CompRange DEF Fits
<1>9. CompShiftedLeft(rep, y) = IF sign \notin {0, m - low} THEN Panic ELSE Value(CompInteger, (rep * d) % m)
  BY <1>3 DEF CompShiftedLeft
<1>10. rep % low \in 0 .. low - 1
  <2> HIDE DEF low, m
  <2>1. rep \in Int
    BY <1>4, <1>7
  <2> QED
    BY <1>4, <2>1, ModInt
<1> SUFFICES ASSUME sign \in {0, m - low}
             PROVE  ValueOf(Value(CompInteger, (rep * d) % m)) = x * d
  BY <1>9
<1>11. (x >= 0 /\ 2 * x < low) \/ (x < 0 /\ -(2 * x) <= low)
  <2> DEFINE r == rep % low
  <2> HIDE DEF r, low, m, q, x
  <2>1. rep - r = 0 \/ rep - r = m - low
    BY DEF r
  <2>2. r \in 0 .. low - 1
    BY <1>10 DEF r
  <2>3. CASE rep - r = 0
    BY <1>4, <1>6, <1>7, <1>8, <2>2, <2>3
  <2>4. CASE rep - r = m - low
    BY <1>4, <1>6, <1>7, <1>8, <2>2, <2>4
  <2> QED
    BY <2>1, <2>3, <2>4
<1>12. p \in -q .. q - 1 /\ p \in Int
  <2> HIDE DEF x, low, d, q
  <2>1. p = 2 * (x * low) /\ p \in Int
    BY <1>4, <1>7
  <2>2. CASE x >= 0 /\ 2 * x < low
    <3> DEFINE u == 2 * x
    <3>1. u \in Nat /\ u < low /\ low \in Nat
      BY <1>4, <1>7, <2>2
    <3>2. u * low + low <= low * low /\ u * low \in Nat
      <4> HIDE DEF u
      <4> QED
        BY <3>1, ProductStep
    <3>3. u * low = 2 * (x * low)
      BY <1>4, <1>7
    <3> HIDE DEF u, p
    <3> DEFINE ll == low * low
               ul == u * low
    <3>4. ul + low <= ll /\ ul \in Nat /\ ll <= q /\ ll \in Nat /\ p = ul
      BY <1>5, <2>1, <3>2, <3>3
    <3> HIDE DEF ll, ul
    <3>5. p \in 0 .. q - 1
      BY <1>4, <3>4
    <3> QED
      BY <1>4, <2>1, <3>5
  <2>3. CASE x < 0 /\ -(2 * x) <= low
    <3> DEFINE u == -(2 * x)
    <3>1. u \in Nat /\ u <= low /\ low \in Nat
      BY <1>4, <1>7, <2>3
    <3>2. u * low <= low * low /\ u * low \in Nat
      <4> HIDE DEF u
      <4>1. CASE u = low
        BY <3>1, <4>1
      <4>2. CASE u < low
        <5>1. u * low + low <= low * low /\ u * low \in Nat /\ low * low \in Nat
          BY <3>1, <4>2, ProductStep
        <5> DEFINE ll == low * low
                   ul == u * low
        <5> HIDE DEF ll, ul
        <5>2. ul <= ll
          BY <3>1, <5>1 DEF ll, ul
        <5> QED
          BY <5>1, <5>2 DEF ll, ul
      <4> QED
        BY <3>1, <4>1, <4>2
    <3>3. u * low = -(2 * (x * low))
      BY <1>4, <1>7
    <3> HIDE DEF u, p
    <3> DEFINE ll == low * low
               ul == u * low
               xl == x * low
    <3>4. ul <= ll /\ ul \in Nat /\ ll <= q /\ ll \in Nat /\ p = 2 * xl /\ ul = -(2 * xl) /\ xl \in Int
      <4>1. xl \in Int
        BY <1>4, <1>7
      <4> QED
        BY <1>5, <2>1, <3>2, <3>3, <4>1
    <3> HIDE DEF ll, ul, xl
    <3>5. p \in -q .. 0
      BY <1>4, <3>4
    <3> QED
      BY <1>4, <2>1, <3>5
  <2> QED
    BY <1>11, <2>2, <2>3
<1>13. (rep * d) % m = (2 * p) % m
  <2> HIDE DEF x, d, m
  <2>1. d \in Int /\ x \in Int
    <3> HIDE DEF low
    <3> QED
      BY <1>4, <1>7
  <2>2. CASE x < 0
    <3>1. rep = 2 * x + m
      BY <1>7, <2>2
    <3>2. (2 * x + m) * d = 2 * (x * d) + m * d
      BY <1>4, <2>1
    <3> DEFINE u == 2 * p
    <3>3. rep * d = u + m * d /\ u \in Int
      BY <1>12, <3>1, <3>2
    <3> HIDE DEF u
    <3>4. (u + m * d) % m = u % m
      BY <1>4, <2>1, <3>3, ModShift
    <3> QED
      BY <3>3, <3>4 DEF u
  <2>3. CASE ~ (x < 0)
    <3>1. rep = 2 * x
      BY <1>7, <2>3
    <3>2. (2 * x) * d = 2 * (x * d)
      BY <2>1
    <3> QED
      BY <3>1, <3>2
  <2> QED
    BY <2>2, <2>3
<1>14. Fits(CompInteger, p)
  BY <1>12, CompRange DEF Fits
<1>15. Delivers(CompInteger, Value(CompInteger, (2 * p) % m), p)
  <2> HIDE DEF p
  <2> QED
    BY <1>12, <1>14, CompFits
<1> QED
  BY <1>13, <1>15 DEF Delivers

\* A compile-time integer from zero upwards, shifted to the right.
LEMMA CompShiftedRightKeeps ==
  ASSUME NEW rep \in Reps(CompInteger), NEW y \in 0 .. WordBits - 1, CompValue(rep) >= 0
  PROVE  ValueOf(CompShiftedRight(rep, y)) = CompValue(rep) \div TwoTo[y]
<1> DEFINE x == CompValue(rep)
           d == TwoTo[y]
           moved == rep \div d
           z == x \div d
<1>1. WordBits \in Nat /\ WordBits >= 2
  BY WordBitsBound
<1>2. WordAmount(y) = y
  <2>1. y \in -WordBits .. 2 * WordBits - 1 /\ ~ (y < 0) /\ y < WordBits
    BY <1>1
  <2> QED
    BY <1>1, <2>1, ModNear DEF WordAmount
<1>3. d \in Nat \ {0}
  BY <1>1, TwoToFacts
<1>4. x \in Int /\ Fits(CompInteger, x) /\ rep = IF x < 0 THEN 2 * x + TwoTo[WordBits] ELSE 2 * x
  BY CompIs
<1>5. x \in Nat /\ rep = 2 * x
  <2> HIDE DEF x
  <2> QED
    BY <1>4 DEF x
<1>6. moved \div 2 = z /\ moved \in Nat /\ z \in Nat /\ z <= x
  <2>1. ((2 * x) \div d) \div 2 = x \div d /\ (2 * x) \div d \in Nat /\ x \div d \in Nat /\ x \div d <= x
    <3> HIDE DEF x, d
    <3> QED
      BY <1>3, <1>5, HalfQuotient
  <2> HIDE DEF x, d
  <2> QED
    BY <1>5, <2>1
<1>7. moved - (moved % 2) = 2 * z
  <2> HIDE DEF moved, z
  <2> QED
    BY <1>6
<1>8. CompShiftedRight(rep, y) = Value(CompInteger, 2 * z)
  <2>1. CompShiftedRight(rep, y) = Value(CompInteger, moved - (moved % 2))
    BY <1>2 DEF CompShiftedRight
  <2> HIDE DEF moved, z
  <2> QED
    BY <1>7, <2>1
<1>9. z \in Int /\ Fits(CompInteger, z) /\ (2 * z) % TwoTo[WordBits] = 2 * z
  <2> DEFINE q == TwoTo[WordBits - 2]
             m == TwoTo[WordBits]
  <2>1. q \in Nat \ {0} /\ m = 4 * q
    BY CompRange
  <2>2. x \in -q .. q - 1
    BY <1>4, CompRange DEF Fits
  <2>3. Fits(CompInteger, z) <=> z \in -q .. q - 1
    BY CompRange DEF Fits
  <2> HIDE DEF q, m, x, z
  <2> DEFINE u == 2 * z
  <2>4. z \in -q .. q - 1 /\ u \in -m .. 2 * m - 1 /\ ~ (u < 0) /\ u < m /\ m \in Nat \ {0} /\ z \in Int
    BY <1>6, <2>1, <2>2
  <2> HIDE DEF u
  <2>5. u % m = u
    BY <2>4, ModNear
  <2> QED
    BY <2>3, <2>4, <2>5 DEF u, m
<1>10. ValueOf(Value(CompInteger, 2 * z)) = z
  <2> HIDE DEF z
  <2>1. Delivers(CompInteger, Value(CompInteger, (2 * z) % TwoTo[WordBits]), z)
    BY <1>9, CompFits
  <2> QED
    BY <1>9, <2>1 DEF Delivers
<1> QED
  BY <1>8, <1>10

LEMMA CompShiftKeeps ==
  ASSUME NEW v, IsValue(v), v.type = CompInteger, NEW by, IsValue(by),
         NEW kind \in {"Left", "Right"}, NEW outcome \in Shifted(kind, v, by)
  PROVE  IF ValueOf(by) < 0 THEN outcome.tag = "error"
         ELSE /\ kind = "Left" /\ ValueOf(by) \in 1 .. WordBits \div 2 =>
                   outcome = Panic \/ ValueOf(outcome) = ValueOf(v) * TwoTo[ValueOf(by)]
              /\ kind = "Right" /\ by.type = CompInteger /\ ValueOf(by) < WordBits /\ ValueOf(v) >= 0 =>
                   ValueOf(outcome) = ValueOf(v) \div TwoTo[ValueOf(by)]
<1> DEFINE x == ValueOf(v)
           y == ValueOf(by)
<1>1. v.rep \in Reps(CompInteger) /\ x = CompValue(v.rep) /\ y \in Int
  BY ValueFits
<1>2. (y >= 0 => ShiftAmount(by) = [tag |-> "value", amount |-> y]) /\ (y < 0 => ShiftAmount(by).tag = "error")
  BY ShiftAmountIs
<1>3. CASE y < 0
  <2>1. outcome = ShiftAmount(by)
    BY <1>2, <1>3 DEF Shifted
  <2> QED
    BY <1>2, <1>3, <2>1
<1>4. CASE y >= 0
  <2>1. ShiftAmount(by).tag = "value" /\ ShiftAmount(by).amount = y /\ ~ (y < 0)
    BY <1>1, <1>2, <1>4
  <2>2. outcome = IF by.type # CompInteger THEN ShiftedByFixed(kind, v.rep, by, y)
                  ELSE IF kind = "Left" THEN CompShiftedLeft(v.rep, y) ELSE CompShiftedRight(v.rep, y)
    BY <2>1 DEF Shifted
  <2> HIDE DEF x, y
  <2>3. ASSUME kind = "Left", y \in 1 .. WordBits \div 2 PROVE outcome = Panic \/ ValueOf(outcome) = x * TwoTo[y]
    <3>1. outcome = Panic \/ outcome = CompShiftedLeft(v.rep, y)
      BY <2>2, <2>3 DEF ShiftedByFixed
    <3> QED
      BY <1>1, <2>3, <3>1, CompShiftedLeftKeeps
  <2>4. ASSUME kind = "Right", by.type = CompInteger, y < WordBits, x >= 0 PROVE ValueOf(outcome) = x \div TwoTo[y]
    <3>1. y \in 0 .. WordBits - 1
      BY <1>1, <1>4, <2>4, WordBitsBound
    <3>2. outcome = CompShiftedRight(v.rep, y)
      BY <2>2, <2>4
    <3> QED
      BY <1>1, <2>4, <3>1, <3>2, CompShiftedRightKeeps
  <2> QED
    BY <2>1, <2>3, <2>4 DEF x, y
<1> QED
  BY <1>1, <1>3, <1>4

-----------------------------------------------------------------------------
(* The inductive invariant: either no operator has been applied and an       *)
(* operand is on top, or the last record says what one did with two operands. *)

Applied(op, lhs, rhs, outcome) ==
  /\ lhs \in Operands /\ rhs \in Operands
  /\ op.name # "none"
  /\ op.name \in Kinds =>
       /\ op.wraps \in BOOLEAN /\ (op.wraps => op.name \in {"Add", "Sub", "Mul"})
       /\ outcome = ArithmeticOf(op.name, op.wraps, lhs, rhs)
  /\ op.name = "Compare" => outcome = ComparisonOf(lhs, rhs)
  /\ op.name \in {"Left", "Right"} => outcome \in Shifted(op.name, lhs, rhs)
  /\ op.name = "Negate" => rhs = lhs /\ outcome = Negated(lhs)
  /\ op.name = "BitNot" => rhs = lhs /\ outcome = Inverted(lhs)
  /\ op.name = "Convert" => op.to \in Types /\ outcome = Converted(lhs, op.to)

Recorded ==
  \/ last.op = NoOperator /\ top \in Operands
  \/ Applied(last.op, last.lhs, last.rhs, last.outcome)

LEMMA RecordedInit == Init => Recorded
BY DEF Init, Recorded

LEMMA RecordedNext == Recorded /\ [Next]_vars => Recorded'
<1> SUFFICES ASSUME Recorded, [Next]_vars PROVE Recorded'
  OBVIOUS
<1>1. CASE UNCHANGED vars
  BY <1>1 DEF Recorded, vars, Applied
<1>2. ASSUME Going PROVE top \in Operands
  BY <1>2 DEF Recorded, Going, NoOperator, Applied
<1>3. ASSUME NEW op, NEW rhs, NEW outcome, Apply(op, rhs, outcome), Applied(op, top, rhs, outcome) PROVE Recorded'
  <2>1. last'.op = op /\ last'.lhs = top /\ last'.rhs = rhs /\ last'.outcome = outcome
    BY <1>3 DEF Apply
  <2>2. Applied(last'.op, last'.lhs, last'.rhs, last'.outcome)
    BY <1>3, <2>1
  <2> QED
    BY <2>2 DEF Recorded
<1>4. ASSUME NEW kind \in Kinds, NEW wraps \in BOOLEAN, NEW rhs \in Operands, BinaryArithmeticOp(kind, wraps, rhs)
      PROVE  Recorded'
  <2> DEFINE op == [name |-> kind, wraps |-> wraps]
             outcome == ArithmeticOf(kind, wraps, top, rhs)
  <2>1. top \in Operands /\ (wraps => kind \in {"Add", "Sub", "Mul"}) /\ Apply(op, rhs, outcome)
    BY <1>2, <1>4 DEF BinaryArithmeticOp, ArithmeticOf
  <2>2. op.name = kind /\ op.wraps = wraps
    OBVIOUS
  <2>3. kind \notin {"none", "Compare", "Left", "Right", "Negate", "BitNot", "Convert"}
    BY DEF Kinds
  <2>4. Applied(op, top, rhs, outcome)
    <3> HIDE DEF op
    <3> QED
      BY <2>1, <2>2, <2>3 DEF Applied
  <2> HIDE DEF op, outcome
  <2> QED
    BY <1>3, <2>1, <2>4
<1>5. ASSUME NEW kind \in {"And", "Or", "Xor"}, NEW rhs \in Operands, BinaryBitwiseOp(kind, rhs) PROVE Recorded'
  <2> DEFINE op == [name |-> kind]
  <2>1. PICK outcome : top \in Operands /\ Apply(op, rhs, outcome)
    BY <1>2, <1>5 DEF BinaryBitwiseOp
  <2>2. op.name = kind
    OBVIOUS
  <2>3. Applied(op, top, rhs, outcome)
    <3> HIDE DEF op
    <3> QED
      BY <2>1, <2>2 DEF Applied, Kinds
  <2> HIDE DEF op
  <2> QED
    BY <1>3, <2>1, <2>3
<1>6. ASSUME NEW rhs \in Operands, CompareOp(rhs) PROVE Recorded'
  <2> DEFINE op == [name |-> "Compare"]
             outcome == ComparisonOf(top, rhs)
  <2>1. top \in Operands /\ Apply(op, rhs, outcome)
    BY <1>2, <1>6 DEF CompareOp, ComparisonOf
  <2>2. op.name = "Compare"
    OBVIOUS
  <2>3. Applied(op, top, rhs, outcome)
    <3> HIDE DEF op
    <3> QED
      BY <2>1, <2>2 DEF Applied, Kinds
  <2> HIDE DEF op, outcome
  <2> QED
    BY <1>3, <2>1, <2>3
<1>7. ASSUME NEW kind \in {"Left", "Right"}, NEW rhs \in Operands, ShiftOp(kind, rhs) PROVE Recorded'
  <2> DEFINE op == [name |-> kind]
  <2>1. PICK outcome \in Shifted(kind, top, rhs) :
          top \in Operands /\ Apply(op, rhs, outcome)
    BY <1>2, <1>7 DEF ShiftOp
  <2>2. op.name = kind
    OBVIOUS
  <2>3. Applied(op, top, rhs, outcome)
    <3> HIDE DEF op
    <3> QED
      BY <2>1, <2>2 DEF Applied, Kinds
  <2> HIDE DEF op
  <2> QED
    BY <1>3, <2>1, <2>3
<1>8. ASSUME Negate PROVE Recorded'
  <2> DEFINE op == [name |-> "Negate"]
             outcome == Negated(top)
  <2>1. top \in Operands /\ Apply(op, top, outcome)
    BY <1>2, <1>8 DEF Negate
  <2>2. op.name = "Negate"
    OBVIOUS
  <2>3. Applied(op, top, top, outcome)
    <3> HIDE DEF op
    <3> QED
      BY <2>1, <2>2 DEF Applied, Kinds
  <2> HIDE DEF op, outcome
  <2> QED
    BY <1>3, <2>1, <2>3
<1>9. ASSUME BitNot PROVE Recorded'
  <2> DEFINE op == [name |-> "BitNot"]
             outcome == Inverted(top)
  <2>1. top \in Operands /\ Apply(op, top, outcome)
    BY <1>2, <1>9 DEF BitNot
  <2>2. op.name = "BitNot"
    OBVIOUS
  <2>3. Applied(op, top, top, outcome)
    <3> HIDE DEF op
    <3> QED
      BY <2>1, <2>2 DEF Applied, Kinds
  <2> HIDE DEF op, outcome
  <2> QED
    BY <1>3, <2>1, <2>3
<1>10. ASSUME NEW t \in Types, Convert(t) PROVE Recorded'
  <2> DEFINE op == [name |-> "Convert", to |-> t]
             outcome == Converted(top, t)
  <2>1. top \in Operands /\ Apply(op, top, outcome)
    BY <1>2, <1>10 DEF Convert
  <2>2. op.name = "Convert" /\ op.to = t
    OBVIOUS
  <2>3. Applied(op, top, top, outcome)
    <3> HIDE DEF op
    <3> QED
      BY <2>1, <2>2 DEF Applied, Kinds
  <2> HIDE DEF op, outcome
  <2> QED
    BY <1>3, <2>1, <2>3
<1> QED
  BY <1>1, <1>4, <1>5, <1>6, <1>7, <1>8, <1>9, <1>10 DEF Next

-----------------------------------------------------------------------------
(* What the record says meets the three properties. *)

LEMMA NothingApplied ==
  ASSUME last.op = NoOperator
  PROVE  ArithmeticExact /\ OrderExact /\ BitsKept
<1>1. last.op.name = "none"
  BY DEF NoOperator
<1> QED
  BY <1>1 DEF ArithmeticExact, OrderExact, BitsKept, Kinds

LEMMA UnifiedMeans ==
  ASSUME Applied(last.op, last.lhs, last.rhs, last.outcome), Unified
  PROVE  /\ last.lhs \in Operands /\ last.rhs \in Operands /\ Common = Unify(last.lhs, last.rhs)
         /\ last.lhs.type \in {Common, CompInteger} /\ last.rhs.type \in {Common, CompInteger}
         /\ Fits(Common, ValueOf(last.lhs)) /\ Fits(Common, ValueOf(last.rhs))
BY DEF Applied, Unified, Common, Left, Right

LEMMA RecordedArithmetic == Recorded => ArithmeticExact
<1> SUFFICES ASSUME Applied(last.op, last.lhs, last.rhs, last.outcome) PROVE ArithmeticExact
  BY NothingApplied DEF Recorded
<1> DEFINE name == last.op.name
           t == Common
           l == last.lhs
           r == last.rhs
           outcome == last.outcome
           wraps == last.op.wraps
<1>1. \A x : Yields(x) <=> Delivers(t, outcome, x)
  BY DEF Yields, Delivers
<1>2. Refused <=> outcome = Refusal(t)
  BY DEF Refused, Refusal
<1>3. ASSUME name \in Kinds, Unified
      PROVE  IF name \in {"Div", "Mod"} /\ Right = 0 THEN outcome = Error("zero")
             ELSE LET x == Exact(name, Left, Right)
                      word == Common \in {Word, CompInteger}
                  IN  CASE name = "Sub" /\ word /\ Left = 0 /\ Right = Least(Common) -> TRUE
                        [] ((name = "Div" /\ word) \/ (name = "Mod" /\ Common = Word)) /\ Left = Least(Common) /\ Right = -1 -> TRUE
                        [] wraps /\ Common # CompInteger ->
                             IF Fits(Common, x) \/ Common.bytes = WordBytes
                             THEN Yields(Wrapped(Common, x)) ELSE Yields(Wrapped(Common, x)) \/ Refused
                        [] OTHER -> IF Fits(Common, x) THEN Yields(x) ELSE Refused
  <2>1. /\ l \in Operands /\ r \in Operands /\ t = Unify(l, r) /\ l.type \in {t, CompInteger} /\ r.type \in {t, CompInteger}
        /\ Fits(t, ValueOf(l)) /\ Fits(t, ValueOf(r))
    BY <1>3, UnifiedMeans
  <2>2. wraps \in BOOLEAN /\ (wraps => name \in {"Add", "Sub", "Mul"}) /\ outcome = ArithmeticOf(name, wraps, l, r)
    BY <1>3 DEF Applied
  <2>3. Left = ValueOf(l) /\ Right = ValueOf(r)
    BY DEF Left, Right
  <2> HIDE DEF t, l, r, outcome, wraps, name
  <2>4. ArithmeticClaim(name, wraps, t, ValueOf(l), ValueOf(r), ArithmeticOf(name, wraps, l, r))
    BY <1>3, <2>1, <2>2, ArithmeticOfClaim
  <2>5. ArithmeticClaim(name, wraps, t, Left, Right, outcome)
    BY <2>2, <2>3, <2>4
  <2> QED
    BY <1>1, <1>2, <2>5 DEF ArithmeticClaim, t
<1>4. ASSUME name = "Negate", Common.signed
      PROVE  IF Fits(Common, -Left) THEN Yields(-Left) ELSE Common = CompInteger => Refused
  <2>1. l \in Operands /\ r = l /\ outcome = Negated(l)
    BY <1>4 DEF Applied
  <2>2. t = l.type /\ Left = ValueOf(l)
    BY <2>1 DEF Common, Unify, Left
  <2>3. IsValue(l) /\ l.type.signed
    BY <1>4, <2>1, <2>2, OperandIs
  <2> HIDE DEF l, outcome
  <2>4. IF Fits(l.type, -ValueOf(l)) THEN Delivers(l.type, Negated(l), -ValueOf(l))
        ELSE l.type = CompInteger => Negated(l) = Panic
    BY <2>3, NegatedIs
  <2> QED
    BY <1>1, <1>2, <2>1, <2>2, <2>4 DEF Refusal
<1>5. ASSUME name = "BitNot", Common.bytes <= 2
      PROVE  Yields(IF Common.signed THEN -Left - 1 ELSE Greatest(Common) - Left)
  <2>1. l \in Operands /\ r = l /\ outcome = Inverted(l)
    BY <1>5 DEF Applied
  <2>2. t = l.type /\ Left = ValueOf(l)
    BY <2>1 DEF Common, Unify, Left
  <2>3. IsValue(l) /\ l.type.bytes <= 2
    BY <1>5, <2>1, <2>2, OperandIs
  <2> HIDE DEF l, outcome
  <2>4. Delivers(l.type, Inverted(l), IF l.type.signed THEN -ValueOf(l) - 1 ELSE Greatest(l.type) - ValueOf(l))
    BY <2>3, InvertedIs
  <2> QED
    BY <1>1, <2>1, <2>2, <2>4
<1> QED
  BY <1>3, <1>4, <1>5 DEF ArithmeticExact

LEMMA RecordedOrder == Recorded => OrderExact
<1> SUFFICES ASSUME Applied(last.op, last.lhs, last.rhs, last.outcome), last.op.name = "Compare", Unified
             PROVE  \/ last.outcome = [tag |-> "order", order |-> Order(Left, Right)]
                    \/ Common # CompInteger /\ Left < 0 /\ Right < 0
                    \/ Common = CompInteger /\ (Left < 0) # (Right < 0)
  BY NothingApplied DEF Recorded, OrderExact
<1> DEFINE t == Common
           l == last.lhs
           r == last.rhs
           outcome == last.outcome
<1>1. /\ l \in Operands /\ r \in Operands /\ t = Unify(l, r) /\ l.type \in {t, CompInteger} /\ r.type \in {t, CompInteger}
      /\ Fits(t, ValueOf(l)) /\ Fits(t, ValueOf(r))
  BY UnifiedMeans
<1>2. outcome = ComparisonOf(l, r)
  BY DEF Applied
<1>3. Left = ValueOf(l) /\ Right = ValueOf(r)
  BY DEF Left, Right
<1> HIDE DEF t, l, r, outcome
<1>4. \/ ComparisonOf(l, r) = [tag |-> "order", order |-> Order(ValueOf(l), ValueOf(r))]
      \/ t # CompInteger /\ ValueOf(l) < 0 /\ ValueOf(r) < 0
      \/ t = CompInteger /\ (ValueOf(l) < 0) # (ValueOf(r) < 0)
  BY <1>1, ComparisonOfExact
<1> QED
  BY <1>2, <1>3, <1>4 DEF t, outcome

LEMMA RecordedBits == Recorded => BitsKept
<1> SUFFICES ASSUME Applied(last.op, last.lhs, last.rhs, last.outcome) PROVE BitsKept
  BY NothingApplied DEF Recorded
<1> DEFINE name == last.op.name
           l == last.lhs
           r == last.rhs
           outcome == last.outcome
<1>1. l \in Operands /\ r \in Operands /\ IsValue(l) /\ IsValue(r)
  BY OperandIs DEF Applied
<1>2. Left = ValueOf(l) /\ Right = ValueOf(r)
  BY DEF Left, Right
<1>3. ASSUME name = "Convert", l.type = CompInteger
      PROVE  LET t == last.op.to
             IN  IF Fits(t, Left) THEN outcome = Value(t, Left % TwoTo[Bits(t)])
                 ELSE (t.signed /\ Left \in -TwoTo[Bits(t)] .. TwoTo[Bits(t)] - 1) \/ outcome = Error("too large")
  <2> DEFINE t == last.op.to
  <2>1. t \in Types /\ outcome = Converted(l, t)
    BY <1>3 DEF Applied
  <2> HIDE DEF l, outcome, t
  <2>2. IF Fits(t, ValueOf(l)) THEN Converted(l, t) = Value(t, ValueOf(l) % TwoTo[Bits(t)])
        ELSE \/ t.signed /\ ValueOf(l) \in -TwoTo[Bits(t)] .. TwoTo[Bits(t)] - 1
             \/ Converted(l, t) = Error("too large")
    BY <1>1, <1>3, <2>1, ConversionKeeps
  <2> QED
    BY <1>2, <2>1, <2>2 DEF t
<1>4. ASSUME name \in {"Left", "Right"}, l.type # CompInteger
      PROVE  IF Right \notin 0 .. Bits(l.type) - 1 THEN outcome.tag = "error"
             ELSE LET t == l.type
                  IN  /\ outcome.tag = "value"
                      /\ name = "Left" /\ Right < ByteBits => outcome.rep = (l.rep * TwoTo[Right]) % TwoTo[Bits(t)]
                      /\ name = "Right" /\ t.bytes = 1 /\ Left >= 0 => ValueOf(outcome) = Left \div TwoTo[Right]
  <2>1. outcome \in Shifted(name, l, r)
    BY <1>4 DEF Applied
  <2> HIDE DEF l, r, outcome, name
  <2>2. IF ValueOf(r) \notin 0 .. Bits(l.type) - 1 THEN outcome.tag = "error"
        ELSE /\ outcome.tag = "value"
             /\ name = "Left" /\ ValueOf(r) < ByteBits =>
                  outcome.rep = (l.rep * TwoTo[ValueOf(r)]) % TwoTo[Bits(l.type)]
             /\ name = "Right" /\ l.type.bytes = 1 /\ ValueOf(l) >= 0 =>
                  ValueOf(outcome) = ValueOf(l) \div TwoTo[ValueOf(r)]
    BY <1>1, <1>4, <2>1, FixedShiftKeeps
  <2> QED
    BY <1>2, <2>2
<1>5. ASSUME name \in {"Left", "Right"}, l.type = CompInteger
      PROVE  IF Right < 0 THEN outcome.tag = "error"
             ELSE /\ name = "Left" /\ Right \in 1 .. WordBits \div 2 =>
                       outcome = Panic \/ ValueOf(outcome) = Left * TwoTo[Right]
                  /\ name = "Right" /\ r.type = CompInteger /\ Right < WordBits /\ Left >= 0 =>
                       ValueOf(outcome) = Left \div TwoTo[Right]
  <2>1. outcome \in Shifted(name, l, r)
    BY <1>5 DEF Applied
  <2> HIDE DEF l, r, outcome, name
  <2>2. IF ValueOf(r) < 0 THEN outcome.tag = "error"
        ELSE /\ name = "Left" /\ ValueOf(r) \in 1 .. WordBits \div 2 =>
                  outcome = Panic \/ ValueOf(outcome) = ValueOf(l) * TwoTo[ValueOf(r)]
             /\ name = "Right" /\ r.type = CompInteger /\ ValueOf(r) < WordBits /\ ValueOf(l) >= 0 =>
                  ValueOf(outcome) = ValueOf(l) \div TwoTo[ValueOf(r)]
    BY <1>1, <1>5, <2>1, CompShiftKeeps
  <2> QED
    BY <1>2, <2>2
<1> QED
  BY <1>3, <1>4, <1>5 DEF BitsKept

LEMMA SpecRecorded == Spec => []Recorded
<1> QED
  BY RecordedInit, RecordedNext, PTL DEF Spec

\* Whatever the sizes of a byte and a word, the fixed types and the operands,
\* an operator of two types that are unified yields the result in the
\* integers, or is refused exactly where the type has it not, but for the
\* corners that ArithmeticExact names.
THEOREM SpecArithmeticExact == Spec => []ArithmeticExact
<1> QED
  BY SpecRecorded, RecordedArithmetic, PTL

\* A comparison orders the values, but for the two cases OrderExact names.
THEOREM SpecOrderExact == Spec => []OrderExact
<1> QED
  BY SpecRecorded, RecordedOrder, PTL

\* Conversions and shifts keep every bit that BitsKept speaks of, or are
\* refused.
THEOREM SpecBitsKept == Spec => []BitsKept
<1> QED
  BY SpecRecorded, RecordedBits, PTL
=============================================================================
