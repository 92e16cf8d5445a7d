------------------------- MODULE ShadowStoreProofs -------------------------
(***************************************************************************)
(* Proofs about the shadow store, for every set of composites, types and   *)
(* values and any number of variables: a block has one owner (StoreInv),   *)
(* and members read what was last stored in them (ReadInv).                *)
(*                                                                         *)
(* The lemmas come in the order of the model: layouts and the bytes of     *)
(* their ranks; stores (Whole), and what each loop of the code makes of    *)
(* one; variables, with a lemma for each action; what is read back.        *)
(***************************************************************************)
EXTENDS ShadowStore, NumberFacts, SequenceTheorems

Types == DOMAIN Metrics

Layout == Seq(Types)

-----------------------------------------------------------------------------
(* Layouts. *)

LEMMA RoundUpFacts ==
  ASSUME NEW offset \in Nat, NEW align \in Nat \ {0}
  PROVE  /\ RoundUp(offset, align) \in Nat /\ RoundUp(offset, align) >= offset
         /\ RoundUp(offset, align) % align = 0
<1> DEFINE n == offset + align - 1
           q == n \div align
           r == n % align
<1>1. n \in Nat
  OBVIOUS
<1>2. n = align * q + r /\ q \in Nat /\ r \in 0 .. align - 1
  BY <1>1, DivMod
<1>3. RoundUp(offset, align) = q * align
  BY DEF RoundUp
<1>4. n = offset + align - 1
  OBVIOUS
<1> HIDE DEF n, q, r
<1>5. q * align = align * q /\ align * q \in Nat /\ (align * q) % align = 0
  <2>1. align \in Nat \ {0} /\ q \in Nat
    BY <1>2
  <2>2. (align * q) % align = 0 /\ align * q \in Nat
    BY <2>1, MultipleMod
  <2> QED
    BY <2>1, <2>2
<1>6. align * q >= offset
  <2> DEFINE p == align * q
  <2>1. p \in Nat /\ n = p + r
    BY <1>2, <1>5
  <2> HIDE DEF p
  <2>2. p >= offset
    BY <1>2, <1>4, <2>1
  <2> QED
    BY <2>2 DEF p
<1> QED
  BY <1>3, <1>5, <1>6

\* Each shadow ends behind the one before it, by at least its size.
LEMMA EndsFacts ==
  ASSUME NEW layout \in Layout
  PROVE  /\ Ends(layout) \in [0 .. Len(layout) -> Nat] /\ Ends(layout)[0] = 0
         /\ \A rank \in 1 .. Len(layout) :
               /\ Metrics[layout[rank]].size \in Nat \ {0}
               /\ Ends(layout)[rank - 1] + Metrics[layout[rank]].size <= Ends(layout)[rank]
<1> DEFINE N == Len(layout)
           F(e, n) == EndAfter(e, layout[n])
           IsRun(f) == f = [n \in 0 .. N |-> IF n = 0 THEN 0 ELSE F(f[n - 1], n)]
           run == CHOOSE f : IsRun(f)
<1>1. N \in Nat /\ \A n \in 1 .. N : layout[n] \in Types
  BY DEF Layout
<1>2. \A n \in 1 .. N : /\ Metrics[layout[n]].size \in Nat \ {0}
                        /\ Metrics[layout[n]].align \in Nat \ {0}
  BY <1>1, SizesAssumption DEF Types
<1>3. \A e \in Nat, n \in 1 .. N : F(e, n) \in Nat /\ e + Metrics[layout[n]].size <= F(e, n)
  <2> SUFFICES ASSUME NEW e \in Nat, NEW n \in 1 .. N
               PROVE  F(e, n) \in Nat /\ e + Metrics[layout[n]].size <= F(e, n)
    OBVIOUS
  <2>1. /\ RoundUp(e, Metrics[layout[n]].align) \in Nat
        /\ RoundUp(e, Metrics[layout[n]].align) >= e
    BY <1>2, RoundUpFacts
  <2> QED
    BY <1>2, <2>1 DEF EndAfter
<1>4. Ends(layout) = run
  BY DEF Ends
<1>5. \E f : IsRun(f)
  <2> DEFINE step == [n \in 1 .. N |-> [e \in Nat |-> F(e, n)]]
  <2>1. step \in [1 .. N -> [Nat -> Nat]] /\ \A n \in 1 .. N, e \in Nat : step[n][e] = F(e, n)
    BY <1>3
  <2> HIDE DEF step, N
  <2>2. PICK g : Iterates(g, Nat, 0, N, step)
    BY <1>1, <2>1, IterateExists
  <2>3. g \in [0 .. N -> Nat] /\ g[0] = 0 /\ \A n \in 1 .. N : g[n] = step[n][g[n - 1]]
    BY <2>2 DEF Iterates
  <2>5. ASSUME NEW n \in 1 .. N PROVE g[n] = F(g[n - 1], n)
    <3>1. g[n - 1] \in Nat /\ g[n] = step[n][g[n - 1]]
      BY <1>1, <2>3
    <3> QED
      BY <2>1, <3>1
  <2>4. IsRun(g)
    BY <1>1, <2>3, <2>5
  <2> QED
    BY <2>4
<1>6. IsRun(run)
  BY <1>5
<1> HIDE DEF run, N
<1> DEFINE S == {n \in 0 .. N : run[n] \in Nat}
<1>7. 0 .. N \subseteq S
  <2>1. S \in SUBSET Nat /\ 0 \in S
    BY <1>1, <1>6
  <2>2. ASSUME NEW n \in 1 .. N, n - 1 \in S PROVE n \in S
    <3>1. run[n - 1] \in Nat /\ run[n] = F(run[n - 1], n)
      BY <1>1, <1>6, <2>2
    <3>2. run[n] \in Nat
      BY <1>3, <3>1
    <3> QED
      BY <1>1, <3>2
  <2> HIDE DEF S
  <2> QED
    BY <1>1, <2>1, <2>2, Increasing
<1>8. run \in [0 .. N -> Nat] /\ run[0] = 0
  BY <1>1, <1>6, <1>7
<1>9. ASSUME NEW n \in 1 .. N PROVE run[n - 1] + Metrics[layout[n]].size <= run[n]
  <2>1. run[n - 1] \in Nat /\ run[n] = F(run[n - 1], n)
    BY <1>1, <1>6, <1>8
  <2> QED
    BY <1>3, <2>1
<1> QED
  BY <1>2, <1>4, <1>8, <1>9 DEF N

LEMMA EndsAscend ==
  ASSUME NEW layout \in Layout, NEW i \in 0 .. Len(layout), NEW j \in 0 .. Len(layout), i <= j
  PROVE  Ends(layout)[i] <= Ends(layout)[j]
<1> DEFINE N == Len(layout) - i
           end == Ends(layout)
           S == {n \in 0 .. N : end[i] <= end[i + n]}
<1>1. Len(layout) \in Nat /\ N \in Nat
  BY DEF Layout
<1>2. /\ end \in [0 .. Len(layout) -> Nat]
      /\ \A rank \in 1 .. Len(layout) : end[rank - 1] <= end[rank]
  <2> SUFFICES ASSUME NEW rank \in 1 .. Len(layout)
               PROVE  end \in [0 .. Len(layout) -> Nat] /\ end[rank - 1] <= end[rank]
    BY EndsFacts, <1>1
  <2>1. /\ end \in [0 .. Len(layout) -> Nat] /\ Metrics[layout[rank]].size \in Nat
        /\ end[rank - 1] + Metrics[layout[rank]].size <= end[rank]
    BY EndsFacts
  <2>2. end[rank - 1] \in Nat /\ end[rank] \in Nat
    BY <1>1, <2>1
  <2> HIDE DEF end
  <2> QED
    BY <2>1, <2>2
<1> HIDE DEF end
<1>3. S \in SUBSET Nat /\ 0 \in S
  BY <1>1, <1>2
<1>4. ASSUME NEW n \in 1 .. N, n - 1 \in S PROVE n \in S
  <2>1. end[i] <= end[i + (n - 1)] /\ i + (n - 1) = (i + n) - 1 /\ i + n \in 1 .. Len(layout)
    BY <1>1, <1>4
  <2>2. end[(i + n) - 1] <= end[i + n]
    BY <1>2, <2>1
  <2>3. end[i] \in Nat /\ end[(i + n) - 1] \in Nat /\ end[i + n] \in Nat
    <3>1. i \in 0 .. Len(layout) /\ (i + n) - 1 \in 0 .. Len(layout) /\ i + n \in 0 .. Len(layout)
      BY <1>1, <2>1
    <3> QED
      BY <1>2, <3>1
  <2>4. end[i] <= end[i + n]
    BY <2>1, <2>2, <2>3
  <2> QED
    BY <2>4
<1> HIDE DEF S
<1>5. 0 .. N \subseteq S
  BY <1>1, <1>3, <1>4, Increasing
<1>6. j - i \in S /\ i + (j - i) = j
  BY <1>1, <1>5
<1> QED
  BY <1>6 DEF S, end

\* The shadows of one layout are inside its block and apart from each other.
LEMMA BytesFacts ==
  ASSUME NEW layout \in Layout
  PROVE  /\ \A i \in DOMAIN layout : Bytes(layout, i) \subseteq 0 .. SizeOf(layout) - 1
         /\ \A i, j \in DOMAIN layout : i # j => Bytes(layout, i) \cap Bytes(layout, j) = {}
<1> DEFINE N == Len(layout)
           end == Ends(layout)
           size(i) == Metrics[layout[i]].size
<1>1. N \in Nat /\ DOMAIN layout = 1 .. N
  BY DEF Layout
<1>2. /\ end \in [0 .. N -> Nat]
      /\ \A i \in 1 .. N : size(i) \in Nat \ {0} /\ end[i - 1] + size(i) <= end[i]
  BY EndsFacts
<1>3. \A i, j \in 0 .. N : i <= j => end[i] <= end[j]
  BY EndsAscend
<1>4. SizeOf(layout) = end[N] /\ \A i \in DOMAIN layout : Bytes(layout, i) = end[i] - size(i) .. end[i] - 1
  BY DEF SizeOf, Bytes
<1> HIDE DEF N, end, size
<1>5. ASSUME NEW i \in DOMAIN layout PROVE Bytes(layout, i) \subseteq 0 .. SizeOf(layout) - 1
  <2>1. /\ i \in 1 .. N /\ i - 1 \in 0 .. N /\ i \in 0 .. N /\ N \in 0 .. N
    BY <1>1
  <2>2. end[i - 1] \in Nat /\ end[i] \in Nat /\ end[N] \in Nat /\ size(i) \in Nat
    BY <1>2, <2>1
  <2>3. end[i - 1] + size(i) <= end[i] /\ end[i] <= end[N]
    BY <1>1, <1>2, <1>3, <2>1
  <2> QED
    BY <1>4, <2>2, <2>3
<1>6. ASSUME NEW i \in DOMAIN layout, NEW j \in DOMAIN layout, i < j
      PROVE  Bytes(layout, i) \cap Bytes(layout, j) = {}
  <2>1. i \in 1 .. N /\ j \in 1 .. N /\ i \in 0 .. N /\ j - 1 \in 0 .. N /\ j \in 0 .. N /\ i <= j - 1
    BY <1>1, <1>6
  <2>2. end[i] \in Nat /\ end[j - 1] \in Nat /\ end[j] \in Nat /\ size(j) \in Nat /\ size(i) \in Nat
    BY <1>2, <2>1
  <2>3. end[j - 1] + size(j) <= end[j] /\ end[i] <= end[j - 1]
    BY <1>1, <1>2, <1>3, <2>1
  <2> QED
    BY <1>4, <2>2, <2>3
<1>7. \A i, j \in DOMAIN layout : i # j => i < j \/ j < i
  BY <1>1
<1> QED
  BY <1>5, <1>6, <1>7

-----------------------------------------------------------------------------
(* The layouts of a composite. *)

LEMMA CompositeFacts ==
  ASSUME NEW name \in DOMAIN Composites
  PROVE  /\ Composites[name].size \in Nat /\ Composites[name].align \in Nat \ {0}
         /\ Composites[name].shadows \in Seq([offset : 0 .. Composites[name].size, type : Types])
         /\ DOMAIN Composites[name].shadows = 1 .. Len(Composites[name].shadows)
         /\ Len(Composites[name].shadows) \in Nat
         /\ \A m \in DOMAIN Composites[name].shadows :
               /\ Composites[name].shadows[m].offset \in 0 .. Composites[name].size
               /\ Composites[name].shadows[m].type \in Types
<1>1. /\ Composites[name].size \in Nat /\ Composites[name].align \in Nat \ {0}
      /\ Composites[name].shadows \in Seq([offset : 0 .. Composites[name].size, type : Types])
  BY MembersAssumption DEF Types
<1> DEFINE size == Composites[name].size
           shadows == Composites[name].shadows
           Member == [offset : 0 .. size, type : Types]
<1>2. shadows \in Seq(Member)
  BY <1>1
<1> HIDE DEF size, shadows, Member
<1>3. /\ DOMAIN shadows = 1 .. Len(shadows) /\ Len(shadows) \in Nat
      /\ \A m \in DOMAIN shadows : shadows[m] \in Member
  BY <1>2
<1> USE DEF Member
<1>4. \A m \in DOMAIN shadows : shadows[m].offset \in 0 .. size /\ shadows[m].type \in Types
  BY <1>3
<1> QED
  BY <1>1, <1>3, <1>4 DEF size, shadows

LEMMA AtFacts ==
  ASSUME NEW name \in DOMAIN Composites, NEW offset
  PROVE  LET shadows == Composites[name].shadows
             at == At(Composites[name], offset)
         IN  /\ at \in [0 .. Len(shadows) -> Layout] /\ at[0] = <<>>
             /\ \A m \in 1 .. Len(shadows) :
                   at[m] = Join(at[m - 1], shadows[m], offset)
<1> DEFINE shadows == Composites[name].shadows
           N == Len(shadows)
           F(t, n) == Join(t, shadows[n], offset)
           IsRun(f) == f = [n \in 0 .. N |-> IF n = 0 THEN <<>> ELSE F(f[n - 1], n)]
           run == CHOOSE f : IsRun(f)
<1>1. N \in Nat /\ \A n \in 1 .. N : shadows[n].type \in Types
  BY CompositeFacts
<1>2. \A t \in Layout, n \in 1 .. N : F(t, n) \in Layout
  BY <1>1 DEF Layout, Join
<1>3. <<>> \in Layout
  BY DEF Layout
<1>4. At(Composites[name], offset) = run
  BY DEF At
<1> HIDE DEF shadows, N
<1>5. \E f : IsRun(f)
  <2> DEFINE step == [n \in 1 .. N |-> [t \in Layout |-> F(t, n)]]
  <2>1. step \in [1 .. N -> [Layout -> Layout]] /\ \A n \in 1 .. N, t \in Layout : step[n][t] = F(t, n)
    BY <1>2
  <2> HIDE DEF step
  <2>2. PICK g : Iterates(g, Layout, <<>>, N, step)
    BY <1>1, <1>3, <2>1, IterateExists
  <2>3. g \in [0 .. N -> Layout] /\ g[0] = <<>> /\ \A n \in 1 .. N : g[n] = step[n][g[n - 1]]
    BY <2>2 DEF Iterates
  <2>4. ASSUME NEW n \in 1 .. N PROVE g[n] = F(g[n - 1], n)
    <3>1. g[n - 1] \in Layout /\ g[n] = step[n][g[n - 1]]
      BY <1>1, <2>3
    <3> QED
      BY <2>1, <3>1
  <2>5. IsRun(g)
    BY <1>1, <2>3, <2>4
  <2> QED
    BY <2>5
<1>6. IsRun(run)
  BY <1>5
<1> HIDE DEF run
<1>7. \A n \in 1 .. N : run[n] = F(run[n - 1], n)
  BY <1>1, <1>6
<1>8. DOMAIN run = 0 .. N /\ run[0] = <<>> /\ run = [n \in 0 .. N |-> run[n]]
  BY <1>1, <1>6
<1> HIDE DEF IsRun
<1> DEFINE S == {n \in 0 .. N : run[n] \in Layout}
<1>9. 0 .. N \subseteq S
  <2>1. S \in SUBSET Nat /\ 0 \in S
    BY <1>1, <1>3, <1>8
  <2>2. ASSUME NEW n \in 1 .. N, n - 1 \in S PROVE n \in S
    <3>1. run[n - 1] \in Layout /\ run[n] = F(run[n - 1], n)
      BY <1>1, <1>7, <2>2
    <3>2. run[n] \in Layout
      BY <1>2, <3>1
    <3> QED
      BY <1>1, <3>2
  <2> HIDE DEF S
  <2> QED
    BY <1>1, <2>1, <2>2, Increasing
<1>10. run \in [0 .. N -> Layout]
  BY <1>8, <1>9
<1> QED
  BY <1>4, <1>7, <1>8, <1>10 DEF N, shadows

LEMMA AtGrows ==
  ASSUME NEW name \in DOMAIN Composites, NEW offset,
         NEW i \in 0 .. Len(Composites[name].shadows),
         NEW j \in 0 .. Len(Composites[name].shadows), i <= j
  PROVE  Len(At(Composites[name], offset)[i]) <= Len(At(Composites[name], offset)[j])
<1> DEFINE shadows == Composites[name].shadows
           N == Len(shadows)
           at == At(Composites[name], offset)
           L == j - i
           S == {n \in 0 .. L : Len(at[i]) <= Len(at[i + n])}
<1>1. N \in Nat /\ L \in Nat
  BY CompositeFacts
<1>2. /\ at \in [0 .. N -> Layout]
      /\ \A m \in 1 .. N : at[m] = IF shadows[m].offset = offset THEN Append(at[m - 1], shadows[m].type)
                                   ELSE at[m - 1]
  BY AtFacts DEF Join
<1> HIDE DEF at, shadows
<1>3. \A m \in 0 .. N : Len(at[m]) \in Nat
  BY <1>2 DEF Layout
<1>4. ASSUME NEW m \in 1 .. N PROVE Len(at[m - 1]) <= Len(at[m])
  <2>1. m - 1 \in 0 .. N
    BY <1>1
  <2>2. at[m - 1] \in Layout
    BY <1>2, <2>1
  <2>3. Len(Append(at[m - 1], shadows[m].type)) = Len(at[m - 1]) + 1
    BY <2>2 DEF Layout
  <2>4. Len(at[m - 1]) \in Nat
    BY <1>3, <2>1
  <2>5. at[m] = at[m - 1] \/ at[m] = Append(at[m - 1], shadows[m].type)
    BY <1>2
  <2> QED
    BY <2>3, <2>4, <2>5
<1>5. i \in 0 .. N /\ j \in 0 .. N
  BY DEF shadows
<1> HIDE DEF N
<1>6. S \in SUBSET Nat /\ 0 \in S
  BY <1>1, <1>3, <1>5
<1>7. ASSUME NEW n \in 1 .. L, n - 1 \in S PROVE n \in S
  <2>1. Len(at[i]) <= Len(at[i + (n - 1)]) /\ i + (n - 1) = (i + n) - 1 /\ i + n \in 1 .. N
    BY <1>1, <1>5, <1>7
  <2>2. Len(at[(i + n) - 1]) <= Len(at[i + n])
    BY <1>4, <2>1
  <2>3. Len(at[i]) \in Nat /\ Len(at[(i + n) - 1]) \in Nat /\ Len(at[i + n]) \in Nat
    BY <1>1, <1>3, <1>5, <2>1
  <2>4. Len(at[i]) <= Len(at[i + n])
    BY <2>1, <2>2, <2>3
  <2> QED
    BY <2>4
<1> HIDE DEF S
<1>8. 0 .. L \subseteq S
  BY <1>1, <1>6, <1>7, Increasing
<1>9. j - i \in S /\ i + (j - i) = j
  BY <1>1, <1>5, <1>8 DEF L
<1> QED
  BY <1>9 DEF S, at

\* The ranks of the shadows at one offset differ and are those of its layout.
LEMMA RankFacts ==
  ASSUME NEW name \in DOMAIN Composites, NEW offset
  PROVE  LET c == Composites[name]
             Rank(m) == Len(At(c, offset)[m])
             Ours == {m \in DOMAIN c.shadows : c.shadows[m].offset = offset}
         IN  /\ LayoutAt(c, offset) \in Layout
             /\ \A m \in Ours : Rank(m) \in DOMAIN LayoutAt(c, offset)
             /\ \A i, j \in Ours : i # j => Rank(i) # Rank(j)
<1> DEFINE c == Composites[name]
           N == Len(c.shadows)
           at == At(c, offset)
           Rank(m) == Len(at[m])
           Ours == {m \in DOMAIN c.shadows : c.shadows[m].offset = offset}
<1>1. N \in Nat /\ DOMAIN c.shadows = 1 .. N
  BY CompositeFacts
<1>2. /\ at \in [0 .. N -> Layout]
      /\ \A m \in 1 .. N : at[m] = IF c.shadows[m].offset = offset THEN Append(at[m - 1], c.shadows[m].type)
                                   ELSE at[m - 1]
  BY AtFacts DEF Join
<1>3. \A i, j \in 0 .. N : i <= j => Rank(i) <= Rank(j)
  BY AtGrows
<1>4. LayoutAt(c, offset) = at[N]
  BY DEF LayoutAt
<1> HIDE DEF at
<1>5. \A m \in 0 .. N : Rank(m) \in Nat
  BY <1>2 DEF Layout
<1>6. ASSUME NEW m \in Ours PROVE m \in 1 .. N /\ m - 1 \in 0 .. N /\ Rank(m) = Rank(m - 1) + 1
  <2>1. m \in 1 .. N /\ m - 1 \in 0 .. N
    BY <1>1
  <2>2. at[m - 1] \in Layout /\ at[m] = Append(at[m - 1], c.shadows[m].type)
    BY <1>2, <2>1
  <2> QED
    BY <2>1, <2>2 DEF Layout
<1>7. at[N] \in Layout /\ DOMAIN at[N] = 1 .. Rank(N)
  BY <1>1, <1>2 DEF Layout
<1> HIDE DEF N, c
<1>8. ASSUME NEW m \in Ours PROVE Rank(m) \in DOMAIN at[N]
  <2>1. m \in 1 .. N /\ m - 1 \in 0 .. N /\ Rank(m) = Rank(m - 1) + 1
    BY <1>6
  <2>2. m \in 0 .. N /\ N \in 0 .. N /\ m <= N
    BY <1>1, <2>1
  <2>3. Rank(m) <= Rank(N) /\ Rank(m) \in Nat /\ Rank(N) \in Nat /\ Rank(m - 1) \in Nat
    BY <1>3, <1>5, <2>1, <2>2
  <2> HIDE DEF Rank
  <2> QED
    BY <1>7, <2>1, <2>3
<1>9. ASSUME NEW i \in Ours, NEW j \in Ours, i < j PROVE Rank(i) # Rank(j)
  <2>1. i \in 1 .. N /\ j \in 1 .. N /\ j - 1 \in 0 .. N /\ Rank(j) = Rank(j - 1) + 1
    BY <1>6
  <2>2. i \in 0 .. N /\ i <= j - 1
    BY <1>1, <1>9, <2>1
  <2>3. Rank(i) <= Rank(j - 1) /\ Rank(i) \in Nat /\ Rank(j - 1) \in Nat
    BY <1>3, <1>5, <2>1, <2>2
  <2> HIDE DEF Rank
  <2> QED
    BY <2>1, <2>3
<1>10. \A i, j \in Ours : i # j => i < j \/ j < i
  BY <1>1
<1>11. \A i, j \in Ours : i # j => Rank(i) # Rank(j)
  BY <1>9, <1>10
<1> QED
  BY <1>4, <1>7, <1>8, <1>11 DEF at, c

-----------------------------------------------------------------------------
(* Interning. *)

\* The layouts of g are those of f and perhaps more.
Extends(f, g) == Len(f) <= Len(g) /\ \A l \in DOMAIN f : g[l] = f[l]

LEMMA InternKeeps ==
  ASSUME NEW known \in Seq(Layout), NEW layout \in Layout
  PROVE  /\ Intern(known, layout) \in Seq(Layout) /\ Extends(known, Intern(known, layout))
         /\ layout # <<>> => \E l \in DOMAIN Intern(known, layout) : Intern(known, layout)[l] = layout
<1> HIDE DEF Layout
<1>1. Len(known) \in Nat /\ DOMAIN known = 1 .. Len(known)
  OBVIOUS
<1>2. CASE layout = <<>> \/ Contains(known, layout)
  <2>1. Intern(known, layout) = known
    BY <1>2 DEF Intern
  <2> QED
    BY <1>1, <1>2, <2>1 DEF Extends, Contains
<1>3. CASE ~(layout = <<>> \/ Contains(known, layout))
  <2>1. Intern(known, layout) = Append(known, layout)
    BY <1>3 DEF Intern
  <2>2. /\ Append(known, layout) \in Seq(Layout) /\ Len(Append(known, layout)) = Len(known) + 1
        /\ Append(known, layout)[Len(known) + 1] = layout
        /\ \A l \in 1 .. Len(known) : Append(known, layout)[l] = known[l]
    OBVIOUS
  <2>3. DOMAIN Append(known, layout) = 1 .. Len(known) + 1
    BY <2>2
  <2> HIDE DEF Intern
  <2> QED
    BY <1>1, <2>1, <2>2, <2>3 DEF Extends
<1> QED
  BY <1>2, <1>3

LEMMA ExtendsTrans ==
  ASSUME NEW f \in Seq(Layout), NEW g \in Seq(Layout), NEW h \in Seq(Layout), Extends(f, g), Extends(g, h)
  PROVE  Extends(f, h)
<1> HIDE DEF Layout
<1>1. /\ Len(f) \in Nat /\ Len(g) \in Nat /\ Len(h) \in Nat
      /\ DOMAIN f = 1 .. Len(f) /\ DOMAIN g = 1 .. Len(g)
  OBVIOUS
<1> QED
  BY <1>1 DEF Extends

\* Every layout of a sealed composite is interned, and the others stay.
LEMMA InternAllFacts ==
  ASSUME NEW name \in DOMAIN Composites, NEW known \in Seq(Layout)
  PROVE  LET c == Composites[name]
             grown == InternAll(known, c)
         IN  /\ grown \in Seq(Layout) /\ Extends(known, grown)
             /\ \A offset \in 0 .. c.size : LayoutAt(c, offset) # <<>> =>
                   \E l \in DOMAIN grown : grown[l] = LayoutAt(c, offset)
<1> DEFINE c == Composites[name]
           N == c.size + 1
           X == Seq(Layout)
           Of(n) == LayoutAt(c, n - 1)
           F(k, n) == Intern(k, Of(n))
           IsRun(f) == f = [n \in 0 .. N |-> IF n = 0 THEN known ELSE F(f[n - 1], n)]
           run == CHOOSE f : IsRun(f)
<1>1. c.size \in Nat /\ N \in Nat
  <2>1. c.size \in Nat
    BY CompositeFacts
  <2> QED
    BY <2>1
<1>2. \A n \in 1 .. N : Of(n) \in Layout
  BY RankFacts
<1>3. InternAll(known, c) = run[N]
  BY DEF InternAll
<1> HIDE DEF N, c, Layout, Of
<1>4. \A k \in X, n \in 1 .. N :
         /\ F(k, n) \in X /\ Extends(k, F(k, n))
         /\ Of(n) # <<>> => \E l \in DOMAIN F(k, n) : F(k, n)[l] = Of(n)
  BY <1>2, InternKeeps
<1> HIDE DEF X
<1>5. known \in X
  BY DEF X
<1>6. \E f : IsRun(f)
  <2> DEFINE step == [n \in 1 .. N |-> [k \in X |-> F(k, n)]]
  <2>1. step \in [1 .. N -> [X -> X]] /\ \A n \in 1 .. N, k \in X : step[n][k] = F(k, n)
    BY <1>4
  <2> HIDE DEF step
  <2>2. PICK g : Iterates(g, X, known, N, step)
    BY <1>1, <1>5, <2>1, IterateExists
  <2>3. g \in [0 .. N -> X] /\ g[0] = known /\ \A n \in 1 .. N : g[n] = step[n][g[n - 1]]
    BY <2>2 DEF Iterates
  <2>4. ASSUME NEW n \in 1 .. N PROVE g[n] = F(g[n - 1], n)
    <3>1. g[n - 1] \in X /\ g[n] = step[n][g[n - 1]]
      BY <1>1, <2>3
    <3> QED
      BY <2>1, <3>1
  <2>5. IsRun(g)
    BY <1>1, <2>3, <2>4
  <2> QED
    BY <2>5
<1>7. IsRun(run)
  BY <1>6
<1> HIDE DEF run
<1>8. run[0] = known /\ \A n \in 1 .. N : run[n] = F(run[n - 1], n)
  BY <1>1, <1>7
<1> HIDE DEF IsRun, F
<1> DEFINE Has(k, n) == Of(n) # <<>> => \E l \in DOMAIN k : k[l] = Of(n)
           P(n) == run[n] \in X /\ Extends(known, run[n]) /\ \A i \in 1 .. n : Has(run[n], i)
           S == {n \in 0 .. N : P(n)}
<1>9. ASSUME NEW k \in X, NEW m \in X, Extends(k, m), NEW i, Has(k, i)
      PROVE  Has(m, i)
  <2>1. DOMAIN k = 1 .. Len(k) /\ DOMAIN m = 1 .. Len(m) /\ Len(k) \in Nat /\ Len(m) \in Nat
    BY DEF X
  <2> QED
    BY <1>9, <2>1 DEF Extends
<1>10. 0 .. N \subseteq S
  <2>1. Extends(known, known)
    BY <1>5 DEF Extends, X
  <2>2. S \in SUBSET Nat /\ 0 \in S
    BY <1>1, <1>5, <1>8, <2>1
  <2>3. ASSUME NEW n \in 1 .. N, n - 1 \in S PROVE n \in S
    <3>1. P(n - 1) /\ run[n] = F(run[n - 1], n)
      BY <1>8, <2>3
    <3>2. run[n] \in X /\ Extends(run[n - 1], run[n]) /\ Has(run[n], n)
      BY <1>4, <3>1
    <3>3. Extends(known, run[n])
      BY <1>5, <3>1, <3>2, ExtendsTrans DEF X
    <3>4. ASSUME NEW i \in 1 .. n PROVE Has(run[n], i)
      <4>1. i = n \/ i \in 1 .. n - 1
        BY <1>1
      <4>2. CASE i \in 1 .. n - 1
        <5>1. Has(run[n - 1], i)
          BY <3>1, <4>2
        <5> HIDE DEF Has
        <5> QED
          BY <1>9, <3>1, <3>2, <5>1
      <4> QED
        BY <3>2, <4>1, <4>2
    <3> QED
      BY <1>1, <3>2, <3>3, <3>4
  <2> HIDE DEF S
  <2> QED
    BY <1>1, <2>2, <2>3, Increasing
<1>11. P(N)
  BY <1>1, <1>10
<1>12. ASSUME NEW offset \in 0 .. c.size PROVE Has(run[N], offset + 1) /\ Of(offset + 1) = LayoutAt(c, offset)
  <2>1. offset + 1 \in 1 .. N /\ (offset + 1) - 1 = offset
    BY <1>1 DEF N
  <2> QED
    BY <1>11, <2>1 DEF Of
<1> QED
  BY <1>3, <1>11, <1>12 DEF X, c

\* The places of a composite's shadows: those at one offset share a layout and
\* differ in rank.
Placed(known, name, place) ==
  LET shadows == Composites[name].shadows
  IN  /\ name \in DOMAIN Composites
      /\ place \in [DOMAIN shadows -> [layout : Nat, rank : Nat]]
      /\ \A m \in DOMAIN shadows : /\ place[m].layout \in DOMAIN known
                                   /\ place[m].rank \in DOMAIN known[place[m].layout]
      /\ \A i, j \in DOMAIN shadows : shadows[i].offset = shadows[j].offset =>
            /\ place[i].layout = place[j].layout
            /\ i # j => place[i].rank # place[j].rank

LEMMA SealPlaces ==
  ASSUME NEW name \in DOMAIN Composites, NEW known \in Seq(Layout)
  PROVE  LET c == Composites[name]
             grown == InternAll(known, c)
         IN  /\ grown \in Seq(Layout) /\ Extends(known, grown)
             /\ Placed(grown, name, [m \in DOMAIN c.shadows |-> PlaceIn(grown, c, m)])
<1> DEFINE c == Composites[name]
           grown == InternAll(known, c)
           Rank(m) == Len(At(c, c.shadows[m].offset)[m])
           Of(m) == LayoutAt(c, c.shadows[m].offset)
           ids == [m \in DOMAIN c.shadows |-> IdOf(grown, Of(m))]
           place == [m \in DOMAIN c.shadows |-> PlaceIn(grown, c, m)]
<1>1. /\ grown \in Seq(Layout) /\ Extends(known, grown)
      /\ \A offset \in 0 .. c.size : LayoutAt(c, offset) # <<>> =>
            \E l \in DOMAIN grown : grown[l] = LayoutAt(c, offset)
  BY InternAllFacts
<1>2. \A m \in DOMAIN c.shadows : c.shadows[m].offset \in 0 .. c.size
  BY CompositeFacts
<1>3. ASSUME NEW m \in DOMAIN c.shadows PROVE Rank(m) \in DOMAIN Of(m) /\ Of(m) \in Layout
  BY RankFacts
<1>4. ASSUME NEW i \in DOMAIN c.shadows, NEW j \in DOMAIN c.shadows, i # j,
             c.shadows[i].offset = c.shadows[j].offset
      PROVE  Rank(i) # Rank(j)
  BY <1>4, RankFacts
<1>5. \A m \in DOMAIN c.shadows :
         place[m] = [layout |-> ids[m], rank |-> Rank(m)]
  BY DEF PlaceIn
<1>6. \A i, j \in DOMAIN c.shadows : c.shadows[i].offset = c.shadows[j].offset => ids[i] = ids[j]
  OBVIOUS
<1>7. \A m \in DOMAIN c.shadows : \E l \in DOMAIN grown : grown[l] = Of(m)
  <2> SUFFICES ASSUME NEW m \in DOMAIN c.shadows PROVE \E l \in DOMAIN grown : grown[l] = Of(m)
    OBVIOUS
  <2>1. Of(m) # <<>>
    BY <1>3
  <2> QED
    BY <1>1, <1>2, <2>1
<1>8. DOMAIN place = DOMAIN c.shadows /\ place = [m \in DOMAIN c.shadows |-> place[m]]
  OBVIOUS
<1>9. \A m \in DOMAIN c.shadows : Rank(m) \in Nat
  BY <1>3 DEF Layout
<1>10. DOMAIN grown \subseteq Nat
  BY <1>1
<1>14. \A m \in DOMAIN c.shadows : ids[m] \in DOMAIN grown /\ grown[ids[m]] = Of(m)
  BY <1>7 DEF IdOf
<1> HIDE DEF c, grown, Rank, Of, ids, place
<1>11. \A m \in DOMAIN c.shadows : /\ place[m] \in [layout : Nat, rank : Nat] /\ place[m].rank = Rank(m)
                                   /\ place[m].layout \in DOMAIN grown /\ grown[place[m].layout] = Of(m)
  <2> SUFFICES ASSUME NEW m \in DOMAIN c.shadows
               PROVE  /\ place[m] \in [layout : Nat, rank : Nat] /\ place[m].rank = Rank(m)
                      /\ place[m].layout \in DOMAIN grown /\ grown[place[m].layout] = Of(m)
    OBVIOUS
  <2>1. ids[m] \in DOMAIN grown /\ grown[ids[m]] = Of(m)
    BY <1>14
  <2>2. place[m] = [layout |-> ids[m], rank |-> Rank(m)]
    BY <1>5
  <2> QED
    BY <1>9, <1>10, <2>1, <2>2
<1>12. \A i, j \in DOMAIN c.shadows : c.shadows[i].offset = c.shadows[j].offset =>
          place[i].layout = place[j].layout
  <2>1. ASSUME NEW m \in DOMAIN c.shadows PROVE place[m].layout = ids[m]
    <3>1. place[m] = [layout |-> ids[m], rank |-> Rank(m)]
      BY <1>5
    <3> QED
      BY <3>1
  <2> QED
    BY <1>6, <2>1
<1>13. place \in [DOMAIN c.shadows -> [layout : Nat, rank : Nat]]
  BY <1>8, <1>11
<1>15. Placed(grown, name, place)
  BY <1>3, <1>4, <1>11, <1>12, <1>13 DEF Placed, c
<1> QED
  BY <1>1, <1>15 DEF c, grown, place

LEMMA PlacedExtends ==
  ASSUME NEW f \in Seq(Layout), NEW g \in Seq(Layout), Extends(f, g), NEW name, NEW place, Placed(f, name, place)
  PROVE  Placed(g, name, place)
<1> HIDE DEF Layout
<1>1. DOMAIN f \subseteq DOMAIN g /\ \A l \in DOMAIN f : g[l] = f[l]
  <2>1. DOMAIN f = 1 .. Len(f) /\ DOMAIN g = 1 .. Len(g) /\ Len(f) \in Nat /\ Len(g) \in Nat
    OBVIOUS
  <2> QED
    BY <2>1 DEF Extends
<1> QED
  BY <1>1 DEF Placed

-----------------------------------------------------------------------------
(* Stores. *)

Block == UNION {[0 .. n - 1 -> Values \cup {Uninit}] : n \in Nat}

Entry == [layout : Nat, block : Nat]

Entries == UNION {[A -> Entry] : A \in SUBSET Nat}

Stores == [layouts : Seq(Layout), entries : Entries, blocks : Seq(Block)]

\* What is found at an address.
Bits(s, a) == s.blocks[s.entries[a].block]

\* A store whose blocks have one owner each, and its size.
Whole(s) ==
  /\ s \in Stores
  /\ \A a \in DOMAIN s.entries :
        /\ s.entries[a].layout \in DOMAIN s.layouts /\ s.entries[a].block \in DOMAIN s.blocks
        /\ DOMAIN Bits(s, a) = 0 .. SizeOf(s.layouts[s.entries[a].layout]) - 1
  /\ \A a, b \in DOMAIN s.entries : a # b => s.entries[a].block # s.entries[b].block

LEMMA BlockFacts == \A n \in Nat : [b \in 0 .. n - 1 |-> Uninit] \in Block
BY DEF Block

LEMMA SizeFacts ==
  ASSUME NEW layout \in Layout
  PROVE  SizeOf(layout) \in Nat
<1>1. Len(layout) \in Nat
  BY DEF Layout
<1> QED
  BY <1>1, EndsFacts DEF SizeOf

LEMMA StoreFacts ==
  ASSUME NEW s, s \in Stores
  PROVE  /\ s.layouts \in Seq(Layout) /\ s.blocks \in Seq(Block) /\ Len(s.blocks) \in Nat
         /\ DOMAIN s.blocks = 1 .. Len(s.blocks) /\ \A k \in DOMAIN s.blocks : s.blocks[k] \in Block
         /\ DOMAIN s.entries \in SUBSET Nat /\ s.entries \in [DOMAIN s.entries -> Entry]
         /\ s = [layouts |-> s.layouts, entries |-> s.entries, blocks |-> s.blocks]
<1>1. /\ s.layouts \in Seq(Layout) /\ s.entries \in Entries /\ s.blocks \in Seq(Block)
      /\ s = [layouts |-> s.layouts, entries |-> s.entries, blocks |-> s.blocks]
  BY DEF Stores
<1>2. DOMAIN s.entries \in SUBSET Nat /\ s.entries \in [DOMAIN s.entries -> Entry]
  <2> DEFINE e == s.entries
  <2>1. PICK A \in SUBSET Nat : e \in [A -> Entry]
    BY <1>1 DEF Entries
  <2> HIDE DEF e
  <2>2. DOMAIN e \in SUBSET Nat /\ e \in [DOMAIN e -> Entry]
    BY <2>1
  <2> QED
    BY <2>2 DEF e
<1>3. \A k \in DOMAIN s.blocks : s.blocks[k] \in Block
  <2> DEFINE k == s.blocks
  <2> HIDE DEF k
  <2>1. k \in Seq(Block) => \A i \in DOMAIN k : k[i] \in Block
    OBVIOUS
  <2> QED
    BY <1>1, <2>1 DEF k
<1> QED
  BY <1>1, <1>2, <1>3

\* An entry that is found or made has the layout asked for; the others, and all
\* blocks there were, stay.
LEMMA WithEntryFacts ==
  ASSUME NEW s, Whole(s), NEW a \in Nat, NEW l \in DOMAIN s.layouts
  PROVE  LET t == WithEntry(s, a, l)
         IN  /\ Whole(t) /\ t.layouts = s.layouts
             /\ HasEntry(s, a, l) => t = s
             /\ DOMAIN t.entries = DOMAIN s.entries \cup {a} /\ t.entries[a].layout = l
             /\ \A b \in DOMAIN s.entries : b # a => t.entries[b] = s.entries[b]
             /\ \A k \in DOMAIN s.blocks : k \in DOMAIN t.blocks /\ t.blocks[k] = s.blocks[k]
<1> DEFINE t == WithEntry(s, a, l)
           N == Len(s.blocks)
           entry == [layout |-> l, block |-> N + 1]
           block == [b \in 0 .. SizeOf(s.layouts[l]) - 1 |-> Uninit]
<1>1. /\ s.layouts \in Seq(Layout) /\ s.blocks \in Seq(Block) /\ N \in Nat
      /\ DOMAIN s.blocks = 1 .. N /\ DOMAIN s.entries \in SUBSET Nat
      /\ s.entries \in [DOMAIN s.entries -> Entry]
      /\ s = [layouts |-> s.layouts, entries |-> s.entries, blocks |-> s.blocks]
  BY StoreFacts DEF Whole
<1>2. CASE HasEntry(s, a, l)
  <2>1. t = s
    BY <1>2 DEF WithEntry
  <2> QED
    BY <1>2, <2>1 DEF HasEntry
<1>3. CASE ~HasEntry(s, a, l)
  <2>1. t.layouts = s.layouts /\ t.entries = Put(s.entries, a, entry) /\ t.blocks = Append(s.blocks, block)
    BY <1>1, <1>3 DEF WithEntry
  <2>2. t = [layouts |-> s.layouts, entries |-> Put(s.entries, a, entry), blocks |-> Append(s.blocks, block)]
    BY <1>1, <1>3 DEF WithEntry
  <2>3. l \in Nat /\ s.layouts[l] \in Layout
    BY <1>1
  <2>4. block \in Block /\ DOMAIN block = 0 .. SizeOf(s.layouts[l]) - 1
    BY <2>3, SizeFacts, BlockFacts
  <2>5. entry \in Entry /\ entry.layout = l /\ entry.block = N + 1
    BY <1>1, <2>3 DEF Entry
  <2> HIDE DEF t, block, entry, N
  <2>6. /\ t.blocks \in Seq(Block) /\ DOMAIN t.blocks = 1 .. N + 1 /\ t.blocks[N + 1] = block
        /\ \A k \in 1 .. N : t.blocks[k] = s.blocks[k]
    <3> DEFINE bs == s.blocks
    <3>1. bs \in Seq(Block) /\ Len(bs) = N
      BY <1>1 DEF N
    <3> HIDE DEF bs
    <3>2. /\ Append(bs, block) \in Seq(Block) /\ DOMAIN Append(bs, block) = 1 .. N + 1
          /\ Append(bs, block)[N + 1] = block /\ \A k \in 1 .. N : Append(bs, block)[k] = bs[k]
      BY <2>4, <3>1
    <3> QED
      BY <2>1, <3>2 DEF bs
  <2>7. /\ DOMAIN t.entries = DOMAIN s.entries \cup {a} /\ t.entries[a] = entry
        /\ \A b \in DOMAIN s.entries : b # a => t.entries[b] = s.entries[b]
    <3> DEFINE e == s.entries
    <3>1. /\ DOMAIN Put(e, a, entry) = DOMAIN e \cup {a} /\ Put(e, a, entry)[a] = entry
          /\ \A b \in DOMAIN e : b # a => Put(e, a, entry)[b] = e[b]
      BY DEF Put
    <3> QED
      BY <2>1, <3>1
  <2>8. t.entries \in Entries
    <3>1. DOMAIN s.entries \cup {a} \in SUBSET Nat
      BY <1>1
    <3>2. t.entries \in [DOMAIN s.entries \cup {a} -> Entry]
      BY <1>1, <2>1, <2>5 DEF Put
    <3> QED
      BY <3>1, <3>2 DEF Entries
  <2>9. t \in Stores
    BY <1>1, <2>1, <2>2, <2>6, <2>8 DEF Stores
  <2>10. \A b \in DOMAIN s.entries : s.entries[b].block \in 1 .. N /\ s.entries[b].layout \in DOMAIN s.layouts
    BY <1>1 DEF Whole
  <2>11. N + 1 \notin 1 .. N /\ N + 1 \in 1 .. N + 1 /\ 1 .. N \subseteq 1 .. N + 1
    BY <1>1
  <2>12. ASSUME NEW b \in DOMAIN t.entries
         PROVE  /\ t.entries[b].layout \in DOMAIN t.layouts /\ t.entries[b].block \in DOMAIN t.blocks
                /\ DOMAIN Bits(t, b) = 0 .. SizeOf(t.layouts[t.entries[b].layout]) - 1
    <3>1. CASE b = a
      BY <2>1, <2>4, <2>5, <2>6, <2>7, <2>11, <3>1 DEF Bits
    <3>2. CASE b # a
      <4>1. b \in DOMAIN s.entries /\ t.entries[b] = s.entries[b]
        BY <2>7, <3>2
      <4>2. t.blocks[t.entries[b].block] = s.blocks[s.entries[b].block]
        BY <2>6, <2>10, <4>1
      <4>3. DOMAIN Bits(s, b) = 0 .. SizeOf(s.layouts[s.entries[b].layout]) - 1
        BY <4>1 DEF Whole
      <4> QED
        BY <2>1, <2>6, <2>10, <2>11, <4>1, <4>2, <4>3 DEF Bits
    <3> QED
      BY <3>1, <3>2
  <2>13. ASSUME NEW b \in DOMAIN t.entries, NEW c \in DOMAIN t.entries, b # c
         PROVE  t.entries[b].block # t.entries[c].block
    <3>1. b \in DOMAIN s.entries /\ c \in DOMAIN s.entries => s.entries[b].block # s.entries[c].block
      BY <2>13 DEF Whole
    <3> QED
      BY <2>5, <2>7, <2>10, <2>11, <2>13, <3>1
  <2>14. Whole(t)
    BY <2>9, <2>12, <2>13 DEF Whole
  <2>15. \A k \in DOMAIN s.blocks : k \in DOMAIN t.blocks /\ t.blocks[k] = s.blocks[k]
    BY <1>1, <2>6, <2>11
  <2> QED
    BY <1>3, <2>1, <2>5, <2>7, <2>14, <2>15 DEF t
<1> QED
  BY <1>2, <1>3

\* A block that is overwritten by one of its size.
LEMMA ReplaceFacts ==
  ASSUME NEW s, Whole(s), NEW k \in DOMAIN s.blocks, NEW block \in Block,
         DOMAIN block = DOMAIN s.blocks[k]
  PROVE  LET t == [s EXCEPT !.blocks[k] = block]
         IN  /\ Whole(t) /\ t.layouts = s.layouts /\ t.entries = s.entries
             /\ DOMAIN t.blocks = DOMAIN s.blocks /\ t.blocks[k] = block
             /\ \A i \in DOMAIN s.blocks : i # k => t.blocks[i] = s.blocks[i]
<1> DEFINE t == [s EXCEPT !.blocks[k] = block]
           N == Len(s.blocks)
<1>1. /\ s.layouts \in Seq(Layout) /\ s.blocks \in Seq(Block) /\ N \in Nat
      /\ DOMAIN s.blocks = 1 .. N /\ \A i \in DOMAIN s.blocks : s.blocks[i] \in Block
      /\ s = [layouts |-> s.layouts, entries |-> s.entries, blocks |-> s.blocks]
      /\ s \in Stores
  BY StoreFacts DEF Whole
<1>2. /\ t = [layouts |-> s.layouts, entries |-> s.entries, blocks |-> [s.blocks EXCEPT ![k] = block]]
      /\ t.layouts = s.layouts /\ t.entries = s.entries /\ t.blocks = [s.blocks EXCEPT ![k] = block]
  <2> DEFINE L == s.layouts
             E == s.entries
             B == s.blocks
  <2>1. s = [layouts |-> L, entries |-> E, blocks |-> B]
    BY <1>1
  <2> HIDE DEF L, E, B
  <2>2. t = [layouts |-> L, entries |-> E, blocks |-> [B EXCEPT ![k] = block]]
    BY <2>1
  <2> HIDE DEF t
  <2>3. t.layouts = L /\ t.entries = E /\ t.blocks = [B EXCEPT ![k] = block]
    BY <2>2
  <2> QED
    BY <2>2, <2>3 DEF L, E, B
<1>3. /\ [s.blocks EXCEPT ![k] = block] \in Seq(Block)
      /\ DOMAIN [s.blocks EXCEPT ![k] = block] = DOMAIN s.blocks
      /\ [s.blocks EXCEPT ![k] = block][k] = block
      /\ \A i \in DOMAIN s.blocks : i # k => [s.blocks EXCEPT ![k] = block][i] = s.blocks[i]
  <2> DEFINE bs == s.blocks
  <2> HIDE DEF bs
  <2>1. bs \in Seq(Block) /\ k \in DOMAIN bs /\ block \in Block =>
           /\ [bs EXCEPT ![k] = block] \in Seq(Block)
           /\ DOMAIN [bs EXCEPT ![k] = block] = DOMAIN bs
           /\ [bs EXCEPT ![k] = block][k] = block
           /\ \A i \in DOMAIN bs : i # k => [bs EXCEPT ![k] = block][i] = bs[i]
    OBVIOUS
  <2> QED
    BY <1>1, <2>1 DEF bs
<1> HIDE DEF t
<1>4. t \in Stores
  BY <1>1, <1>2, <1>3 DEF Stores
<1>5. \A a \in DOMAIN s.entries : DOMAIN Bits(t, a) = DOMAIN Bits(s, a)
  <2> SUFFICES ASSUME NEW a \in DOMAIN s.entries PROVE DOMAIN Bits(t, a) = DOMAIN Bits(s, a)
    OBVIOUS
  <2>1. s.entries[a].block \in DOMAIN s.blocks
    BY DEF Whole
  <2> QED
    BY <1>2, <1>3, <2>1 DEF Bits
<1>6. Whole(t)
  <2>1. DOMAIN t.blocks = DOMAIN s.blocks
    BY <1>2, <1>3
  <2>2. ASSUME NEW a \in DOMAIN t.entries
        PROVE  /\ t.entries[a].layout \in DOMAIN t.layouts /\ t.entries[a].block \in DOMAIN t.blocks
               /\ DOMAIN Bits(t, a) = 0 .. SizeOf(t.layouts[t.entries[a].layout]) - 1
    <3>1. /\ s.entries[a].layout \in DOMAIN s.layouts /\ s.entries[a].block \in DOMAIN s.blocks
          /\ DOMAIN Bits(s, a) = 0 .. SizeOf(s.layouts[s.entries[a].layout]) - 1
      BY <1>2 DEF Whole
    <3> QED
      BY <1>2, <1>5, <2>1, <3>1
  <2>3. \A a, b \in DOMAIN t.entries : a # b => t.entries[a].block # t.entries[b].block
    BY <1>2 DEF Whole
  <2> QED
    BY <1>4, <2>2, <2>3 DEF Whole
<1> QED
  BY <1>2, <1>3, <1>6 DEF t

\* What one step of a copy does: the address gets what the original holds.
LEMMA CopyAtFacts ==
  ASSUME NEW s, Whole(s), NEW dst \in Nat, NEW src
  PROVE  LET t == CopyAt(s, dst, src)
         IN  /\ Whole(t) /\ t.layouts = s.layouts
             /\ src \notin DOMAIN s.entries => t = s
             /\ src \in DOMAIN s.entries =>
                  /\ DOMAIN t.entries = DOMAIN s.entries \cup {dst}
                  /\ t.entries[dst].layout = s.entries[src].layout /\ Bits(t, dst) = Bits(s, src)
                  /\ HasEntry(s, dst, s.entries[src].layout) => t.entries[dst] = s.entries[dst]
             /\ \A b \in DOMAIN s.entries : b # dst =>
                  b \in DOMAIN t.entries /\ t.entries[b] = s.entries[b] /\ Bits(t, b) = Bits(s, b)
             /\ DOMAIN s.blocks \subseteq DOMAIN t.blocks
<1>1. CASE src \notin DOMAIN s.entries
  <2>1. CopyAt(s, dst, src) = s
    BY <1>1 DEF CopyAt
  <2> QED
    BY <1>1, <2>1
<1>2. CASE src \in DOMAIN s.entries
  <2> DEFINE from == s.entries[src]
             l == from.layout
             made == WithEntry(s, dst, l)
             k == made.entries[dst].block
             block == made.blocks[from.block]
             t == [made EXCEPT !.blocks[k] = block]
  <2>1. CopyAt(s, dst, src) = t
    BY <1>2 DEF CopyAt
  <2>2. /\ l \in DOMAIN s.layouts /\ from.block \in DOMAIN s.blocks
        /\ DOMAIN s.blocks[from.block] = 0 .. SizeOf(s.layouts[l]) - 1
    BY <1>2 DEF Whole, Bits
  <2> HIDE DEF l
  <2>3. /\ Whole(made) /\ made.layouts = s.layouts
        /\ HasEntry(s, dst, l) => made = s
        /\ DOMAIN made.entries = DOMAIN s.entries \cup {dst} /\ made.entries[dst].layout = l
        /\ \A b \in DOMAIN s.entries : b # dst => made.entries[b] = s.entries[b]
        /\ \A i \in DOMAIN s.blocks : i \in DOMAIN made.blocks /\ made.blocks[i] = s.blocks[i]
    BY <2>2, WithEntryFacts
  <2> HIDE DEF made, from
  <2>4. k \in DOMAIN made.blocks /\ DOMAIN made.blocks[k] = 0 .. SizeOf(s.layouts[l]) - 1
    BY <2>3 DEF Whole, Bits
  <2>5. block = s.blocks[from.block] /\ block = Bits(s, src)
    BY <2>2, <2>3 DEF Bits, from
  <2>6. block \in Block
    <3>1. from.block \in DOMAIN made.blocks /\ made \in Stores
      BY <2>2, <2>3 DEF Whole
    <3> QED
      BY <3>1, StoreFacts
  <2>7. DOMAIN block = DOMAIN made.blocks[k]
    BY <2>2, <2>4, <2>5
  <2> HIDE DEF block, k
  <2>8. /\ Whole(t) /\ t.layouts = made.layouts /\ t.entries = made.entries
        /\ DOMAIN t.blocks = DOMAIN made.blocks /\ t.blocks[k] = block
        /\ \A i \in DOMAIN made.blocks : i # k => t.blocks[i] = made.blocks[i]
    BY <2>3, <2>4, <2>6, <2>7, ReplaceFacts
  <2> HIDE DEF t
  <2>9. Bits(t, dst) = Bits(s, src)
    BY <2>5, <2>8 DEF Bits, k
  <2>10. ASSUME NEW b \in DOMAIN s.entries, b # dst
         PROVE  b \in DOMAIN t.entries /\ t.entries[b] = s.entries[b] /\ Bits(t, b) = Bits(s, b)
    <3>1. b \in DOMAIN made.entries /\ dst \in DOMAIN made.entries /\ made.entries[b] = s.entries[b]
      BY <2>3, <2>10
    <3>2. made.entries[b].block # k
      BY <2>3, <2>10, <3>1 DEF Whole, k
    <3>3. s.entries[b].block \in DOMAIN s.blocks
      BY DEF Whole
    <3> QED
      BY <2>3, <2>8, <3>1, <3>2, <3>3 DEF Bits
  <2>11. HasEntry(s, dst, l) => t.entries[dst] = s.entries[dst]
    BY <2>3, <2>8
  <2>12. l = s.entries[src].layout
    BY DEF l, from
  <2> QED
    BY <1>2, <2>1, <2>3, <2>8, <2>9, <2>10, <2>11, <2>12
<1> QED
  BY <1>1, <1>2

\* What a store to a shadow does.
LEMMA WriteFacts ==
  ASSUME NEW s, Whole(s), NEW k \in DOMAIN s.blocks, NEW place, NEW value \in Values
  PROVE  LET t == Write(s, k, place, value)
             Y == Bytes(s.layouts[place.layout], place.rank)
         IN  /\ Whole(t) /\ t.layouts = s.layouts /\ t.entries = s.entries
             /\ DOMAIN t.blocks = DOMAIN s.blocks /\ DOMAIN t.blocks[k] = DOMAIN s.blocks[k]
             /\ \A i \in DOMAIN s.blocks : i # k => t.blocks[i] = s.blocks[i]
             /\ \A b \in DOMAIN s.blocks[k] : t.blocks[k][b] = IF b \in Y THEN value ELSE s.blocks[k][b]
<1> DEFINE t == Write(s, k, place, value)
           Y == Bytes(s.layouts[place.layout], place.rank)
           old == s.blocks[k]
           block == [b \in DOMAIN old |-> IF b \in Y THEN value ELSE old[b]]
<1>1. s \in Stores /\ old \in Block
  BY StoreFacts DEF Whole
<1>2. t = [s EXCEPT !.blocks[k] = block]
  <2>1. k \in DOMAIN s.blocks /\ s = [layouts |-> s.layouts, entries |-> s.entries, blocks |-> s.blocks]
    BY <1>1, StoreFacts
  <2> QED
    BY <2>1 DEF Write
<1> HIDE DEF Y, t
<1>3. block \in Block
  <2> HIDE DEF old
  <2>1. PICK n \in Nat : old \in [0 .. n - 1 -> Values \cup {Uninit}]
    BY <1>1 DEF Block
  <2>2. block \in [0 .. n - 1 -> Values \cup {Uninit}]
    BY <2>1
  <2> QED
    BY <2>2 DEF Block
<1>4. DOMAIN block = DOMAIN s.blocks[k] /\ \A b \in DOMAIN old : block[b] = IF b \in Y THEN value ELSE old[b]
  OBVIOUS
<1> HIDE DEF block
<1>5. /\ Whole(t) /\ t.layouts = s.layouts /\ t.entries = s.entries
      /\ DOMAIN t.blocks = DOMAIN s.blocks /\ t.blocks[k] = block
      /\ \A i \in DOMAIN s.blocks : i # k => t.blocks[i] = s.blocks[i]
  BY <1>2, <1>3, <1>4, ReplaceFacts
<1> QED
  BY <1>4, <1>5 DEF Y, t

\* Addresses outside of those from begin on hold what they held.
KeptBut(s, t, begin, count) ==
  \A b \in DOMAIN s.entries : b \notin begin .. begin + count - 1 =>
     b \in DOMAIN t.entries /\ t.entries[b] = s.entries[b] /\ Bits(t, b) = Bits(s, b)

\* Addresses from dst on hold what those from src on did.
CopiedTo(s, t, dst, src, count) ==
  \A i \in 0 .. count - 1 : src + i \in DOMAIN s.entries =>
     /\ dst + i \in DOMAIN t.entries /\ t.entries[dst + i].layout = s.entries[src + i].layout
     /\ Bits(t, dst + i) = Bits(s, src + i)
     /\ HasEntry(s, dst + i, s.entries[src + i].layout) => t.entries[dst + i] = s.entries[dst + i]

Disjoint(dst, src, count) == \A i, j \in 0 .. count - 1 : dst + i # src + j

LEMMA CopyRangeStep ==
  ASSUME NEW s, Whole(s), NEW t, Whole(t), NEW dst \in Nat, NEW src \in Nat, NEW count \in Nat,
         NEW n \in 1 .. count,
         t.layouts = s.layouts, DOMAIN s.blocks \subseteq DOMAIN t.blocks,
         KeptBut(s, t, dst, n - 1),
         Disjoint(dst, src, count) => CopiedTo(s, t, dst, src, n - 1)
  PROVE  LET u == CopyAt(t, dst + n - 1, src + n - 1)
         IN  /\ Whole(u) /\ u.layouts = s.layouts /\ DOMAIN s.blocks \subseteq DOMAIN u.blocks
             /\ KeptBut(s, u, dst, n)
             /\ Disjoint(dst, src, count) => CopiedTo(s, u, dst, src, n)
<1> DEFINE d == dst + n - 1
           f == src + n - 1
           u == CopyAt(t, d, f)
<1>1. d \in Nat /\ f \in Nat /\ n \in Nat
  OBVIOUS
<1>2. /\ d \notin dst .. dst + (n - 1) - 1 /\ d \in dst .. dst + n - 1
      /\ dst .. dst + (n - 1) - 1 \subseteq dst .. dst + n - 1 /\ n - 1 \in 0 .. count - 1
      /\ d = dst + (n - 1) /\ f = src + (n - 1)
      /\ \A i \in 0 .. n - 1 : i = n - 1 \/ (i \in 0 .. (n - 1) - 1 /\ dst + i # d)
      /\ \A i \in 0 .. n - 1 : i \in 0 .. count - 1
      /\ \A x \in dst .. dst + (n - 1) - 1 : \E i \in 0 .. count - 1 : x = dst + i
  <2>1. ASSUME NEW x \in dst .. dst + (n - 1) - 1 PROVE \E i \in 0 .. count - 1 : x = dst + i
    <3>1. x - dst \in 0 .. count - 1 /\ x = dst + (x - dst)
      OBVIOUS
    <3> QED
      BY <3>1
  <2> QED
    BY <2>1
<1> HIDE DEF d, f
<1>3. /\ Whole(u) /\ u.layouts = t.layouts
      /\ f \notin DOMAIN t.entries => u = t
      /\ f \in DOMAIN t.entries =>
           /\ DOMAIN u.entries = DOMAIN t.entries \cup {d}
           /\ u.entries[d].layout = t.entries[f].layout /\ Bits(u, d) = Bits(t, f)
           /\ HasEntry(t, d, t.entries[f].layout) => u.entries[d] = t.entries[d]
      /\ \A b \in DOMAIN t.entries : b # d =>
           b \in DOMAIN u.entries /\ u.entries[b] = t.entries[b] /\ Bits(u, b) = Bits(t, b)
      /\ DOMAIN t.blocks \subseteq DOMAIN u.blocks
  BY <1>1, CopyAtFacts
<1> HIDE DEF u
<1>4. KeptBut(s, u, dst, n)
  <2> SUFFICES ASSUME NEW b \in DOMAIN s.entries, b \notin dst .. dst + n - 1
               PROVE  b \in DOMAIN u.entries /\ u.entries[b] = s.entries[b] /\ Bits(u, b) = Bits(s, b)
    BY DEF KeptBut
  <2>1. b \notin dst .. dst + (n - 1) - 1 /\ b # d
    BY <1>2
  <2>2. b \in DOMAIN t.entries /\ t.entries[b] = s.entries[b] /\ Bits(t, b) = Bits(s, b)
    BY <2>1 DEF KeptBut
  <2> QED
    BY <1>3, <2>1, <2>2
<1>5. ASSUME Disjoint(dst, src, count) PROVE CopiedTo(s, u, dst, src, n)
  <2>1. CopiedTo(s, t, dst, src, n - 1)
    BY <1>5
  <2> SUFFICES ASSUME NEW i \in 0 .. n - 1, src + i \in DOMAIN s.entries
               PROVE  /\ dst + i \in DOMAIN u.entries
                      /\ u.entries[dst + i].layout = s.entries[src + i].layout
                      /\ Bits(u, dst + i) = Bits(s, src + i)
                      /\ HasEntry(s, dst + i, s.entries[src + i].layout) =>
                           u.entries[dst + i] = s.entries[dst + i]
    BY DEF CopiedTo
  <2>2. CASE i # n - 1
    <3>1. i \in 0 .. (n - 1) - 1 /\ dst + i # d
      BY <1>2, <2>2
    <3>2. /\ dst + i \in DOMAIN t.entries /\ t.entries[dst + i].layout = s.entries[src + i].layout
          /\ Bits(t, dst + i) = Bits(s, src + i)
          /\ HasEntry(s, dst + i, s.entries[src + i].layout) => t.entries[dst + i] = s.entries[dst + i]
      BY <2>1, <3>1 DEF CopiedTo
    <3>3. u.entries[dst + i] = t.entries[dst + i] /\ Bits(u, dst + i) = Bits(t, dst + i)
          /\ dst + i \in DOMAIN u.entries
      BY <1>3, <3>1, <3>2
    <3> QED
      BY <3>2, <3>3
  <2>3. CASE i = n - 1
    <3>1. f \notin dst .. dst + (n - 1) - 1
      <4> SUFFICES ASSUME f \in dst .. dst + (n - 1) - 1 PROVE FALSE
        OBVIOUS
      <4>1. PICK j \in 0 .. count - 1 : f = dst + j
        BY <1>2
      <4>2. dst + j # src + (n - 1)
        BY <1>2, <1>5 DEF Disjoint
      <4> QED
        BY <1>2, <4>1, <4>2
    <3>2. f = src + i /\ d = dst + i
      BY <1>2, <2>3
    <3>3. f \in DOMAIN t.entries /\ t.entries[f] = s.entries[f] /\ Bits(t, f) = Bits(s, f)
      BY <3>1, <3>2 DEF KeptBut
    <3>4. d \in DOMAIN s.entries => d \in DOMAIN t.entries /\ t.entries[d] = s.entries[d]
      BY <1>2 DEF KeptBut
    <3>5. HasEntry(s, d, s.entries[f].layout) => u.entries[d] = s.entries[d]
      BY <1>3, <3>3, <3>4 DEF HasEntry
    <3>6. d \in DOMAIN u.entries /\ u.entries[d].layout = s.entries[f].layout /\ Bits(u, d) = Bits(s, f)
      BY <1>3, <3>3
    <3> QED
      BY <3>2, <3>5, <3>6
  <2> QED
    BY <2>2, <2>3
<1> QED
  BY <1>3, <1>4, <1>5 DEF u, d, f

LEMMA CopyRangeFacts ==
  ASSUME NEW s, Whole(s), NEW dst \in Nat, NEW src \in Nat, NEW count \in Nat
  PROVE  LET t == CopyRange(s, dst, src, count)
         IN  /\ Whole(t) /\ t.layouts = s.layouts /\ DOMAIN s.blocks \subseteq DOMAIN t.blocks
             /\ KeptBut(s, t, dst, count)
             /\ Disjoint(dst, src, count) => CopiedTo(s, t, dst, src, count)
<1> DEFINE X == {t \in Stores : Whole(t)}
           F(t, n) == CopyAt(t, dst + n - 1, src + n - 1)
           IsRun(f) == f = [n \in 0 .. count |-> IF n = 0 THEN s ELSE F(f[n - 1], n)]
           run == CHOOSE f : IsRun(f)
           P(t, n) == /\ Whole(t) /\ t.layouts = s.layouts /\ DOMAIN s.blocks \subseteq DOMAIN t.blocks
                      /\ KeptBut(s, t, dst, n)
                      /\ Disjoint(dst, src, count) => CopiedTo(s, t, dst, src, n)
<1>1. CopyRange(s, dst, src, count) = run[count]
  BY DEF CopyRange
<1>2. count \in Nat
  OBVIOUS
<1>3. s \in X
  BY DEF Whole
<1>4. \A t \in X, n \in 1 .. count : F(t, n) \in X
  <2> SUFFICES ASSUME NEW t \in X, NEW n \in 1 .. count PROVE F(t, n) \in X
    OBVIOUS
  <2>1. Whole(t) /\ dst + n - 1 \in Nat
    OBVIOUS
  <2>2. Whole(F(t, n))
    BY <2>1, CopyAtFacts
  <2> QED
    BY <2>2 DEF Whole
<1> HIDE DEF F
<1>5. \E f : IsRun(f)
  <2> DEFINE step == [n \in 1 .. count |-> [t \in X |-> F(t, n)]]
  <2>1. step \in [1 .. count -> [X -> X]] /\ \A n \in 1 .. count, t \in X : step[n][t] = F(t, n)
    BY <1>4
  <2> HIDE DEF step, X
  <2>2. PICK g : Iterates(g, X, s, count, step)
    BY <1>2, <1>3, <2>1, IterateExists
  <2>3. g \in [0 .. count -> X] /\ g[0] = s /\ \A n \in 1 .. count : g[n] = step[n][g[n - 1]]
    BY <2>2 DEF Iterates
  <2>4. ASSUME NEW n \in 1 .. count PROVE g[n] = F(g[n - 1], n)
    <3>1. g[n - 1] \in X /\ g[n] = step[n][g[n - 1]]
      BY <1>2, <2>3
    <3> QED
      BY <2>1, <3>1
  <2>5. IsRun(g)
    BY <1>2, <2>3, <2>4 DEF F
  <2> QED
    BY <2>5
<1>6. IsRun(run)
  BY <1>5
<1> HIDE DEF run
<1>7. run[0] = s /\ \A n \in 1 .. count : run[n] = F(run[n - 1], n)
  BY <1>2, <1>6 DEF F
<1> HIDE DEF IsRun
<1> DEFINE S == {n \in 0 .. count : P(run[n], n)}
<1>8. P(s, 0)
  BY <1>2 DEF KeptBut, CopiedTo
<1>9. ASSUME NEW n \in 1 .. count, NEW t, P(t, n - 1) PROVE P(F(t, n), n)
  BY <1>2, <1>9, CopyRangeStep DEF F
<1> HIDE DEF P
<1>10. 0 .. count \subseteq S
  <2>1. S \in SUBSET Nat /\ 0 \in S
    BY <1>2, <1>7, <1>8
  <2>2. ASSUME NEW n \in 1 .. count, n - 1 \in S PROVE n \in S
    <3>1. P(run[n - 1], n - 1) /\ run[n] = F(run[n - 1], n)
      BY <1>7, <2>2
    <3>2. P(run[n], n)
      BY <1>9, <3>1
    <3> QED
      BY <1>2, <3>2
  <2> HIDE DEF S
  <2> QED
    BY <1>2, <2>1, <2>2, Increasing
<1>11. P(run[count], count)
  BY <1>2, <1>10
<1> QED
  BY <1>1, <1>11 DEF P

-----------------------------------------------------------------------------
(* New variables. *)

\* The address of a shadow of a variable.
Address(new, m) == new.begin + Composites[new.type].shadows[m].offset

Extent(new) == Composites[new.type].size + 1

\* The bytes of a shadow hold a value.
Filled(s, a, place, value) ==
  \A b \in Bytes(s.layouts[place.layout], place.rank) : Bits(s, a)[b] = value

\* A variable of a sealed type.
Sealed(s, new, place) ==
  /\ new.type \in DOMAIN Composites /\ new.begin \in Nat
  /\ Placed(s.layouts, new.type, place)

LEMMA AddressFacts ==
  ASSUME NEW new, new.type \in DOMAIN Composites, new.begin \in Nat
  PROVE  LET shadows == Composites[new.type].shadows
         IN  /\ DOMAIN shadows = 1 .. Len(shadows) /\ Len(shadows) \in Nat /\ Extent(new) \in Nat
             /\ \A m \in DOMAIN shadows : /\ Address(new, m) \in Nat
                                          /\ Address(new, m) \in new.begin .. new.begin + Extent(new) - 1
             /\ \A i, j \in DOMAIN shadows : Address(new, i) = Address(new, j) => shadows[i].offset = shadows[j].offset
<1> DEFINE shadows == Composites[new.type].shadows
           size == Composites[new.type].size
<1>1. /\ size \in Nat /\ DOMAIN shadows = 1 .. Len(shadows) /\ Len(shadows) \in Nat
      /\ \A m \in DOMAIN shadows : shadows[m].offset \in 0 .. size
  BY CompositeFacts
<1>2. Extent(new) = size + 1 /\ \A m : Address(new, m) = new.begin + shadows[m].offset
  BY DEF Extent, Address
<1> HIDE DEF shadows, size
<1>3. /\ Extent(new) \in Nat
      /\ \A m \in DOMAIN shadows : /\ Address(new, m) \in Nat
                                   /\ Address(new, m) \in new.begin .. new.begin + Extent(new) - 1
      /\ \A i, j \in DOMAIN shadows : Address(new, i) = Address(new, j) => shadows[i].offset = shadows[j].offset
  BY <1>1, <1>2
<1> QED
  BY <1>1, <1>3 DEF shadows

LEMMA LookUpAllFacts ==
  ASSUME NEW s, Whole(s), NEW new, NEW place, Sealed(s, new, place)
  PROVE  LET t == LookUpAll(s, new, place)
         IN  /\ Whole(t) /\ t.layouts = s.layouts /\ DOMAIN s.blocks \subseteq DOMAIN t.blocks
             /\ KeptBut(s, t, new.begin, Extent(new))
             /\ \A m \in DOMAIN place : HasEntry(t, Address(new, m), place[m].layout)
<1> DEFINE shadows == Composites[new.type].shadows
           N == Len(shadows)
           X == {t \in Stores : Whole(t) /\ t.layouts = s.layouts}
           F(t, n) == WithEntry(t, new.begin + shadows[n].offset, place[n].layout)
           IsRun(f) == f = [m \in 0 .. N |-> IF m = 0 THEN s ELSE F(f[m - 1], m)]
           run == CHOOSE f : IsRun(f)
           P(t, n) == /\ Whole(t) /\ t.layouts = s.layouts /\ DOMAIN s.blocks \subseteq DOMAIN t.blocks
                      /\ KeptBut(s, t, new.begin, Extent(new))
                      /\ \A m \in 1 .. n : HasEntry(t, Address(new, m), place[m].layout)
<1>1. LookUpAll(s, new, place) = run[N]
  BY DEF LookUpAll
<1>2. N \in Nat /\ DOMAIN shadows = 1 .. N
  BY CompositeFacts DEF Sealed
<1>3. s \in X
  BY DEF Whole
<1>12. /\ DOMAIN place = 1 .. N
       /\ \A m \in 1 .. N : place[m].layout \in DOMAIN s.layouts
       /\ \A i, j \in 1 .. N : shadows[i].offset = shadows[j].offset => place[i].layout = place[j].layout
  BY <1>2 DEF Sealed, Placed
<1>13. /\ \A m \in 1 .. N : /\ Address(new, m) \in Nat
                            /\ Address(new, m) \in new.begin .. new.begin + Extent(new) - 1
       /\ \A i, j \in 1 .. N : Address(new, i) = Address(new, j) => shadows[i].offset = shadows[j].offset
  BY <1>2, AddressFacts DEF Sealed
<1>14. \A t, n : F(t, n) = WithEntry(t, Address(new, n), place[n].layout)
  BY DEF Address
<1> HIDE DEF shadows, N, F
<1>15. ASSUME NEW t, Whole(t), t.layouts = s.layouts, NEW n \in 1 .. N
       PROVE  LET u == F(t, n)
                  a == Address(new, n)
              IN  /\ Whole(u) /\ u.layouts = t.layouts /\ DOMAIN t.blocks \subseteq DOMAIN u.blocks
                  /\ HasEntry(u, a, place[n].layout)
                  /\ \A b \in DOMAIN t.entries : b # a => b \in DOMAIN u.entries /\ u.entries[b] = t.entries[b]
                                                           /\ Bits(u, b) = Bits(t, b)
  <2> DEFINE u == F(t, n)
             a == Address(new, n)
             l == place[n].layout
  <2>1. a \in Nat /\ l \in DOMAIN t.layouts /\ u = WithEntry(t, a, l)
    BY <1>12, <1>13, <1>14, <1>15
  <2> HIDE DEF u, a, l
  <2>2. /\ Whole(u) /\ u.layouts = t.layouts
        /\ DOMAIN u.entries = DOMAIN t.entries \cup {a} /\ u.entries[a].layout = l
        /\ \A b \in DOMAIN t.entries : b # a => u.entries[b] = t.entries[b]
        /\ \A k \in DOMAIN t.blocks : k \in DOMAIN u.blocks /\ u.blocks[k] = t.blocks[k]
    BY <1>15, <2>1, WithEntryFacts
  <2>3. \A b \in DOMAIN t.entries : t.entries[b].block \in DOMAIN t.blocks
    BY <1>15 DEF Whole
  <2> QED
    BY <2>2, <2>3 DEF HasEntry, Bits, u, a, l
<1>4. \A t \in X, n \in 1 .. N : F(t, n) \in X
  BY <1>15 DEF Whole
<1> HIDE DEF F
<1>5. \E f : IsRun(f)
  <2> DEFINE step == [n \in 1 .. N |-> [t \in X |-> F(t, n)]]
  <2>1. step \in [1 .. N -> [X -> X]] /\ \A n \in 1 .. N, t \in X : step[n][t] = F(t, n)
    BY <1>4
  <2> HIDE DEF step, X
  <2>2. PICK g : Iterates(g, X, s, N, step)
    BY <1>2, <1>3, <2>1, IterateExists
  <2>3. g \in [0 .. N -> X] /\ g[0] = s /\ \A n \in 1 .. N : g[n] = step[n][g[n - 1]]
    BY <2>2 DEF Iterates
  <2>4. ASSUME NEW n \in 1 .. N PROVE g[n] = F(g[n - 1], n)
    <3>1. g[n - 1] \in X /\ g[n] = step[n][g[n - 1]]
      BY <1>2, <2>3
    <3> QED
      BY <2>1, <3>1
  <2>5. IsRun(g)
    BY <1>2, <2>3, <2>4 DEF F
  <2> QED
    BY <2>5
<1>6. IsRun(run)
  BY <1>5
<1> HIDE DEF run
<1>7. run[0] = s /\ \A n \in 1 .. N : run[n] = F(run[n - 1], n)
  BY <1>2, <1>6 DEF F
<1> HIDE DEF IsRun
<1> DEFINE S == {n \in 0 .. N : P(run[n], n)}
<1>8. P(s, 0)
  BY <1>2 DEF KeptBut
<1>9. ASSUME NEW n \in 1 .. N, NEW t, P(t, n - 1) PROVE P(F(t, n), n)
  <2> DEFINE u == F(t, n)
             a == Address(new, n)
  <2>1. Whole(t) /\ t.layouts = s.layouts
    BY <1>9
  <2>2. /\ Whole(u) /\ u.layouts = t.layouts /\ DOMAIN t.blocks \subseteq DOMAIN u.blocks
        /\ HasEntry(u, a, place[n].layout)
        /\ \A b \in DOMAIN t.entries : b # a => b \in DOMAIN u.entries /\ u.entries[b] = t.entries[b]
                                                 /\ Bits(u, b) = Bits(t, b)
    BY <1>15, <2>1
  <2>3. a \in new.begin .. new.begin + Extent(new) - 1
    BY <1>13
  <2> HIDE DEF u
  <2>4. KeptBut(s, u, new.begin, Extent(new))
    BY <1>9, <2>2, <2>3 DEF KeptBut
  <2>5. ASSUME NEW m \in 1 .. n PROVE HasEntry(u, Address(new, m), place[m].layout)
    <3>1. CASE Address(new, m) = a
      <4>1. m \in 1 .. N
        BY <1>2
      <4>2. place[m].layout = place[n].layout
        BY <1>12, <1>13, <3>1, <4>1
      <4> QED
        BY <2>2, <3>1, <4>2
    <3>2. CASE Address(new, m) # a
      <4>1. m # n
        BY <3>2
      <4>2. m \in 1 .. n - 1
        BY <1>2, <4>1
      <4>3. HasEntry(t, Address(new, m), place[m].layout)
        BY <1>9, <4>2
      <4> QED
        BY <2>2, <3>2, <4>3 DEF HasEntry
    <3> QED
      BY <3>1, <3>2
  <2> QED
    BY <1>9, <2>2, <2>4, <2>5 DEF u
<1> HIDE DEF P
<1>10. 0 .. N \subseteq S
  <2>1. S \in SUBSET Nat /\ 0 \in S
    BY <1>2, <1>7, <1>8
  <2>2. ASSUME NEW n \in 1 .. N, n - 1 \in S PROVE n \in S
    <3>1. P(run[n - 1], n - 1) /\ run[n] = F(run[n - 1], n)
      BY <1>7, <2>2
    <3>2. P(run[n], n)
      BY <1>9, <3>1
    <3> QED
      BY <1>2, <3>2
  <2> HIDE DEF S
  <2> QED
    BY <1>2, <2>1, <2>2, Increasing
<1>11. P(run[N], N)
  BY <1>2, <1>10
<1> QED
  BY <1>1, <1>11, <1>12 DEF P

\* Each value is in the bytes of its shadow when all have been written: the
\* shadows at one address have bytes of their own, the others a block.
LEMMA InitializeAllFacts ==
  ASSUME NEW s, Whole(s), NEW new, NEW place, Sealed(s, new, place),
         \A m \in DOMAIN place : HasEntry(s, Address(new, m), place[m].layout),
         NEW values \in [DOMAIN place -> Values]
  PROVE  LET t == InitializeAll(s, new, place, values)
         IN  /\ Whole(t) /\ t.layouts = s.layouts /\ DOMAIN s.blocks \subseteq DOMAIN t.blocks
             /\ t.entries = s.entries
             /\ KeptBut(s, t, new.begin, Extent(new))
             /\ \A m \in DOMAIN place : Filled(t, Address(new, m), place[m], values[m])
<1> DEFINE shadows == Composites[new.type].shadows
           N == Len(shadows)
           X == {t \in Stores : Whole(t) /\ t.layouts = s.layouts /\ DOMAIN t.blocks = DOMAIN s.blocks}
           K(m) == s.entries[Address(new, m)].block
           F(t, n) == Write(t, s.entries[new.begin + shadows[n].offset].block, place[n], values[n])
           IsRun(f) == f = [m \in 0 .. N |-> IF m = 0 THEN s ELSE F(f[m - 1], m)]
           run == CHOOSE f : IsRun(f)
           P(t, n) == /\ Whole(t) /\ t.layouts = s.layouts /\ DOMAIN t.blocks = DOMAIN s.blocks
                      /\ t.entries = s.entries
                      /\ \A k \in DOMAIN s.blocks : (\A m \in 1 .. N : k # K(m)) => t.blocks[k] = s.blocks[k]
                      /\ \A m \in 1 .. n : Filled(t, Address(new, m), place[m], values[m])
<1>1. InitializeAll(s, new, place, values) = run[N]
  BY DEF InitializeAll
<1>2. N \in Nat /\ DOMAIN shadows = 1 .. N
  BY CompositeFacts DEF Sealed
<1>3. s \in X
  BY DEF Whole
<1>12. /\ DOMAIN place = 1 .. N
       /\ \A m \in 1 .. N : /\ place[m].layout \in DOMAIN s.layouts
                            /\ place[m].rank \in DOMAIN s.layouts[place[m].layout]
       /\ \A i, j \in 1 .. N : shadows[i].offset = shadows[j].offset =>
             place[i].layout = place[j].layout /\ (i # j => place[i].rank # place[j].rank)
  BY <1>2 DEF Sealed, Placed
<1>13. /\ \A m \in 1 .. N : /\ Address(new, m) \in Nat
                            /\ Address(new, m) \in new.begin .. new.begin + Extent(new) - 1
       /\ \A i, j \in 1 .. N : Address(new, i) = Address(new, j) => shadows[i].offset = shadows[j].offset
  BY <1>2, AddressFacts DEF Sealed
<1>14. \A t, n : F(t, n) = Write(t, K(n), place[n], values[n])
  BY DEF Address
<1>16. \A m \in 1 .. N : /\ Address(new, m) \in DOMAIN s.entries
                         /\ s.entries[Address(new, m)].layout = place[m].layout
                         /\ K(m) \in DOMAIN s.blocks
                         /\ values[m] \in Values
  BY <1>12 DEF HasEntry, Whole
<1>17. ASSUME NEW i \in 1 .. N, NEW j \in 1 .. N, K(i) = K(j)
       PROVE  Address(new, i) = Address(new, j)
  BY <1>16, <1>17 DEF Whole
<1>18. ASSUME NEW m \in 1 .. N
       PROVE  /\ s.layouts[place[m].layout] \in Layout
              /\ Bytes(s.layouts[place[m].layout], place[m].rank) \subseteq DOMAIN s.blocks[K(m)]
  <2> DEFINE layout == s.layouts[place[m].layout]
  <2>1. layout \in Layout
    <3>1. s.layouts \in Seq(Layout)
      BY StoreFacts DEF Whole
    <3> QED
      BY <1>12, <3>1
  <2>2. place[m].rank \in DOMAIN layout
    BY <1>12
  <2>3. DOMAIN s.blocks[K(m)] = 0 .. SizeOf(layout) - 1
    BY <1>16 DEF Whole, Bits
  <2> HIDE DEF layout
  <2>4. Bytes(layout, place[m].rank) \subseteq 0 .. SizeOf(layout) - 1
    BY <2>1, <2>2, BytesFacts
  <2> QED
    BY <2>1, <2>3, <2>4 DEF layout
<1> HIDE DEF shadows, N, F
<1>15. ASSUME NEW t, Whole(t), t.layouts = s.layouts, DOMAIN t.blocks = DOMAIN s.blocks, NEW n \in 1 .. N
       PROVE  LET u == F(t, n)
                  Y == Bytes(s.layouts[place[n].layout], place[n].rank)
              IN  /\ Whole(u) /\ u.layouts = s.layouts /\ DOMAIN u.blocks = DOMAIN s.blocks
                  /\ u.entries = t.entries /\ DOMAIN u.blocks[K(n)] = DOMAIN t.blocks[K(n)]
                  /\ \A i \in DOMAIN s.blocks : i # K(n) => u.blocks[i] = t.blocks[i]
                  /\ \A b \in DOMAIN t.blocks[K(n)] :
                        u.blocks[K(n)][b] = IF b \in Y THEN values[n] ELSE t.blocks[K(n)][b]
  <2> DEFINE u == F(t, n)
             k == K(n)
             p == place[n]
             value == values[n]
             Y == Bytes(t.layouts[p.layout], p.rank)
  <2>1. u = Write(t, k, p, value) /\ k \in DOMAIN t.blocks /\ value \in Values
    BY <1>14, <1>15, <1>16
  <2> HIDE DEF u, k, p, value
  <2>2. /\ Whole(u) /\ u.layouts = t.layouts /\ u.entries = t.entries
        /\ DOMAIN u.blocks = DOMAIN t.blocks /\ DOMAIN u.blocks[k] = DOMAIN t.blocks[k]
        /\ \A i \in DOMAIN t.blocks : i # k => u.blocks[i] = t.blocks[i]
        /\ \A b \in DOMAIN t.blocks[k] : u.blocks[k][b] = IF b \in Y THEN value ELSE t.blocks[k][b]
    BY <1>15, <2>1, WriteFacts
  <2> QED
    BY <1>15, <2>2 DEF u, k, p, value
<1>4. \A t \in X, n \in 1 .. N : F(t, n) \in X
  BY <1>15 DEF Whole
<1> HIDE DEF F
<1>5. \E f : IsRun(f)
  <2> DEFINE step == [n \in 1 .. N |-> [t \in X |-> F(t, n)]]
  <2>1. step \in [1 .. N -> [X -> X]] /\ \A n \in 1 .. N, t \in X : step[n][t] = F(t, n)
    BY <1>4
  <2> HIDE DEF step, X
  <2>2. PICK g : Iterates(g, X, s, N, step)
    BY <1>2, <1>3, <2>1, IterateExists
  <2>3. g \in [0 .. N -> X] /\ g[0] = s /\ \A n \in 1 .. N : g[n] = step[n][g[n - 1]]
    BY <2>2 DEF Iterates
  <2>4. ASSUME NEW n \in 1 .. N PROVE g[n] = F(g[n - 1], n)
    <3>1. g[n - 1] \in X /\ g[n] = step[n][g[n - 1]]
      BY <1>2, <2>3
    <3> QED
      BY <2>1, <3>1
  <2>5. IsRun(g)
    BY <1>2, <2>3, <2>4 DEF F
  <2> QED
    BY <2>5
<1>6. IsRun(run)
  BY <1>5
<1> HIDE DEF run
<1>7. run[0] = s /\ \A n \in 1 .. N : run[n] = F(run[n - 1], n)
  BY <1>2, <1>6 DEF F
<1> HIDE DEF IsRun
<1> DEFINE S == {n \in 0 .. N : P(run[n], n)}
<1>8. P(s, 0)
  BY <1>2
<1>9. ASSUME NEW n \in 1 .. N, NEW t, P(t, n - 1) PROVE P(F(t, n), n)
  <2> DEFINE u == F(t, n)
             Y == Bytes(s.layouts[place[n].layout], place[n].rank)
  <2>1. /\ Whole(t) /\ t.layouts = s.layouts /\ DOMAIN t.blocks = DOMAIN s.blocks /\ t.entries = s.entries
        /\ \A k \in DOMAIN s.blocks : (\A m \in 1 .. N : k # K(m)) => t.blocks[k] = s.blocks[k]
        /\ \A m \in 1 .. n - 1 : Filled(t, Address(new, m), place[m], values[m])
    BY <1>9
  <2>2. /\ Whole(u) /\ u.layouts = s.layouts /\ DOMAIN u.blocks = DOMAIN s.blocks
        /\ u.entries = t.entries /\ DOMAIN u.blocks[K(n)] = DOMAIN t.blocks[K(n)]
        /\ \A i \in DOMAIN s.blocks : i # K(n) => u.blocks[i] = t.blocks[i]
        /\ \A b \in DOMAIN t.blocks[K(n)] :
              u.blocks[K(n)][b] = IF b \in Y THEN values[n] ELSE t.blocks[K(n)][b]
    BY <1>15, <2>1
  <2> HIDE DEF u
  <2>3. \A k \in DOMAIN s.blocks : (\A m \in 1 .. N : k # K(m)) => u.blocks[k] = s.blocks[k]
    BY <2>1, <2>2
  <2>4. ASSUME NEW m \in 1 .. N PROVE Bits(u, Address(new, m)) = u.blocks[K(m)] /\ Bits(t, Address(new, m)) = t.blocks[K(m)]
    BY <2>1, <2>2 DEF Bits
  <2>5. DOMAIN t.blocks[K(n)] = DOMAIN s.blocks[K(n)]
    <3>1. Address(new, n) \in DOMAIN s.entries
      BY <1>16
    <3> QED
      BY <2>1, <3>1 DEF Whole, Bits
  <2>6. ASSUME NEW m \in 1 .. n PROVE Filled(u, Address(new, m), place[m], values[m])
    <3> DEFINE Ym == Bytes(s.layouts[place[m].layout], place[m].rank)
    <3>1. m \in 1 .. N
      BY <1>2
    <3>2. CASE m = n
      <4>1. \A b \in Y : u.blocks[K(n)][b] = values[n]
        BY <1>18, <2>2, <2>5
      <4> QED
        BY <2>2, <2>4, <3>1, <3>2, <4>1 DEF Filled
    <3>3. CASE m # n
      <4>1. \A b \in Ym : t.blocks[K(m)][b] = values[m]
        <5>1. m \in 1 .. n - 1
          BY <1>2, <3>3
        <5>2. Filled(t, Address(new, m), place[m], values[m])
          BY <2>1, <5>1
        <5> QED
          BY <2>1, <2>4, <3>1, <5>2 DEF Filled
      <4>2. \A b \in Ym : u.blocks[K(m)][b] = t.blocks[K(m)][b]
        <5>1. CASE K(m) # K(n)
          <6>1. u.blocks[K(m)] = t.blocks[K(m)]
            BY <1>16, <2>2, <3>1, <5>1
          <6> QED
            BY <6>1
        <5>2. CASE K(m) = K(n)
          <6>1. Address(new, m) = Address(new, n)
            BY <1>17, <3>1, <5>2
          <6>2. place[m].layout = place[n].layout /\ place[m].rank # place[n].rank
            BY <1>12, <1>13, <3>1, <3>3, <6>1
          <6>3. Ym \cap Y = {}
            <7> DEFINE layout == s.layouts[place[n].layout]
                       i == place[m].rank
                       j == place[n].rank
            <7>1. layout \in Layout /\ i \in DOMAIN layout /\ j \in DOMAIN layout /\ i # j
              BY <1>12, <1>18, <3>1, <6>2
            <7>2. Ym = Bytes(layout, i) /\ Y = Bytes(layout, j)
              BY <6>2
            <7> HIDE DEF layout, i, j, Ym, Y
            <7> QED
              BY <7>1, <7>2, BytesFacts
          <6>4. Ym \subseteq DOMAIN t.blocks[K(n)]
            BY <1>18, <2>5, <3>1, <5>2
          <6> QED
            BY <2>2, <5>2, <6>3, <6>4
        <5> QED
          BY <5>1, <5>2
      <4>3. \A b \in Ym : u.blocks[K(m)][b] = values[m]
        BY <4>1, <4>2
      <4> QED
        BY <2>2, <2>4, <3>1, <4>3 DEF Filled
    <3> QED
      BY <3>2, <3>3
  <2> QED
    BY <2>1, <2>2, <2>3, <2>6 DEF u
<1> HIDE DEF P
<1>10. 0 .. N \subseteq S
  <2>1. S \in SUBSET Nat /\ 0 \in S
    BY <1>2, <1>7, <1>8
  <2>2. ASSUME NEW n \in 1 .. N, n - 1 \in S PROVE n \in S
    <3>1. P(run[n - 1], n - 1) /\ run[n] = F(run[n - 1], n)
      BY <1>7, <2>2
    <3>2. P(run[n], n)
      BY <1>9, <3>1
    <3> QED
      BY <1>2, <3>2
  <2> HIDE DEF S
  <2> QED
    BY <1>2, <2>1, <2>2, Increasing
<1>11. P(run[N], N)
  BY <1>2, <1>10
<1> DEFINE t == run[N]
<1>19. /\ Whole(t) /\ t.layouts = s.layouts /\ DOMAIN t.blocks = DOMAIN s.blocks /\ t.entries = s.entries
       /\ \A k \in DOMAIN s.blocks : (\A m \in 1 .. N : k # K(m)) => t.blocks[k] = s.blocks[k]
       /\ \A m \in 1 .. N : Filled(t, Address(new, m), place[m], values[m])
  BY <1>11 DEF P
<1> HIDE DEF t
<1>20. KeptBut(s, t, new.begin, Extent(new))
  <2> SUFFICES ASSUME NEW b \in DOMAIN s.entries, b \notin new.begin .. new.begin + Extent(new) - 1
               PROVE  Bits(t, b) = Bits(s, b)
    BY <1>19 DEF KeptBut
  <2>1. s.entries[b].block \in DOMAIN s.blocks
    BY DEF Whole
  <2>2. \A m \in 1 .. N : s.entries[b].block # K(m)
    BY <1>13, <1>16 DEF Whole
  <2> QED
    BY <1>19, <2>1, <2>2 DEF Bits
<1> QED
  BY <1>1, <1>12, <1>19, <1>20 DEF t

-----------------------------------------------------------------------------
(* The types of what the interpreter keeps. *)

Variable == [type : DOMAIN Composites, begin : Nat]

Held == UNION {[DOMAIN Composites[name].shadows -> Values] : name \in DOMAIN Composites}

PlacesKnown ==
  /\ DOMAIN places \subseteq DOMAIN Composites
  /\ \A name \in DOMAIN places : Placed(layouts, name, places[name])

VariablesKnown ==
  /\ used \in Nat
  /\ variables \in Seq(Variable) /\ stored \in Seq(Held) /\ Len(stored) = Len(variables)
  /\ \A v \in DOMAIN variables : /\ variables[v].type \in DOMAIN places
                                 /\ stored[v] \in [DOMAIN Composites[variables[v].type].shadows -> Values]

LocationKnown ==
  location = NoLocation \/ /\ location.variable \in DOMAIN variables
                           /\ location.member \in DOMAIN Composites[variables[location.variable].type].shadows
                           /\ location.block \in DOMAIN blocks

\* The invariant of the store.
StoreInv == Whole(Shadows) /\ PlacesKnown /\ VariablesKnown /\ LocationKnown

LEMMA ShadowFields ==
  /\ Shadows.layouts = layouts /\ Shadows.entries = entries /\ Shadows.blocks = blocks
  /\ \A s : s = Shadows => s.layouts = layouts /\ s.entries = entries /\ s.blocks = blocks
BY DEF Shadows

LEMMA StoreInvOwner ==
  ASSUME StoreInv
  PROVE  OneOwner
<1>1. PICK s : s = Shadows
  OBVIOUS
<1>2. Whole(s) /\ s.layouts = layouts /\ s.entries = entries /\ s.blocks = blocks
  BY <1>1 DEF StoreInv, Shadows
<1> QED
  BY <1>2 DEF Whole, OneOwner, Bits

LEMMA BecomeStore ==
  ASSUME NEW u, Whole(u), u.layouts = layouts, Become(u), layouts' = layouts
  PROVE  u = Shadows' /\ Whole(Shadows)' /\ blocks' = u.blocks /\ entries' = u.entries
<1>1. u = [layouts |-> u.layouts, entries |-> u.entries, blocks |-> u.blocks]
  BY StoreFacts DEF Whole
<1>2. u = Shadows'
  BY <1>1 DEF Become, Shadows
<1> QED
  BY <1>2 DEF Become

LEMMA VariableFacts ==
  ASSUME PlacesKnown, VariablesKnown, NEW v \in DOMAIN variables
  PROVE  /\ variables[v] \in Variable /\ variables[v].type \in DOMAIN Composites
         /\ variables[v].begin \in Nat /\ variables[v].type \in DOMAIN places
         /\ Sealed(Shadows, variables[v], places[variables[v].type])
         /\ DOMAIN places[variables[v].type] = DOMAIN Composites[variables[v].type].shadows
         /\ stored[v] \in [DOMAIN places[variables[v].type] -> Values]
         /\ stored[v] \in Held
<1> DEFINE name == variables[v].type
<1>1. variables[v] \in Variable /\ name \in DOMAIN places /\ stored[v] \in [DOMAIN Composites[name].shadows -> Values]
  BY DEF VariablesKnown
<1>2. name \in DOMAIN Composites /\ variables[v].begin \in Nat
  BY <1>1 DEF Variable
<1>3. Placed(layouts, name, places[name])
  BY <1>1 DEF PlacesKnown
<1>4. DOMAIN places[name] = DOMAIN Composites[name].shadows
  BY <1>3 DEF Placed
<1>5. Sealed(Shadows, variables[v], places[name])
  BY <1>2, <1>3 DEF Sealed, Shadows
<1>6. stored[v] \in Held
  BY <1>1, <1>2 DEF Held
<1> QED
  BY <1>1, <1>2, <1>4, <1>5, <1>6

LEMMA ShadowStoreInit ==
  ASSUME Init
  PROVE  StoreInv
<1>1. layouts = <<>> /\ places = <<>> /\ entries = <<>> /\ blocks = <<>> /\ variables = <<>>
      /\ used = 0 /\ location = NoLocation /\ stored = <<>>
  BY DEF Init
<1>2. Whole(Shadows)
  <2>1. DOMAIN entries = {} /\ entries \in Entries
    <3>1. entries \in [{} -> Entry] /\ {} \in SUBSET Nat
      BY <1>1
    <3> QED
      BY <1>1, <3>1 DEF Entries
  <2>2. layouts \in Seq(Layout) /\ blocks \in Seq(Block)
    BY <1>1
  <2> QED
    BY <2>1, <2>2 DEF Whole, Stores, Shadows
<1>3. PlacesKnown
  BY <1>1 DEF PlacesKnown
<1>4. VariablesKnown
  BY <1>1 DEF VariablesKnown
<1> QED
  BY <1>1, <1>2, <1>3, <1>4 DEF StoreInv, LocationKnown

\* Sealing a composite adds layouts and its places.
LEMMA SealInv ==
  ASSUME StoreInv, NEW name \in DOMAIN Composites, Seal(name)
  PROVE  /\ StoreInv' /\ Extends(layouts, layouts')
         /\ \A other \in DOMAIN places : other \in DOMAIN places' /\ places'[other] = places[other]
<1> DEFINE c == Composites[name]
<1>1. PICK known : known = layouts
  OBVIOUS
<1>2. PICK grown : grown = InternAll(known, c)
  OBVIOUS
<1> DEFINE place == [m \in DOMAIN c.shadows |-> PlaceIn(grown, c, m)]
<1>3. known \in Seq(Layout)
  BY <1>1, StoreFacts DEF StoreInv, Whole, Shadows
<1>4. grown \in Seq(Layout) /\ Extends(known, grown) /\ Placed(grown, name, place)
  BY <1>2, <1>3, SealPlaces
<1>5. /\ name \notin DOMAIN places /\ layouts' = grown /\ places' = Put(places, name, place)
      /\ entries' = entries /\ blocks' = blocks /\ variables' = variables /\ used' = used
      /\ location' = location /\ stored' = stored
  BY <1>1, <1>2 DEF Seal
<1> HIDE DEF place, c
<1>6. /\ DOMAIN places' = DOMAIN places \cup {name} /\ places'[name] = place
      /\ \A other \in DOMAIN places : places'[other] = places[other]
  BY <1>5 DEF Put
<1>7. \A l \in DOMAIN known : l \in DOMAIN grown /\ grown[l] = known[l]
  <2>1. DOMAIN known = 1 .. Len(known) /\ DOMAIN grown = 1 .. Len(grown) /\ Len(known) \in Nat /\ Len(grown) \in Nat
    BY <1>3, <1>4
  <2> QED
    BY <1>4, <2>1 DEF Extends
<1>8. Whole(Shadows)'
  <2>1. PICK s : s = Shadows
    OBVIOUS
  <2>2. PICK t : t = Shadows'
    OBVIOUS
  <2>3. /\ t.layouts = grown /\ t.entries = s.entries /\ t.blocks = s.blocks
        /\ t = [layouts |-> grown, entries |-> s.entries, blocks |-> s.blocks]
        /\ s.layouts = known /\ Whole(s)
    BY <1>1, <1>5, <2>1, <2>2 DEF Shadows, StoreInv
  <2>4. t \in Stores
    BY <1>4, <2>3 DEF Stores, Whole
  <2>5. \A a \in DOMAIN s.entries : s.entries[a].layout \in DOMAIN known
    BY <2>3 DEF Whole
  <2>6. Whole(t)
    BY <1>7, <2>3, <2>4, <2>5 DEF Whole, Bits
  <2> QED
    BY <2>2, <2>6
<1>9. PlacesKnown'
  <2>1. ASSUME NEW other \in DOMAIN places' PROVE other \in DOMAIN Composites /\ Placed(layouts', other, places'[other])
    <3>1. CASE other = name
      BY <1>4, <1>5, <1>6, <3>1
    <3>2. CASE other # name
      <4>1. other \in DOMAIN places /\ other \in DOMAIN Composites
        BY <1>6, <3>2 DEF StoreInv, PlacesKnown
      <4>2. PICK p : p = places[other]
        OBVIOUS
      <4>3. Placed(known, other, p)
        BY <1>1, <4>1, <4>2 DEF StoreInv, PlacesKnown
      <4>4. Placed(grown, other, p)
        BY <1>3, <1>4, <4>3, PlacedExtends
      <4> QED
        BY <1>5, <1>6, <4>1, <4>2, <4>4
    <3> QED
      BY <3>1, <3>2
  <2> QED
    BY <2>1 DEF PlacesKnown
<1>10. VariablesKnown'
  BY <1>5, <1>6 DEF StoreInv, VariablesKnown
<1>11. LocationKnown'
  BY <1>5 DEF StoreInv, LocationKnown
<1> QED
  BY <1>1, <1>4, <1>5, <1>6, <1>8, <1>9, <1>10, <1>11 DEF StoreInv

\* The variables with one more.
LEMMA ReserveInv ==
  ASSUME PlacesKnown, VariablesKnown, LocationKnown, NEW new, new.type \in DOMAIN places, new.begin \in Nat,
         new \in Variable, NEW values \in [DOMAIN Composites[new.type].shadows -> Values],
         Reserve(new), stored' = Append(stored, values),
         UNCHANGED <<layouts, places, location>>, DOMAIN blocks \subseteq DOMAIN blocks'
  PROVE  /\ PlacesKnown' /\ VariablesKnown' /\ LocationKnown'
         /\ DOMAIN variables' = 1 .. Len(variables) + 1
         /\ variables'[Len(variables) + 1] = new /\ stored'[Len(variables) + 1] = values
         /\ \A v \in DOMAIN variables : /\ v \in DOMAIN variables' /\ variables'[v] = variables[v]
                                        /\ stored'[v] = stored[v]
<1> DEFINE N == Len(variables)
<1>1. /\ variables \in Seq(Variable) /\ stored \in Seq(Held) /\ Len(stored) = N /\ N \in Nat /\ used \in Nat
      /\ DOMAIN variables = 1 .. N /\ DOMAIN stored = 1 .. N
      /\ \A v \in DOMAIN variables : /\ variables[v].type \in DOMAIN places
                                     /\ stored[v] \in [DOMAIN Composites[variables[v].type].shadows -> Values]
  BY DEF VariablesKnown
<1>2. values \in Held
  BY DEF PlacesKnown, Held
<1>3. variables' = Append(variables, new) /\ stored' = Append(stored, values) /\ places' = places
      /\ layouts' = layouts /\ location' = location /\ used' = new.begin + Composites[new.type].size
  BY DEF Reserve
<1>4. used' \in Nat
  <2>1. new.type \in DOMAIN Composites
    BY DEF PlacesKnown
  <2>2. Composites[new.type].size \in Nat
    BY <2>1, CompositeFacts
  <2> QED
    BY <1>3, <2>2
<1>5. /\ variables' \in Seq(Variable) /\ Len(variables') = N + 1 /\ DOMAIN variables' = 1 .. N + 1
      /\ variables'[N + 1] = new /\ \A v \in 1 .. N : variables'[v] = variables[v]
  BY <1>1, <1>3
<1>6. /\ stored' \in Seq(Held) /\ Len(stored') = N + 1
      /\ stored'[N + 1] = values /\ \A v \in 1 .. N : stored'[v] = stored[v]
  BY <1>1, <1>2, <1>3
<1>7. \A v \in 1 .. N + 1 : v \in 1 .. N \/ v = N + 1
  BY <1>1
<1>10. \A v \in 1 .. N : v \in 1 .. N + 1
  BY <1>1
<1> HIDE DEF N
<1>8. VariablesKnown'
  <2>1. ASSUME NEW v \in DOMAIN variables'
        PROVE  /\ variables'[v].type \in DOMAIN places'
               /\ stored'[v] \in [DOMAIN Composites[variables'[v].type].shadows -> Values]
    <3>1. CASE v = N + 1
      BY <1>3, <1>5, <1>6, <3>1
    <3>2. CASE v \in 1 .. N
      BY <1>1, <1>3, <1>5, <1>6, <3>2
    <3> QED
      BY <1>5, <1>7, <3>1, <3>2
  <2> QED
    BY <1>4, <1>5, <1>6, <2>1 DEF VariablesKnown
<1>9. PlacesKnown' /\ LocationKnown'
  BY <1>1, <1>3, <1>5, <1>10 DEF PlacesKnown, LocationKnown
<1> QED
  BY <1>1, <1>5, <1>6, <1>8, <1>9, <1>10 DEF N

\* What LocationKnown and the like need when only what is stored changes.
LEMMA SameVariables ==
  ASSUME PlacesKnown, VariablesKnown, LocationKnown,
         UNCHANGED <<layouts, places, variables, used, location>>, DOMAIN blocks \subseteq DOMAIN blocks'
  PROVE  /\ PlacesKnown' /\ LocationKnown'
         /\ stored' = stored => VariablesKnown'
         /\ \A v \in DOMAIN variables : \A values \in [DOMAIN Composites[variables[v].type].shadows -> Values] :
               stored' = [stored EXCEPT ![v] = values] => VariablesKnown'
<1>1. PlacesKnown' /\ LocationKnown'
  BY DEF PlacesKnown, LocationKnown
<1>2. stored' = stored => VariablesKnown'
  BY DEF VariablesKnown
<1>3. ASSUME NEW v \in DOMAIN variables,
             NEW values \in [DOMAIN Composites[variables[v].type].shadows -> Values],
             stored' = [stored EXCEPT ![v] = values]
      PROVE  VariablesKnown'
  <2>1. values \in Held
    BY VariableFacts DEF Held
  <2>2. stored \in Seq(Held) /\ Len(stored) = Len(variables) /\ DOMAIN stored = DOMAIN variables
    BY DEF VariablesKnown
  <2>3. stored' \in Seq(Held) /\ Len(stored') = Len(stored)
    BY <1>3, <2>1, <2>2
  <2>4. \A w \in DOMAIN stored : stored'[w] = IF w = v THEN values ELSE stored[w]
    BY <1>3
  <2> QED
    BY <2>2, <2>3, <2>4 DEF VariablesKnown
<1> QED
  BY <1>1, <1>2, <1>3

-----------------------------------------------------------------------------
(* The actions keep the invariant, and change the store as they should. *)

\* The shadows of a variable hold values.
ReadsFrom(s, new, place, values) ==
  \A m \in DOMAIN values : /\ HasEntry(s, Address(new, m), place[m].layout)
                           /\ Filled(s, Address(new, m), place[m], values[m])

LEMMA NextVariableFacts ==
  ASSUME PlacesKnown, VariablesKnown, NEW type \in DOMAIN places
  PROVE  /\ NextVariable(type) \in Variable /\ NextVariable(type).type = type
         /\ NextVariable(type).begin \in Nat /\ NextVariable(type).begin >= used
         /\ NextVariable(type).begin % Composites[type].align = 0
<1>1. type \in DOMAIN Composites /\ used \in Nat
  BY DEF PlacesKnown, VariablesKnown
<1>2. Composites[type].align \in Nat \ {0}
  BY <1>1, CompositeFacts
<1>3. PICK u \in Nat : u = used
  BY <1>1
<1>4. PICK b : b = RoundUp(u, Composites[type].align)
  OBVIOUS
<1>5. b \in Nat /\ b >= u /\ b % Composites[type].align = 0
  BY <1>2, <1>4, RoundUpFacts
<1>6. NextVariable(type) = [type |-> type, begin |-> b]
  BY <1>3, <1>4 DEF NextVariable
<1> QED
  BY <1>1, <1>3, <1>5, <1>6 DEF Variable

LEMMA DefineTypedInv ==
  ASSUME StoreInv, NEW type \in DOMAIN places,
         NEW values \in [DOMAIN Composites[type].shadows -> Values], DefineTyped(type, values)
  PROVE  /\ StoreInv' /\ DOMAIN blocks \subseteq DOMAIN blocks'
         /\ \E new \in Variable :
               /\ new = NextVariable(type)
               /\ KeptBut(Shadows, Shadows', new.begin, Extent(new))
               /\ ReadsFrom(Shadows', new, places[type], values)
<1>1. PICK new : new = NextVariable(type)
  OBVIOUS
<1>2. new \in Variable /\ new.type = type /\ new.begin \in Nat
  BY <1>1, NextVariableFacts DEF StoreInv
<1>3. PICK s : s = Shadows
  OBVIOUS
<1>4. PICK place : place = places[type]
  OBVIOUS
<1>5. Whole(s) /\ s.layouts = layouts /\ s.blocks = blocks
  BY <1>3 DEF StoreInv, Shadows
<1>6. type \in DOMAIN Composites /\ Placed(layouts, type, place)
  BY <1>4 DEF StoreInv, PlacesKnown
<1>7. Sealed(s, new, place) /\ DOMAIN place = DOMAIN Composites[type].shadows
  BY <1>2, <1>5, <1>6 DEF Sealed, Placed
<1>8. PICK found : found = LookUpAll(s, new, place)
  OBVIOUS
<1>9. /\ Whole(found) /\ found.layouts = s.layouts /\ DOMAIN s.blocks \subseteq DOMAIN found.blocks
      /\ KeptBut(s, found, new.begin, Extent(new))
      /\ \A m \in DOMAIN place : HasEntry(found, Address(new, m), place[m].layout)
  BY <1>5, <1>7, <1>8, LookUpAllFacts
<1>10. PICK t : t = InitializeAll(found, new, place, values)
  OBVIOUS
<1>11. Sealed(found, new, place) /\ values \in [DOMAIN place -> Values]
  BY <1>7, <1>9 DEF Sealed
<1>12. /\ Whole(t) /\ t.layouts = found.layouts /\ DOMAIN found.blocks \subseteq DOMAIN t.blocks
       /\ t.entries = found.entries
       /\ KeptBut(found, t, new.begin, Extent(new))
       /\ \A m \in DOMAIN place : Filled(t, Address(new, m), place[m], values[m])
  BY <1>9, <1>10, <1>11, InitializeAllFacts
<1>13. KeptBut(s, t, new.begin, Extent(new))
  BY <1>9, <1>12 DEF KeptBut
<1>14. ReadsFrom(t, new, place, values)
  BY <1>9, <1>11, <1>12 DEF ReadsFrom, HasEntry
<1>15. /\ Become(t) /\ Reserve(new) /\ stored' = Append(stored, values)
       /\ UNCHANGED <<layouts, places, location>>
  BY <1>1, <1>3, <1>4, <1>8, <1>10 DEF DefineTyped
<1>16. t = Shadows' /\ Whole(Shadows)' /\ blocks' = t.blocks
  <2>1. layouts' = layouts /\ t.layouts = layouts
    BY <1>5, <1>9, <1>12, <1>15
  <2> QED
    BY <1>12, <1>15, <2>1, BecomeStore
<1>17. DOMAIN blocks \subseteq DOMAIN blocks'
  BY <1>5, <1>9, <1>12, <1>16
<1>18. PlacesKnown' /\ VariablesKnown' /\ LocationKnown'
  <2>1. PlacesKnown /\ VariablesKnown /\ LocationKnown
    BY DEF StoreInv
  <2>2. new.type \in DOMAIN places /\ values \in [DOMAIN Composites[new.type].shadows -> Values]
    BY <1>2
  <2> QED
    BY <1>2, <1>15, <1>17, <2>1, <2>2, ReserveInv
<1> QED
  BY <1>1, <1>2, <1>3, <1>4, <1>13, <1>14, <1>16, <1>17, <1>18 DEF StoreInv

\* What a copy of a range of addresses makes of the store.
Copies(dst, src, count) ==
  /\ Whole(Shadows)' /\ DOMAIN blocks \subseteq DOMAIN blocks'
  /\ KeptBut(Shadows, Shadows', dst, count)
  /\ Disjoint(dst, src, count) => CopiedTo(Shadows, Shadows', dst, src, count)

LEMMA CopyFacts ==
  ASSUME StoreInv, NEW dst \in Nat, NEW src \in Nat, NEW size \in Nat,
         Become(Copy(Shadows, dst, src, size)), layouts' = layouts
  PROVE  Copies(dst, src, size + 1)
<1>1. PICK s : s = Shadows
  OBVIOUS
<1>2. PICK t : t = CopyRange(s, dst, src, size + 1)
  OBVIOUS
<1>3. Whole(s) /\ s.layouts = layouts /\ s.blocks = blocks /\ size + 1 \in Nat
  BY <1>1 DEF StoreInv, Shadows
<1>4. /\ Whole(t) /\ t.layouts = s.layouts /\ DOMAIN s.blocks \subseteq DOMAIN t.blocks
      /\ KeptBut(s, t, dst, size + 1)
      /\ Disjoint(dst, src, size + 1) => CopiedTo(s, t, dst, src, size + 1)
  BY <1>2, <1>3, CopyRangeFacts
<1>5. Become(t)
  BY <1>1, <1>2 DEF Copy
<1>6. t = Shadows' /\ Whole(Shadows)' /\ blocks' = t.blocks
  BY <1>3, <1>4, <1>5, BecomeStore
<1> QED
  BY <1>1, <1>3, <1>4, <1>6 DEF Copies

LEMMA DefineCopyInv ==
  ASSUME StoreInv, NEW v \in DOMAIN variables, DefineCopy(v)
  PROVE  /\ StoreInv'
         /\ \E new \in Variable :
               /\ new = NextVariable(variables[v].type)
               /\ Copies(new.begin, variables[v].begin, Extent(new))
<1>1. PICK new : new = NextVariable(variables[v].type)
  OBVIOUS
<1>2. PICK old : old = variables[v]
  OBVIOUS
<1>3. PlacesKnown /\ VariablesKnown /\ LocationKnown
  BY DEF StoreInv
<1>4. /\ old.type \in DOMAIN Composites /\ old.begin \in Nat /\ old.type \in DOMAIN places
      /\ DOMAIN places[old.type] = DOMAIN Composites[old.type].shadows
      /\ stored[v] \in [DOMAIN Composites[old.type].shadows -> Values]
  BY <1>2, <1>3, VariableFacts
<1>5. new \in Variable /\ new.type = old.type /\ new.begin \in Nat
  BY <1>1, <1>2, <1>3, <1>4, NextVariableFacts
<1>6. PICK size : size = Composites[old.type].size
  OBVIOUS
<1>7. size \in Nat /\ Extent(new) = size + 1
  BY <1>4, <1>5, <1>6, CompositeFacts DEF Extent
<1>8. /\ Reserve(new) /\ stored' = Append(stored, stored[v])
      /\ Become(Copy(Shadows, new.begin, old.begin, size))
      /\ UNCHANGED <<layouts, places, location>>
  BY <1>1, <1>2, <1>6 DEF DefineCopy, Composite
<1>9. Copies(new.begin, old.begin, size + 1)
  <2>1. layouts' = layouts
    BY <1>8
  <2> QED
    BY <1>4, <1>5, <1>7, <1>8, <2>1, CopyFacts
<1>10. PICK values : values = stored[v]
  OBVIOUS
<1>11. PlacesKnown' /\ VariablesKnown' /\ LocationKnown'
  <2>1. DOMAIN blocks \subseteq DOMAIN blocks'
    BY <1>9 DEF Copies
  <2>2. values \in [DOMAIN Composites[new.type].shadows -> Values] /\ new.type \in DOMAIN places
    BY <1>4, <1>5, <1>10
  <2>3. stored' = Append(stored, values)
    BY <1>8, <1>10
  <2> QED
    BY <1>3, <1>5, <1>8, <2>1, <2>2, <2>3, ReserveInv
<1> QED
  BY <1>1, <1>2, <1>5, <1>7, <1>9, <1>11 DEF StoreInv, Copies

LEMMA AssignInv ==
  ASSUME StoreInv, NEW dst \in DOMAIN variables, NEW src \in DOMAIN variables, Assign(dst, src)
  PROVE  StoreInv' /\ Copies(variables[dst].begin, variables[src].begin, Extent(variables[dst]))
<1>1. PICK to : to = variables[dst]
  OBVIOUS
<1>2. PICK from : from = variables[src]
  OBVIOUS
<1>3. PlacesKnown /\ VariablesKnown /\ LocationKnown
  BY DEF StoreInv
<1>4. /\ to.type = from.type /\ to.type \in DOMAIN Composites /\ to.begin \in Nat /\ from.begin \in Nat
      /\ stored[src] \in [DOMAIN Composites[to.type].shadows -> Values]
  <2>1. to.type \in DOMAIN Composites /\ to.begin \in Nat
    BY <1>1, <1>3, VariableFacts
  <2>2. from.begin \in Nat /\ stored[src] \in [DOMAIN Composites[from.type].shadows -> Values]
    BY <1>2, <1>3, VariableFacts
  <2>3. to.type = from.type
    BY <1>1, <1>2 DEF Assign
  <2> QED
    BY <2>1, <2>2, <2>3
<1>5. PICK size : size = Composites[to.type].size
  OBVIOUS
<1>6. size \in Nat /\ Extent(to) = size + 1
  BY <1>4, <1>5, CompositeFacts DEF Extent
<1>7. PICK values : values = stored[src]
  OBVIOUS
<1>8. /\ stored' = [stored EXCEPT ![dst] = values]
      /\ Become(Copy(Shadows, to.begin, from.begin, size))
      /\ UNCHANGED <<layouts, places, variables, used, location>>
  BY <1>1, <1>2, <1>4, <1>5, <1>7 DEF Assign, Composite
<1>9. Copies(to.begin, from.begin, size + 1)
  <2>1. layouts' = layouts
    BY <1>8
  <2> QED
    BY <1>4, <1>6, <1>8, <2>1, CopyFacts
<1>10. PlacesKnown' /\ VariablesKnown' /\ LocationKnown'
  <2>1. DOMAIN blocks \subseteq DOMAIN blocks'
    BY <1>9 DEF Copies
  <2>2. values \in [DOMAIN Composites[variables[dst].type].shadows -> Values]
    BY <1>1, <1>4, <1>7
  <2> QED
    BY <1>3, <1>8, <2>1, <2>2, SameVariables
<1> QED
  BY <1>1, <1>2, <1>6, <1>9, <1>10 DEF StoreInv, Copies

LEMMA AssignDatumInv ==
  ASSUME StoreInv, NEW dst \in DOMAIN variables, NEW src \in DOMAIN variables,
         NEW datum \in Composites[variables[dst].type].data, AssignDatum(dst, src, datum)
  PROVE  /\ StoreInv'
         /\ Copies(variables[dst].begin + datum.offset, variables[src].begin + datum.offset, datum.size + 1)
<1>1. PlacesKnown /\ VariablesKnown /\ LocationKnown
  BY DEF StoreInv
<1>2. PICK to : to = variables[dst].begin
  OBVIOUS
<1>3. PICK from : from = variables[src].begin
  OBVIOUS
<1>4. to \in Nat /\ from \in Nat /\ variables[dst].type \in DOMAIN Composites
  BY <1>1, <1>2, <1>3, VariableFacts
<1>5. datum.offset \in Nat /\ datum.size \in Nat
  BY <1>4, MembersAssumption
<1>6. /\ Become(Copy(Shadows, to + datum.offset, from + datum.offset, datum.size))
      /\ UNCHANGED <<layouts, places, variables, used, location, stored>>
  BY <1>2, <1>3 DEF AssignDatum
<1>7. Copies(to + datum.offset, from + datum.offset, datum.size + 1)
  <2>1. layouts' = layouts /\ to + datum.offset \in Nat /\ from + datum.offset \in Nat
    BY <1>4, <1>5, <1>6
  <2> QED
    BY <1>5, <1>6, <2>1, CopyFacts
<1>8. PlacesKnown' /\ VariablesKnown' /\ LocationKnown'
  <2>1. DOMAIN blocks \subseteq DOMAIN blocks'
    BY <1>7 DEF Copies
  <2>2. stored' = stored
    BY <1>6
  <2> QED
    BY <1>1, <1>6, <2>1, <2>2, SameVariables
<1> QED
  BY <1>2, <1>3, <1>7, <1>8 DEF StoreInv, Copies

LEMMA LocateInv ==
  ASSUME StoreInv, NEW v \in DOMAIN variables, NEW m \in DOMAIN Composites[variables[v].type].shadows,
         Locate(v, m)
  PROVE  /\ StoreInv'
         /\ HasEntry(Shadows, AddressOf(v, m), PlaceOf(v, m).layout) => entries' = entries /\ blocks' = blocks
         /\ location'.variable = v /\ location'.member = m
         /\ location'.block = entries'[AddressOf(v, m)].block
<1>1. PICK s : s = Shadows
  OBVIOUS
<1>2. PICK new : new = variables[v]
  OBVIOUS
<1>3. PICK place : place = places[new.type]
  OBVIOUS
<1>4. PlacesKnown /\ VariablesKnown /\ LocationKnown /\ Whole(s) /\ s.layouts = layouts /\ s.entries = entries
      /\ s.blocks = blocks
  BY <1>1 DEF StoreInv, Shadows
<1>5. /\ new.type \in DOMAIN Composites /\ new.begin \in Nat
      /\ Sealed(s, new, place) /\ DOMAIN place = DOMAIN Composites[new.type].shadows
  BY <1>1, <1>2, <1>3, <1>4, VariableFacts
<1>6. PICK a : a = Address(new, m)
  OBVIOUS
<1>7. m \in DOMAIN Composites[new.type].shadows
  BY <1>2
<1>8. a \in Nat /\ place[m].layout \in DOMAIN s.layouts
  <2>1. a \in Nat
    BY <1>5, <1>6, <1>7, AddressFacts
  <2> QED
    BY <1>5, <1>7, <2>1 DEF Sealed, Placed
<1>9. AddressOf(v, m) = a /\ PlaceOf(v, m) = place[m]
  BY <1>2, <1>3, <1>6 DEF AddressOf, PlaceOf, Address, Composite
<1>10. PICK t : t = WithEntry(s, a, place[m].layout)
  OBVIOUS
<1>11. /\ Whole(t) /\ t.layouts = s.layouts
       /\ HasEntry(s, a, place[m].layout) => t = s
       /\ DOMAIN t.entries = DOMAIN s.entries \cup {a}
       /\ \A k \in DOMAIN s.blocks : k \in DOMAIN t.blocks
  BY <1>4, <1>8, <1>10, WithEntryFacts
<1>12. /\ location' = [variable |-> v, member |-> m, block |-> t.entries[a].block]
       /\ Become(t) /\ UNCHANGED <<layouts, places, variables, used, stored>>
  BY <1>1, <1>9, <1>10 DEF Locate
<1>13. t = Shadows' /\ Whole(Shadows)' /\ blocks' = t.blocks /\ entries' = t.entries
  <2>1. t.layouts = layouts /\ layouts' = layouts
    BY <1>4, <1>11, <1>12
  <2> QED
    BY <1>11, <1>12, <2>1, BecomeStore
<1>14. location'.variable = v /\ location'.member = m /\ location'.block = t.entries[a].block
  BY <1>12
<1>15. t.entries[a].block \in DOMAIN t.blocks
  BY <1>11 DEF Whole
<1>16. LocationKnown'
  BY <1>12, <1>13, <1>14, <1>15 DEF LocationKnown
<1>17. PlacesKnown' /\ VariablesKnown'
  BY <1>4, <1>12 DEF PlacesKnown, VariablesKnown
<1>18. HasEntry(Shadows, AddressOf(v, m), PlaceOf(v, m).layout) => entries' = entries /\ blocks' = blocks
  BY <1>1, <1>4, <1>9, <1>11, <1>13
<1> QED
  BY <1>9, <1>13, <1>14, <1>16, <1>17, <1>18 DEF StoreInv

LEMMA StoreMemberInv ==
  ASSUME StoreInv, NEW value \in Values, StoreMember(value)
  PROVE  /\ StoreInv' /\ location # NoLocation
         /\ Shadows' = Write(Shadows, location.block, PlaceOf(location.variable, location.member), value)
<1>1. PICK s : s = Shadows
  OBVIOUS
<1>2. PICK k : k = location.block
  OBVIOUS
<1>3. PICK place : place = PlaceOf(location.variable, location.member)
  OBVIOUS
<1>4. PlacesKnown /\ VariablesKnown /\ LocationKnown /\ Whole(s) /\ s.layouts = layouts /\ s.blocks = blocks
  BY <1>1 DEF StoreInv, Shadows
<1>5. PICK v : v = location.variable
  OBVIOUS
<1>6. PICK m : m = location.member
  OBVIOUS
<1>7. /\ location # NoLocation /\ location' = NoLocation
      /\ stored' = [stored EXCEPT ![v][m] = value]
      /\ Become(Write(s, k, place, value))
      /\ UNCHANGED <<layouts, places, variables, used>>
  BY <1>1, <1>2, <1>3, <1>5, <1>6 DEF StoreMember
<1>8. v \in DOMAIN variables /\ m \in DOMAIN Composites[variables[v].type].shadows /\ k \in DOMAIN s.blocks
  BY <1>2, <1>4, <1>5, <1>6, <1>7 DEF LocationKnown
<1>9. PICK t : t = Write(s, k, place, value)
  OBVIOUS
<1>10. Whole(t) /\ t.layouts = s.layouts /\ DOMAIN t.blocks = DOMAIN s.blocks
  BY <1>4, <1>8, <1>9, WriteFacts
<1>11. t = Shadows' /\ Whole(Shadows)' /\ blocks' = t.blocks
  <2>1. Become(t) /\ t.layouts = layouts /\ layouts' = layouts
    BY <1>4, <1>7, <1>9, <1>10
  <2> QED
    BY <1>10, <2>1, BecomeStore
<1>12. PICK values : values = [stored[v] EXCEPT ![m] = value]
  OBVIOUS
<1>13. values \in [DOMAIN Composites[variables[v].type].shadows -> Values]
  <2>1. stored[v] \in [DOMAIN Composites[variables[v].type].shadows -> Values]
    BY <1>4, <1>8 DEF VariablesKnown
  <2> QED
    BY <1>8, <1>12, <2>1
<1>14. stored' = [stored EXCEPT ![v] = values]
  BY <1>7, <1>12
<1>15. PlacesKnown' /\ VariablesKnown'
  <2>1. \A w \in DOMAIN variables : stored[w] \in [DOMAIN Composites[variables[w].type].shadows -> Values]
    BY <1>4 DEF VariablesKnown
  <2>2. values \in Held
    BY <1>4, <1>8, <1>13, VariableFacts DEF Held
  <2>3. stored \in Seq(Held) /\ Len(stored) = Len(variables) /\ DOMAIN stored = DOMAIN variables
    BY <1>4 DEF VariablesKnown
  <2> v \in DOMAIN stored
    BY <1>8, <2>3
  <2> HIDE DEF Held
  <2>4. stored' \in Seq(Held) /\ Len(stored') = Len(stored)
    BY <1>14, <2>2, <2>3
  <2>5. \A w \in DOMAIN stored : stored'[w] = IF w = v THEN values ELSE stored[w]
    BY <1>14
  <2>6. VariablesKnown'
    BY <1>4, <1>7, <1>13, <2>1, <2>3, <2>4, <2>5 DEF VariablesKnown
  <2> QED
    BY <1>4, <1>7, <2>6 DEF PlacesKnown
<1>16. LocationKnown'
  BY <1>7 DEF LocationKnown
<1> QED
  BY <1>1, <1>2, <1>3, <1>7, <1>9, <1>11, <1>15, <1>16 DEF StoreInv

LEMMA EndScopeInv ==
  ASSUME StoreInv, EndScope
  PROVE  /\ StoreInv' /\ Len(variables) \in Nat \ {0} /\ DOMAIN variables' = 1 .. Len(variables) - 1
         /\ used' = variables[Len(variables)].begin
         /\ \A v \in DOMAIN variables' : v \in DOMAIN variables /\ variables'[v] = variables[v]
                                         /\ stored'[v] = stored[v]
         /\ location # NoLocation => location.variable \in DOMAIN variables'
<1> DEFINE N == Len(variables)
<1>1. /\ variables \in Seq(Variable) /\ stored \in Seq(Held) /\ Len(stored) = N /\ N \in Nat
      /\ DOMAIN variables = 1 .. N /\ DOMAIN stored = 1 .. N
      /\ \A v \in DOMAIN variables : /\ variables[v].type \in DOMAIN places
                                     /\ stored[v] \in [DOMAIN Composites[variables[v].type].shadows -> Values]
      /\ PlacesKnown /\ LocationKnown /\ Whole(Shadows)
  BY DEF StoreInv, VariablesKnown
<1>2. /\ N > location.variable /\ used' = variables[N].begin
      /\ variables' = SubSeq(variables, 1, N - 1) /\ stored' = SubSeq(stored, 1, N - 1)
      /\ UNCHANGED <<layouts, places, entries, blocks, location>>
  BY <1>1 DEF EndScope, Last, Front
<1>3. /\ location = NoLocation => N \in Nat \ {0}
      /\ location # NoLocation => location.variable \in 1 .. N - 1
  BY <1>1, <1>2 DEF LocationKnown, NoLocation
<1>4. N \in Nat \ {0}
  BY <1>1, <1>3
<1>5. /\ variables' \in Seq(Variable) /\ Len(variables') = N - 1 /\ DOMAIN variables' = 1 .. N - 1
      /\ \A v \in 1 .. N - 1 : variables'[v] = variables[v]
  BY <1>1, <1>2, <1>4
<1>6. /\ stored' \in Seq(Held) /\ Len(stored') = N - 1
      /\ \A v \in 1 .. N - 1 : stored'[v] = stored[v]
  BY <1>1, <1>2, <1>4
<1>7. \A v \in 1 .. N - 1 : v \in 1 .. N
  BY <1>1
<1>8. used' \in Nat
  <2>1. N \in DOMAIN variables
    BY <1>1, <1>4
  <2>2. variables[N].begin \in Nat
    BY <2>1, VariableFacts DEF StoreInv
  <2> QED
    BY <1>2, <2>2
<1>9. VariablesKnown'
  BY <1>1, <1>2, <1>5, <1>6, <1>7, <1>8 DEF VariablesKnown
<1>10. PlacesKnown'
  BY <1>1, <1>2 DEF PlacesKnown
<1>11. Shadows' = Shadows
  BY <1>2 DEF Shadows
<1>12. LocationKnown'
  BY <1>1, <1>2, <1>3, <1>5 DEF LocationKnown
<1> QED
  BY <1>1, <1>2, <1>3, <1>4, <1>5, <1>6, <1>7, <1>9, <1>10, <1>11, <1>12 DEF StoreInv

LEMMA StoreInvNext ==
  ASSUME StoreInv, [Next]_vars
  PROVE  StoreInv'
<1>1. CASE \E name \in DOMAIN Composites : Seal(name)
  BY <1>1, SealInv
<1>2. CASE \E type \in DOMAIN places : \E values \in [DOMAIN Composites[type].shadows -> Values] : DefineTyped(type, values)
  BY <1>2, DefineTypedInv
<1>3. CASE \E v \in DOMAIN variables : DefineCopy(v)
  BY <1>3, DefineCopyInv
<1>4. CASE \E dst, src \in DOMAIN variables : Assign(dst, src)
  BY <1>4, AssignInv
<1>5. CASE \E dst, src \in DOMAIN variables : \E datum \in Composite(dst).data : AssignDatum(dst, src, datum)
  BY <1>5, AssignDatumInv DEF Composite
<1>6. CASE \E v \in DOMAIN variables : \E m \in DOMAIN Composite(v).shadows : Locate(v, m)
  BY <1>6, LocateInv DEF Composite
<1>7. CASE \E value \in Values : StoreMember(value)
  BY <1>7, StoreMemberInv
<1>8. CASE EndScope
  BY <1>8, EndScopeInv
<1>9. CASE UNCHANGED vars
  BY <1>9 DEF vars, StoreInv, Whole, Shadows, PlacesKnown, VariablesKnown, LocationKnown
<1> QED
  BY <1>1, <1>2, <1>3, <1>4, <1>5, <1>6, <1>7, <1>8, <1>9 DEF Next

\* In every reachable state a block belongs to one address, and has the size of
\* the layout that the address has there: shadow_get and shadow_copy never leave
\* two addresses with one block, nor one with a block that is too small.
THEOREM SpecOneOwner == Spec => []OneOwner
<1>1. Init => StoreInv
  BY ShadowStoreInit
<1>2. StoreInv /\ [Next]_vars => StoreInv'
  BY StoreInvNext
<1>3. StoreInv => OneOwner
  BY StoreInvOwner
<1> QED
  BY <1>1, <1>2, <1>3, PTL DEF Spec

-----------------------------------------------------------------------------
(* What is read back. *)

\* No datum begins, ends or lies where a shadow of its composite does.
ShadowsApart ==
  \A name \in DOMAIN Composites : \A datum \in Composites[name].data :
     \A m \in DOMAIN Composites[name].shadows :
        Composites[name].shadows[m].offset \notin datum.offset .. datum.offset + datum.size

\* No variable ends where a later one begins.
Separate ==
  \A v, w \in DOMAIN variables :
     v < w => variables[v].begin + Composites[variables[v].type].size # variables[w].begin

\* Variables lie in free memory, one behind the other.
Spaced ==
  /\ \A v \in DOMAIN variables : variables[v].begin + Composites[variables[v].type].size <= used
  /\ \A v, w \in DOMAIN variables :
        v < w => variables[v].begin + Composites[variables[v].type].size <= variables[w].begin

\* All variables hold what was stored in them.
Reading ==
  \A v \in DOMAIN variables : ReadsFrom(Shadows, variables[v], places[variables[v].type], stored[v])

\* The block that was looked up is still the one at its address.
Located ==
  location # NoLocation =>
    location.block = entries[Address(variables[location.variable], location.member)].block

ReadInv == StoreInv /\ Spaced /\ Located /\ Reading

\* What lies outside of the addresses that changed is read as before, from the
\* same blocks.
LEMMA ReadsKept ==
  ASSUME NEW s, NEW t, t.layouts = s.layouts, NEW begin, NEW count, KeptBut(s, t, begin, count),
         NEW new, NEW place, NEW values, ReadsFrom(s, new, place, values),
         \A m \in DOMAIN values : Address(new, m) \notin begin .. begin + count - 1
  PROVE  /\ ReadsFrom(t, new, place, values)
         /\ \A m \in DOMAIN values : t.entries[Address(new, m)] = s.entries[Address(new, m)]
<1>1. ASSUME NEW m \in DOMAIN values
      PROVE  /\ t.entries[Address(new, m)] = s.entries[Address(new, m)]
             /\ HasEntry(t, Address(new, m), place[m].layout)
             /\ Filled(t, Address(new, m), place[m], values[m])
  <2> DEFINE a == Address(new, m)
  <2>1. HasEntry(s, a, place[m].layout) /\ Filled(s, a, place[m], values[m])
    BY <1>1 DEF ReadsFrom
  <2>2. a \notin begin .. begin + count - 1
    BY <1>1
  <2> HIDE DEF a
  <2>3. a \in DOMAIN t.entries /\ t.entries[a] = s.entries[a] /\ Bits(t, a) = Bits(s, a)
    BY <2>1, <2>2 DEF KeptBut, HasEntry
  <2>4. HasEntry(t, a, place[m].layout) /\ Filled(t, a, place[m], values[m])
    BY <2>1, <2>3 DEF HasEntry, Filled
  <2> QED
    BY <2>3, <2>4 DEF a
<1> QED
  BY <1>1 DEF ReadsFrom

\* A copy is read like its original; where it has an entry for the shadow
\* already, it keeps its block.
LEMMA ReadsCopied ==
  ASSUME NEW s, NEW t, t.layouts = s.layouts, NEW dst, NEW src,
         src.type \in DOMAIN Composites, dst.type = src.type, dst.begin \in Nat, src.begin \in Nat,
         CopiedTo(s, t, dst.begin, src.begin, Extent(src)),
         NEW place, NEW values, ReadsFrom(s, src, place, values),
         DOMAIN values = DOMAIN Composites[src.type].shadows
  PROVE  /\ ReadsFrom(t, dst, place, values)
         /\ \A m \in DOMAIN values : HasEntry(s, Address(dst, m), place[m].layout) =>
               t.entries[Address(dst, m)] = s.entries[Address(dst, m)]
<1>1. ASSUME NEW m \in DOMAIN values
      PROVE  /\ HasEntry(s, Address(dst, m), place[m].layout) =>
                   t.entries[Address(dst, m)] = s.entries[Address(dst, m)]
             /\ HasEntry(t, Address(dst, m), place[m].layout)
             /\ Filled(t, Address(dst, m), place[m], values[m])
  <2>1. PICK i : i = Composites[src.type].shadows[m].offset
    OBVIOUS
  <2>2. i \in 0 .. Composites[src.type].size /\ Composites[src.type].size \in Nat
    BY <1>1, <2>1, CompositeFacts
  <2>3. i \in 0 .. Extent(src) - 1
    BY <2>2 DEF Extent
  <2>4. Address(src, m) = src.begin + i /\ Address(dst, m) = dst.begin + i
    BY <2>1 DEF Address
  <2>5. HasEntry(s, src.begin + i, place[m].layout) /\ Filled(s, src.begin + i, place[m], values[m])
    BY <1>1, <2>4 DEF ReadsFrom
  <2>6. /\ dst.begin + i \in DOMAIN t.entries
        /\ t.entries[dst.begin + i].layout = s.entries[src.begin + i].layout
        /\ Bits(t, dst.begin + i) = Bits(s, src.begin + i)
        /\ HasEntry(s, dst.begin + i, s.entries[src.begin + i].layout) =>
              t.entries[dst.begin + i] = s.entries[dst.begin + i]
    BY <2>3, <2>5 DEF CopiedTo, HasEntry
  <2>7. HasEntry(t, dst.begin + i, place[m].layout) /\ Filled(t, dst.begin + i, place[m], values[m])
    BY <2>5, <2>6 DEF HasEntry, Filled
  <2>8. s.entries[src.begin + i].layout = place[m].layout
    BY <2>5 DEF HasEntry
  <2> QED
    BY <2>4, <2>6, <2>7, <2>8
<1> QED
  BY <1>1 DEF ReadsFrom

\* More layouts change nothing in what is read.
LEMMA ReadsExtended ==
  ASSUME NEW s, NEW t, t.entries = s.entries, t.blocks = s.blocks, Extends(s.layouts, t.layouts),
         NEW new, NEW place, Placed(s.layouts, new.type, place),
         NEW values, DOMAIN values = DOMAIN Composites[new.type].shadows, ReadsFrom(s, new, place, values)
  PROVE  ReadsFrom(t, new, place, values)
<1>1. ASSUME NEW m \in DOMAIN values
      PROVE  /\ HasEntry(t, Address(new, m), place[m].layout)
             /\ Filled(t, Address(new, m), place[m], values[m])
  <2>1. t.layouts[place[m].layout] = s.layouts[place[m].layout]
    BY <1>1 DEF Placed, Extends
  <2>2. HasEntry(s, Address(new, m), place[m].layout) /\ Filled(s, Address(new, m), place[m], values[m])
    BY <1>1 DEF ReadsFrom
  <2> QED
    BY <2>1, <2>2 DEF HasEntry, Filled, Bits
<1> QED
  BY <1>1 DEF ReadsFrom

\* The value of one shadow is replaced in the block of its address, where
\* others may have bytes of their own.
LEMMA ReadsWritten ==
  ASSUME NEW s, Whole(s), NEW new, NEW place, Sealed(s, new, place),
         NEW values \in [DOMAIN place -> Values], ReadsFrom(s, new, place, values),
         NEW m \in DOMAIN place, NEW value \in Values
  PROVE  LET t == Write(s, s.entries[Address(new, m)].block, place[m], value)
         IN  ReadsFrom(t, new, place, [values EXCEPT ![m] = value])
<1>1. PICK k : k = s.entries[Address(new, m)].block
  OBVIOUS
<1>2. PICK t : t = Write(s, k, place[m], value)
  OBVIOUS
<1>3. HasEntry(s, Address(new, m), place[m].layout)
  BY DEF ReadsFrom
<1>4. k \in DOMAIN s.blocks
  BY <1>1, <1>3 DEF Whole, HasEntry
<1>5. PICK Y : Y = Bytes(s.layouts[place[m].layout], place[m].rank)
  OBVIOUS
<1>6. /\ t.layouts = s.layouts /\ t.entries = s.entries
      /\ \A i \in DOMAIN s.blocks : i # k => t.blocks[i] = s.blocks[i]
      /\ \A b \in DOMAIN s.blocks[k] : t.blocks[k][b] = IF b \in Y THEN value ELSE s.blocks[k][b]
  BY <1>2, <1>4, <1>5, WriteFacts
<1>7. DOMAIN place = DOMAIN Composites[new.type].shadows
  BY DEF Sealed, Placed
<1>8. ASSUME NEW j \in DOMAIN place
      PROVE  /\ HasEntry(t, Address(new, j), place[j].layout)
             /\ Filled(t, Address(new, j), place[j], IF j = m THEN value ELSE values[j])
  <2>1. PICK a : a = Address(new, j)
    OBVIOUS
  <2>2. HasEntry(s, a, place[j].layout) /\ Filled(s, a, place[j], values[j])
    BY <1>8, <2>1 DEF ReadsFrom
  <2>3. HasEntry(t, a, place[j].layout)
    BY <1>6, <2>2 DEF HasEntry
  <2>4. PICK X : X = Bytes(s.layouts[place[j].layout], place[j].rank)
    OBVIOUS
  <2>5. PICK i : i = s.entries[a].block
    OBVIOUS
  <2>6. i \in DOMAIN s.blocks /\ DOMAIN s.blocks[i] = 0 .. SizeOf(s.layouts[place[j].layout]) - 1
    BY <2>2, <2>5 DEF HasEntry, Whole, Bits
  <2>7. /\ s.layouts[place[j].layout] \in Layout
        /\ place[j].rank \in DOMAIN s.layouts[place[j].layout]
    <3>1. s.layouts \in Seq(Layout)
      BY StoreFacts DEF Whole
    <3> QED
      BY <1>7, <1>8, <3>1 DEF Sealed, Placed
  <2>8. X \subseteq DOMAIN s.blocks[i]
    BY <2>4, <2>6, <2>7, BytesFacts
  <2>9. \A b \in X : s.blocks[i][b] = values[j]
    BY <2>2, <2>4, <2>5 DEF Filled, Bits
  <2>10. \A b \in X : t.blocks[i][b] = IF j = m THEN value ELSE values[j]
    <3>1. CASE j = m
      <4>1. i = k /\ X = Y
        BY <1>1, <1>5, <2>1, <2>4, <2>5, <3>1
      <4> QED
        BY <1>6, <2>8, <3>1, <4>1
    <3>2. CASE j # m /\ a # Address(new, m)
      <4>1. i # k
        BY <1>1, <1>3, <2>2, <2>5, <3>2 DEF Whole, HasEntry
      <4> QED
        BY <1>6, <2>6, <2>9, <3>2, <4>1
    <3>3. CASE j # m /\ a = Address(new, m)
      <4>1. Composites[new.type].shadows[j].offset = Composites[new.type].shadows[m].offset
        BY <1>7, <1>8, <2>1, <3>3, AddressFacts DEF Sealed
      <4>2. place[j].layout = place[m].layout /\ place[j].rank # place[m].rank
        BY <1>7, <1>8, <3>3, <4>1 DEF Sealed, Placed
      <4>3. place[m].rank \in DOMAIN s.layouts[place[j].layout]
        BY <1>7, <4>2 DEF Sealed, Placed
      <4>4. X \cap Y = {}
        BY <1>5, <2>4, <2>7, <4>2, <4>3, BytesFacts
      <4>5. i = k
        BY <1>1, <2>5, <3>3
      <4> QED
        BY <1>6, <2>8, <2>9, <3>3, <4>4, <4>5
    <3> QED
      BY <3>1, <3>2, <3>3
  <2>11. Filled(t, a, place[j], IF j = m THEN value ELSE values[j])
    <3>1. Bits(t, a) = t.blocks[i] /\ X = Bytes(t.layouts[place[j].layout], place[j].rank)
      BY <1>6, <2>4, <2>5 DEF Bits
    <3> QED
      BY <2>10, <3>1 DEF Filled
  <2> QED
    BY <2>1, <2>3, <2>11
<1>9. PICK new_values : new_values = [values EXCEPT ![m] = value]
  OBVIOUS
<1>10. DOMAIN new_values = DOMAIN place /\ \A j \in DOMAIN place : new_values[j] = IF j = m THEN value ELSE values[j]
  BY <1>9
<1>11. ReadsFrom(t, new, place, new_values)
  BY <1>8, <1>10 DEF ReadsFrom
<1> QED
  BY <1>1, <1>2, <1>9, <1>11

\* A variable with no shadow at the address reads on.
LEMMA ReadsBeside ==
  ASSUME NEW s, Whole(s), NEW a \in DOMAIN s.entries, NEW place, NEW value \in Values,
         NEW new, NEW its_place, NEW values, ReadsFrom(s, new, its_place, values),
         \A m \in DOMAIN values : Address(new, m) # a
  PROVE  LET t == Write(s, s.entries[a].block, place, value)
         IN  ReadsFrom(t, new, its_place, values)
<1>1. PICK k : k = s.entries[a].block
  OBVIOUS
<1>2. PICK t : t = Write(s, k, place, value)
  OBVIOUS
<1>3. k \in DOMAIN s.blocks
  BY <1>1 DEF Whole
<1>4. /\ t.layouts = s.layouts /\ t.entries = s.entries
      /\ \A i \in DOMAIN s.blocks : i # k => t.blocks[i] = s.blocks[i]
  BY <1>2, <1>3, WriteFacts
<1>5. ASSUME NEW m \in DOMAIN values
      PROVE  /\ HasEntry(t, Address(new, m), its_place[m].layout)
             /\ Filled(t, Address(new, m), its_place[m], values[m])
  <2>1. PICK b : b = Address(new, m)
    OBVIOUS
  <2>2. HasEntry(s, b, its_place[m].layout) /\ Filled(s, b, its_place[m], values[m]) /\ b # a
    BY <1>5, <2>1 DEF ReadsFrom
  <2>3. s.entries[b].block \in DOMAIN s.blocks /\ s.entries[b].block # k
    BY <1>1, <2>2 DEF Whole, HasEntry
  <2>4. Bits(t, b) = Bits(s, b)
    BY <1>4, <2>3 DEF Bits
  <2>5. HasEntry(t, b, its_place[m].layout) /\ Filled(t, b, its_place[m], values[m])
    BY <1>4, <2>2, <2>4 DEF HasEntry, Filled
  <2> QED
    BY <2>1, <2>5
<1>6. ReadsFrom(t, new, its_place, values)
  BY <1>5 DEF ReadsFrom
<1> QED
  BY <1>1, <1>2, <1>6

\* The addresses of one variable, with the one behind it, are none of another's.
LEMMA ApartFacts ==
  ASSUME PlacesKnown, VariablesKnown, Spaced, Separate,
         NEW v \in DOMAIN variables, NEW w \in DOMAIN variables, v # w
  PROVE  /\ \A i \in 0 .. Extent(variables[v]) - 1, j \in 0 .. Extent(variables[w]) - 1 :
               variables[v].begin + i # variables[w].begin + j
         /\ \A m \in DOMAIN Composites[variables[w].type].shadows :
               Address(variables[w], m) \notin
                  variables[v].begin .. variables[v].begin + Extent(variables[v]) - 1
<1>1. PICK a : a = variables[v].begin
  OBVIOUS
<1>2. PICK b : b = variables[w].begin
  OBVIOUS
<1>3. PICK c : c = Composites[variables[v].type].size
  OBVIOUS
<1>4. PICK d : d = Composites[variables[w].type].size
  OBVIOUS
<1>5. a \in Nat /\ b \in Nat /\ c \in Nat /\ d \in Nat
  BY <1>1, <1>2, <1>3, <1>4, VariableFacts, CompositeFacts
<1>6. Extent(variables[v]) = c + 1 /\ Extent(variables[w]) = d + 1
  BY <1>3, <1>4 DEF Extent
<1>7. a + c < b \/ b + d < a
  <2>1. v \in Nat /\ w \in Nat
    BY DEF VariablesKnown
  <2>2. v < w => a + c <= b /\ a + c # b
    BY <1>1, <1>2, <1>3 DEF Spaced, Separate
  <2>3. w < v => b + d <= a /\ b + d # a
    BY <1>1, <1>2, <1>4 DEF Spaced, Separate
  <2> QED
    BY <1>5, <2>1, <2>2, <2>3
<1>8. \A i \in 0 .. c, j \in 0 .. d : a + i # b + j
  BY <1>5, <1>7
<1>9. \A i \in 0 .. Extent(variables[v]) - 1, j \in 0 .. Extent(variables[w]) - 1 : a + i # b + j
  BY <1>5, <1>6, <1>8
<1>10. ASSUME NEW m \in DOMAIN Composites[variables[w].type].shadows
       PROVE  Address(variables[w], m) \notin a .. a + Extent(variables[v]) - 1
  <2>1. Address(variables[w], m) \in b .. b + d
    BY <1>2, <1>5, <1>6, <1>10, AddressFacts, VariableFacts
  <2> QED
    BY <1>5, <1>6, <1>7, <2>1
<1> QED
  BY <1>1, <1>2, <1>9, <1>10

LEMMA SealRead ==
  ASSUME ReadInv, NEW name \in DOMAIN Composites, Seal(name)
  PROVE  ReadInv'
<1>1. /\ StoreInv' /\ Extends(layouts, layouts')
      /\ \A other \in DOMAIN places : other \in DOMAIN places' /\ places'[other] = places[other]
  BY SealInv DEF ReadInv
<1>2. UNCHANGED <<entries, blocks, variables, used, location, stored>>
  BY DEF Seal
<1>3. Spaced' /\ Located'
  BY <1>2 DEF ReadInv, Spaced, Located, Address
<1>4. PICK s : s = Shadows
  OBVIOUS
<1>5. PICK t : t = Shadows'
  OBVIOUS
<1>6. t.entries = s.entries /\ t.blocks = s.blocks /\ Extends(s.layouts, t.layouts) /\ s.layouts = layouts
  BY <1>1, <1>2, <1>4, <1>5 DEF Shadows
<1>7. ASSUME NEW v \in DOMAIN variables
      PROVE  ReadsFrom(t, variables[v], places'[variables[v].type], stored[v])
  <2>1. PICK new : new = variables[v]
    OBVIOUS
  <2>2. PICK place : place = places[new.type]
    OBVIOUS
  <2>3. PICK values : values = stored[v]
    OBVIOUS
  <2>4. /\ new.type \in DOMAIN places /\ Placed(s.layouts, new.type, place)
        /\ DOMAIN values = DOMAIN Composites[new.type].shadows
    BY <1>4, <2>1, <2>2, <2>3, VariableFacts DEF ReadInv, StoreInv, Sealed
  <2>5. ReadsFrom(s, new, place, values)
    BY <1>4, <2>1, <2>2, <2>3 DEF ReadInv, Reading
  <2>6. ReadsFrom(t, new, place, values)
    BY <1>6, <2>4, <2>5, ReadsExtended
  <2> QED
    BY <1>1, <2>1, <2>2, <2>3, <2>4, <2>6
<1>8. Reading'
  BY <1>2, <1>5, <1>7 DEF Reading
<1> QED
  BY <1>1, <1>3, <1>8 DEF ReadInv

\* Another variable, behind all there are.
LEMMA ReserveRead ==
  ASSUME ReadInv, StoreInv', Separate', NEW type \in DOMAIN places, NEW new \in Variable,
         new = NextVariable(type), NEW values \in [DOMAIN Composites[type].shadows -> Values],
         Reserve(new), stored' = Append(stored, values), UNCHANGED <<layouts, places, location>>,
         DOMAIN blocks \subseteq DOMAIN blocks',
         KeptBut(Shadows, Shadows', new.begin, Extent(new)),
         ReadsFrom(Shadows', new, places[type], values)
  PROVE  ReadInv'
<1> DEFINE N == Len(variables)
           End(v) == variables[v].begin + Composites[variables[v].type].size
<1>1. PlacesKnown /\ VariablesKnown /\ LocationKnown /\ Spaced /\ Located /\ Reading
  BY DEF ReadInv, StoreInv
<1>2. new.type = type /\ new.begin \in Nat /\ new.begin >= used /\ used \in Nat
  BY <1>1, NextVariableFacts DEF VariablesKnown
<1>3. /\ DOMAIN variables' = 1 .. N + 1 /\ variables'[N + 1] = new /\ stored'[N + 1] = values
      /\ \A v \in DOMAIN variables : /\ v \in DOMAIN variables' /\ variables'[v] = variables[v]
                                     /\ stored'[v] = stored[v]
  BY <1>1, <1>2, ReserveInv
<1>4. DOMAIN variables = 1 .. N /\ N \in Nat
  BY <1>1 DEF VariablesKnown
<1>5. used' = new.begin + Composites[new.type].size
  BY DEF Reserve
<1>6. \A v \in DOMAIN variables : /\ variables[v].begin \in Nat /\ Composites[variables[v].type].size \in Nat
                                  /\ End(v) \in Nat
  <2> TAKE v \in DOMAIN variables
  <2>1. variables[v].begin \in Nat /\ Composites[variables[v].type].size \in Nat
    BY <1>1, VariableFacts, CompositeFacts
  <2> QED
    BY <2>1
<1>7. Composites[new.type].size \in Nat
  BY CompositeFacts DEF Variable
<1>8. \A v \in DOMAIN variables : End(v) <= used
  BY <1>1 DEF Spaced
<1>9. \A v \in DOMAIN variables : End(v) < new.begin
  <2> TAKE v \in DOMAIN variables
  <2>1. End(v) # new.begin
    <3>1. v \in DOMAIN variables' /\ N + 1 \in DOMAIN variables' /\ v < N + 1
      BY <1>3, <1>4
    <3>2. variables'[v] = variables[v] /\ variables'[N + 1] = new
      BY <1>3
    <3> QED
      BY <3>1, <3>2 DEF Separate
  <2> QED
    BY <1>2, <1>6, <1>8, <2>1
<1>10. Spaced'
  <2>1. ASSUME NEW v \in DOMAIN variables'
        PROVE  variables'[v].begin + Composites[variables'[v].type].size <= used'
    <3>1. CASE v = N + 1
      BY <1>2, <1>3, <1>5, <1>7, <3>1
    <3>2. CASE v \in DOMAIN variables
      <4>1. End(v) < new.begin /\ End(v) \in Nat /\ variables'[v] = variables[v]
        BY <1>3, <1>6, <1>9, <3>2
      <4> HIDE DEF End
      <4>2. End(v) <= used'
        BY <1>2, <1>5, <1>7, <4>1
      <4> QED
        BY <4>1, <4>2 DEF End
    <3> QED
      BY <1>3, <1>4, <2>1, <3>1, <3>2
  <2>2. ASSUME NEW v \in DOMAIN variables', NEW w \in DOMAIN variables', v < w
        PROVE  variables'[v].begin + Composites[variables'[v].type].size <= variables'[w].begin
    <3>1. v \in DOMAIN variables /\ variables'[v] = variables[v]
      BY <1>3, <1>4, <2>2
    <3>2. CASE w = N + 1
      <4>1. End(v) < new.begin /\ End(v) \in Nat /\ variables'[w] = new
        BY <1>3, <1>6, <1>9, <3>1, <3>2
      <4> HIDE DEF End
      <4>2. End(v) <= new.begin
        BY <1>2, <4>1
      <4> QED
        BY <3>1, <4>1, <4>2 DEF End
    <3>3. CASE w \in DOMAIN variables
      BY <1>1, <1>3, <2>2, <3>1, <3>3 DEF Spaced
    <3> QED
      BY <1>3, <1>4, <2>2, <3>2, <3>3
  <2> QED
    BY <2>1, <2>2 DEF Spaced
<1>11. PICK s : s = Shadows
  OBVIOUS
<1>12. PICK t : t = Shadows'
  OBVIOUS
<1>13. t.layouts = s.layouts /\ s.entries = entries /\ t.entries = entries'
  BY <1>11, <1>12 DEF Shadows
<1>14. ASSUME NEW v \in DOMAIN variables
       PROVE  /\ ReadsFrom(t, variables[v], places[variables[v].type], stored[v])
              /\ DOMAIN stored[v] = DOMAIN Composites[variables[v].type].shadows
              /\ \A m \in DOMAIN stored[v] :
                    t.entries[Address(variables[v], m)] = s.entries[Address(variables[v], m)]
  <2>1. PICK old : old = variables[v]
    OBVIOUS
  <2>2. PICK place : place = places[old.type]
    OBVIOUS
  <2>3. PICK vs : vs = stored[v]
    OBVIOUS
  <2>4. DOMAIN vs = DOMAIN Composites[old.type].shadows /\ old.type \in DOMAIN Composites /\ old.begin \in Nat
    BY <1>1, <2>1, <2>3, VariableFacts
  <2>5. PICK size : size = Composites[old.type].size
    OBVIOUS
  <2>6. old.begin + size < new.begin /\ size \in Nat
    BY <1>6, <1>9, <2>1, <2>5
  <2>7. ASSUME NEW m \in DOMAIN vs
        PROVE  Address(old, m) \notin new.begin .. new.begin + Extent(new) - 1
    <3>1. Address(old, m) \in old.begin .. old.begin + Extent(old) - 1
      BY <2>4, <2>7, AddressFacts
    <3>2. PICK b : b = old.begin
      OBVIOUS
    <3>3. PICK c : c = new.begin
      OBVIOUS
    <3>4. b \in Nat /\ c \in Nat /\ b + size < c /\ size \in Nat /\ Extent(old) = size + 1
      BY <1>2, <2>4, <2>5, <2>6, <3>2, <3>3 DEF Extent
    <3>5. Address(old, m) \in b .. b + (size + 1) - 1
      BY <3>1, <3>2, <3>4
    <3>6. Address(old, m) < c /\ Address(old, m) \in Nat
      BY <3>4, <3>5
    <3> QED
      BY <3>3, <3>4, <3>6
  <2>8. ReadsFrom(s, old, place, vs) /\ KeptBut(s, t, new.begin, Extent(new))
    BY <1>1, <1>11, <1>12, <2>1, <2>2, <2>3 DEF Reading
  <2>9. PICK begin : begin = new.begin
    OBVIOUS
  <2>10. PICK count : count = Extent(new)
    OBVIOUS
  <2>11. /\ ReadsFrom(t, old, place, vs)
         /\ \A m \in DOMAIN vs : t.entries[Address(old, m)] = s.entries[Address(old, m)]
    <3>1. KeptBut(s, t, begin, count) /\ ReadsFrom(s, old, place, vs)
          /\ \A m \in DOMAIN vs : Address(old, m) \notin begin .. begin + count - 1
      BY <2>7, <2>8, <2>9, <2>10
    <3> QED
      BY <1>13, <3>1, ReadsKept
  <2> QED
    BY <2>1, <2>2, <2>3, <2>4, <2>11
<1>15. Reading'
  <2>1. ASSUME NEW v \in DOMAIN variables'
        PROVE  ReadsFrom(t, variables'[v], places[variables'[v].type], stored'[v])
    <3>1. CASE v = N + 1
      BY <1>2, <1>3, <1>12, <3>1
    <3>2. CASE v \in DOMAIN variables
      BY <1>3, <1>14, <3>2
    <3>3. v = N + 1 \/ v \in DOMAIN variables
      BY <1>3, <1>4, <2>1
    <3> QED
      BY <3>1, <3>2, <3>3
  <2> QED
    BY <1>12, <2>1 DEF Reading
<1>16. Located'
  <2> SUFFICES ASSUME location' # NoLocation
               PROVE  location'.block =
                        entries'[Address(variables'[location'.variable], location'.member)].block
    BY DEF Located
  <2>1. PICK v : v = location.variable
    OBVIOUS
  <2>2. PICK m : m = location.member
    OBVIOUS
  <2>3. v \in DOMAIN variables /\ m \in DOMAIN Composites[variables[v].type].shadows
    BY <1>1, <2>1, <2>2 DEF LocationKnown
  <2>4. entries'[Address(variables[v], m)] = entries[Address(variables[v], m)]
    BY <1>13, <1>14, <2>3
  <2>5. location.block = entries[Address(variables[v], m)].block
    BY <1>1, <2>1, <2>2 DEF Located
  <2> QED
    BY <1>3, <2>1, <2>2, <2>3, <2>4, <2>5
<1> QED
  BY <1>10, <1>15, <1>16 DEF ReadInv

LEMMA NewBehind ==
  ASSUME ReadInv, Separate', NEW type \in DOMAIN places, NEW new \in Variable,
         new = NextVariable(type), Reserve(new), NEW v \in DOMAIN variables
  PROVE  /\ variables[v].begin \in Nat /\ Composites[variables[v].type].size \in Nat
         /\ variables[v].begin + Composites[variables[v].type].size < new.begin
<1>1. PlacesKnown /\ VariablesKnown /\ Spaced
  BY DEF ReadInv, StoreInv
<1>2. new.begin \in Nat /\ new.begin >= used /\ used \in Nat
  BY <1>1, NextVariableFacts DEF VariablesKnown
<1>3. PICK n : n = Len(variables)
  OBVIOUS
<1>4. variables \in Seq(Variable) /\ DOMAIN variables = 1 .. n /\ n \in Nat
  BY <1>1, <1>3 DEF VariablesKnown
<1>5. variables' = Append(variables, new)
  BY DEF Reserve
<1>6. DOMAIN variables' = 1 .. n + 1 /\ variables'[n + 1] = new /\ variables'[v] = variables[v]
  <2> HIDE DEF Variable
  <2> QED
    BY <1>3, <1>4, <1>5
<1>7. v \in DOMAIN variables' /\ n + 1 \in DOMAIN variables' /\ v < n + 1
  BY <1>4, <1>6
<1>8. variables[v].begin + Composites[variables[v].type].size # new.begin
  BY <1>6, <1>7 DEF Separate
<1>9. variables[v].begin + Composites[variables[v].type].size <= used
  BY <1>1 DEF Spaced
<1>10. variables[v].begin \in Nat /\ Composites[variables[v].type].size \in Nat
  BY <1>1, VariableFacts, CompositeFacts
<1> QED
  BY <1>2, <1>8, <1>9, <1>10

LEMMA DefineTypedRead ==
  ASSUME ReadInv, Separate', NEW type \in DOMAIN places,
         NEW values \in [DOMAIN Composites[type].shadows -> Values], DefineTyped(type, values)
  PROVE  ReadInv'
<1>1. StoreInv' /\ DOMAIN blocks \subseteq DOMAIN blocks'
  BY DefineTypedInv DEF ReadInv
<1>2. PICK new \in Variable : /\ new = NextVariable(type)
                              /\ KeptBut(Shadows, Shadows', new.begin, Extent(new))
                              /\ ReadsFrom(Shadows', new, places[type], values)
  BY DefineTypedInv DEF ReadInv
<1>3. Reserve(new) /\ stored' = Append(stored, values) /\ UNCHANGED <<layouts, places, location>>
  BY <1>2 DEF DefineTyped
<1> QED
  BY <1>1, <1>2, <1>3, ReserveRead

LEMMA DefineCopyRead ==
  ASSUME ReadInv, Separate', NEW v \in DOMAIN variables, DefineCopy(v)
  PROVE  ReadInv'
<1>1. PICK old : old = variables[v]
  OBVIOUS
<1>2. PICK values : values = stored[v]
  OBVIOUS
<1>3. PICK place : place = places[old.type]
  OBVIOUS
<1>4. PlacesKnown /\ VariablesKnown /\ StoreInv
  BY DEF ReadInv, StoreInv
<1>5. StoreInv'
  BY <1>4, DefineCopyInv
<1>6. PICK new \in Variable : /\ new = NextVariable(old.type)
                              /\ Copies(new.begin, old.begin, Extent(new))
  BY <1>1, <1>4, DefineCopyInv
<1>7. /\ old.type \in DOMAIN places /\ old.type \in DOMAIN Composites /\ old.begin \in Nat
      /\ values \in [DOMAIN Composites[old.type].shadows -> Values]
  BY <1>1, <1>2, <1>4, VariableFacts
<1>8. new.type = old.type /\ new.begin \in Nat
  BY <1>4, <1>6, <1>7, NextVariableFacts
<1>9. Reserve(new) /\ stored' = Append(stored, values) /\ UNCHANGED <<layouts, places, location>>
  BY <1>1, <1>2, <1>6 DEF DefineCopy
<1>10. PICK s : s = Shadows
  OBVIOUS
<1>11. PICK t : t = Shadows'
  OBVIOUS
<1>12. t.layouts = s.layouts
  BY <1>9, <1>10, <1>11 DEF Shadows
<1>13. Disjoint(new.begin, old.begin, Extent(old)) /\ Extent(new) = Extent(old)
  <2>1. PICK size : size = Composites[old.type].size
    OBVIOUS
  <2>2. old.begin + size < new.begin /\ size \in Nat
    BY <1>1, <1>6, <1>7, <1>9, <2>1, NewBehind
  <2>3. Extent(old) = size + 1 /\ Extent(new) = size + 1
    BY <1>8, <2>1 DEF Extent
  <2>4. PICK a : a = new.begin
    OBVIOUS
  <2>5. PICK b : b = old.begin
    OBVIOUS
  <2>6. a \in Nat /\ b \in Nat /\ b + size < a
    BY <1>7, <1>8, <2>2, <2>4, <2>5
  <2>7. Disjoint(a, b, size + 1)
    BY <2>2, <2>6 DEF Disjoint
  <2> QED
    BY <2>3, <2>4, <2>5, <2>7
<1>14. /\ DOMAIN blocks \subseteq DOMAIN blocks' /\ KeptBut(s, t, new.begin, Extent(new))
       /\ CopiedTo(s, t, new.begin, old.begin, Extent(old))
  BY <1>6, <1>10, <1>11, <1>13 DEF Copies
<1>15. ReadsFrom(s, old, place, values)
  BY <1>1, <1>2, <1>3, <1>10 DEF ReadInv, Reading
<1>16. ReadsFrom(t, new, place, values)
  BY <1>7, <1>8, <1>12, <1>14, <1>15, ReadsCopied
<1> QED
  BY <1>3, <1>5, <1>6, <1>7, <1>9, <1>10, <1>11, <1>14, <1>16, ReserveRead

\* Nothing but what is stored changes among the variables.
LEMMA ChangedRead ==
  ASSUME ReadInv, StoreInv', UNCHANGED <<places, variables, used, location>>,
         \A v \in DOMAIN variables :
            ReadsFrom(Shadows', variables[v], places[variables[v].type], stored'[v]),
         \A v \in DOMAIN variables : \A m \in DOMAIN Composites[variables[v].type].shadows :
            entries'[Address(variables[v], m)] = entries[Address(variables[v], m)]
  PROVE  ReadInv'
<1>1. Spaced'
  BY DEF ReadInv, Spaced
<1>2. Reading'
  BY DEF Reading
<1>3. Located'
  <2> SUFFICES ASSUME location # NoLocation
               PROVE  location.block =
                        entries'[Address(variables[location.variable], location.member)].block
    BY DEF Located, Address
  <2>1. PICK v : v = location.variable
    OBVIOUS
  <2>2. PICK m : m = location.member
    OBVIOUS
  <2>3. v \in DOMAIN variables /\ m \in DOMAIN Composites[variables[v].type].shadows
    BY <2>1, <2>2 DEF ReadInv, StoreInv, LocationKnown
  <2>4. location.block = entries[Address(variables[v], m)].block
    BY <2>1, <2>2 DEF ReadInv, Located
  <2> QED
    BY <2>1, <2>2, <2>3, <2>4
<1> QED
  BY <1>1, <1>2, <1>3 DEF ReadInv

LEMMA AssignRead ==
  ASSUME ReadInv, Separate, NEW dst \in DOMAIN variables, NEW src \in DOMAIN variables, Assign(dst, src)
  PROVE  ReadInv'
<1>1. PICK to : to = variables[dst]
  OBVIOUS
<1>2. PICK from : from = variables[src]
  OBVIOUS
<1>3. PlacesKnown /\ VariablesKnown /\ StoreInv /\ Spaced
  BY DEF ReadInv, StoreInv
<1>4. StoreInv' /\ Copies(to.begin, from.begin, Extent(to))
  BY <1>1, <1>2, <1>3, AssignInv
<1>5. /\ dst # src /\ to.type = from.type /\ stored' = [stored EXCEPT ![dst] = stored[src]]
      /\ UNCHANGED <<layouts, places, variables, used, location>>
  BY <1>1, <1>2 DEF Assign
<1>6. /\ from.type \in DOMAIN Composites /\ to.begin \in Nat /\ from.begin \in Nat
      /\ DOMAIN stored[src] = DOMAIN Composites[from.type].shadows
  BY <1>1, <1>2, <1>3, VariableFacts
<1>7. PICK s : s = Shadows
  OBVIOUS
<1>8. PICK t : t = Shadows'
  OBVIOUS
<1>9. t.layouts = s.layouts /\ s.entries = entries /\ t.entries = entries'
  BY <1>5, <1>7, <1>8 DEF Shadows
<1>10. Extent(to) = Extent(from)
  BY <1>5 DEF Extent
<1>11. Disjoint(to.begin, from.begin, Extent(from))
  <2>1. \A i \in 0 .. Extent(to) - 1, j \in 0 .. Extent(from) - 1 : to.begin + i # from.begin + j
    BY <1>1, <1>2, <1>3, <1>5, ApartFacts
  <2> QED
    BY <1>10, <2>1 DEF Disjoint
<1>12. KeptBut(s, t, to.begin, Extent(to)) /\ CopiedTo(s, t, to.begin, from.begin, Extent(from))
  BY <1>4, <1>7, <1>8, <1>10, <1>11 DEF Copies
<1>13. DOMAIN stored = DOMAIN variables
  BY <1>3 DEF VariablesKnown
<1>14. ASSUME NEW v \in DOMAIN variables
       PROVE  /\ ReadsFrom(t, variables[v], places[variables[v].type], stored'[v])
              /\ \A m \in DOMAIN Composites[variables[v].type].shadows :
                    t.entries[Address(variables[v], m)] = s.entries[Address(variables[v], m)]
  <2>1. PICK new : new = variables[v]
    OBVIOUS
  <2>2. PICK place : place = places[new.type]
    OBVIOUS
  <2>3. PICK values : values = stored[v]
    OBVIOUS
  <2>4. DOMAIN values = DOMAIN Composites[new.type].shadows
    BY <1>3, <2>1, <2>3, VariableFacts
  <2>5. ReadsFrom(s, new, place, values)
    BY <1>7, <2>1, <2>2, <2>3 DEF ReadInv, Reading
  <2>6. CASE v # dst
    <3>1. \A m \in DOMAIN values : Address(new, m) \notin to.begin .. to.begin + Extent(to) - 1
      BY <1>1, <1>3, <2>1, <2>4, <2>6, ApartFacts
    <3>2. /\ ReadsFrom(t, new, place, values)
          /\ \A m \in DOMAIN values : t.entries[Address(new, m)] = s.entries[Address(new, m)]
      <4>1. PICK begin : begin = to.begin
        OBVIOUS
      <4>2. PICK count : count = Extent(to)
        OBVIOUS
      <4>3. /\ KeptBut(s, t, begin, count)
            /\ \A m \in DOMAIN values : Address(new, m) \notin begin .. begin + count - 1
        BY <1>12, <3>1, <4>1, <4>2
      <4> QED
        BY <1>9, <2>5, <4>3, ReadsKept
    <3>3. stored'[v] = values
      BY <1>5, <1>13, <2>3, <2>6
    <3> QED
      BY <2>1, <2>2, <2>4, <3>2, <3>3
  <2>7. CASE v = dst
    <3>1. PICK given : given = stored[src]
      OBVIOUS
    <3>2. ReadsFrom(s, from, place, given)
      BY <1>1, <1>2, <1>5, <1>7, <2>1, <2>2, <2>7, <3>1 DEF ReadInv, Reading
    <3>3. DOMAIN given = DOMAIN Composites[from.type].shadows
      BY <1>6, <3>1
    <3>4. /\ ReadsFrom(t, to, place, given)
          /\ \A m \in DOMAIN given : HasEntry(s, Address(to, m), place[m].layout) =>
                t.entries[Address(to, m)] = s.entries[Address(to, m)]
      BY <1>5, <1>6, <1>9, <1>12, <3>2, <3>3, ReadsCopied
    <3>5. \A m \in DOMAIN values : HasEntry(s, Address(to, m), place[m].layout)
      BY <1>1, <2>1, <2>5, <2>7 DEF ReadsFrom
    <3>6. DOMAIN values = DOMAIN given
      BY <1>1, <1>5, <2>1, <2>4, <2>7, <3>3
    <3>7. stored'[v] = given
      BY <1>5, <1>13, <2>7, <3>1
    <3> QED
      BY <1>1, <2>1, <2>2, <2>4, <2>7, <3>4, <3>5, <3>6, <3>7
  <2> QED
    BY <2>6, <2>7
<1> QED
  BY <1>4, <1>5, <1>8, <1>9, <1>14, ChangedRead

LEMMA AssignDatumRead ==
  ASSUME ShadowsApart, ReadInv, Separate, NEW dst \in DOMAIN variables, NEW src \in DOMAIN variables,
         NEW datum \in Composites[variables[dst].type].data, AssignDatum(dst, src, datum)
  PROVE  ReadInv'
<1>1. PICK to : to = variables[dst]
  OBVIOUS
<1>2. PlacesKnown /\ VariablesKnown /\ StoreInv /\ Spaced
  BY DEF ReadInv, StoreInv
<1>3. UNCHANGED <<layouts, places, variables, used, location, stored>>
  BY DEF AssignDatum
<1>4. PICK begin : begin = to.begin + datum.offset
  OBVIOUS
<1>5. PICK count : count = datum.size + 1
  OBVIOUS
<1>6. StoreInv' /\ KeptBut(Shadows, Shadows', begin, count)
  BY <1>1, <1>2, <1>4, <1>5, AssignDatumInv DEF Copies
<1>7. PICK size : size = Composites[to.type].size
  OBVIOUS
<1>8. /\ to.type \in DOMAIN Composites /\ to.begin \in Nat /\ size \in Nat /\ Extent(to) = size + 1
      /\ datum.offset \in Nat /\ datum.size \in Nat /\ datum.offset + datum.size <= size
  <2>1. to.type \in DOMAIN Composites /\ to.begin \in Nat
    BY <1>1, <1>2, VariableFacts
  <2> QED
    BY <1>1, <1>7, <2>1, MembersAssumption DEF Extent
<1>9. PICK s : s = Shadows
  OBVIOUS
<1>10. PICK t : t = Shadows'
  OBVIOUS
<1>11. t.layouts = s.layouts /\ s.entries = entries /\ t.entries = entries'
  BY <1>3, <1>9, <1>10 DEF Shadows
<1>12. KeptBut(s, t, begin, count)
  BY <1>6, <1>9, <1>10
<1>13. ASSUME NEW v \in DOMAIN variables
       PROVE  /\ ReadsFrom(t, variables[v], places[variables[v].type], stored[v])
              /\ \A m \in DOMAIN Composites[variables[v].type].shadows :
                    t.entries[Address(variables[v], m)] = s.entries[Address(variables[v], m)]
  <2>1. PICK new : new = variables[v]
    OBVIOUS
  <2>2. PICK place : place = places[new.type]
    OBVIOUS
  <2>3. PICK values : values = stored[v]
    OBVIOUS
  <2>4. DOMAIN values = DOMAIN Composites[new.type].shadows
    BY <1>2, <2>1, <2>3, VariableFacts
  <2>5. ReadsFrom(s, new, place, values)
    BY <1>9, <2>1, <2>2, <2>3 DEF ReadInv, Reading
  <2>6. ASSUME NEW m \in DOMAIN values
        PROVE  Address(new, m) \notin begin .. begin + count - 1
    <3>1. PICK b : b = to.begin
      OBVIOUS
    <3>2. PICK o : o = datum.offset
      OBVIOUS
    <3>3. PICK l : l = datum.size
      OBVIOUS
    <3>4. b \in Nat /\ o \in Nat /\ l \in Nat /\ o + l <= size /\ begin = b + o /\ count = l + 1
      BY <1>4, <1>5, <1>8, <3>1, <3>2, <3>3
    <3>5. CASE v # dst
      <4>1. Address(new, m) \notin to.begin .. to.begin + Extent(to) - 1
        BY <1>1, <1>2, <2>1, <2>4, <2>6, <3>5, ApartFacts
      <4>2. Address(new, m) \notin b .. b + (size + 1) - 1
        BY <1>8, <3>1, <4>1
      <4> QED
        BY <1>8, <3>4, <4>2
    <3>6. CASE v = dst
      <4>1. PICK offset : offset = Composites[to.type].shadows[m].offset
        OBVIOUS
      <4>2. offset \in Nat /\ offset \notin o .. o + l
        <5>1. m \in DOMAIN Composites[to.type].shadows /\ datum \in Composites[to.type].data
          BY <1>1, <2>1, <2>4, <2>6, <3>6
        <5>2. offset \notin datum.offset .. datum.offset + datum.size
          BY <1>8, <4>1, <5>1 DEF ShadowsApart
        <5>3. offset \in 0 .. Composites[to.type].size /\ Composites[to.type].size \in Nat
          BY <1>8, <4>1, <5>1, CompositeFacts
        <5>4. offset \in Nat
          BY <5>3
        <5> QED
          BY <3>2, <3>3, <5>2, <5>4
      <4>3. Address(new, m) = b + offset
        BY <1>1, <2>1, <3>1, <3>6, <4>1 DEF Address
      <4> QED
        BY <3>4, <4>2, <4>3
    <3> QED
      BY <3>5, <3>6
  <2>7. /\ ReadsFrom(t, new, place, values)
        /\ \A m \in DOMAIN values : t.entries[Address(new, m)] = s.entries[Address(new, m)]
    BY <1>11, <1>12, <2>5, <2>6, ReadsKept
  <2> QED
    BY <2>1, <2>2, <2>3, <2>4, <2>7
<1> QED
  BY <1>3, <1>6, <1>10, <1>11, <1>13, ChangedRead

\* A member of a live variable has its entry already.
LEMMA LocateRead ==
  ASSUME ReadInv, NEW v \in DOMAIN variables, NEW m \in DOMAIN Composites[variables[v].type].shadows,
         Locate(v, m)
  PROVE  ReadInv'
<1>1. PlacesKnown /\ VariablesKnown /\ StoreInv
  BY DEF ReadInv, StoreInv
<1>2. /\ StoreInv'
      /\ HasEntry(Shadows, AddressOf(v, m), PlaceOf(v, m).layout) => entries' = entries /\ blocks' = blocks
      /\ location'.variable = v /\ location'.member = m
      /\ location'.block = entries'[AddressOf(v, m)].block
  BY <1>1, LocateInv
<1>3. AddressOf(v, m) = Address(variables[v], m) /\ PlaceOf(v, m) = places[variables[v].type][m]
  BY DEF AddressOf, PlaceOf, Address, Composite
<1>4. HasEntry(Shadows, AddressOf(v, m), PlaceOf(v, m).layout)
  <2>1. m \in DOMAIN stored[v]
    BY <1>1, VariableFacts
  <2> QED
    BY <1>3, <2>1 DEF ReadInv, Reading, ReadsFrom
<1>5. UNCHANGED <<layouts, places, variables, used, stored>>
  BY DEF Locate
<1>6. Shadows' = Shadows
  BY <1>2, <1>4, <1>5 DEF Shadows
<1>7. Spaced' /\ Reading'
  <2>1. Spaced'
    BY <1>5 DEF ReadInv, Spaced
  <2> QED
    BY <1>5, <1>6, <2>1 DEF ReadInv, Reading
<1>8. Located'
  <2>1. Address(variables'[location'.variable], location'.member) = Address(variables[v], m)
    BY <1>2, <1>5
  <2> QED
    BY <1>2, <1>3, <2>1 DEF Located
<1> QED
  BY <1>2, <1>7, <1>8 DEF ReadInv

LEMMA StoreMemberRead ==
  ASSUME ReadInv, Separate, NEW value \in Values, StoreMember(value)
  PROVE  ReadInv'
<1>1. PlacesKnown /\ VariablesKnown /\ LocationKnown /\ StoreInv /\ Whole(Shadows) /\ Spaced
  BY DEF ReadInv, StoreInv
<1>2. PICK s : s = Shadows
  OBVIOUS
<1>3. PICK t : t = Shadows'
  OBVIOUS
<1>4. PICK v : v = location.variable
  OBVIOUS
<1>5. PICK m : m = location.member
  OBVIOUS
<1>6. PICK new : new = variables[v]
  OBVIOUS
<1>7. PICK place : place = places[new.type]
  OBVIOUS
<1>8. PICK values : values = stored[v]
  OBVIOUS
<1>9. /\ StoreInv' /\ location # NoLocation
      /\ t = Write(s, location.block, PlaceOf(v, m), value)
  BY <1>1, <1>2, <1>3, <1>4, <1>5, StoreMemberInv
<1>10. PlaceOf(v, m) = place[m]
  BY <1>6, <1>7 DEF PlaceOf
<1>11. v \in DOMAIN variables /\ m \in DOMAIN Composites[new.type].shadows
  BY <1>1, <1>4, <1>5, <1>6, <1>9 DEF LocationKnown
<1>12. /\ Sealed(s, new, place) /\ DOMAIN place = DOMAIN Composites[new.type].shadows
       /\ values \in [DOMAIN place -> Values]
  BY <1>1, <1>2, <1>6, <1>7, <1>8, <1>11, VariableFacts
<1>13. ReadsFrom(s, new, place, values)
  BY <1>2, <1>6, <1>7, <1>8, <1>11 DEF ReadInv, Reading
<1>14. PICK a : a = Address(new, m)
  OBVIOUS
<1>15. location.block = s.entries[a].block
  BY <1>2, <1>4, <1>5, <1>6, <1>9, <1>14, ShadowFields DEF ReadInv, Located
<1>16. a \in DOMAIN s.entries
  BY <1>11, <1>12, <1>13, <1>14 DEF ReadsFrom, HasEntry
<1>17. t = Write(s, s.entries[a].block, place[m], value)
  BY <1>9, <1>10, <1>15
<1>18. PICK now : now = [values EXCEPT ![m] = value]
  OBVIOUS
<1>19. ReadsFrom(t, new, place, now)
  BY <1>1, <1>2, <1>11, <1>12, <1>13, <1>14, <1>17, <1>18, ReadsWritten
<1>20. /\ stored' = [stored EXCEPT ![v] = now] /\ location' = NoLocation
       /\ UNCHANGED <<layouts, places, variables, used>>
  BY <1>4, <1>5, <1>8, <1>18 DEF StoreMember
<1>21. DOMAIN stored = DOMAIN variables
  BY <1>1 DEF VariablesKnown
<1>22. ASSUME NEW w \in DOMAIN variables
       PROVE  ReadsFrom(t, variables[w], places[variables[w].type], stored'[w])
  <2>1. CASE w = v
    BY <1>6, <1>7, <1>19, <1>20, <1>21, <2>1
  <2>2. CASE w # v
    <3>1. PICK other : other = variables[w]
      OBVIOUS
    <3>2. PICK its_place : its_place = places[other.type]
      OBVIOUS
    <3>3. PICK its : its = stored[w]
      OBVIOUS
    <3>4. ReadsFrom(s, other, its_place, its)
      BY <1>2, <3>1, <3>2, <3>3 DEF ReadInv, Reading
    <3>5. a \in new.begin .. new.begin + Extent(new) - 1
      BY <1>11, <1>12, <1>14, AddressFacts DEF Sealed
    <3>6. DOMAIN its = DOMAIN Composites[other.type].shadows
      BY <1>1, <3>1, <3>3, VariableFacts
    <3>7. \A j \in DOMAIN its : Address(other, j) # a
      BY <1>1, <1>6, <1>11, <2>2, <3>1, <3>5, <3>6, ApartFacts
    <3>8. ReadsFrom(t, other, its_place, its)
      BY <1>1, <1>2, <1>16, <1>17, <3>4, <3>7, ReadsBeside
    <3>9. stored'[w] = its
      BY <1>20, <1>21, <2>2, <3>3
    <3> QED
      BY <3>1, <3>2, <3>8, <3>9
  <2> QED
    BY <2>1, <2>2
<1>23. Reading'
  BY <1>3, <1>20, <1>22 DEF Reading
<1>24. Spaced'
  BY <1>1, <1>20 DEF Spaced
<1>25. Located'
  BY <1>20 DEF Located
<1> QED
  BY <1>9, <1>23, <1>24, <1>25 DEF ReadInv

LEMMA EndScopeRead ==
  ASSUME ReadInv, EndScope
  PROVE  ReadInv'
<1>1. VariablesKnown /\ Spaced /\ Located /\ Reading /\ StoreInv
  BY DEF ReadInv, StoreInv
<1>2. PICK n : n = Len(variables)
  OBVIOUS
<1>3. /\ StoreInv' /\ n \in Nat \ {0} /\ DOMAIN variables' = 1 .. n - 1 /\ used' = variables[n].begin
      /\ \A v \in DOMAIN variables' : v \in DOMAIN variables /\ variables'[v] = variables[v]
                                       /\ stored'[v] = stored[v]
      /\ location # NoLocation => location.variable \in DOMAIN variables'
  BY <1>1, <1>2, EndScopeInv
<1>4. UNCHANGED <<layouts, places, entries, blocks, location>>
  BY DEF EndScope
<1>5. Shadows' = Shadows
  BY <1>4 DEF Shadows
<1>6. n \in DOMAIN variables
  BY <1>1, <1>2, <1>3 DEF VariablesKnown
<1>7. \A v \in DOMAIN variables' : v < n
  BY <1>3
<1>8. Spaced'
  BY <1>1, <1>3, <1>6, <1>7 DEF Spaced
<1>9. Reading'
  BY <1>1, <1>3, <1>4, <1>5 DEF Reading
<1>10. Located'
  <2> SUFFICES ASSUME location # NoLocation
               PROVE  location.block =
                        entries[Address(variables'[location.variable], location.member)].block
    BY <1>4 DEF Located
  <2>1. variables'[location.variable] = variables[location.variable]
    BY <1>3
  <2> QED
    BY <1>1, <2>1 DEF Located
<1> QED
  BY <1>3, <1>8, <1>9, <1>10 DEF ReadInv

LEMMA ReadInvNext ==
  ASSUME ShadowsApart, ReadInv, Separate, Separate', [Next]_vars
  PROVE  ReadInv'
<1>1. CASE \E name \in DOMAIN Composites : Seal(name)
  BY <1>1, SealRead
<1>2. CASE \E type \in DOMAIN places : \E values \in [DOMAIN Composites[type].shadows -> Values] : DefineTyped(type, values)
  BY <1>2, DefineTypedRead
<1>3. CASE \E v \in DOMAIN variables : DefineCopy(v)
  BY <1>3, DefineCopyRead
<1>4. CASE \E dst, src \in DOMAIN variables : Assign(dst, src)
  BY <1>4, AssignRead
<1>5. CASE \E dst, src \in DOMAIN variables : \E datum \in Composite(dst).data : AssignDatum(dst, src, datum)
  BY <1>5, AssignDatumRead DEF Composite
<1>6. CASE \E v \in DOMAIN variables : \E m \in DOMAIN Composite(v).shadows : Locate(v, m)
  BY <1>6, LocateRead DEF Composite
<1>7. CASE \E value \in Values : StoreMember(value)
  BY <1>7, StoreMemberRead
<1>8. CASE EndScope
  BY <1>8, EndScopeRead
<1>9. CASE UNCHANGED vars
  <2>1. StoreInv'
    BY <1>9, StoreInvNext DEF ReadInv
  <2>2. /\ UNCHANGED <<layouts, places, entries, blocks, variables, used, location, stored>>
        /\ Shadows' = Shadows
    BY <1>9 DEF vars, Shadows
  <2>3. Spaced'
    BY <2>2 DEF ReadInv, Spaced
  <2>4. Located'
    BY <2>2 DEF ReadInv, Located, Address
  <2>5. Reading'
    BY <2>2 DEF ReadInv, Reading
  <2> QED
    BY <2>1, <2>3, <2>4, <2>5 DEF ReadInv
<1> QED
  BY <1>1, <1>2, <1>3, <1>4, <1>5, <1>6, <1>7, <1>8, <1>9 DEF Next

LEMMA ReadInvInit ==
  ASSUME Init
  PROVE  ReadInv
<1>1. StoreInv
  BY ShadowStoreInit
<1>2. variables = <<>> /\ location = NoLocation /\ DOMAIN variables = {}
  BY DEF Init
<1> QED
  BY <1>1, <1>2 DEF ReadInv, Spaced, Located, Reading

LEMMA ReadInvReadsBack ==
  ASSUME ReadInv
  PROVE  ReadsBack
<1>1. ASSUME NEW v \in DOMAIN variables, NEW m \in DOMAIN stored[v]
      PROVE  Reads(v, m, stored[v][m])
  <2>1. AddressOf(v, m) = Address(variables[v], m) /\ PlaceOf(v, m) = places[variables[v].type][m]
    BY DEF AddressOf, PlaceOf, Address, Composite
  <2>2. /\ HasEntry(Shadows, AddressOf(v, m), PlaceOf(v, m).layout)
        /\ Filled(Shadows, AddressOf(v, m), PlaceOf(v, m), stored[v][m])
    BY <1>1, <2>1 DEF ReadInv, Reading, ReadsFrom
  <2> QED
    BY <2>2, ShadowFields DEF Reads, Filled, Bits
<1> QED
  BY <1>1 DEF ReadsBack

\* As long as no variable ends where a later one begins, every member that
\* exists at compile time only reads what was last stored in it: whatever
\* shadow_copy made of the entries around it, whatever had been at its address
\* before, and whatever happened while its place was held.
THEOREM SpecReadsBack ==
  ASSUME ShadowsApart
  PROVE  Spec /\ []Separate => []ReadsBack
<1>1. Init => ReadInv
  BY ReadInvInit
<1>2. ReadInv /\ Separate /\ Separate' /\ [Next]_vars => ReadInv'
  BY ReadInvNext
<1>3. ReadInv => ReadsBack
  BY ReadInvReadsBack
<1> QED
  BY <1>1, <1>2, <1>3, PTL DEF Spec

\* The size of a composite is no multiple of what aligns it and the next: there
\* is padding behind each variable.
Padded ==
  \A c, d \in DOMAIN Composites :
     \E a \in Nat \ {0} : /\ Composites[c].align % a = 0 /\ Composites[d].align % a = 0
                           /\ Composites[c].size % a # 0

Aligned == \A v \in DOMAIN variables : variables[v].begin % Composites[variables[v].type].align = 0

LEMMA PaddedSeparates ==
  ASSUME Padded, StoreInv, Aligned
  PROVE  Separate
<1>1. SUFFICES ASSUME NEW v \in DOMAIN variables, NEW w \in DOMAIN variables,
                      variables[v].begin + Composites[variables[v].type].size = variables[w].begin
               PROVE  FALSE
  BY DEF Separate
<1>2. PICK c : c = Composites[variables[v].type]
  OBVIOUS
<1>3. PICK d : d = Composites[variables[w].type]
  OBVIOUS
<1>4. PICK b : b = variables[v].begin
  OBVIOUS
<1>5. PICK e : e = variables[w].begin
  OBVIOUS
<1>6. /\ variables[v].type \in DOMAIN Composites /\ variables[w].type \in DOMAIN Composites
      /\ b \in Nat /\ e \in Nat
  BY <1>4, <1>5, VariableFacts DEF StoreInv
<1>7. /\ c.size \in Nat /\ c.align \in Nat \ {0} /\ d.align \in Nat \ {0}
  BY <1>2, <1>3, <1>6, CompositeFacts
<1>8. b % c.align = 0 /\ e % d.align = 0 /\ b + c.size = e
  BY <1>1, <1>2, <1>3, <1>4, <1>5 DEF Aligned
<1>9. PICK a \in Nat \ {0} : c.align % a = 0 /\ d.align % a = 0 /\ c.size % a # 0
  BY <1>2, <1>3, <1>6 DEF Padded
<1>10. b % a = 0 /\ e % a = 0
  BY <1>6, <1>7, <1>8, <1>9, ModTrans
<1>11. b <= e /\ e - b = c.size
  BY <1>6, <1>7, <1>8
<1>12. (e - b) % a = 0
  BY <1>6, <1>10, <1>11, SubMod
<1> QED
  BY <1>9, <1>11, <1>12

LEMMA ReserveAligned ==
  ASSUME PlacesKnown, VariablesKnown, Aligned, NEW type \in DOMAIN places, Reserve(NextVariable(type))
  PROVE  Aligned'
<1>1. PICK new : new = NextVariable(type)
  OBVIOUS
<1>2. new \in Variable /\ new.begin % Composites[new.type].align = 0
  BY <1>1, NextVariableFacts
<1>3. PICK n : n = Len(variables)
  OBVIOUS
<1>4. variables \in Seq(Variable) /\ DOMAIN variables = 1 .. n /\ n \in Nat
  BY <1>3 DEF VariablesKnown
<1>5. variables' = Append(variables, new)
  BY <1>1 DEF Reserve
<1> HIDE DEF Variable
<1>6. /\ DOMAIN variables' = 1 .. n + 1 /\ variables'[n + 1] = new
      /\ \A v \in 1 .. n : variables'[v] = variables[v]
  BY <1>2, <1>3, <1>4, <1>5
<1>7. ASSUME NEW v \in DOMAIN variables'
      PROVE  variables'[v].begin % Composites[variables'[v].type].align = 0
  <2>1. v = n + 1 \/ v \in 1 .. n
    BY <1>4, <1>6, <1>7
  <2>2. CASE v = n + 1
    BY <1>2, <1>6, <2>2
  <2>3. CASE v \in 1 .. n
    BY <1>4, <1>6, <2>3 DEF Aligned
  <2> QED
    BY <2>1, <2>2, <2>3
<1> QED
  BY <1>7 DEF Aligned

LEMMA AlignedNext ==
  ASSUME StoreInv, Aligned, [Next]_vars
  PROVE  Aligned'
<1>1. PlacesKnown /\ VariablesKnown
  BY DEF StoreInv
<1>2. CASE \E type \in DOMAIN places : Reserve(NextVariable(type))
  BY <1>1, <1>2, ReserveAligned
<1>3. CASE EndScope
  <2>1. \A v \in DOMAIN variables' : v \in DOMAIN variables /\ variables'[v] = variables[v]
    BY <1>3, EndScopeInv
  <2> QED
    BY <2>1 DEF Aligned
<1>4. CASE variables' = variables
  BY <1>4 DEF Aligned
<1>5. \/ \E type \in DOMAIN places : Reserve(NextVariable(type))
      \/ EndScope
      \/ variables' = variables
  <2>1. CASE \E type \in DOMAIN places : \E values \in [DOMAIN Composites[type].shadows -> Values] : DefineTyped(type, values)
    BY <2>1 DEF DefineTyped
  <2>2. ASSUME NEW v \in DOMAIN variables, DefineCopy(v)
        PROVE  \E type \in DOMAIN places : Reserve(NextVariable(type))
    <3>1. variables[v].type \in DOMAIN places
      BY <1>1, VariableFacts
    <3> QED
      BY <2>2, <3>1 DEF DefineCopy
  <2>3. CASE \E name \in DOMAIN Composites : Seal(name)
    BY <2>3 DEF Seal
  <2>4. CASE \E dst, src \in DOMAIN variables : Assign(dst, src)
    BY <2>4 DEF Assign
  <2>5. CASE \E dst, src \in DOMAIN variables : \E datum \in Composite(dst).data : AssignDatum(dst, src, datum)
    BY <2>5 DEF AssignDatum
  <2>6. CASE \E v \in DOMAIN variables : \E m \in DOMAIN Composite(v).shadows : Locate(v, m)
    BY <2>6 DEF Locate
  <2>7. CASE \E value \in Values : StoreMember(value)
    BY <2>7 DEF StoreMember
  <2>8. CASE UNCHANGED vars
    BY <2>8 DEF vars
  <2> QED
    BY <2>1, <2>2, <2>3, <2>4, <2>5, <2>6, <2>7, <2>8 DEF Next
<1> QED
  BY <1>2, <1>3, <1>4, <1>5

\* Where composites leave padding behind them, variables never touch, however
\* often memory is given back and used again.
THEOREM SpecSeparate ==
  ASSUME Padded
  PROVE  Spec => []Separate
<1>1. Init => StoreInv /\ Aligned
  <2> SUFFICES ASSUME Init PROVE StoreInv /\ Aligned
    OBVIOUS
  <2>1. variables = <<>> /\ DOMAIN variables = {}
    BY DEF Init
  <2> QED
    BY <2>1, ShadowStoreInit DEF Aligned
<1>2. StoreInv /\ Aligned /\ [Next]_vars => (StoreInv /\ Aligned)'
  BY StoreInvNext, AlignedNext
<1>3. StoreInv /\ Aligned => Separate
  BY PaddedSeparates
<1> QED
  BY <1>1, <1>2, <1>3, PTL DEF Spec

\* ReadsBack from conditions on the composites alone, which those of
\* MCShadowStore fulfil.
THEOREM SpecPadded ==
  ASSUME ShadowsApart, Padded
  PROVE  Spec => []ReadsBack
<1>1. Spec => []Separate
  BY SpecSeparate
<1>2. Spec /\ []Separate => []ReadsBack
  BY SpecReadsBack
<1> QED
  BY <1>1, <1>2, PTL
=============================================================================
