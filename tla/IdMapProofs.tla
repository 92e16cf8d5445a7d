---------------------------- MODULE IdMapProofs ----------------------------
(***************************************************************************)
(* The map of infra/container/id_map.hpp is consistent after any calls and *)
(* interns, for every set of keys, hash, MAX_PSL and size of the table,    *)
(* and however often m_lookup_used has wrapped.                            *)
(*                                                                         *)
(* Probes and activations are sequences of states given by their step, so  *)
(* that what holds of all of them is proved by induction over the number   *)
(* of steps (Increasing and LeastNumber of NumberFacts).  The table is     *)
(* Good between two calls; a probe, a rehash and a shift keep that, and    *)
(* add, keep or lose exactly the ids they should.  A search that meets a   *)
(* Good table finds an entry wherever Robin Hood insertion has left it.    *)
(***************************************************************************)
EXTENDS IdMap, NumberFacts, FiniteSetTheorems

-----------------------------------------------------------------------------
(* Sizes, hashes and entries. *)

LEMMA SizeFacts == \A c \in Sizes : c \in Nat \ {0} /\ c >= 2 /\ c > MaxPsl
BY SizeAssumption DEF Sizes

LEMMA HashFacts ==
  ASSUME NEW k \in Keys, NEW c \in Nat \ {0}
  PROVE  Hash[k] \in Nat /\ Fingerprint(Hash[k]) \in Nat \ {0} /\ Home(k, c) \in Slots(c)
<1>1. Hash[k] \in Nat /\ Shift \in Nat \ {0}
  BY HashAssumption
<1>2. Home(k, c) \in Slots(c)
  BY <1>1, DivMod DEF Home, Slots
<1>3. Fingerprint(Hash[k]) \in Nat \ {0}
  <2> DEFINE f == Hash[k] \div Shift
  <2>1. f \in Nat
    BY <1>1, DivMod
  <2>2. Fingerprint(Hash[k]) = IF f % 2 = 0 THEN f + 1 ELSE f
    BY DEF Fingerprint
  <2> HIDE DEF f
  <2>3. f % 2 # 0 => f # 0
    BY <2>1
  <2> QED
    BY <2>1, <2>2, <2>3
<1> QED
  BY <1>1, <1>2, <1>3

Entry == [fp : Nat, psl : 0 .. MaxPsl, id : Nat]

Tables(c) == [Slots(c) -> Entry]

After(s, c) == (s + 1) % c

\* Entry e belongs to the slot s: it knows its distance from home.
Owns(e, s, c, vals) ==
  /\ e.id \in DOMAIN vals /\ vals[e.id] \in Keys
  /\ e.fp = Fingerprint(Hash[vals[e.id]])
  /\ (Home(vals[e.id], c) + e.psl) % c = s

\* The furthest from its home that the entry behind e may be.
Reach(e) == IF e # Empty THEN e.psl + 1 ELSE 0

Ordered(tbl, c, vals) ==
  /\ tbl \in Tables(c)
  /\ \A s \in Slots(c) : tbl[s] # Empty => Owns(tbl[s], s, c, vals)
  /\ \A s \in Slots(c) : tbl[After(s, c)].psl <= Reach(tbl[s])
  /\ \A s, t \in Slots(c) : tbl[s] # Empty /\ tbl[t] # Empty /\ tbl[s].id = tbl[t].id => s = t

\* A table between two calls: some slot ends every shift of entries.
Good(tbl, c, vals) == Ordered(tbl, c, vals) /\ \E s \in Slots(c) : tbl[s].psl = 0

Ids(tbl) == {tbl[s].id : s \in {t \in DOMAIN tbl : tbl[t] # Empty}}

LEMMA EmptyEntry == Empty \in Entry /\ Empty.fp = 0 /\ Empty.psl = 0
BY SizeAssumption DEF Empty, Entry

\* The slot after a slot is another one, and every slot is after one.
LEMMA AfterFacts ==
  ASSUME NEW c \in Sizes, NEW s \in Slots(c)
  PROVE  /\ After(s, c) \in Slots(c) /\ After(s, c) # s
         /\ \A t \in Slots(c) : After(t, c) = After(s, c) => t = s
<1>1. c \in Nat \ {0} /\ c >= 2 /\ s \in 0 .. c - 1
  BY SizeFacts DEF Slots
<1>2. After(s, c) = IF s + 1 < c THEN s + 1 ELSE 0
  <2>1. s + 1 \in 0 .. (2 * c) - 1
    BY <1>1
  <2>2. (s + 1) % c = IF s + 1 < c THEN s + 1 ELSE s + 1 - c
    BY <1>1, <2>1, RingBelow
  <2> QED
    BY <1>1, <2>2 DEF After
<1>3. \A t \in Slots(c) : After(t, c) = After(s, c) => t = s
  BY <1>1, RingCancel DEF After, Slots
<1> QED
  BY <1>1, <1>2, <1>3 DEF Slots

-----------------------------------------------------------------------------
(* Probes. *)

Outcomes == {"run", "found", "inserted", "exhausted"}

Probes(c) == [i : Slots(c), entry : Entry, tbl : Tables(c), placed : BOOLEAN, outcome : Outcomes]

\* A probe in its n-th slot for a place for the key k, which got id and is not
\* in tbl: the entry in hand and those of the table are those of tbl and the
\* new one, the one in hand could stand where it is, and no slot was passed
\* that is empty.
Probing(n, p, k, id, c, vals, tbl) ==
  /\ p.i = (Home(k, c) + n) % c
  /\ Ordered(p.tbl, c, vals)
  /\ Owns(p.entry, p.i, c, vals) /\ p.entry # Empty
  /\ p.entry.id \notin Ids(p.tbl)
  /\ Ids(p.tbl) \cup {p.entry.id} = Ids(tbl) \cup {id}
  /\ \A s \in Slots(c) : After(s, c) = p.i => p.entry.psl <= Reach(p.tbl[s])
  /\ \A s \in Slots(c) : p.tbl[s] = Empty <=> tbl[s] = Empty
  /\ \A m \in 0 .. n - 1 : p.tbl[(Home(k, c) + m) % c] # Empty
  /\ \A s \in Slots(c) : p.tbl[s] # Empty /\ p.tbl[s].id = id
                           => \E m \in 0 .. n - 1 : s = (Home(k, c) + m) % c

\* A slot further, the entry is one further from its home.
LEMMA OwnsAfter ==
  ASSUME NEW c \in Sizes, NEW vals, NEW e \in Entry, NEW s \in Slots(c), Owns(e, s, c, vals),
         NEW f \in Entry, f = [e EXCEPT !.psl = e.psl + 1]
  PROVE  Owns(f, After(s, c), c, vals)
<1>1. f.id = e.id /\ f.fp = e.fp /\ f.psl = e.psl + 1 /\ e.psl \in Nat
  BY DEF Entry
<1>2. c \in Nat \ {0} /\ Home(vals[e.id], c) \in Nat
  BY SizeFacts, HashFacts DEF Owns, Slots
<1> DEFINE h == Home(vals[e.id], c)
           a == h + e.psl
<1>3. a \in Nat /\ a % c = s /\ h + f.psl = a + 1
  BY <1>1, <1>2 DEF Owns
<1> HIDE DEF a
<1>4. ((a % c) + 1) % c = (a + 1) % c
  BY <1>2, <1>3, RingAdd
<1>5. (h + f.psl) % c = After(s, c)
  BY <1>3, <1>4 DEF After
<1> QED
  BY <1>1, <1>5 DEF Owns

\* An entry with another in place of the one at slot s.
LEMMA PutOrdered ==
  ASSUME NEW c \in Sizes, NEW vals, NEW tbl, Ordered(tbl, c, vals),
         NEW s \in Slots(c), NEW e \in Entry, e # Empty, Owns(e, s, c, vals),
         e.id \notin Ids(tbl), tbl[s].psl <= e.psl,
         \A t \in Slots(c) : After(t, c) = s => e.psl <= Reach(tbl[t]),
         NEW new, new = [tbl EXCEPT ![s] = e]
  PROVE  /\ Ordered(new, c, vals)
         /\ Ids(new) \cup (IF tbl[s] = Empty THEN {} ELSE {tbl[s].id}) = Ids(tbl) \cup {e.id}
         /\ tbl[s] # Empty => tbl[s].id \notin Ids(new)
<1>1. tbl \in Tables(c) /\ DOMAIN tbl = Slots(c)
  BY DEF Ordered, Tables
<1>2. new \in Tables(c) /\ DOMAIN new = Slots(c) /\ new[s] = e /\ \A t \in Slots(c) : t # s => new[t] = tbl[t]
  BY <1>1 DEF Tables
<1>3. \A t \in Slots(c) : tbl[t] # Empty => tbl[t].id \in Ids(tbl)
  BY <1>1 DEF Ids
<1>4. \A t \in Slots(c) : new[t] # Empty => new[t].id \in Ids(new)
  BY <1>2 DEF Ids
<1>5. \A t \in Slots(c) : new[t] # Empty => Owns(new[t], t, c, vals)
  BY <1>2 DEF Ordered
<1>6. ASSUME NEW t \in Slots(c)
      PROVE  new[After(t, c)].psl <= Reach(new[t])
  <2>1. After(t, c) \in Slots(c) /\ After(t, c) # t
    BY AfterFacts
  <2>2. tbl[After(t, c)].psl <= Reach(tbl[t])
    BY DEF Ordered
  <2>3. tbl[t] \in Entry /\ tbl[After(t, c)] \in Entry
    BY <1>1, <2>1 DEF Tables
  <2>4. CASE t = s
    <3>1. Reach(new[t]) = e.psl + 1 /\ new[After(t, c)] = tbl[After(t, c)]
      BY <1>2, <2>1, <2>4 DEF Reach
    <3>2. Reach(tbl[t]) <= e.psl + 1
      BY <2>3, <2>4 DEF Reach, Entry
    <3>3. Reach(tbl[t]) \in Nat /\ tbl[After(t, c)].psl \in Nat /\ e.psl \in Nat
      BY <2>3 DEF Reach, Entry
    <3> QED
      BY <2>2, <3>1, <3>2, <3>3
  <2>5. CASE After(t, c) = s
    BY <1>2, <2>1, <2>5
  <2>6. CASE t # s /\ After(t, c) # s
    BY <1>2, <2>1, <2>2, <2>6
  <2> QED
    BY <2>4, <2>5, <2>6
<1>7. ASSUME NEW t \in Slots(c), NEW u \in Slots(c), new[t] # Empty, new[u] # Empty,
             new[t].id = new[u].id
      PROVE  t = u
  <2>1. CASE t # s /\ u # s
    BY <1>2, <1>7, <2>1 DEF Ordered
  <2>2. CASE t = s \/ u = s
    BY <1>2, <1>3, <1>7, <2>2
  <2> QED
    BY <2>1, <2>2
<1>8. Ordered(new, c, vals)
  BY <1>2, <1>5, <1>6, <1>7 DEF Ordered
<1>9. ASSUME NEW i
      PROVE  i \in Ids(new) <=> i = e.id \/ \E t \in Slots(c) : t # s /\ tbl[t] # Empty /\ tbl[t].id = i
  BY <1>2 DEF Ids
<1>10. ASSUME NEW i
       PROVE  i \in Ids(tbl) <=> \E t \in Slots(c) : tbl[t] # Empty /\ tbl[t].id = i
  BY <1>1 DEF Ids
<1>11. tbl[s] # Empty => tbl[s].id \notin Ids(new)
  <2> SUFFICES ASSUME tbl[s] # Empty, tbl[s].id \in Ids(new) PROVE FALSE
    OBVIOUS
  <2>1. tbl[s].id # e.id
    BY <1>3
  <2>2. PICK t \in Slots(c) : t # s /\ tbl[t] # Empty /\ tbl[t].id = tbl[s].id
    BY <1>9, <2>1
  <2> QED
    BY <2>2 DEF Ordered
<1>12. Ids(new) \cup (IF tbl[s] = Empty THEN {} ELSE {tbl[s].id}) = Ids(tbl) \cup {e.id}
  <2> DEFINE rest == IF tbl[s] = Empty THEN {} ELSE {tbl[s].id}
  <2>1. \A i : i \in Ids(new) \cup rest <=> i \in Ids(tbl) \cup {e.id}
    <3> SUFFICES ASSUME NEW i PROVE i \in Ids(new) \cup rest <=> i \in Ids(tbl) \cup {e.id}
      OBVIOUS
    <3>1. i \in rest <=> tbl[s] # Empty /\ i = tbl[s].id
      OBVIOUS
    <3>2. (i \in Ids(new) \/ i \in rest) <=> (i \in Ids(tbl) \/ i = e.id)
      BY <1>9, <1>10, <3>1
    <3> QED
      BY <3>2
  <2> QED
    BY <2>1
<1> QED
  BY <1>8, <1>11, <1>12

\* Giving way keeps the entry in hand and those of the table together the same.
LEMMA SwapKept ==
  ASSUME NEW c \in Sizes, NEW vals, NEW p \in Probes(c), Ordered(p.tbl, c, vals),
         Owns(p.entry, p.i, c, vals), p.entry # Empty, p.entry.id \notin Ids(p.tbl),
         \A s \in Slots(c) : After(s, c) = p.i => p.entry.psl <= Reach(p.tbl[s]),
         p.tbl[p.i] # Empty, NEW q, q = Swap(p)
  PROVE  /\ q \in Probes(c) /\ q.i = p.i /\ q.outcome = p.outcome
         /\ Ordered(q.tbl, c, vals)
         /\ Owns(q.entry, q.i, c, vals) /\ q.entry # Empty /\ q.entry.id \notin Ids(q.tbl)
         /\ Ids(q.tbl) \cup {q.entry.id} = Ids(p.tbl) \cup {p.entry.id}
         /\ q.tbl[q.i] # Empty /\ q.entry.psl <= q.tbl[q.i].psl
         /\ \A s \in Slots(c) : s # p.i => q.tbl[s] = p.tbl[s]
<1> DEFINE i == p.i
           e == p.tbl[i]
<1>1. /\ i \in Slots(c) /\ p.entry \in Entry /\ p.tbl \in Tables(c) /\ e \in Entry
      /\ p.entry.psl \in Nat /\ e.psl \in Nat /\ DOMAIN p.tbl = Slots(c)
  BY DEF Probes, Tables, Entry
<1>2. CASE GivesWay(e, p)
  <2> DEFINE new == [p.tbl EXCEPT ![i] = p.entry]
  <2>1. q = [p EXCEPT !.tbl = new, !.entry = e, !.placed = TRUE]
    BY <1>2 DEF Swap
  <2>2. new \in Tables(c) /\ new[i] = p.entry /\ \A s \in Slots(c) : s # i => new[s] = p.tbl[s]
    BY <1>1 DEF Tables
  <2>3. q \in Probes(c) /\ q.i = i /\ q.outcome = p.outcome /\ q.tbl = new /\ q.entry = e
    <3> HIDE DEF new
    <3> QED
      BY <1>1, <2>1, <2>2 DEF Probes
  <2>4. e.psl < p.entry.psl
    BY <1>2 DEF GivesWay
  <2>5. /\ Ordered(new, c, vals)
        /\ Ids(new) \cup {e.id} = Ids(p.tbl) \cup {p.entry.id}
        /\ e.id \notin Ids(new)
    BY <1>1, <2>4, PutOrdered
  <2>6. Owns(e, i, c, vals)
    BY <1>1 DEF Ordered
  <2> HIDE DEF new
  <2> QED
    BY <1>1, <2>2, <2>3, <2>4, <2>5, <2>6
<1>3. CASE ~ GivesWay(e, p)
  <2>1. q = p
    BY <1>3 DEF Swap
  <2>2. p.entry.psl <= e.psl
    BY <1>1, <1>3 DEF GivesWay
  <2> QED
    BY <2>1, <2>2
<1> QED
  BY <1>2, <1>3

\* A probe that goes on has passed one more slot.
LEMMA ProbeStep ==
  ASSUME NEW c \in Sizes, NEW vals, NEW k \in Keys, NEW id, NEW tbl \in Tables(c), NEW n \in Nat,
         NEW p \in Probes(c), p.outcome = "run", Probing(n, p, k, id, c, vals, tbl),
         p.tbl[p.i] # Empty, NEW r, r = Advance(Swap(p), c)
  PROVE  /\ r \in Probes(c) /\ r.outcome \in {"run", "exhausted"}
         /\ r.outcome = "run" => Probing(n + 1, r, k, id, c, vals, tbl)
<1> DEFINE q == Swap(p)
           h == Home(k, c)
<1>1. /\ q \in Probes(c) /\ q.i = p.i /\ q.outcome = "run"
      /\ Ordered(q.tbl, c, vals)
      /\ Owns(q.entry, q.i, c, vals) /\ q.entry # Empty /\ q.entry.id \notin Ids(q.tbl)
      /\ Ids(q.tbl) \cup {q.entry.id} = Ids(p.tbl) \cup {p.entry.id}
      /\ q.tbl[q.i] # Empty /\ q.entry.psl <= q.tbl[q.i].psl
      /\ \A s \in Slots(c) : s # p.i => q.tbl[s] = p.tbl[s]
  <2>1. /\ Ordered(p.tbl, c, vals) /\ Owns(p.entry, p.i, c, vals) /\ p.entry # Empty
        /\ p.entry.id \notin Ids(p.tbl)
        /\ \A s \in Slots(c) : After(s, c) = p.i => p.entry.psl <= Reach(p.tbl[s])
    BY DEF Probing
  <2> HIDE DEF q
  <2>2. q = Swap(p)
    BY DEF q
  <2> QED
    BY <2>1, <2>2, SwapKept
<1>2. r = Advance(q, c)
  OBVIOUS
<1>3. c \in Nat \ {0} /\ h \in Slots(c) /\ h \in Nat /\ p.i = (h + n) % c /\ p.i \in Slots(c)
  BY SizeFacts, HashFacts DEF Probing, Probes, Slots
<1> HIDE DEF q, h
<1>4. /\ q.entry \in Entry /\ q.tbl \in Tables(c) /\ q.entry.psl \in 0 .. MaxPsl /\ MaxPsl \in Nat
      /\ q.tbl[q.i] \in Entry /\ DOMAIN q.tbl = Slots(c)
  BY <1>1, SizeAssumption DEF Probes, Tables, Entry
<1>5. CASE q.entry.psl = MaxPsl
  <2>1. r = [q EXCEPT !.outcome = "exhausted"]
    BY <1>2, <1>5 DEF Advance
  <2>2. r \in Probes(c) /\ r.outcome = "exhausted"
    BY <1>1, <2>1 DEF Probes, Outcomes
  <2> QED
    BY <2>2
<1>6. CASE q.entry.psl # MaxPsl
  <2> DEFINE f == [q.entry EXCEPT !.psl = q.entry.psl + 1]
             j == After(q.i, c)
  <2>1. r = [q EXCEPT !.entry = f, !.i = j]
    BY <1>2, <1>6 DEF Advance, After
  <2>2. f \in Entry /\ f.psl = q.entry.psl + 1 /\ f.id = q.entry.id /\ f.fp = q.entry.fp
    BY <1>4, <1>6 DEF Entry
  <2>3. j \in Slots(c) /\ \A t \in Slots(c) : After(t, c) = j => t = q.i
    BY <1>1, <1>3, AfterFacts
  <2>4. Owns(f, j, c, vals)
    BY <1>1, <1>3, <1>4, <2>2, OwnsAfter
  <2> HIDE DEF f, j
  <2>5. r \in Probes(c) /\ r.i = j /\ r.entry = f /\ r.tbl = q.tbl /\ r.outcome = "run"
    BY <1>1, <2>1, <2>2, <2>3 DEF Probes
  <2>6. j = (h + (n + 1)) % c
    <3>1. (((h + n) % c) + 1) % c = ((h + n) + 1) % c
      BY <1>3, RingAdd
    <3>2. (h + n) + 1 = h + (n + 1)
      BY <1>3
    <3> QED
      BY <1>1, <1>3, <3>1, <3>2 DEF After, j
  <2>7. f # Empty
    <3>1. q.entry.fp \in Nat \ {0}
      BY <1>1, <1>3, HashFacts DEF Owns
    <3> QED
      BY <3>1, <2>2, EmptyEntry
  <2>8. \A s \in Slots(c) : After(s, c) = j => f.psl <= Reach(q.tbl[s])
    BY <1>1, <1>4, <2>2, <2>3 DEF Reach, Entry
  <2>9. \A s \in Slots(c) : q.tbl[s] = Empty <=> tbl[s] = Empty
    BY <1>1, <1>3 DEF Probing
  <2>10. \A m \in 0 .. (n + 1) - 1 : q.tbl[(h + m) % c] # Empty
    <3> SUFFICES ASSUME NEW m \in 0 .. (n + 1) - 1 PROVE q.tbl[(h + m) % c] # Empty
      OBVIOUS
    <3>1. (h + m) % c \in Slots(c)
      <4>1. m \in Nat /\ h + m \in Nat
        BY <1>3
      <4> QED
        BY <1>3, <4>1, DivMod DEF Slots
    <3>2. CASE (h + m) % c = p.i
      BY <1>1, <3>2
    <3>3. CASE (h + m) % c # p.i
      <4>1. m \in 0 .. n - 1
        BY <1>3, <3>3
      <4> QED
        BY <1>1, <3>1, <3>3, <4>1 DEF Probing, h
    <3> QED
      BY <3>2, <3>3
  <2>11. \A s \in Slots(c) : q.tbl[s] # Empty /\ q.tbl[s].id = id
                             => \E m \in 0 .. (n + 1) - 1 : s = (h + m) % c
    <3> SUFFICES ASSUME NEW s \in Slots(c), q.tbl[s] # Empty, q.tbl[s].id = id
                 PROVE  \E m \in 0 .. (n + 1) - 1 : s = (h + m) % c
      OBVIOUS
    <3>1. CASE s = p.i
      BY <1>3, <3>1
    <3>2. CASE s # p.i
      <4>1. PICK m \in 0 .. n - 1 : s = (h + m) % c
        BY <1>1, <3>2 DEF Probing, h
      <4> QED
        BY <4>1
    <3> QED
      BY <3>1, <3>2
  <2>12. Ids(q.tbl) \cup {f.id} = Ids(tbl) \cup {id}
    BY <1>1, <2>2 DEF Probing
  <2> QED
    BY <1>1, <2>2, <2>4, <2>5, <2>6, <2>7, <2>8, <2>9, <2>10, <2>11, <2>12 DEF Probing, h
<1> QED
  BY <1>5, <1>6

Added(r, id, c, vals, tbl) ==
  /\ r \in Probes(c) /\ r.outcome = "inserted" /\ r.placed
  /\ Good(r.tbl, c, vals) /\ Ids(r.tbl) = Ids(tbl) \cup {id}

\* A probe that has found an empty slot has added its key to the table.
LEMMA PlaceGood ==
  ASSUME NEW c \in Sizes, NEW vals, NEW k \in Keys, NEW id, NEW tbl \in Tables(c), NEW n \in Nat,
         NEW p \in Probes(c), Probing(n, p, k, id, c, vals, tbl), p.tbl[p.i] = Empty
  PROVE  Added(Place(p), id, c, vals, tbl)
<1> DEFINE new == [p.tbl EXCEPT ![p.i] = p.entry]
           r == Place(p)
<1>1. r = [p EXCEPT !.tbl = new, !.placed = TRUE, !.outcome = "inserted"]
  BY DEF Place
<1>2. p.i \in Slots(c) /\ p.entry \in Entry /\ p.tbl \in Tables(c) /\ p.entry.psl \in Nat
  BY DEF Probes, Entry
<1>3. new \in Tables(c) /\ \A s \in Slots(c) : s # p.i => new[s] = p.tbl[s]
  BY <1>2 DEF Tables
<1>4. /\ Ordered(new, c, vals)
      /\ Ids(new) \cup (IF p.tbl[p.i] = Empty THEN {} ELSE {p.tbl[p.i].id}) = Ids(p.tbl) \cup {p.entry.id}
  <2>1. p.tbl[p.i].psl <= p.entry.psl
    BY <1>2, EmptyEntry
  <2> QED
    BY <1>2, <2>1, PutOrdered DEF Probing
<1>5. \E s \in Slots(c) : new[s].psl = 0
  <2> DEFINE j == After(p.i, c)
  <2>1. j \in Slots(c) /\ j # p.i
    BY <1>2, AfterFacts
  <2>2. p.tbl[j].psl <= Reach(p.tbl[p.i]) /\ p.tbl[j].psl \in Nat
    BY <1>2, <2>1 DEF Probing, Ordered, Tables, Entry
  <2>3. Reach(p.tbl[p.i]) = 0
    BY DEF Reach
  <2> QED
    BY <1>3, <2>1, <2>2, <2>3
<1>6. r \in Probes(c) /\ r.outcome = "inserted" /\ r.placed /\ r.tbl = new
  <2> HIDE DEF new, r
  <2> QED
    BY <1>1, <1>3 DEF Probes, Outcomes
<1>7. Ids(new) = Ids(tbl) \cup {id}
  BY <1>4 DEF Probing
<1> HIDE DEF r, new
<1>8. Added(r, id, c, vals, tbl)
  BY <1>4, <1>5, <1>6, <1>7 DEF Good, Added
<1> QED
  BY <1>8 DEF r

-----------------------------------------------------------------------------
(* Probes for a key that is not in the table.                              *)

Injective(vals) == \A i, j \in DOMAIN vals : vals[i] = vals[j] /\ vals[i] # NoKey => i = j

FewKeys == IsFiniteSet(Keys) /\ Cardinality(Keys) < FirstCommit

NoneAlike ==
  \A j, k \in Keys : \A c \in Sizes :
    j # k /\ Fingerprint(Hash[j]) = Fingerprint(Hash[k]) => Home(j, c) # Home(k, c)

Distinguishable == FewKeys \/ NoneAlike

\* Only id has the key k.
Only(k, id, vals) == id \in DOMAIN vals /\ vals[id] = k /\ \A j \in DOMAIN vals : vals[j] = k => j = id

\* In a full table an entry could be taken for a new key.
Spare(c, tbl) == NoneAlike \/ \E z \in Slots(c) : tbl[z] = Empty

\* A table longer than there are keys has a slot to spare.
LEMMA Vacancy ==
  ASSUME NEW c \in Sizes, NEW vals, NEW tbl, Ordered(tbl, c, vals), Injective(vals), FewKeys
  PROVE  \E z \in Slots(c) : tbl[z] = Empty
<1> SUFFICES ASSUME \A z \in Slots(c) : tbl[z] # Empty PROVE FALSE
  OBVIOUS
<1> DEFINE f == [s \in Slots(c) |-> vals[tbl[s].id]]
<1>1. \A s \in Slots(c) : tbl[s].id \in DOMAIN vals /\ vals[tbl[s].id] \in Keys
  BY DEF Ordered, Owns
<1>2. f \in [Slots(c) -> Keys]
  BY <1>1
<1>3. c \in Nat \ {0} /\ FirstCommit \in Nat /\ FirstCommit <= c
  BY SizeFacts, SizeAssumption DEF Sizes
<1>4. IsFiniteSet(Slots(c)) /\ Cardinality(Slots(c)) = c
  <2>1. IsFiniteSet(0 .. c - 1) /\ Cardinality(0 .. c - 1) = IF 0 > c - 1 THEN 0 ELSE c - 1 - 0 + 1
    BY <1>3, FS_Interval
  <2> QED
    BY <1>3, <2>1 DEF Slots
<1>5. Cardinality(Keys) \in Nat
  BY FS_CardinalityType DEF FewKeys
<1>6. Cardinality(Keys) < Cardinality(Slots(c))
  BY <1>3, <1>4, <1>5 DEF FewKeys
<1>7. PICK s, t \in Slots(c) : s # t /\ f[s] = f[t]
  <2> HIDE DEF f
  <2> QED
    BY <1>2, <1>4, <1>6, FS_PigeonHole DEF FewKeys
<1>8. tbl[s].id = tbl[t].id
  BY <1>1, <1>7, HashAssumption DEF Injective
<1> QED
  BY <1>7, <1>8 DEF Ordered

\* No entry on the way of a new key is taken for it: only the new key's own
\* entry has its value, and what is compared with that one is another key's.
LEMMA NotFound ==
  ASSUME NEW c \in Sizes, NEW vals, NEW k \in Keys, NEW id, NEW tbl \in Tables(c), NEW n \in Nat,
         NEW p \in Probes(c), Probing(n, p, k, id, c, vals, tbl), p.tbl[p.i] # Empty,
         Only(k, id, vals), Spare(c, tbl)
  PROVE  ~ Equal(p.tbl[p.i], p.entry, k, vals)
<1> SUFFICES ASSUME Equal(p.tbl[p.i], p.entry, k, vals) PROVE FALSE
  OBVIOUS
<1> DEFINE e == p.tbl[p.i]
           m == p.entry.psl
           l == vals[p.entry.id]
           h == Home(k, c)
<1>1. p.i \in Slots(c) /\ e \in Entry /\ m \in Nat /\ DOMAIN p.tbl = Slots(c)
  BY DEF Probes, Tables, Entry
<1>2. Owns(e, p.i, c, vals) /\ Owns(p.entry, p.i, c, vals)
  BY <1>1 DEF Probing, Ordered
<1>3. e.fp = p.entry.fp /\ e.psl = m /\ vals[e.id] = k
  BY DEF Equal
<1>4. e.id = id
  BY <1>2, <1>3 DEF Owns, Only
<1>5. p.entry.id # id
  <2>1. e.id \in Ids(p.tbl)
    BY <1>1 DEF Ids
  <2> QED
    BY <1>4, <2>1 DEF Probing
<1>6. l \in Keys /\ l # k /\ Fingerprint(Hash[l]) = Fingerprint(Hash[k])
  BY <1>2, <1>3, <1>5 DEF Owns, Only
<1>7. Home(l, c) = h
  <2>1. (Home(l, c) + m) % c = (h + m) % c
    BY <1>2, <1>3 DEF Owns
  <2>2. c \in Nat \ {0} /\ Home(l, c) \in 0 .. c - 1 /\ h \in 0 .. c - 1
    BY <1>6, SizeFacts, HashFacts DEF Slots
  <2> HIDE DEF h, l, m
  <2> QED
    BY <1>1, <2>1, <2>2, RingCancel
<1>8. PICK z \in Slots(c) : tbl[z] = Empty
  BY <1>6, <1>7 DEF NoneAlike, Spare
<1>9. c \in Nat \ {0} /\ h \in Nat /\ z \in 0 .. c - 1
  BY SizeFacts, HashFacts DEF Slots
<1>10. PICK d \in 0 .. c - 1 : (h + d) % c = z
  <2> HIDE DEF h
  <2> QED
    BY <1>9, RingReach
<1>11. n <= d
  <2> SUFFICES ASSUME d < n PROVE FALSE
    BY <1>9
  <2>1. d \in 0 .. n - 1
    BY <1>9
  <2>2. p.tbl[(h + d) % c] # Empty
    BY <2>1 DEF Probing
  <2> QED
    BY <1>8, <1>10, <2>2 DEF Probing
<1>12. PICK j \in 0 .. n - 1 : p.i = (h + j) % c
  BY <1>1, <1>4 DEF Probing
<1>13. p.i = (h + n) % c
  BY DEF Probing
<1> HIDE DEF h
<1>14. j \in 0 .. c - 1 /\ n \in 0 .. c - 1 /\ (j + h) % c = (n + h) % c
  <2>1. j \in 0 .. c - 1 /\ n \in 0 .. c - 1
    BY <1>9, <1>11
  <2>2. h + j = j + h /\ h + n = n + h
    BY <1>9
  <2> QED
    BY <1>12, <1>13, <2>1, <2>2
<1>15. j = n
  BY <1>9, <1>14, RingCancel
<1> QED
  BY <1>15

\* What a probe for a new key has come to after n steps.
Placing(n, p, k, id, c, vals, tbl) ==
  /\ p \in Probes(c) /\ p.outcome \in {"run", "exhausted", "inserted"}
  /\ p.outcome = "run" => Probing(n, p, k, id, c, vals, tbl)
  /\ p.outcome = "inserted" => Added(p, id, c, vals, tbl)

LEMMA ProbeStart ==
  ASSUME NEW c \in Sizes, NEW vals, NEW k \in Keys, NEW id \in Nat, NEW tbl, Ordered(tbl, c, vals),
         id \in DOMAIN vals, vals[id] = k, id \notin Ids(tbl)
  PROVE  Placing(0, ProbeOf(k, id, c, tbl), k, id, c, vals, tbl)
<1> DEFINE p == ProbeOf(k, id, c, tbl)
           h == Home(k, c)
<1>1. tbl \in Tables(c) /\ DOMAIN tbl = Slots(c)
  BY DEF Ordered, Tables
<1>2. c \in Nat \ {0} /\ h \in Slots(c) /\ h \in Nat /\ Fingerprint(Hash[k]) \in Nat \ {0}
  BY SizeFacts, HashFacts DEF Slots
<1>3. p.i = h /\ p.entry = Lookup(k, id) /\ p.tbl = tbl /\ p.placed = FALSE /\ p.outcome = "run"
  BY DEF ProbeOf
<1>4. Lookup(k, id) \in Entry /\ Lookup(k, id) # Empty
  BY <1>2, SizeAssumption DEF Lookup, Entry, Empty
<1>5. p \in Probes(c)
  BY <1>1, <1>2, <1>4 DEF ProbeOf, Probes, Outcomes
<1>6. (h + 0) % c = h
  <2> HIDE DEF h
  <2>1. h + 0 = h /\ h \in 0 .. (2 * c) - 1 /\ h < c
    BY <1>2 DEF Slots
  <2> QED
    BY <1>2, <2>1, RingBelow
<1>7. Owns(Lookup(k, id), h, c, vals)
  BY <1>6 DEF Owns, Lookup
<1>8. \A s \in Slots(c) : Lookup(k, id).psl <= Reach(tbl[s])
  BY <1>1 DEF Lookup, Reach, Tables, Entry
<1>9. \A s \in Slots(c) : tbl[s] # Empty => tbl[s].id # id
  BY <1>1 DEF Ids
<1>10. Lookup(k, id).id = id
  BY DEF Lookup
<1> HIDE DEF p, h
<1>11. Probing(0, p, k, id, c, vals, tbl)
  BY <1>3, <1>4, <1>6, <1>7, <1>8, <1>9, <1>10 DEF Probing, h
<1> QED
  BY <1>3, <1>5, <1>11 DEF Placing, p

\* One step of reinsert_value_into_lookup, and one of id_from for a key that
\* no entry is taken for.
LEMMA PlacingStep ==
  ASSUME NEW c \in Sizes, NEW vals, NEW k \in Keys, NEW id, NEW tbl \in Tables(c), NEW n \in Nat,
         NEW p, Placing(n, p, k, id, c, vals, tbl)
  PROVE  Placing(n + 1, ReinsertStep(p, c), k, id, c, vals, tbl)
<1> DEFINE q == ReinsertStep(p, c)
<1>1. p \in Probes(c)
  BY DEF Placing
<1>2. CASE p.outcome # "run"
  <2>1. q = p
    BY <1>2 DEF ReinsertStep
  <2> QED
    BY <1>2, <2>1 DEF Placing
<1>3. CASE p.outcome = "run" /\ p.tbl[p.i] = Empty
  <2>1. q = Place(p)
    BY <1>3 DEF ReinsertStep
  <2>2. Probing(n, p, k, id, c, vals, tbl)
    BY <1>3 DEF Placing
  <2> HIDE DEF q
  <2>3. Added(q, id, c, vals, tbl)
    <3>1. p.tbl[p.i] = Empty
      BY <1>3
    <3> QED
      BY <1>1, <2>1, <2>2, <3>1, PlaceGood
  <2>4. Placing(n + 1, q, k, id, c, vals, tbl)
    BY <2>3 DEF Placing, Added
  <2> QED
    BY <2>4 DEF q
<1>4. CASE p.outcome = "run" /\ p.tbl[p.i] # Empty
  <2>1. q = Advance(Swap(p), c)
    BY <1>4 DEF ReinsertStep
  <2>2. Probing(n, p, k, id, c, vals, tbl)
    BY <1>4 DEF Placing
  <2> HIDE DEF q
  <2>3. /\ q \in Probes(c) /\ q.outcome \in {"run", "exhausted"}
        /\ q.outcome = "run" => Probing(n + 1, q, k, id, c, vals, tbl)
    BY <1>1, <1>4, <2>1, <2>2, ProbeStep
  <2>4. Placing(n + 1, q, k, id, c, vals, tbl)
    BY <2>3 DEF Placing
  <2> QED
    BY <2>4 DEF q
<1> QED
  BY <1>2, <1>3, <1>4

LEMMA SameStep ==
  ASSUME NEW c \in Sizes, NEW vals, NEW k \in Keys, NEW id, NEW tbl \in Tables(c), NEW n \in Nat,
         NEW p, Placing(n, p, k, id, c, vals, tbl),
         Only(k, id, vals), Spare(c, tbl)
  PROVE  IdFromStep(p, k, c, vals) = ReinsertStep(p, c)
<1>1. p \in Probes(c) /\ p.outcome = "run" => Probing(n, p, k, id, c, vals, tbl)
  BY DEF Placing
<1>2. p.outcome = "run" /\ p.tbl[p.i] # Empty => ~ Equal(p.tbl[p.i], p.entry, k, vals)
  BY <1>1, NotFound DEF Placing
<1> QED
  BY <1>2 DEF IdFromStep, ReinsertStep

LEMMA StepsFacts == \A c \in Sizes : Steps(c) \in Nat /\ Steps(c) > MaxPsl
<1> SUFFICES ASSUME NEW c \in Sizes PROVE Steps(c) \in Nat /\ Steps(c) > MaxPsl
  OBVIOUS
<1>1. c + 1 \in Nat \ {0} /\ MaxPsl + 1 \in Nat \ {0} /\ MaxPsl \in Nat
  BY SizeFacts, SizeAssumption
<1>2. \A a, d \in Nat \ {0} : d * a >= d /\ d * a = a * d /\ d * a \in Nat
  BY ProductGrows
<1>3. Steps(c) = (c + 1) * (MaxPsl + 1)
  BY DEF Steps
<1> DEFINE a == c + 1
           d == MaxPsl + 1
<1>4. a \in Nat \ {0} /\ d \in Nat \ {0} /\ Steps(c) = a * d
  BY <1>1, <1>3
<1> HIDE DEF a
<1>5. Steps(c) \in Nat /\ Steps(c) >= d
  <2> HIDE DEF d
  <2> QED
    BY <1>2, <1>4
<1> QED
  BY <1>1, <1>5

\* A value is reinserted, or the table has no room for it within MAX_PSL.
LEMMA ReinsertPlaces ==
  ASSUME NEW c \in Sizes, NEW vals, NEW k \in Keys, NEW id \in Nat, NEW tbl, Ordered(tbl, c, vals),
         id \in DOMAIN vals, vals[id] = k, id \notin Ids(tbl)
  PROVE  Placing(Steps(c), Reinsert(k, id, c, tbl), k, id, c, vals, tbl)
<1> DEFINE N == Steps(c)
           IsRun(f) == f = [n \in 0 .. N |-> IF n = 0 THEN ProbeOf(k, id, c, tbl) ELSE ReinsertStep(f[n - 1], c)]
           run == CHOOSE f : IsRun(f)
           P(n, p) == Placing(n, p, k, id, c, vals, tbl)
           X == {p \in Probes(c) : \E n \in Nat : P(n, p)}
<1>1. N \in Nat
  BY StepsFacts
<1>2. tbl \in Tables(c)
  BY DEF Ordered
<1>3. P(0, ProbeOf(k, id, c, tbl))
  BY ProbeStart
<1>4. \A n \in Nat : \A p : P(n, p) => P(n + 1, ReinsertStep(p, c))
  BY <1>2, PlacingStep
<1>5. \A n, p : P(n, p) => p \in Probes(c)
  BY DEF Placing
<1>6. Reinsert(k, id, c, tbl) = run[N]
  BY DEF Reinsert
<1> HIDE DEF N, P
<1>7. \E f : IsRun(f)
  <2> DEFINE start == ProbeOf(k, id, c, tbl)
             step == [n \in 1 .. N |-> [p \in X |-> ReinsertStep(p, c)]]
  <2>1. start \in X
    <3>1. 0 \in Nat
      OBVIOUS
    <3> QED
      BY <1>3, <1>5, <3>1
  <2>2. ASSUME NEW p \in X PROVE ReinsertStep(p, c) \in X
    <3>1. PICK n \in Nat : P(n, p)
      OBVIOUS
    <3>2. n + 1 \in Nat /\ P(n + 1, ReinsertStep(p, c))
      BY <1>4, <3>1
    <3> QED
      BY <1>5, <3>2
  <2> HIDE DEF X, start
  <2>3. step \in [1 .. N -> [X -> X]]
    BY <2>2
  <2>7. \A n \in 1 .. N, p \in X : step[n][p] = ReinsertStep(p, c)
    OBVIOUS
  <2> HIDE DEF step
  <2>4. PICK g : Iterates(g, X, start, N, step)
    BY <1>1, <2>1, <2>3, IterateExists
  <2>8. g \in [0 .. N -> X] /\ g[0] = start
    BY <2>4 DEF Iterates
  <2>5. \A n \in 1 .. N : g[n] = ReinsertStep(g[n - 1], c)
    BY <1>1, <2>4, <2>7, <2>8 DEF Iterates
  <2>6. IsRun(g)
    BY <1>1, <2>8, <2>5 DEF start
  <2> QED
    BY <2>6
<1>8. IsRun(run)
  BY <1>7
<1> HIDE DEF run
<1> DEFINE S == {n \in 0 .. N : P(n, run[n])}
<1>9. 0 \in S
  BY <1>1, <1>3, <1>8
<1>10. ASSUME NEW n \in 1 .. N, n - 1 \in S PROVE n \in S
  <2>1. run[n] = ReinsertStep(run[n - 1], c)
    BY <1>1, <1>8
  <2>2. n - 1 \in Nat /\ (n - 1) + 1 = n /\ P(n - 1, run[n - 1])
    BY <1>1, <1>10
  <2>3. P((n - 1) + 1, run[n])
    BY <1>4, <2>1, <2>2
  <2> QED
    BY <2>2, <2>3
<1>11. N \in S
  <2>1. S \in SUBSET Nat
    BY <1>1
  <2> HIDE DEF S
  <2>2. 0 .. N \subseteq S
    BY <1>1, <1>9, <1>10, <2>1, Increasing
  <2> QED
    BY <1>1, <2>2
<1> QED
  BY <1>6, <1>11 DEF P, N

\* The same for id_from and a key that it has to add.
LEMMA IdFromPlaces ==
  ASSUME NEW c \in Sizes, NEW vals, NEW k \in Keys, NEW id \in Nat, NEW tbl, Ordered(tbl, c, vals),
         id \notin Ids(tbl), Only(k, id, vals), Spare(c, tbl)
  PROVE  Placing(Steps(c), IdFromProbe(k, id, c, tbl, vals), k, id, c, vals, tbl)
<1> DEFINE N == Steps(c)
           IsRun(f) == f = [n \in 0 .. N |->
                              IF n = 0 THEN ProbeOf(k, id, c, tbl) ELSE IdFromStep(f[n - 1], k, c, vals)]
           run == CHOOSE f : IsRun(f)
           P(n, p) == Placing(n, p, k, id, c, vals, tbl)
           X == {p \in Probes(c) : \E n \in Nat : P(n, p)}
<1>1. N \in Nat
  BY StepsFacts
<1>2. tbl \in Tables(c)
  BY DEF Ordered
<1>3. P(0, ProbeOf(k, id, c, tbl))
  BY ProbeStart DEF Only
<1>4. ASSUME NEW n \in Nat, NEW p, P(n, p)
      PROVE  P(n + 1, IdFromStep(p, k, c, vals))
  <2>1. P(n + 1, ReinsertStep(p, c))
    BY <1>2, <1>4, PlacingStep
  <2>2. IdFromStep(p, k, c, vals) = ReinsertStep(p, c)
    BY <1>2, <1>4, SameStep
  <2> QED
    BY <2>1, <2>2
<1>5. \A n, p : P(n, p) => p \in Probes(c)
  BY DEF Placing
<1>6. IdFromProbe(k, id, c, tbl, vals) = run[N]
  BY DEF IdFromProbe
<1> HIDE DEF N, P
<1>7. \E f : IsRun(f)
  <2> DEFINE start == ProbeOf(k, id, c, tbl)
             step == [n \in 1 .. N |-> [p \in X |-> IdFromStep(p, k, c, vals)]]
  <2>1. start \in X
    <3>1. 0 \in Nat
      OBVIOUS
    <3> QED
      BY <1>3, <1>5, <3>1
  <2>2. ASSUME NEW p \in X PROVE IdFromStep(p, k, c, vals) \in X
    <3>1. PICK n \in Nat : P(n, p)
      OBVIOUS
    <3>2. n + 1 \in Nat /\ P(n + 1, IdFromStep(p, k, c, vals))
      BY <1>4, <3>1
    <3> QED
      BY <1>5, <3>2
  <2> HIDE DEF X, start
  <2>3. step \in [1 .. N -> [X -> X]]
    BY <2>2
  <2>7. \A n \in 1 .. N, p \in X : step[n][p] = IdFromStep(p, k, c, vals)
    OBVIOUS
  <2> HIDE DEF step
  <2>4. PICK g : Iterates(g, X, start, N, step)
    BY <1>1, <2>1, <2>3, IterateExists
  <2>8. g \in [0 .. N -> X] /\ g[0] = start
    BY <2>4 DEF Iterates
  <2>5. \A n \in 1 .. N : g[n] = IdFromStep(g[n - 1], k, c, vals)
    BY <1>1, <2>4, <2>7, <2>8 DEF Iterates
  <2>6. IsRun(g)
    BY <1>1, <2>8, <2>5 DEF start
  <2> QED
    BY <2>6
<1>8. IsRun(run)
  BY <1>7
<1> HIDE DEF run
<1> DEFINE S == {n \in 0 .. N : P(n, run[n])}
<1>9. 0 \in S
  BY <1>1, <1>3, <1>8
<1>10. ASSUME NEW n \in 1 .. N, n - 1 \in S PROVE n \in S
  <2>1. run[n] = IdFromStep(run[n - 1], k, c, vals)
    BY <1>1, <1>8
  <2>2. n - 1 \in Nat /\ (n - 1) + 1 = n /\ P(n - 1, run[n - 1])
    BY <1>1, <1>10
  <2>3. P((n - 1) + 1, run[n])
    BY <1>4, <2>1, <2>2
  <2> QED
    BY <2>2, <2>3
<1>11. N \in S
  <2>1. S \in SUBSET Nat
    BY <1>1
  <2> HIDE DEF S
  <2>2. 0 .. N \subseteq S
    BY <1>1, <1>9, <1>10, <2>1, Increasing
  <2> QED
    BY <1>1, <2>2
<1> QED
  BY <1>6, <1>11 DEF P, N

-----------------------------------------------------------------------------
(* Rehashing. *)

Present(vals) == {i \in DOMAIN vals : vals[i] # NoKey}

\* A table serves every allocator that agrees with it.
LEMMA OrderedTransfer ==
  ASSUME NEW c \in Sizes, NEW v, NEW w, NEW tbl, Ordered(tbl, c, v),
         \A i \in Ids(tbl) : i \in DOMAIN w /\ w[i] = v[i]
  PROVE  Ordered(tbl, c, w)
<1>1. DOMAIN tbl = Slots(c)
  BY DEF Ordered, Tables
<1>2. \A s \in Slots(c) : tbl[s] # Empty => tbl[s].id \in Ids(tbl)
  BY <1>1 DEF Ids
<1>3. \A s \in Slots(c) : tbl[s] # Empty => Owns(tbl[s], s, c, v)
  BY DEF Ordered
<1>4. \A s \in Slots(c) : tbl[s] # Empty => Owns(tbl[s], s, c, w)
  BY <1>2, <1>3 DEF Owns
<1> QED
  BY <1>4 DEF Ordered

LEMMA EmptyTable ==
  ASSUME NEW c \in Sizes, NEW vals, NEW tbl, tbl = [s \in Slots(c) |-> Empty]
  PROVE  Good(tbl, c, vals) /\ Ids(tbl) = {}
<1>1. tbl \in Tables(c) /\ DOMAIN tbl = Slots(c) /\ \A s \in Slots(c) : tbl[s] = Empty
  BY EmptyEntry DEF Tables
<1>2. \A s \in Slots(c) : After(s, c) \in Slots(c)
  BY AfterFacts
<1>3. 0 \in Slots(c)
  BY SizeFacts DEF Slots
<1>4. Ids(tbl) = {}
  BY <1>1 DEF Ids
<1>5. \A s \in Slots(c) : tbl[After(s, c)].psl <= Reach(tbl[s])
  BY <1>1, <1>2, EmptyEntry DEF Reach
<1>6. Ordered(tbl, c, vals)
  BY <1>1, <1>5 DEF Ordered
<1>7. tbl[0].psl = 0
  BY <1>1, <1>3, EmptyEntry
<1> QED
  BY <1>3, <1>4, <1>6, <1>7 DEF Good

LEMMA PowerFacts ==
  /\ PowerOfTwo[0] = 1
  /\ \A j \in 1 .. Capacity : PowerOfTwo[j] = 2 * PowerOfTwo[j - 1]
  /\ \A j \in 0 .. Capacity : PowerOfTwo[j] \in Nat /\ PowerOfTwo[j] >= j + 1
<1> DEFINE N == Capacity
           IsPower(f) == f = [j \in 0 .. N |-> IF j = 0 THEN 1 ELSE 2 * f[j - 1]]
<1>1. N \in Nat
  BY SizeAssumption
<1>2. PowerOfTwo = CHOOSE f : IsPower(f)
  BY DEF PowerOfTwo
<1> HIDE DEF N
<1>3. \E f : IsPower(f)
  BY <1>1, PowersExist
<1>4. IsPower(PowerOfTwo)
  BY <1>2, <1>3
<1>5. PowerOfTwo[0] = 1 /\ \A j \in 1 .. N : PowerOfTwo[j] = 2 * PowerOfTwo[j - 1]
  BY <1>1, <1>4
<1> DEFINE S == {j \in 0 .. N : PowerOfTwo[j] \in Nat /\ PowerOfTwo[j] >= j + 1}
<1>6. 0 .. N \subseteq S
  <2>1. 0 \in S
    BY <1>1, <1>5
  <2>2. ASSUME NEW j \in 1 .. N, j - 1 \in S PROVE j \in S
    BY <1>1, <1>5, <2>2
  <2>3. S \in SUBSET Nat
    BY <1>1
  <2> HIDE DEF S
  <2> QED
    BY <1>1, <2>1, <2>2, <2>3, Increasing
<1> QED
  BY <1>5, <1>6 DEF N

\* Doubling a table's size gives another legal size, up to the reservation.
LEMMA DoubledSize ==
  ASSUME NEW c \in Sizes, 2 * c <= Capacity
  PROVE  2 * c \in Sizes
<1>1. PICK j \in 0 .. Capacity : c = FirstCommit * PowerOfTwo[j]
  BY DEF Sizes
<1>2. FirstCommit \in Nat /\ FirstCommit >= 2 /\ Capacity \in Nat /\ c \in Nat /\ c >= FirstCommit
  BY SizeAssumption DEF Sizes
<1> DEFINE x == PowerOfTwo[j]
<1>3. x \in Nat /\ x >= j + 1
  BY PowerFacts
<1>4. c >= x
  <2> HIDE DEF x
  <2>1. \A a, b \in Nat \ {0} : a * b >= a
    BY ProductGrows
  <2>2. x \in Nat \ {0} /\ FirstCommit \in Nat \ {0}
    BY <1>2, <1>3
  <2>3. x * FirstCommit >= x
    BY <2>1, <2>2
  <2>4. FirstCommit * x = x * FirstCommit
    BY <1>2, <1>3
  <2> QED
    BY <1>1, <2>3, <2>4 DEF x
<1>5. j + 1 \in 1 .. Capacity
  BY <1>2, <1>3, <1>4
<1>6. PowerOfTwo[j + 1] = 2 * x
  <2>1. (j + 1) - 1 = j
    BY <1>2
  <2> QED
    BY <1>5, <2>1, PowerFacts
<1>7. 2 * c = FirstCommit * PowerOfTwo[j + 1]
  <2> HIDE DEF x
  <2>1. 2 * (FirstCommit * x) = FirstCommit * (2 * x)
    BY <1>2, <1>3
  <2> QED
    BY <1>1, <1>6, <2>1 DEF x
<1>8. 2 * c \in FirstCommit .. Capacity
  BY <1>2
<1>9. j + 1 \in 0 .. Capacity
  BY <1>5
<1> QED
  BY <1>7, <1>8, <1>9 DEF Sizes

\* What rehash has made of the first n values.
Rehashed(n, r, c, vals) ==
  /\ r \in [ok : BOOLEAN, tbl : Tables(c)]
  /\ r.ok => /\ c \in Sizes /\ Good(r.tbl, c, vals)
             /\ Ids(r.tbl) = {j \in 1 .. n : vals[j] # NoKey}

LEMMA ReaddKept ==
  ASSUME NEW c \in Nat \ {0}, NEW vals \in Seq(Keys \cup {NoKey}), NEW n \in 1 .. Len(vals),
         NEW r, Rehashed(n - 1, r, c, vals)
  PROVE  Rehashed(n, Readd(r, n, c, vals), c, vals)
<1>1. n \in DOMAIN vals /\ n \in Nat /\ vals[n] \in Keys \cup {NoKey}
  OBVIOUS
<1> DEFINE k == vals[n]
           q == Readd(r, n, c, vals)
<1>2. CASE ~ r.ok
  <2>1. q = r
    BY <1>2 DEF Readd
  <2> QED
    BY <1>2, <2>1 DEF Rehashed
<1>3. CASE r.ok /\ k = NoKey
  <2>1. q = r
    BY <1>3 DEF Readd
  <2>2. {j \in 1 .. n : vals[j] # NoKey} = {j \in 1 .. n - 1 : vals[j] # NoKey}
    BY <1>1, <1>3
  <2> QED
    BY <2>1, <2>2 DEF Rehashed
<1>4. CASE r.ok /\ k # NoKey
  <2> DEFINE p == Reinsert(k, n, c, r.tbl)
             ok == p.outcome = "inserted"
  <2>1. q = [ok |-> ok, tbl |-> p.tbl]
    BY <1>4 DEF Readd
  <2>2. c \in Sizes /\ Ordered(r.tbl, c, vals) /\ Ids(r.tbl) = {j \in 1 .. n - 1 : vals[j] # NoKey}
    BY <1>4 DEF Rehashed, Good
  <2>3. k \in Keys /\ n \notin Ids(r.tbl)
    BY <1>1, <1>4, <2>2
  <2> HIDE DEF k, q
  <2>4. Placing(Steps(c), p, k, n, c, vals, r.tbl)
    BY <1>1, <2>2, <2>3, ReinsertPlaces DEF k
  <2> HIDE DEF p
  <2>5. p \in Probes(c) /\ p.tbl \in Tables(c)
    BY <2>4 DEF Placing, Probes
  <2>6. ok => Good(p.tbl, c, vals) /\ Ids(p.tbl) = Ids(r.tbl) \cup {n}
    BY <2>4 DEF Placing, Added
  <2>7. Ids(r.tbl) \cup {n} = {j \in 1 .. n : vals[j] # NoKey}
    BY <1>1, <1>4, <2>2 DEF k
  <2> HIDE DEF ok
  <2>8. ok \in BOOLEAN
    BY DEF ok
  <2>9. q.ok = ok /\ q.tbl = p.tbl /\ q \in [ok : BOOLEAN, tbl : Tables(c)]
    BY <2>1, <2>5, <2>8
  <2>10. Rehashed(n, q, c, vals)
    BY <2>2, <2>6, <2>7, <2>9 DEF Rehashed
  <2> QED
    BY <2>10 DEF q
<1> QED
  BY <1>2, <1>3, <1>4

\* rehash either fails or makes a table of exactly the live values.
LEMMA RehashGood ==
  ASSUME NEW c \in Nat \ {0}, c <= Capacity => c \in Sizes, NEW vals \in Seq(Keys \cup {NoKey})
  PROVE  /\ Rehash(c, vals).ok \in BOOLEAN
         /\ Rehash(c, vals).ok =>
              /\ c \in Sizes /\ Good(Rehash(c, vals).tbl, c, vals)
              /\ Ids(Rehash(c, vals).tbl) = Present(vals)
<1> DEFINE N == Len(vals)
           start == [ok |-> c <= Capacity, tbl |-> [s \in Slots(c) |-> Empty]]
           IsRun(f) == f = [n \in 0 .. N |-> IF n = 0 THEN start ELSE Readd(f[n - 1], n, c, vals)]
           run == CHOOSE f : IsRun(f)
           X == [ok : BOOLEAN, tbl : Tables(c)]
           P(n, r) == Rehashed(n, r, c, vals)
<1>1. N \in Nat /\ DOMAIN vals = 1 .. N
  OBVIOUS
<1>2. Rehash(c, vals) = run[N]
  BY DEF Rehash
<1>3. P(0, start)
  <2>1. start \in X /\ start.ok = (c <= Capacity) /\ start.tbl = [s \in Slots(c) |-> Empty]
    <3>1. (c <= Capacity) \in BOOLEAN
      OBVIOUS
    <3>2. [s \in Slots(c) |-> Empty] \in Tables(c)
      BY EmptyEntry DEF Tables
    <3> QED
      BY <3>1, <3>2
  <2> HIDE DEF start
  <2>2. start.ok => c \in Sizes /\ Good(start.tbl, c, vals) /\ Ids(start.tbl) = {}
    BY <2>1, EmptyTable
  <2>3. {j \in 1 .. 0 : vals[j] # NoKey} = {}
    OBVIOUS
  <2> QED
    BY <2>1, <2>2, <2>3 DEF Rehashed
<1>4. \A n \in 1 .. N : \A r : P(n - 1, r) => P(n, Readd(r, n, c, vals))
  BY ReaddKept
<1>5. \A n, r : P(n, r) => r \in X
  BY DEF Rehashed
<1> HIDE DEF N, P, start, X
<1>6. \E f : IsRun(f)
  <2> DEFINE next(r, n) == IF Readd(r, n, c, vals) \in X THEN Readd(r, n, c, vals) ELSE start
             step == [n \in 1 .. N |-> [r \in X |-> next(r, n)]]
  <2>1. start \in X
    BY <1>3, <1>5
  <2>2. \A n \in 1 .. N, r \in X : next(r, n) \in X
    BY <2>1
  <2>3. \A n \in 1 .. N : \A r : P(n - 1, r) => next(r, n) = Readd(r, n, c, vals)
    BY <1>4, <1>5
  <2> HIDE DEF next
  <2>4. step \in [1 .. N -> [X -> X]]
    BY <2>2
  <2>5. \A n \in 1 .. N, r \in X : step[n][r] = next(r, n)
    OBVIOUS
  <2> HIDE DEF step
  <2>6. PICK g : Iterates(g, X, start, N, step)
    BY <1>1, <2>1, <2>4, IterateExists
  <2>7. g \in [0 .. N -> X] /\ g[0] = start /\ \A n \in 1 .. N : g[n] = step[n][g[n - 1]]
    BY <2>6 DEF Iterates
  <2> DEFINE S == {n \in 0 .. N : P(n, g[n])}
  <2>8. 0 .. N \subseteq S
    <3>1. 0 \in S
      BY <1>1, <1>3, <2>7
    <3>2. ASSUME NEW n \in 1 .. N, n - 1 \in S PROVE n \in S
      <4>1. P(n - 1, g[n - 1]) /\ g[n - 1] \in X
        BY <1>5, <3>2
      <4>2. g[n] = Readd(g[n - 1], n, c, vals)
        BY <2>3, <2>5, <2>7, <4>1
      <4>3. P(n, g[n])
        BY <1>4, <4>1, <4>2
      <4> QED
        BY <1>1, <4>3
    <3>3. S \in SUBSET Nat
      BY <1>1
    <3> HIDE DEF S
    <3> QED
      BY <1>1, <3>1, <3>2, <3>3, Increasing
  <2>9. \A n \in 1 .. N : g[n] = Readd(g[n - 1], n, c, vals)
    <3> SUFFICES ASSUME NEW n \in 1 .. N PROVE g[n] = Readd(g[n - 1], n, c, vals)
      OBVIOUS
    <3>1. n - 1 \in 0 .. N
      BY <1>1
    <3>2. P(n - 1, g[n - 1])
      BY <2>8, <3>1
    <3> QED
      BY <1>5, <2>3, <2>5, <2>7, <3>2
  <2>10. IsRun(g)
    BY <1>1, <2>7, <2>9
  <2> QED
    BY <2>10
<1>7. IsRun(run)
  BY <1>6
<1> HIDE DEF run
<1> DEFINE S == {n \in 0 .. N : P(n, run[n])}
<1>8. 0 .. N \subseteq S
  <2>1. 0 \in S
    BY <1>1, <1>3, <1>7
  <2>2. ASSUME NEW n \in 1 .. N, n - 1 \in S PROVE n \in S
    <3>1. run[n] = Readd(run[n - 1], n, c, vals)
      BY <1>1, <1>7
    <3>2. P(n, run[n])
      BY <1>4, <2>2, <3>1
    <3> QED
      BY <1>1, <3>2
  <2>3. S \in SUBSET Nat
    BY <1>1
  <2> HIDE DEF S
  <2> QED
    BY <1>1, <2>1, <2>2, <2>3, Increasing
<1>9. Rehashed(N, run[N], c, vals)
  BY <1>1, <1>8 DEF P
<1>10. {j \in 1 .. N : vals[j] # NoKey} = Present(vals)
  BY <1>1 DEF Present
<1> QED
  BY <1>2, <1>9, <1>10 DEF Rehashed

-----------------------------------------------------------------------------
(* Searching: id_from for a key of the table, find_by_key, find_by_value.  *)

At(k, n, c) == (Home(k, c) + n) % c

\* The key k has the entry at slot s and no other.
Holds(s, k, c, vals, tbl) ==
  /\ s \in Slots(c) /\ tbl[s] # Empty /\ vals[tbl[s].id] = k
  /\ \A t \in Slots(c) : tbl[t] # Empty /\ vals[tbl[t].id] = k => t = s

LEMMA AtFacts ==
  ASSUME NEW c \in Sizes, NEW k \in Keys, NEW n \in Nat
  PROVE  At(k, n, c) \in Slots(c) /\ At(k, n + 1, c) = After(At(k, n, c), c)
<1> DEFINE h == Home(k, c)
<1>1. c \in Nat \ {0} /\ h \in Nat
  BY SizeFacts, HashFacts DEF Slots
<1> HIDE DEF h
<1>2. (((h + n) % c) + 1) % c = (h + (n + 1)) % c
  <2> DEFINE a == h + n
  <2>1. a \in Nat /\ a + 1 = h + (n + 1)
    BY <1>1
  <2> HIDE DEF a
  <2>2. ((a % c) + 1) % c = (a + 1) % c
    BY <1>1, <2>1, RingAdd
  <2> QED
    BY <2>1, <2>2 DEF a
<1>3. (h + n) % c \in 0 .. c - 1
  BY <1>1, DivMod
<1> QED
  BY <1>2, <1>3 DEF At, After, Slots, h

\* Between an entry and its home no slot is empty and no entry is closer to
\* its home than the search has come: no search gives up before the entry.
LEMMA SearchReaches ==
  ASSUME NEW c \in Sizes, NEW vals, NEW tbl, Ordered(tbl, c, vals), NEW s \in Slots(c), tbl[s] # Empty,
         NEW k, k = vals[tbl[s].id]
  PROVE  /\ k \in Keys /\ tbl[s].psl \in 0 .. MaxPsl /\ At(k, tbl[s].psl, c) = s
         /\ \A n \in 0 .. tbl[s].psl :
              /\ At(k, n, c) \in Slots(c)
              /\ tbl[At(k, n, c)] # Empty /\ n <= tbl[At(k, n, c)].psl
<1> DEFINE d == tbl[s].psl
           P(n) == tbl[At(k, n, c)] # Empty /\ n <= tbl[At(k, n, c)].psl
<1>1. tbl \in Tables(c) /\ \A t \in Slots(c) : tbl[t] \in Entry /\ tbl[t].psl \in Nat
  BY DEF Ordered, Tables, Entry
<1>2. k \in Keys /\ d \in 0 .. MaxPsl /\ d \in Nat /\ At(k, d, c) = s
  <2>1. Owns(tbl[s], s, c, vals)
    BY DEF Ordered
  <2> QED
    BY <1>1, <2>1, SizeAssumption DEF Owns, At, Entry
<1>3. \A n \in Nat : At(k, n, c) \in Slots(c) /\ At(k, n + 1, c) = After(At(k, n, c), c)
  BY <1>2, AtFacts
<1>4. P(d)
  BY <1>2
<1>5. ASSUME NEW n \in Nat, P(n + 1) PROVE P(n)
  <2>1. tbl[After(At(k, n, c), c)].psl <= Reach(tbl[At(k, n, c)])
    BY <1>3 DEF Ordered
  <2>2. n + 1 <= tbl[At(k, n + 1, c)].psl /\ tbl[At(k, n + 1, c)].psl \in Nat
    BY <1>1, <1>3, <1>5
  <2>3. At(k, n, c) \in Slots(c) /\ tbl[At(k, n, c)].psl \in Nat
    BY <1>1, <1>3
  <2>4. CASE tbl[At(k, n, c)] = Empty
    <3>1. Reach(tbl[At(k, n, c)]) = 0
      BY <2>4 DEF Reach
    <3> QED
      BY <1>3, <2>1, <2>2, <3>1
  <2>5. CASE tbl[At(k, n, c)] # Empty
    <3>1. Reach(tbl[At(k, n, c)]) = tbl[At(k, n, c)].psl + 1
      BY <2>5 DEF Reach
    <3> QED
      BY <1>3, <2>1, <2>2, <2>3, <2>5, <3>1
  <2> QED
    BY <2>4, <2>5
<1> HIDE DEF d, P
<1> DEFINE S == {m \in 0 .. d : P(d - m)}
<1>6. 0 .. d \subseteq S
  <2>1. 0 \in S
    BY <1>2, <1>4
  <2>2. ASSUME NEW m \in 1 .. d, m - 1 \in S PROVE m \in S
    <3>1. d - m \in Nat /\ d - (m - 1) = (d - m) + 1
      BY <1>2
    <3>2. P((d - m) + 1)
      BY <2>2, <3>1
    <3> QED
      BY <1>5, <3>1, <3>2
  <2>3. S \in SUBSET Nat
    BY <1>2
  <2> HIDE DEF S
  <2> QED
    BY <1>2, <2>1, <2>2, <2>3, Increasing
<1>7. ASSUME NEW n \in 0 .. d PROVE P(n)
  <2>1. d - n \in 0 .. d /\ d - (d - n) = n
    BY <1>2
  <2> QED
    BY <1>6, <2>1
<1> QED
  BY <1>2, <1>3, <1>7 DEF d, P

\* A probe for a key of the table after n steps: nothing has been displaced.
Seeking(n, p, k, id, c, tbl, s) ==
  /\ p \in Probes(c) /\ p.tbl = tbl /\ p.placed = FALSE
  /\ \/ /\ p.outcome = "run" /\ n <= tbl[s].psl /\ p.i = At(k, n, c)
        /\ p.entry.fp = Fingerprint(Hash[k]) /\ p.entry.psl = n /\ p.entry.id = id
     \/ p.outcome = "found" /\ p.entry = tbl[s]

LEMMA SeekStep ==
  ASSUME NEW c \in Sizes, NEW vals, NEW tbl, Ordered(tbl, c, vals), NEW k, NEW s,
         Holds(s, k, c, vals, tbl), NEW id \in Nat, NEW n \in Nat, NEW p,
         Seeking(n, p, k, id, c, tbl, s)
  PROVE  Seeking(n + 1, IdFromStep(p, k, c, vals), k, id, c, tbl, s)
<1> DEFINE q == IdFromStep(p, k, c, vals)
           e == p.tbl[p.i]
           d == tbl[s].psl
<1>1. p \in Probes(c) /\ p.tbl = tbl /\ p.placed = FALSE
  BY DEF Seeking
<1>2. CASE p.outcome # "run"
  <2>1. q = p
    BY <1>2 DEF IdFromStep
  <2> QED
    BY <1>2, <2>1 DEF Seeking
<1>3. CASE p.outcome = "run"
  <2>1. /\ n <= d /\ p.i = At(k, n, c)
        /\ p.entry.fp = Fingerprint(Hash[k]) /\ p.entry.psl = n /\ p.entry.id = id
    BY <1>3 DEF Seeking
  <2>2. s \in Slots(c) /\ tbl[s] # Empty /\ k = vals[tbl[s].id]
    BY DEF Holds
  <2>3. /\ k \in Keys /\ d \in 0 .. MaxPsl /\ At(k, d, c) = s
        /\ \A m \in 0 .. d : /\ At(k, m, c) \in Slots(c)
                             /\ tbl[At(k, m, c)] # Empty /\ m <= tbl[At(k, m, c)].psl
    BY <2>2, SearchReaches
  <2>4. MaxPsl \in Nat /\ n \in 0 .. d
    BY <2>1, <2>3, SizeAssumption
  <2>5. p.i \in Slots(c) /\ e = tbl[p.i] /\ e # Empty /\ n <= e.psl
    BY <1>1, <2>1, <2>3, <2>4
  <2>6. e \in Entry /\ e.psl \in Nat /\ p.entry \in Entry
    BY <1>1, <2>5 DEF Ordered, Tables, Entry, Probes
  <2>7. CASE Equal(e, p.entry, k, vals)
    <3>1. q = [p EXCEPT !.outcome = "found", !.entry = e]
      BY <1>3, <2>5, <2>7 DEF IdFromStep
    <3>2. p.i = s
      BY <2>5, <2>7 DEF Equal, Holds
    <3> HIDE DEF q, e
    <3>3. q \in Probes(c) /\ q.tbl = tbl /\ q.placed = FALSE /\ q.outcome = "found" /\ q.entry = e
      BY <1>1, <2>6, <3>1 DEF Probes, Outcomes
    <3>4. Seeking(n + 1, q, k, id, c, tbl, s)
      BY <2>5, <3>2, <3>3 DEF Seeking
    <3> QED
      BY <3>4 DEF q
  <2>8. CASE ~ Equal(e, p.entry, k, vals)
    <3>1. n # d
      <4> SUFFICES ASSUME n = d PROVE FALSE
        OBVIOUS
      <4>1. e = tbl[s] /\ Owns(tbl[s], s, c, vals)
        BY <2>1, <2>2, <2>3, <2>5 DEF Ordered
      <4> QED
        BY <2>1, <2>2, <2>8, <4>1 DEF Equal, Owns
    <3>2. Swap(p) = p
      BY <2>1, <2>5, <2>6 DEF Swap, GivesWay
    <3>3. q = Advance(p, c)
      BY <1>3, <2>5, <2>8, <3>2 DEF IdFromStep
    <3>4. p.entry.psl # MaxPsl /\ n + 1 <= d /\ n + 1 \in 0 .. MaxPsl
      BY <2>1, <2>3, <2>4, <3>1
    <3>5. q = [p EXCEPT !.entry.psl = n + 1, !.i = (p.i + 1) % c]
      BY <2>1, <3>3, <3>4 DEF Advance
    <3>6. (p.i + 1) % c = At(k, n + 1, c) /\ At(k, n + 1, c) \in Slots(c)
      BY <2>1, <2>3, AtFacts DEF After
    <3> DEFINE f == [p.entry EXCEPT !.psl = n + 1]
               j == At(k, n + 1, c)
    <3>7. f \in Entry /\ f.psl = n + 1 /\ f.id = id /\ f.fp = Fingerprint(Hash[k])
      BY <2>1, <2>6, <3>4 DEF Entry
    <3>8. q = [p EXCEPT !.entry = f, !.i = j]
      BY <1>1, <3>5, <3>6 DEF Probes
    <3> HIDE DEF q, f, j
    <3>9. q \in Probes(c) /\ q.tbl = tbl /\ q.placed = FALSE /\ q.outcome = "run" /\ q.entry = f /\ q.i = j
      BY <1>1, <1>3, <3>6, <3>7, <3>8 DEF Probes, j
    <3>10. Seeking(n + 1, q, k, id, c, tbl, s)
      BY <3>4, <3>7, <3>9 DEF Seeking, j
    <3> QED
      BY <3>10 DEF q
  <2> QED
    BY <2>7, <2>8
<1> QED
  BY <1>2, <1>3

Found(p, tbl, e) == p.outcome = "found" /\ p.tbl = tbl /\ p.placed = FALSE /\ p.entry = e

\* id_from finds a key of the table at its entry and leaves the table alone.
LEMMA IdFromFinds ==
  ASSUME NEW c \in Sizes, NEW vals, NEW tbl, Ordered(tbl, c, vals), NEW k, NEW s,
         Holds(s, k, c, vals, tbl), NEW id \in Nat
  PROVE  Found(IdFromProbe(k, id, c, tbl, vals), tbl, tbl[s])
<1> DEFINE N == Steps(c)
           start == ProbeOf(k, id, c, tbl)
           IsRun(f) == f = [n \in 0 .. N |-> IF n = 0 THEN start ELSE IdFromStep(f[n - 1], k, c, vals)]
           run == CHOOSE f : IsRun(f)
           P(n, z) == Seeking(n, z, k, id, c, tbl, s)
           X == {z \in Probes(c) : \E n \in Nat : P(n, z)}
<1>1. N \in Nat /\ N > MaxPsl
  BY StepsFacts
<1>2. tbl \in Tables(c) /\ s \in Slots(c) /\ tbl[s] # Empty /\ k = vals[tbl[s].id]
  BY DEF Ordered, Holds
<1>3. k \in Keys /\ tbl[s].psl \in 0 .. MaxPsl /\ MaxPsl \in Nat
  BY <1>2, SearchReaches, SizeAssumption
<1>4. P(0, start)
  <2> DEFINE h == Home(k, c)
  <2>1. start.i = h /\ start.entry = Lookup(k, id) /\ start.tbl = tbl /\ start.placed = FALSE /\ start.outcome = "run"
    BY DEF ProbeOf
  <2>2. c \in Nat \ {0} /\ h \in Slots(c) /\ h \in Nat /\ Fingerprint(Hash[k]) \in Nat
    BY <1>3, SizeFacts, HashFacts DEF Slots
  <2>3. Lookup(k, id) \in Entry
    BY <1>3, <2>2 DEF Lookup, Entry
  <2>4. start \in Probes(c)
    BY <1>2, <2>2, <2>3 DEF ProbeOf, Probes, Outcomes
  <2>5. h = At(k, 0, c)
    <3>1. (h + 0) % c = h
      <4> HIDE DEF h
      <4>1. h + 0 = h /\ h \in 0 .. (2 * c) - 1 /\ h < c
        BY <2>2 DEF Slots
      <4> QED
        BY <2>2, <4>1, RingBelow
    <3> QED
      BY <3>1 DEF At
  <2> HIDE DEF start, h
  <2> QED
    BY <1>3, <2>1, <2>4, <2>5 DEF Seeking, Lookup
<1>5. \A n \in Nat : \A z : P(n, z) => P(n + 1, IdFromStep(z, k, c, vals))
  BY SeekStep
<1>6. \A n, z : P(n, z) => z \in Probes(c)
  BY DEF Seeking
<1>7. IdFromProbe(k, id, c, tbl, vals) = run[N]
  BY DEF IdFromProbe
<1> HIDE DEF N, P, start
<1>8. \E f : IsRun(f)
  <2> DEFINE step == [n \in 1 .. N |-> [z \in X |-> IdFromStep(z, k, c, vals)]]
  <2>1. start \in X
    <3>1. 0 \in Nat
      OBVIOUS
    <3> QED
      BY <1>4, <1>6, <3>1
  <2>2. ASSUME NEW z \in X PROVE IdFromStep(z, k, c, vals) \in X
    <3>1. PICK n \in Nat : P(n, z)
      OBVIOUS
    <3>2. n + 1 \in Nat /\ P(n + 1, IdFromStep(z, k, c, vals))
      BY <1>5, <3>1
    <3> QED
      BY <1>6, <3>2
  <2> HIDE DEF X
  <2>3. step \in [1 .. N -> [X -> X]]
    BY <2>2
  <2>4. \A n \in 1 .. N, z \in X : step[n][z] = IdFromStep(z, k, c, vals)
    OBVIOUS
  <2> HIDE DEF step
  <2>5. PICK g : Iterates(g, X, start, N, step)
    BY <1>1, <2>1, <2>3, IterateExists
  <2>6. g \in [0 .. N -> X] /\ g[0] = start
    BY <2>5 DEF Iterates
  <2>7. \A n \in 1 .. N : g[n] = IdFromStep(g[n - 1], k, c, vals)
    BY <1>1, <2>4, <2>5, <2>6 DEF Iterates
  <2>8. IsRun(g)
    BY <1>1, <2>6, <2>7
  <2> QED
    BY <2>8
<1>9. IsRun(run)
  BY <1>8
<1> HIDE DEF run
<1> DEFINE S == {n \in 0 .. N : P(n, run[n])}
<1>10. 0 .. N \subseteq S
  <2>1. 0 \in S
    BY <1>1, <1>4, <1>9
  <2>2. ASSUME NEW n \in 1 .. N, n - 1 \in S PROVE n \in S
    <3>1. run[n] = IdFromStep(run[n - 1], k, c, vals)
      BY <1>1, <1>9
    <3>2. n - 1 \in Nat /\ (n - 1) + 1 = n /\ P(n - 1, run[n - 1])
      BY <1>1, <2>2
    <3>3. P((n - 1) + 1, run[n])
      BY <1>5, <3>1, <3>2
    <3> QED
      BY <3>2, <3>3
  <2>3. S \in SUBSET Nat
    BY <1>1
  <2> HIDE DEF S
  <2> QED
    BY <1>1, <2>1, <2>2, <2>3, Increasing
<1>11. Seeking(N, run[N], k, id, c, tbl, s)
  BY <1>1, <1>10 DEF P
<1>12. ~ (N <= tbl[s].psl)
  BY <1>1, <1>3
<1>13. run[N].outcome = "found" /\ run[N].tbl = tbl /\ run[N].placed = FALSE /\ run[N].entry = tbl[s]
  BY <1>11, <1>12 DEF Seeking
<1> QED
  BY <1>7, <1>13 DEF Found

-----------------------------------------------------------------------------
(* The allocator. *)

\* The allocator's entries and its free ids agree, and no key has two ids.
Allocated ==
  /\ values \in Seq(Keys \cup {NoKey}) /\ Injective(values)
  /\ freed \in Seq(DOMAIN values) /\ IsInjective(freed) /\ Range(freed) = DOMAIN values \ Live

LEMMA NewFacts ==
  ASSUME Allocated, NEW k \in Keys
  PROVE  /\ NewId \in Nat /\ NewId \notin Live
         /\ NewValues(k) \in Seq(Keys \cup {NoKey})
         /\ NewId \in DOMAIN NewValues(k) /\ NewValues(k)[NewId] = k
         /\ \A i \in DOMAIN values : i # NewId => NewValues(k)[i] = values[i]
         /\ DOMAIN NewValues(k) = DOMAIN values \cup {NewId}
<1>1. values \in Seq(Keys \cup {NoKey}) /\ Len(values) \in Nat /\ DOMAIN values = 1 .. Len(values)
  BY DEF Allocated
<1>2. CASE freed = << >>
  <2>1. NewId = Len(values) + 1 /\ NewValues(k) = Append(values, k)
    BY <1>2 DEF NewId, NewValues
  <2>2. NewId \notin Live
    BY <1>1, <2>1 DEF Live
  <2>3. DOMAIN Append(values, k) = 1 .. Len(values) + 1
    BY <1>1
  <2> QED
    BY <1>1, <2>1, <2>2, <2>3
<1>3. CASE freed # << >>
  <2>1. freed \in Seq(DOMAIN values) /\ Range(freed) = DOMAIN values \ Live
    BY DEF Allocated
  <2>2. 1 \in DOMAIN freed /\ Head(freed) = freed[1]
    BY <1>3, <2>1
  <2>3. NewId \in DOMAIN values /\ NewId \notin Live
    BY <1>3, <2>1, <2>2 DEF NewId, Range
  <2>4. NewValues(k) = [values EXCEPT ![NewId] = k]
    BY <1>3 DEF NewValues
  <2> QED
    BY <1>1, <2>3, <2>4
<1> QED
  BY <1>2, <1>3

\* What a new key gets is present next to all that was present.
LEMMA NewPresent ==
  ASSUME Allocated, NEW k \in Keys
  PROVE  /\ Present(NewValues(k)) = Live \cup {NewId}
         /\ NewValues(k) # values
         /\ \A i \in Live : i \in DOMAIN NewValues(k) /\ NewValues(k)[i] = values[i]
         /\ (\A i \in Live : values[i] # k) => Only(k, NewId, NewValues(k)) /\ Injective(NewValues(k))
<1>1. /\ NewId \notin Live /\ NewId \in DOMAIN NewValues(k) /\ NewValues(k)[NewId] = k
      /\ \A i \in DOMAIN values : i # NewId => NewValues(k)[i] = values[i]
      /\ DOMAIN NewValues(k) = DOMAIN values \cup {NewId}
  BY NewFacts
<1>2. k # NoKey
  BY HashAssumption
<1>3. Present(NewValues(k)) = Live \cup {NewId}
  BY <1>1, <1>2 DEF Present, Live
<1>4. NewValues(k) # values
  BY <1>1, <1>2 DEF Live
<1>5. \A i \in Live : i \in DOMAIN NewValues(k) /\ NewValues(k)[i] = values[i]
  BY <1>1 DEF Live
<1>6. ASSUME \A i \in Live : values[i] # k
      PROVE  Only(k, NewId, NewValues(k)) /\ Injective(NewValues(k))
  <2>1. \A i \in DOMAIN values : values[i] # k
    BY <1>2, <1>6 DEF Live
  <2>2. \A i \in DOMAIN NewValues(k) : NewValues(k)[i] = k => i = NewId
    BY <1>1, <2>1
  <2>3. Only(k, NewId, NewValues(k))
    BY <1>1, <2>2 DEF Only
  <2>4. Injective(values)
    BY DEF Allocated
  <2>5. Injective(NewValues(k))
    BY <1>1, <2>2, <2>4 DEF Injective
  <2> QED
    BY <2>3, <2>5
<1> QED
  BY <1>3, <1>4, <1>5, <1>6

\* Handing out the id keeps the free ids apart from the live ones.
LEMMA NewAllocated ==
  ASSUME Allocated, NEW k \in Keys
  PROVE  /\ NewFreed \in Seq(DOMAIN NewValues(k)) /\ IsInjective(NewFreed)
         /\ Range(NewFreed) = DOMAIN NewValues(k) \ Present(NewValues(k))
<1>1. freed \in Seq(DOMAIN values) /\ IsInjective(freed) /\ Range(freed) = DOMAIN values \ Live
  BY DEF Allocated
<1>2. /\ DOMAIN NewValues(k) = DOMAIN values \cup {NewId} /\ NewId \notin Live
      /\ Present(NewValues(k)) = Live \cup {NewId}
  BY NewFacts, NewPresent
<1>3. CASE freed = << >>
  <2>1. NewFreed = << >>
    BY <1>3 DEF NewFreed
  <2>2. Range(freed) = {}
    BY <1>3 DEF Range
  <2> QED
    BY <1>1, <1>2, <1>3, <2>1, <2>2
<1>4. CASE freed # << >>
  <2>1. NewFreed = Tail(freed) /\ NewId = Head(freed)
    BY <1>4 DEF NewFreed, NewId
  <2>2. /\ Len(freed) \in Nat \ {0} /\ DOMAIN freed = 1 .. Len(freed) /\ Head(freed) = freed[1]
        /\ Tail(freed) \in Seq(DOMAIN values) /\ Len(Tail(freed)) = Len(freed) - 1
        /\ DOMAIN Tail(freed) = 1 .. Len(freed) - 1
        /\ \A n \in 1 .. Len(freed) - 1 : Tail(freed)[n] = freed[n + 1]
    BY <1>1, <1>4
  <2> DEFINE t == Tail(freed)
             m == Len(freed)
  <2>3. t \in Seq(DOMAIN NewValues(k))
    BY <1>2, <2>2
  <2> HIDE DEF t, m
  <2>4. /\ m \in Nat \ {0} /\ DOMAIN freed = 1 .. m /\ DOMAIN t = 1 .. m - 1 /\ NewId = freed[1]
        /\ \A n \in 1 .. m - 1 : t[n] = freed[n + 1]
    BY <2>1, <2>2 DEF t, m
  <2>5. IsInjective(t)
    <3> SUFFICES ASSUME NEW a \in 1 .. m - 1, NEW b \in 1 .. m - 1, t[a] = t[b] PROVE a = b
      BY <2>4 DEF IsInjective
    <3>1. a + 1 \in 1 .. m /\ b + 1 \in 1 .. m /\ freed[a + 1] = freed[b + 1]
      BY <2>4
    <3>2. a + 1 = b + 1
      BY <1>1, <2>4, <3>1 DEF IsInjective
    <3> QED
      BY <3>2
  <2>6. Range(t) = Range(freed) \ {NewId}
    <3>1. ASSUME NEW x \in Range(t) PROVE x \in Range(freed) /\ x # NewId
      <4>1. PICK n \in 1 .. m - 1 : x = freed[n + 1]
        BY <2>4 DEF Range
      <4>2. n + 1 \in 1 .. m /\ 1 \in 1 .. m /\ n + 1 # 1
        BY <2>4
      <4> QED
        BY <1>1, <2>4, <4>1, <4>2 DEF Range, IsInjective
    <3>2. ASSUME NEW x \in Range(freed), x # NewId PROVE x \in Range(t)
      <4>1. PICK n \in 1 .. m : x = freed[n]
        BY <2>4 DEF Range
      <4>2. n # 1
        BY <2>4, <3>2, <4>1
      <4>3. n - 1 \in 1 .. m - 1 /\ (n - 1) + 1 = n
        BY <2>4, <4>2
      <4>4. t[n - 1] = x
        BY <2>4, <4>1, <4>3
      <4> QED
        BY <2>4, <4>3, <4>4 DEF Range
    <3> QED
      BY <3>1, <3>2
  <2>7. NewFreed = t
    BY <2>1 DEF t
  <2>8. NewId \in DOMAIN values
    BY <1>1, <2>4 DEF Range
  <2>9. Range(t) = DOMAIN NewValues(k) \ Present(NewValues(k))
    BY <1>1, <1>2, <2>6, <2>8
  <2> QED
    BY <2>3, <2>5, <2>7, <2>9
<1> QED
  BY <1>3, <1>4

-----------------------------------------------------------------------------
(* id_from. *)

\* A table of exactly the live values.
Sound(tbl, c, vals) == c \in Sizes /\ Good(tbl, c, vals) /\ Ids(tbl) = Present(vals)

\* The values of a table to which k has been added.
With(k) == IF \E i \in Live : values[i] = k THEN values ELSE NewValues(k)

\* An activation of id_from goes on with the values it began with, and
\* returns an id of the key.
Acting(a, k) ==
  /\ a.outcome \in {"call", "return", "panic"}
  /\ a.outcome = "call" => Sound(a.tbl, a.c, values)
  /\ a.outcome = "return" =>
       /\ \E c \in Sizes : Sound(a.tbl, c, a.vals)
       /\ a.vals = With(k) /\ a.id \in DOMAIN a.vals /\ a.vals[a.id] = k

Activations(k) ==
  [outcome : {"call", "return", "panic"}, c : Nat, tbl : UNION {Tables(c) : c \in Sizes},
   vals : {values, NewValues(k)}, id : Nat]

LEMMA SoundTable ==
  ASSUME NEW tbl, NEW c, NEW vals, Sound(tbl, c, vals)
  PROVE  /\ c \in Sizes /\ c \in Nat \ {0} /\ tbl \in Tables(c) /\ Ordered(tbl, c, vals)
         /\ tbl \in UNION {Tables(d) : d \in Sizes}
         /\ \A s \in Slots(c) : tbl[s] # Empty => tbl[s].id \in Present(vals)
<1>1. c \in Sizes /\ c \in Nat \ {0} /\ tbl \in Tables(c) /\ Ordered(tbl, c, vals)
  BY SizeFacts DEF Sound, Good, Ordered
<1>2. \A s \in Slots(c) : tbl[s] # Empty => tbl[s].id \in Ids(tbl)
  BY <1>1 DEF Ids, Tables
<1> QED
  BY <1>1, <1>2 DEF Sound

\* A rehash to a legal size or to one that is beyond the reservation.
LEMMA RehashSound ==
  ASSUME NEW c \in Sizes, NEW vals \in Seq(Keys \cup {NoKey}), NEW r, r = Rehash(2 * c, vals), r.ok
  PROVE  Sound(r.tbl, 2 * c, vals)
<1>1. 2 * c \in Nat \ {0} /\ (2 * c <= Capacity => 2 * c \in Sizes)
  BY SizeFacts, DoubledSize
<1> DEFINE d == 2 * c
<1> HIDE DEF d
<1>2. d \in Sizes /\ Good(r.tbl, d, vals) /\ Ids(r.tbl) = Present(vals)
  BY <1>1, RehashGood DEF d
<1> QED
  BY <1>2 DEF Sound, d

Known(p, tbl, k) ==
  /\ p.outcome = "found" /\ p.tbl = tbl /\ p.placed = FALSE
  /\ p.entry.id \in Live /\ values[p.entry.id] = k

\* The probe for a key of the table.
LEMMA KnownKey ==
  ASSUME Allocated, NEW k \in Keys, NEW c, NEW tbl, Sound(tbl, c, values),
         NEW i \in Live, values[i] = k
  PROVE  Known(IdFromProbe(k, NewId, c, tbl, NewValues(k)), tbl, k)
<1>1. /\ c \in Sizes /\ Ordered(tbl, c, values) /\ tbl \in Tables(c)
      /\ \A s \in Slots(c) : tbl[s] # Empty => tbl[s].id \in Live
  BY SoundTable DEF Present, Live
<1>2. Ids(tbl) = Live /\ Injective(values)
  BY DEF Sound, Allocated, Present, Live
<1>3. Ordered(tbl, c, NewValues(k))
  BY <1>1, <1>2, NewPresent, OrderedTransfer
<1>4. PICK s \in Slots(c) : tbl[s] # Empty /\ tbl[s].id = i
  BY <1>1, <1>2 DEF Ids, Tables
<1>5. \A t \in Slots(c) : tbl[t] # Empty /\ values[tbl[t].id] = k => t = s
  <2> SUFFICES ASSUME NEW t \in Slots(c), tbl[t] # Empty, values[tbl[t].id] = k PROVE t = s
    OBVIOUS
  <2>1. tbl[t].id = i
    BY <1>1, <1>2 DEF Injective, Live
  <2> QED
    BY <1>1, <1>4, <2>1 DEF Ordered
<1>6. Holds(s, k, c, NewValues(k), tbl)
  BY <1>1, <1>4, <1>5, NewPresent DEF Holds
<1>7. NewId \in Nat
  BY NewFacts
<1>8. Found(IdFromProbe(k, NewId, c, tbl, NewValues(k)), tbl, tbl[s])
  BY <1>1, <1>3, <1>6, <1>7, IdFromFinds
<1> QED
  BY <1>4, <1>8 DEF Found, Known

\* The probe for a key that is new.
LEMMA NewKey ==
  ASSUME Distinguishable, Allocated, NEW k \in Keys, NEW c, NEW tbl, Sound(tbl, c, values),
         \A i \in Live : values[i] # k,
         NEW p, p = IdFromProbe(k, NewId, c, tbl, NewValues(k))
  PROVE  /\ p \in Probes(c) /\ p.outcome \in {"run", "exhausted", "inserted"}
         /\ p.outcome = "inserted" => p.placed /\ Sound(p.tbl, c, NewValues(k))
<1>1. c \in Sizes /\ Ordered(tbl, c, values) /\ Ids(tbl) = Live
  BY SoundTable DEF Sound, Present, Live
<1>2. Ordered(tbl, c, NewValues(k))
  BY <1>1, NewPresent, OrderedTransfer
<1>3. Spare(c, tbl)
  BY <1>1, Vacancy DEF Distinguishable, Spare, Allocated
<1>4. NewId \in Nat /\ NewId \notin Ids(tbl)
  BY <1>1, NewFacts
<1>5. Only(k, NewId, NewValues(k)) /\ Present(NewValues(k)) = Live \cup {NewId}
  BY NewPresent
<1>6. Placing(Steps(c), p, k, NewId, c, NewValues(k), tbl)
  BY <1>1, <1>2, <1>3, <1>4, <1>5, IdFromPlaces
<1> QED
  BY <1>1, <1>5, <1>6 DEF Placing, Added, Sound

LEMMA ActivationKept ==
  ASSUME Distinguishable, Allocated, NEW k \in Keys, NEW a \in Activations(k), Acting(a, k)
  PROVE  Activation(a, k) \in Activations(k) /\ Acting(Activation(a, k), k)
<1> DEFINE b == Activation(a, k)
           c == IF Loaded(a.c) THEN 2 * a.c ELSE a.c
           first == IF Loaded(a.c) THEN Rehash(c, values) ELSE [ok |-> TRUE, tbl |-> a.tbl]
           p == IdFromProbe(k, NewId, c, first.tbl, NewValues(k))
           vals == IF p.placed THEN NewValues(k) ELSE values
           again == Rehash(2 * c, vals)
<1>1. CASE a.outcome # "call"
  BY <1>1 DEF Activation
<1>2. CASE a.outcome = "call" /\ ~ first.ok
  <2>1. b = [a EXCEPT !.outcome = "panic"]
    BY <1>2 DEF Activation
  <2>2. b \in Activations(k) /\ b.outcome = "panic"
    BY <2>1 DEF Activations
  <2> QED
    BY <2>2 DEF Acting
<1>3. CASE a.outcome = "call" /\ first.ok
  <2>1. Sound(a.tbl, a.c, values) /\ a.c \in Sizes
    BY <1>3 DEF Acting, Sound
  <2>2. values \in Seq(Keys \cup {NoKey}) /\ NewValues(k) \in Seq(Keys \cup {NoKey}) /\ NewId \in Nat
    BY NewFacts DEF Allocated
  <2>3. Sound(first.tbl, c, values)
    <3>1. CASE Loaded(a.c)
      BY <1>3, <2>1, <2>2, <3>1, RehashSound
    <3>2. CASE ~ Loaded(a.c)
      BY <2>1, <3>2
    <3> QED
      BY <3>1, <3>2
  <2>4. c \in Sizes /\ c \in Nat \ {0} /\ first.tbl \in UNION {Tables(d) : d \in Sizes}
    BY <2>3, SoundTable
  <2>5. b = IF p.outcome = "found"
            THEN [a EXCEPT !.outcome = "return", !.tbl = p.tbl, !.vals = vals, !.id = p.entry.id]
            ELSE IF p.outcome = "inserted"
            THEN [a EXCEPT !.outcome = "return", !.tbl = p.tbl, !.vals = vals, !.id = NewId]
            ELSE IF ~ again.ok THEN [a EXCEPT !.outcome = "panic"]
            ELSE [outcome |-> IF p.placed THEN "return" ELSE "call",
                  c |-> 2 * c, tbl |-> again.tbl, vals |-> vals, id |-> NewId]
    BY <1>3 DEF Activation
  <2>6. p = IdFromProbe(k, NewId, c, first.tbl, NewValues(k))
    OBVIOUS
  <2>7. vals = IF p.placed THEN NewValues(k) ELSE values
    OBVIOUS
  <2>8. again = Rehash(2 * c, vals)
    OBVIOUS
  <2> DEFINE tbl == first.tbl
  <2> HIDE DEF b, c, first, p, vals, again
  <2>9. CASE \E i \in Live : values[i] = k
    <3>1. PICK i \in Live : values[i] = k
      BY <2>9
    <3>2. /\ p.outcome = "found" /\ p.tbl = tbl /\ p.placed = FALSE
          /\ p.entry.id \in Live /\ values[p.entry.id] = k
      <4>1. Known(p, tbl, k)
        BY <2>3, <2>6, <3>1, KnownKey
      <4> QED
        BY <4>1 DEF Known
    <3>3. vals = values /\ With(k) = values
      BY <2>7, <2>9, <3>2 DEF With
    <3>4. b = [a EXCEPT !.outcome = "return", !.tbl = tbl, !.vals = values, !.id = p.entry.id]
      BY <2>5, <3>2, <3>3
    <3>5. p.entry.id \in Nat /\ p.entry.id \in DOMAIN values
      BY <2>2, <3>2 DEF Live
    <3> DEFINE id == p.entry.id
    <3> HIDE DEF id, tbl
    <3>6. /\ b \in Activations(k) /\ b.outcome = "return" /\ b.tbl = tbl /\ b.vals = values
          /\ b.id = p.entry.id
      BY <2>4, <3>4, <3>5 DEF Activations, tbl
    <3>7. Acting(b, k)
      BY <2>3, <2>4, <3>2, <3>3, <3>5, <3>6 DEF Acting, tbl
    <3> QED
      BY <3>6, <3>7 DEF b
  <2>10. CASE \A i \in Live : values[i] # k
    <3>1. /\ p \in Probes(c) /\ p.outcome \in {"run", "exhausted", "inserted"}
          /\ p.outcome = "inserted" => p.placed /\ Sound(p.tbl, c, NewValues(k))
      BY <2>3, <2>6, <2>10, NewKey
    <3>2. With(k) = NewValues(k)
      BY <2>10 DEF With
    <3>3. NewId \in DOMAIN NewValues(k) /\ NewValues(k)[NewId] = k
      BY NewFacts
    <3>4. CASE p.outcome = "inserted"
      <4>1. vals = NewValues(k) /\ Sound(p.tbl, c, NewValues(k))
        BY <2>7, <3>1, <3>4
      <4>2. b = [a EXCEPT !.outcome = "return", !.tbl = p.tbl, !.vals = NewValues(k), !.id = NewId]
        BY <2>5, <3>4, <4>1
      <4>3. p.tbl \in UNION {Tables(d) : d \in Sizes}
        BY <4>1, SoundTable
      <4>4. /\ b \in Activations(k) /\ b.outcome = "return" /\ b.tbl = p.tbl
            /\ b.vals = NewValues(k) /\ b.id = NewId
        BY <2>2, <4>2, <4>3 DEF Activations
      <4>5. Acting(b, k)
        BY <2>4, <3>2, <3>3, <4>1, <4>4 DEF Acting
      <4> QED
        BY <4>4, <4>5 DEF b
    <3>5. CASE p.outcome # "inserted" /\ ~ again.ok
      <4>1. b = [a EXCEPT !.outcome = "panic"]
        BY <2>5, <3>1, <3>5
      <4>2. b \in Activations(k) /\ b.outcome = "panic"
        BY <4>1 DEF Activations
      <4>3. Acting(b, k)
        BY <4>2 DEF Acting
      <4> QED
        BY <4>2, <4>3 DEF b
    <3>6. CASE p.outcome # "inserted" /\ again.ok
      <4>1. b = [outcome |-> IF p.placed THEN "return" ELSE "call",
                 c |-> 2 * c, tbl |-> again.tbl, vals |-> vals, id |-> NewId]
        BY <2>5, <3>1, <3>6
      <4>2. vals \in {values, NewValues(k)} /\ vals \in Seq(Keys \cup {NoKey})
        BY <2>2, <2>7
      <4>3. Sound(again.tbl, 2 * c, vals)
        BY <2>4, <2>8, <3>6, <4>2, RehashSound
      <4>4. again.tbl \in UNION {Tables(d) : d \in Sizes} /\ 2 * c \in Sizes /\ 2 * c \in Nat
        BY <2>4, <4>3, SoundTable
      <4> DEFINE out == IF p.placed THEN "return" ELSE "call"
                 d == 2 * c
      <4>5. out \in {"call", "return"} /\ (out = "return" => p.placed) /\ (out = "call" => ~ p.placed)
        OBVIOUS
      <4>6. b = [outcome |-> out, c |-> d, tbl |-> again.tbl, vals |-> vals, id |-> NewId] /\ d \in Nat
        BY <4>1, <4>4
      <4> HIDE DEF out, d
      <4>7. /\ b \in Activations(k) /\ b.outcome = out /\ b.c = d /\ b.tbl = again.tbl
            /\ b.vals = vals /\ b.id = NewId
        BY <2>2, <4>2, <4>4, <4>5, <4>6 DEF Activations
      <4>8. CASE p.placed
        <5>1. vals = NewValues(k)
          BY <2>7, <4>8
        <5>2. out = "return"
          BY <4>8 DEF out
        <5>3. Acting(b, k)
          BY <3>2, <3>3, <4>3, <4>4, <4>7, <5>1, <5>2 DEF Acting
        <5> QED
          BY <4>7, <5>3 DEF b
      <4>9. CASE ~ p.placed
        <5>1. vals = values
          BY <2>7, <4>9
        <5>2. out = "call"
          BY <4>9 DEF out
        <5>3. Acting(b, k)
          BY <4>3, <4>7, <5>1, <5>2 DEF Acting, d
        <5> QED
          BY <4>7, <5>3 DEF b
      <4> QED
        BY <4>8, <4>9
    <3> QED
      BY <3>4, <3>5, <3>6
  <2> QED
    BY <2>9, <2>10
<1> QED
  BY <1>1, <1>2, <1>3

LEMMA ResultActs ==
  ASSUME Distinguishable, Allocated, NEW k \in Keys, Sound(table, commit, values)
  PROVE  Acting(IdFromResult(k), k)
<1> DEFINE N == Capacity
           start == [outcome |-> "call", c |-> commit, tbl |-> table, vals |-> values, id |-> 0]
           IsRun(f) == f = [n \in 0 .. N |-> IF n = 0 THEN start ELSE Activation(f[n - 1], k)]
           run == CHOOSE f : IsRun(f)
           X == {a \in Activations(k) : Acting(a, k)}
<1>1. N \in Nat
  BY SizeAssumption
<1>2. IdFromResult(k) = run[N]
  BY DEF IdFromResult
<1>3. start \in X
  <2> DEFINE c == commit
  <2>1. c \in Nat /\ table \in UNION {Tables(d) : d \in Sizes}
    BY SoundTable
  <2>2. start = [outcome |-> "call", c |-> c, tbl |-> table, vals |-> values, id |-> 0]
    OBVIOUS
  <2> HIDE DEF c
  <2>3. start \in Activations(k)
    BY <2>1, <2>2 DEF Activations
  <2>4. start.outcome = "call" /\ start.c = commit /\ start.tbl = table
    BY <2>2 DEF c
  <2> HIDE DEF start
  <2>5. Acting(start, k)
    BY <2>4 DEF Acting
  <2> QED
    BY <2>3, <2>5
<1>4. \A a \in X : Activation(a, k) \in X
  BY ActivationKept
<1> HIDE DEF N, X, start
<1>5. \E f : IsRun(f)
  <2> DEFINE step == [n \in 1 .. N |-> [a \in X |-> Activation(a, k)]]
  <2>1. step \in [1 .. N -> [X -> X]]
    BY <1>4
  <2>2. \A n \in 1 .. N, a \in X : step[n][a] = Activation(a, k)
    OBVIOUS
  <2> HIDE DEF step
  <2>3. PICK g : Iterates(g, X, start, N, step)
    BY <1>1, <1>3, <2>1, IterateExists
  <2>4. g \in [0 .. N -> X] /\ g[0] = start
    BY <2>3 DEF Iterates
  <2>5. \A n \in 1 .. N : g[n] = Activation(g[n - 1], k)
    BY <1>1, <2>2, <2>3, <2>4 DEF Iterates
  <2>6. IsRun(g)
    BY <1>1, <2>4, <2>5
  <2> QED
    BY <2>6
<1>6. IsRun(run)
  BY <1>5
<1> HIDE DEF run
<1> DEFINE S == {n \in 0 .. N : run[n] \in X}
<1>7. 0 .. N \subseteq S
  <2>1. 0 \in S
    BY <1>1, <1>3, <1>6
  <2>2. ASSUME NEW n \in 1 .. N, n - 1 \in S PROVE n \in S
    <3>1. run[n] = Activation(run[n - 1], k)
      BY <1>1, <1>6
    <3> QED
      BY <1>1, <1>4, <2>2, <3>1
  <2>3. S \in SUBSET Nat
    BY <1>1
  <2> HIDE DEF S
  <2> QED
    BY <1>1, <2>1, <2>2, <2>3, Increasing
<1>8. run[N] \in X
  BY <1>1, <1>7
<1> QED
  BY <1>2, <1>8 DEF X

-----------------------------------------------------------------------------
(* Removing. *)

\* A slot nearer, the entry is one nearer to its home.
LEMMA OwnsBefore ==
  ASSUME NEW c \in Sizes, NEW vals, NEW e \in Entry, NEW s \in Slots(c), Owns(e, After(s, c), c, vals),
         e.psl # 0, NEW f \in Entry, f = [e EXCEPT !.psl = e.psl - 1]
  PROVE  Owns(f, s, c, vals)
<1>1. f.id = e.id /\ f.fp = e.fp /\ f.psl = e.psl - 1 /\ e.psl \in Nat \ {0}
  BY DEF Entry
<1> DEFINE h == Home(vals[e.id], c)
           a == h + f.psl
<1>2. c \in Nat \ {0} /\ h \in Nat /\ (h + e.psl) % c = After(s, c)
  BY SizeFacts, HashFacts DEF Owns, Slots
<1>3. a \in Nat /\ a + 1 = h + e.psl
  BY <1>1, <1>2
<1> HIDE DEF a, h
<1>4. ((a % c) + 1) % c = (a + 1) % c /\ a % c \in Slots(c)
  <2>1. ((a % c) + 1) % c = (a + 1) % c
    BY <1>2, <1>3, RingAdd
  <2>2. a % c \in 0 .. c - 1
    BY <1>2, <1>3, DivMod
  <2> QED
    BY <2>1, <2>2 DEF Slots
<1>5. After(a % c, c) = After(s, c)
  BY <1>2, <1>3, <1>4 DEF After
<1>6. a % c = s
  BY <1>4, <1>5, AfterFacts
<1> QED
  BY <1>1, <1>6 DEF Owns, a, h

\* remove_from_lookups takes the entry out of the table and leaves every other
\* one where its searches find it.
LEMMA ShiftKept ==
  ASSUME NEW c, c = commit, Sound(table, c, values), NEW s \in Slots(c), table[s] # Empty,
         NEW new, new = ShiftBack(s)
  PROVE  Good(new, c, values) /\ Ids(new) = Live \ {table[s].id}
<1> DEFINE slot(n) == (s + n) % c
           dist(t) == (t - s) % c
           T(n) == table[slot(n)]
           Stops(n) == T(n).psl = 0 /\ \A m \in 1 .. n - 1 : T(m).psl # 0
           stop == CHOOSE n \in 1 .. c : Stops(n)
           moved(n) == [T(n) EXCEPT !.psl = T(n).psl - 1]
           U(n) == new[slot(n)]
           from(n) == IF n < stop - 1 THEN n + 1 ELSE n
<1>1. /\ c \in Sizes /\ c \in Nat \ {0} /\ s \in 0 .. c - 1 /\ Ordered(table, c, values)
      /\ table \in Tables(c) /\ DOMAIN table = Slots(c) /\ c >= 2
  BY SoundTable, SizeFacts DEF Slots, Tables
<1>2. \A n \in Nat : slot(n) \in Slots(c) /\ slot(n + 1) = After(slot(n), c)
  <2> SUFFICES ASSUME NEW n \in Nat PROVE slot(n) \in Slots(c) /\ slot(n + 1) = After(slot(n), c)
    OBVIOUS
  <2> DEFINE a == s + n
  <2>1. a \in Nat /\ a + 1 = s + (n + 1)
    BY <1>1
  <2> HIDE DEF a
  <2>2. ((a % c) + 1) % c = (a + 1) % c
    BY <1>1, <2>1, RingAdd
  <2>3. a % c \in 0 .. c - 1
    BY <1>1, <2>1, DivMod
  <2> QED
    BY <2>1, <2>2, <2>3 DEF a, After, Slots
<1>3. /\ \A n \in 0 .. c - 1 : dist(slot(n)) = n
      /\ \A t \in Slots(c) : dist(t) \in 0 .. c - 1 /\ slot(dist(t)) = t
      /\ slot(0) = s /\ slot(c) = s
  <2>1. NumberedFrom(s, c)
    BY <1>1, RingPlaces
  <2>2. \A n \in 0 .. c - 1 : dist(slot(n)) = n
    BY <2>1 DEF NumberedFrom
  <2>3. \A t \in Slots(c) : dist(t) \in 0 .. c - 1 /\ slot(dist(t)) = t
    BY <2>1 DEF NumberedFrom, Slots
  <2>4. slot(0) = s /\ slot(c) = s
    BY <2>1 DEF NumberedFrom
  <2> QED
    BY <2>2, <2>3, <2>4
<1>4. new = [t \in Slots(c) |-> IF dist(t) < stop - 1 THEN moved(dist(t) + 1)
                                ELSE IF dist(t) = stop - 1 THEN Empty ELSE table[t]]
  BY DEF ShiftBack
<1>5. \A n \in Nat : T(n) \in Entry /\ T(n).psl \in 0 .. MaxPsl /\ T(n + 1).psl <= Reach(T(n))
  BY <1>1, <1>2 DEF Ordered, Tables, Entry
<1>6. \A n \in Nat : T(n) # Empty => Owns(T(n), slot(n), c, values)
  BY <1>1, <1>2 DEF Ordered
<1>7. T(0) = table[s] /\ T(c) = table[s]
  BY <1>3
<1> HIDE DEF slot, dist
<1>8. \E n \in 1 .. c : Stops(n)
  <2> DEFINE S == {n \in 1 .. c : T(n).psl = 0}
  <2>1. PICK z \in Slots(c) : table[z].psl = 0
    BY DEF Sound, Good
  <2>2. S \in SUBSET Nat /\ S # {}
    <3>1. CASE dist(z) = 0
      BY <1>1, <1>3, <1>7, <2>1, <3>1
    <3>2. CASE dist(z) # 0
      BY <1>1, <1>3, <2>1, <3>2
    <3> QED
      BY <3>1, <3>2
  <2>3. PICK n \in S : \A m \in S : n <= m
    BY <2>2, LeastNumber
  <2> QED
    BY <1>1, <2>3
<1>9. stop \in 1 .. c /\ stop \in Nat /\ Stops(stop)
  BY <1>1, <1>8
<1>10. new \in [Slots(c) -> {new[t] : t \in Slots(c)}] /\ DOMAIN new = Slots(c)
  BY <1>4
<1>11. \A n \in 0 .. c - 1 : U(n) = IF n < stop - 1 THEN moved(n + 1)
                                     ELSE IF n = stop - 1 THEN Empty ELSE T(n)
  BY <1>1, <1>2, <1>3, <1>4
<1> HIDE DEF stop
\* The entries that move are away from their home and move towards it.
<1>12. ASSUME NEW n \in Nat, n < stop - 1
       PROVE  /\ T(n + 1) # Empty /\ moved(n + 1) # Empty /\ moved(n + 1) \in Entry
              /\ moved(n + 1).id = T(n + 1).id /\ moved(n + 1).psl = T(n + 1).psl - 1
              /\ Owns(moved(n + 1), slot(n), c, values)
  <2>1. n + 1 \in 1 .. stop - 1 /\ n + 1 \in Nat
    BY <1>9, <1>12
  <2>2. T(n + 1).psl # 0 /\ T(n + 1) \in Entry /\ T(n + 1).psl \in 0 .. MaxPsl
    BY <1>5, <1>9, <2>1
  <2> DEFINE e == T(n + 1)
             f == [e EXCEPT !.psl = e.psl - 1]
  <2>3. e # Empty
    BY <2>2, EmptyEntry
  <2>4. Owns(e, slot(n + 1), c, values)
    BY <1>6, <2>1, <2>3
  <2> HIDE DEF e
  <2>5. e.psl # 0 /\ e.psl \in 1 .. MaxPsl /\ e \in Entry /\ MaxPsl \in Nat
    BY <2>2, SizeAssumption DEF e
  <2>6. f \in Entry /\ f.id = e.id /\ f.psl = e.psl - 1 /\ f.fp = e.fp
    BY <2>5 DEF Entry
  <2>7. slot(n) \in Slots(c) /\ slot(n + 1) = After(slot(n), c)
    BY <1>2
  <2>8. Owns(f, slot(n), c, values)
    BY <1>1, <2>4, <2>5, <2>6, <2>7, OwnsBefore
  <2>9. f.fp \in Nat \ {0}
    BY <1>1, <2>8, HashFacts DEF Owns
  <2>10. f # Empty
    BY <2>9, EmptyEntry
  <2> QED
    BY <2>3, <2>6, <2>8, <2>10 DEF e
<1> HIDE DEF moved
\* What stands in the n-th slot behind s, and where it came from.
<1>13. ASSUME NEW n \in 0 .. c - 1
       PROVE  /\ U(n) \in Entry
              /\ U(n) # Empty => n # stop - 1 /\ Owns(U(n), slot(n), c, values)
              /\ n # stop - 1 => (U(n) # Empty <=> T(from(n)) # Empty) /\ U(n).id = T(from(n)).id
              /\ from(n) \in Nat
  <2>1. n \in Nat
    BY <1>1
  <2>2. CASE n < stop - 1
    BY <1>9, <1>11, <1>12, <2>1, <2>2
  <2>3. CASE n = stop - 1
    BY <1>9, <1>11, <2>1, <2>3, EmptyEntry
  <2>4. CASE n > stop - 1
    <3>1. U(n) = T(n) /\ from(n) = n
      BY <1>9, <1>11, <2>1, <2>4
    <3> QED
      BY <1>5, <1>6, <1>9, <2>1, <2>4, <3>1
  <2> QED
    BY <1>9, <2>1, <2>2, <2>3, <2>4
<1>14. \A m, n \in 0 .. c - 1 :
         m # stop - 1 /\ n # stop - 1 => from(n) \in 1 .. c - 1 /\ (from(m) = from(n) => m = n)
  BY <1>1, <1>9
<1>15. \A m \in 1 .. c - 1 : \E n \in 0 .. c - 1 : n # stop - 1 /\ from(n) = m
  <2> SUFFICES ASSUME NEW m \in 1 .. c - 1 PROVE \E n \in 0 .. c - 1 : n # stop - 1 /\ from(n) = m
    OBVIOUS
  <2>1. CASE m <= stop - 1
    <3>1. m - 1 \in 0 .. c - 1 /\ m - 1 # stop - 1 /\ from(m - 1) = m
      BY <1>1, <1>9, <2>1
    <3> QED
      BY <3>1
  <2>2. CASE m > stop - 1
    <3>1. m \in 0 .. c - 1 /\ m # stop - 1 /\ from(m) = m
      BY <1>1, <1>9, <2>2
    <3> QED
      BY <3>1
  <2> QED
    BY <1>1, <1>9, <2>1, <2>2
<1>16. new \in Tables(c)
  <2>1. \A t \in Slots(c) : new[t] \in Entry
    BY <1>3, <1>13
  <2> QED
    BY <1>4, <2>1 DEF Tables
<1>17. \A t \in Slots(c) : new[t] # Empty => Owns(new[t], t, c, values)
  BY <1>3, <1>13
<1>18. ASSUME NEW n \in 0 .. c - 1
       PROVE  new[After(slot(n), c)].psl <= Reach(U(n))
  <2>1. n \in Nat /\ n + 1 \in Nat /\ After(slot(n), c) = slot(n + 1) /\ c - 1 \in Nat /\ 0 \in 0 .. c - 1
    BY <1>1, <1>2
  <2>2. \A m \in 0 .. c - 1 : Reach(U(m)) \in Nat /\ U(m).psl \in Nat
    BY <1>13 DEF Entry, Reach
  <2>3. \A m \in Nat : T(m).psl \in Nat /\ Reach(T(m)) \in Nat
    BY <1>5 DEF Reach, Entry
  <2>4. CASE n + 1 < stop - 1
    <3>1. n + 1 \in 0 .. c - 1 /\ n < stop - 1 /\ (n + 1) + 1 \in Nat
      BY <1>1, <1>9, <2>1, <2>4
    <3>2. U(n) = moved(n + 1) /\ U(n + 1) = moved((n + 1) + 1)
      BY <1>11, <2>4, <3>1
    <3>3. /\ U(n) # Empty /\ U(n).psl = T(n + 1).psl - 1 /\ T(n + 1) # Empty
          /\ U(n + 1).psl = T((n + 1) + 1).psl - 1
      BY <1>12, <2>1, <2>4, <3>1, <3>2
    <3>4. T((n + 1) + 1).psl <= Reach(T(n + 1))
      BY <1>5, <2>1
    <3>5. Reach(T(n + 1)) = T(n + 1).psl + 1 /\ Reach(U(n)) = U(n).psl + 1
      BY <3>3 DEF Reach
    <3> QED
      BY <2>1, <2>3, <3>1, <3>3, <3>4, <3>5
  <2>5. CASE n + 1 = stop - 1
    <3>1. n + 1 \in 0 .. c - 1
      BY <1>1, <1>9, <2>1, <2>5
    <3>2. U(n + 1) = Empty
      BY <1>11, <1>9, <2>5, <3>1
    <3> QED
      BY <2>1, <2>2, <3>1, <3>2, EmptyEntry
  <2>6. CASE n = stop - 1 /\ stop <= c - 1
    <3>1. n + 1 = stop /\ n + 1 \in 0 .. c - 1
      BY <1>1, <1>9, <2>6
    <3>2. U(n + 1) = T(stop) /\ T(stop).psl = 0
      BY <1>9, <1>11, <3>1
    <3> QED
      BY <2>1, <2>2, <3>2
  <2>7. CASE n = stop - 1 /\ stop = c
    <3>1. n + 1 = c /\ slot(n + 1) = slot(0) /\ 0 < stop - 1
      BY <1>1, <1>3, <2>1, <2>7
    <3>2. U(0) = moved(0 + 1)
      BY <1>11, <2>1, <3>1
    <3>3. U(0).psl = T(0 + 1).psl - 1
      BY <1>12, <3>1, <3>2
    <3>4. T(0).psl = 0 /\ T(0) # Empty
      BY <1>7, <1>9, <2>7
    <3>5. T(0 + 1).psl <= Reach(T(0)) /\ Reach(T(0)) = 1
      BY <1>5, <3>4 DEF Reach
    <3>6. U(0).psl \in Nat /\ T(0 + 1).psl \in Nat
      BY <2>1, <2>2, <2>3
    <3>7. U(0).psl = 0
      BY <3>3, <3>5, <3>6
    <3> QED
      BY <2>1, <2>2, <3>1, <3>7
  <2>8. CASE n > stop - 1 /\ n + 1 <= c - 1
    <3>1. n + 1 \in 0 .. c - 1 /\ U(n) = T(n) /\ U(n + 1) = T(n + 1)
      BY <1>1, <1>9, <1>11, <2>1, <2>8
    <3> QED
      BY <1>5, <2>1, <3>1
  <2>9. CASE n > stop - 1 /\ n + 1 = c
    <3>1. U(n) = T(n) /\ slot(n + 1) = slot(0) /\ T(n + 1) = T(0)
      BY <1>1, <1>3, <1>9, <1>11, <2>1, <2>9
    <3>2. T(0).psl <= Reach(U(n))
      BY <1>5, <2>1, <3>1
    <3>3. CASE stop = 1
      <4>1. U(0) = Empty
        BY <1>11, <2>1, <3>3
      <4> QED
        BY <2>1, <2>2, <3>1, <4>1, EmptyEntry
    <3>4. CASE stop # 1
      <4>1. 0 < stop - 1
        BY <1>9, <3>4
      <4>2. U(0) = moved(0 + 1)
        BY <1>11, <2>1, <4>1
      <4>3. U(0).psl = T(0 + 1).psl - 1
        BY <1>12, <4>1, <4>2
      <4>4. T(0 + 1).psl <= Reach(T(0)) /\ Reach(T(0)) = T(0).psl + 1
        BY <1>5, <1>7 DEF Reach
      <4>5. U(0).psl <= T(0).psl /\ T(0).psl \in Nat /\ U(0).psl \in Nat
        BY <2>1, <2>2, <2>3, <4>3, <4>4
      <4> QED
        BY <2>1, <2>2, <3>1, <3>2, <4>5
    <3> QED
      BY <3>3, <3>4
  <2> QED
    BY <1>1, <1>9, <2>1, <2>4, <2>5, <2>6, <2>7, <2>8, <2>9
<1>19. \A t \in Slots(c) : new[After(t, c)].psl <= Reach(new[t])
  BY <1>3, <1>18
<1>20. \A m, n \in 0 .. c - 1 : T(m) # Empty /\ T(n) # Empty /\ T(m).id = T(n).id => m = n
  <2>1. \A n \in 0 .. c - 1 : n \in Nat /\ slot(n) \in Slots(c)
    BY <1>1, <1>2
  <2>2. \A a, b \in Slots(c) : table[a] # Empty /\ table[b] # Empty /\ table[a].id = table[b].id => a = b
    BY <1>1 DEF Ordered
  <2> QED
    BY <1>3, <2>1, <2>2
<1>21. ASSUME NEW m \in 0 .. c - 1, NEW n \in 0 .. c - 1, U(m) # Empty, U(n) # Empty, U(m).id = U(n).id
       PROVE  m = n
  <2>1. /\ m # stop - 1 /\ n # stop - 1 /\ T(from(m)) # Empty /\ T(from(n)) # Empty
        /\ T(from(m)).id = T(from(n)).id
    BY <1>13, <1>21
  <2>2. from(m) \in 0 .. c - 1 /\ from(n) \in 0 .. c - 1 /\ (from(m) = from(n) => m = n)
    BY <1>1, <1>14, <2>1
  <2> HIDE DEF from
  <2> QED
    BY <1>20, <2>1, <2>2
<1>22. \A t, u \in Slots(c) : new[t] # Empty /\ new[u] # Empty /\ new[t].id = new[u].id => t = u
  BY <1>3, <1>21
<1>23. Ordered(new, c, values)
  BY <1>16, <1>17, <1>19, <1>22 DEF Ordered
<1>24. \E t \in Slots(c) : new[t].psl = 0
  <2>1. stop - 1 \in 0 .. c - 1 /\ stop - 1 \in Nat
    BY <1>1, <1>9
  <2>2. U(stop - 1) = Empty
    BY <1>9, <1>11, <2>1
  <2> QED
    BY <1>2, <2>1, <2>2, EmptyEntry
<1>25. Ids(table) = Live
  BY DEF Sound, Present, Live
<1>26. ASSUME NEW i \in Ids(new) PROVE i \in Live /\ i # table[s].id
  <2>1. PICK t \in Slots(c) : new[t] # Empty /\ new[t].id = i
    BY <1>10 DEF Ids
  <2>2. PICK n \in 0 .. c - 1 : U(n) # Empty /\ U(n).id = i
    BY <1>3, <2>1
  <2>3. n # stop - 1 /\ T(from(n)) # Empty /\ T(from(n)).id = i /\ from(n) \in Nat
    BY <1>13, <2>2
  <2>4. from(n) \in 1 .. c - 1
    BY <1>14, <2>3
  <2> HIDE DEF from
  <2>5. i \in Ids(table)
    BY <1>1, <1>2, <2>3 DEF Ids
  <2>6. 0 \in 0 .. c - 1 /\ from(n) \in 0 .. c - 1 /\ from(n) # 0
    BY <1>1, <2>4
  <2>7. i # T(0).id
    BY <1>7, <1>20, <2>3, <2>6
  <2> QED
    BY <1>7, <1>25, <2>5, <2>7
<1>27. ASSUME NEW i \in Live, i # table[s].id PROVE i \in Ids(new)
  <2>1. PICK t \in Slots(c) : table[t] # Empty /\ table[t].id = i
    BY <1>1, <1>25 DEF Ids
  <2>2. dist(t) \in 0 .. c - 1 /\ T(dist(t)) # Empty /\ T(dist(t)).id = i
    BY <1>3, <2>1
  <2>3. dist(t) # 0
    BY <1>7, <1>27, <2>2
  <2>4. PICK n \in 0 .. c - 1 : n # stop - 1 /\ from(n) = dist(t)
    <3> DEFINE m == dist(t)
    <3>1. m \in 1 .. c - 1
      BY <1>1, <2>2, <2>3
    <3> HIDE DEF m, from
    <3>2. \E n \in 0 .. c - 1 : n # stop - 1 /\ from(n) = m
      BY <1>15, <3>1
    <3> QED
      BY <3>2 DEF m
  <2>5. U(n) # Empty /\ U(n).id = i
    BY <1>13, <2>2, <2>4
  <2>6. slot(n) \in Slots(c)
    BY <1>1, <1>2
  <2> QED
    BY <1>10, <2>5, <2>6 DEF Ids
<1> QED
  BY <1>23, <1>24, <1>26, <1>27 DEF Good

-----------------------------------------------------------------------------
(* The inductive invariant. *)

\* The map in every state: its table, of a legal size, holds exactly the live
\* values, each where its searches look for it.
IInv ==
  /\ \E c \in Sizes : Sound(table, c, values)
  /\ used \in 0 .. Wrap - 1
  /\ Allocated
  /\ IsFiniteSet(Keys) => Len(values) <= Cardinality(Keys)

LEMMA SoundCommit ==
  ASSUME IInv
  PROVE  Sound(table, commit, values) /\ commit \in Sizes /\ commit \in Nat \ {0}
<1>1. PICK c \in Sizes : Sound(table, c, values)
  BY DEF IInv
<1>2. DOMAIN table = Slots(c)
  BY <1>1, SoundTable DEF Tables
<1>3. commit \in Sizes /\ DOMAIN table = Slots(commit)
  BY <1>2 DEF commit
<1>4. \A a, b \in Nat \ {0} : 0 .. a - 1 = 0 .. b - 1 => a = b
  <2> SUFFICES ASSUME NEW a \in Nat \ {0}, NEW b \in Nat \ {0}, 0 .. a - 1 = 0 .. b - 1 PROVE a = b
    OBVIOUS
  <2>1. a - 1 \in 0 .. b - 1 /\ b - 1 \in 0 .. a - 1
    OBVIOUS
  <2> QED
    BY <2>1
<1>5. commit = c
  BY <1>2, <1>3, <1>4, SizeFacts DEF Slots
<1> QED
  BY <1>1, <1>5, SizeFacts

\* find_by_key finds the entries of the key, and find_by_value that of the id.
LEMMA FindsKey ==
  ASSUME IInv, NEW k \in Keys
  PROVE  FindByKey(k) = {s \in Slots(commit) : table[s] # Empty /\ values[table[s].id] = k}
<1> DEFINE c == commit
           D == {d \in 0 .. MaxPsl : /\ \A n \in 0 .. d : ~ Ends(k, n)
                                     /\ Equal(table[SlotAt(k, d)], [Lookup(k, 0) EXCEPT !.psl = d], k, values)}
<1>1. Sound(table, c, values) /\ c \in Sizes /\ Ordered(table, c, values) /\ table \in Tables(c) /\ MaxPsl \in Nat
  BY SoundCommit, SoundTable, SizeAssumption
<1>2. FindByKey(k) = {SlotAt(k, d) : d \in D}
  BY DEF FindByKey
<1>3. \A n \in Nat : SlotAt(k, n) = At(k, n, c) /\ At(k, n, c) \in Slots(c)
  BY <1>1, AtFacts DEF SlotAt, At
<1>4. \A n \in Nat : Ends(k, n) <=> table[At(k, n, c)] = Empty \/ table[At(k, n, c)].psl < n
  BY <1>3 DEF Ends
<1>5. \A s \in Slots(c) : table[s] \in Entry /\ table[s].psl \in Nat
  BY <1>1 DEF Tables, Entry
<1> HIDE DEF c
<1>6. ASSUME NEW d \in D
      PROVE  SlotAt(k, d) \in Slots(c) /\ table[SlotAt(k, d)] # Empty /\ values[table[SlotAt(k, d)].id] = k
  <2>1. d \in Nat /\ d \in 0 .. d /\ ~ Ends(k, d)
    BY <1>1
  <2> QED
    BY <1>3, <1>4, <2>1 DEF Equal
<1>7. ASSUME NEW s \in Slots(c), table[s] # Empty, values[table[s].id] = k
      PROVE  \E d \in D : SlotAt(k, d) = s
  <2> DEFINE d == table[s].psl
  <2>1. /\ d \in 0 .. MaxPsl /\ At(k, d, c) = s
        /\ \A n \in 0 .. d : table[At(k, n, c)] # Empty /\ n <= table[At(k, n, c)].psl
    BY <1>1, <1>7, SearchReaches
  <2>2. \A n \in 0 .. d : ~ Ends(k, n)
    <3> SUFFICES ASSUME NEW n \in 0 .. d PROVE ~ Ends(k, n)
      OBVIOUS
    <3>1. n \in Nat /\ table[At(k, n, c)] # Empty /\ n <= table[At(k, n, c)].psl /\ table[At(k, n, c)].psl \in Nat
      BY <1>3, <1>5, <2>1
    <3> QED
      BY <1>4, <3>1
  <2>3. d \in Nat /\ SlotAt(k, d) = s
    BY <1>1, <1>3, <2>1
  <2>4. Owns(table[s], s, c, values)
    BY <1>1, <1>7 DEF Ordered
  <2>5. Equal(table[s], [Lookup(k, 0) EXCEPT !.psl = d], k, values)
    BY <1>7, <2>4 DEF Equal, Lookup, Owns
  <2>6. d \in D
    BY <2>1, <2>2, <2>3, <2>5
  <2> QED
    BY <2>3, <2>6
<1> HIDE DEF D
<1> QED
  BY <1>2, <1>6, <1>7 DEF c

LEMMA FindsValue ==
  ASSUME IInv, NEW i \in Live
  PROVE  FindByValue(i) = {s \in Slots(commit) : table[s] # Empty /\ table[s].id = i}
<1> DEFINE c == commit
           k == values[i]
           D == {d \in 0 .. MaxPsl : /\ \A n \in 0 .. d : ~ Ends(k, n)
                                     /\ table[SlotAt(k, d)].psl = d /\ table[SlotAt(k, d)].id = i}
<1>1. /\ Sound(table, c, values) /\ c \in Sizes /\ Ordered(table, c, values) /\ table \in Tables(c)
      /\ MaxPsl \in Nat /\ k \in Keys
  BY SoundCommit, SoundTable, SizeAssumption DEF IInv, Allocated, Live
<1>2. FindByValue(i) = {SlotAt(k, d) : d \in D}
  BY DEF FindByValue
<1> HIDE DEF k
<1>3. \A n \in Nat : SlotAt(k, n) = At(k, n, c) /\ At(k, n, c) \in Slots(c)
  BY <1>1, AtFacts DEF SlotAt, At
<1>4. \A n \in Nat : Ends(k, n) <=> table[At(k, n, c)] = Empty \/ table[At(k, n, c)].psl < n
  BY <1>3 DEF Ends
<1>5. \A s \in Slots(c) : table[s] \in Entry /\ table[s].psl \in Nat
  BY <1>1 DEF Tables, Entry
<1> HIDE DEF c
<1>6. ASSUME NEW d \in D
      PROVE  SlotAt(k, d) \in Slots(c) /\ table[SlotAt(k, d)] # Empty /\ table[SlotAt(k, d)].id = i
  <2>1. d \in Nat /\ d \in 0 .. d /\ ~ Ends(k, d)
    BY <1>1
  <2> QED
    BY <1>3, <1>4, <2>1
<1>7. ASSUME NEW s \in Slots(c), table[s] # Empty, table[s].id = i
      PROVE  \E d \in D : SlotAt(k, d) = s
  <2> DEFINE d == table[s].psl
  <2>1. /\ d \in 0 .. MaxPsl /\ At(k, d, c) = s
        /\ \A n \in 0 .. d : table[At(k, n, c)] # Empty /\ n <= table[At(k, n, c)].psl
    <3>1. k = values[table[s].id]
      BY <1>7 DEF k
    <3> QED
      BY <1>1, <1>7, <3>1, SearchReaches
  <2>2. \A n \in 0 .. d : ~ Ends(k, n)
    <3> SUFFICES ASSUME NEW n \in 0 .. d PROVE ~ Ends(k, n)
      OBVIOUS
    <3>1. n \in Nat /\ table[At(k, n, c)] # Empty /\ n <= table[At(k, n, c)].psl /\ table[At(k, n, c)].psl \in Nat
      BY <1>3, <1>5, <2>1
    <3> QED
      BY <1>4, <3>1
  <2>3. d \in Nat /\ SlotAt(k, d) = s
    BY <1>1, <1>3, <2>1
  <2>4. d \in D
    BY <1>7, <2>1, <2>2, <2>3
  <2> QED
    BY <2>3, <2>4
<1> HIDE DEF D
<1> QED
  BY <1>2, <1>6, <1>7 DEF c

\* Every live value has one entry, and no other entry is of its key.
LEMMA LiveEntry ==
  ASSUME IInv, NEW i \in Live
  PROVE  \E s \in Slots(commit) :
           /\ table[s] # Empty /\ table[s].id = i
           /\ {t \in Slots(commit) : table[t] # Empty /\ table[t].id = i} = {s}
           /\ {t \in Slots(commit) : table[t] # Empty /\ values[table[t].id] = values[i]} = {s}
<1>1. /\ Ids(table) = Live /\ table \in Tables(commit) /\ Ordered(table, commit, values)
      /\ \A t \in Slots(commit) : table[t] # Empty => table[t].id \in Live
  BY SoundCommit, SoundTable DEF Sound, Present, Live
<1>2. PICK s \in Slots(commit) : table[s] # Empty /\ table[s].id = i
  BY <1>1 DEF Ids, Tables
<1>3. ASSUME NEW t \in Slots(commit), table[t] # Empty, values[table[t].id] = values[i]
      PROVE  t = s
  <2>1. table[t].id = i
    BY <1>1, <1>3 DEF IInv, Allocated, Injective, Live
  <2> QED
    BY <1>1, <1>2, <1>3, <2>1 DEF Ordered
<1> QED
  BY <1>2, <1>3

\* In every state of the invariant the table is consistent.
LEMMA InvConsistent == IInv => Consistent
<1> SUFFICES ASSUME IInv PROVE Consistent
  OBVIOUS
<1>1. /\ Sound(table, commit, values) /\ commit \in Sizes /\ commit \in Nat \ {0}
      /\ Ordered(table, commit, values) /\ table \in Tables(commit)
      /\ \A s \in Slots(commit) : table[s] # Empty => table[s].id \in Live
  BY SoundCommit, SoundTable DEF Present, Live
<1>2. TypeOK
  BY <1>1 DEF TypeOK, IInv, Allocated, Tables, Entry
<1>3. RobinHood
  <2> SUFFICES ASSUME NEW s \in Slots(commit)
               PROVE  /\ table[s] # Empty =>
                           /\ table[s].id \in Live
                           /\ table[s].fp = Fingerprint(Hash[values[table[s].id]])
                           /\ SlotAt(values[table[s].id], table[s].psl) = s
                      /\ table[(s + 1) % commit].psl <= IF table[s] # Empty THEN table[s].psl + 1 ELSE 0
    BY DEF RobinHood, Full
  <2>1. table[s] # Empty => Owns(table[s], s, commit, values)
    BY <1>1 DEF Ordered
  <2>2. table[After(s, commit)].psl <= Reach(table[s])
    BY <1>1 DEF Ordered
  <2> QED
    BY <1>1, <2>1, <2>2 DEF Owns, SlotAt, After, Reach
<1>4. Findable
  <2> SUFFICES ASSUME NEW i \in Live
               PROVE  /\ \E s \in Slots(commit) : FindByKey(values[i]) = {s} /\ FindByValue(i) = {s}
                      /\ \A s, t \in Slots(commit) : table[s].id = i /\ table[t].id = i => s = t
    BY DEF Findable
  <2>1. values[i] \in Keys /\ i # 0
    BY DEF IInv, Allocated, Live
  <2>2. PICK s \in Slots(commit) :
           /\ table[s] # Empty /\ table[s].id = i
           /\ {t \in Slots(commit) : table[t] # Empty /\ table[t].id = i} = {s}
           /\ {t \in Slots(commit) : table[t] # Empty /\ values[table[t].id] = values[i]} = {s}
    BY LiveEntry
  <2>3. FindByKey(values[i]) = {s} /\ FindByValue(i) = {s}
    BY <2>1, <2>2, FindsKey, FindsValue
  <2>4. \A t \in Slots(commit) : table[t].id = i => t = s
    BY <2>1, <2>2 DEF Empty
  <2> QED
    BY <2>3, <2>4
<1> QED
  BY <1>2, <1>3, <1>4 DEF Consistent

LEMMA InitInv == Init => IInv
<1> SUFFICES ASSUME Init PROVE IInv
  OBVIOUS
<1>1. FirstCommit \in Sizes
  <2>1. Capacity \in Nat /\ FirstCommit \in Nat /\ FirstCommit <= Capacity
    BY SizeAssumption DEF Sizes
  <2>2. 0 \in 0 .. Capacity /\ FirstCommit = FirstCommit * PowerOfTwo[0]
    BY <2>1, PowerFacts
  <2> QED
    BY <2>1, <2>2 DEF Sizes
<1>2. values = << >> /\ freed = << >> /\ used = 0 /\ table = [s \in Slots(FirstCommit) |-> Empty]
  BY DEF Init
<1>3. Live = {} /\ Present(values) = {}
  BY <1>2 DEF Live, Present
<1>4. Sound(table, FirstCommit, values)
  BY <1>1, <1>2, <1>3, EmptyTable DEF Sound
<1>5. Allocated
  <2>1. values \in Seq(Keys \cup {NoKey}) /\ freed \in Seq(DOMAIN values) /\ DOMAIN values = {} /\ DOMAIN freed = {}
    BY <1>2
  <2> QED
    BY <1>3, <2>1 DEF Allocated, Injective, IsInjective, Range
<1>6. used \in 0 .. Wrap - 1
  BY <1>2, SizeAssumption
<1>7. IsFiniteSet(Keys) => Len(values) <= Cardinality(Keys)
  BY <1>2, FS_CardinalityType
<1> QED
  BY <1>1, <1>4, <1>5, <1>6, <1>7 DEF IInv

\* When every id is taken and the key has none, there is a key for every id
\* and one more.
LEMMA RoomForId ==
  ASSUME IInv, IsFiniteSet(Keys), NEW k \in Keys, \A i \in Live : values[i] # k
  PROVE  Len(NewValues(k)) <= Cardinality(Keys) /\ NewId \in 1 .. Cardinality(Keys)
<1>1. /\ values \in Seq(Keys \cup {NoKey}) /\ Len(values) \in Nat /\ DOMAIN values = 1 .. Len(values)
      /\ Injective(values) /\ Cardinality(Keys) \in Nat /\ Len(values) <= Cardinality(Keys)
      /\ Range(freed) = DOMAIN values \ Live
  BY FS_CardinalityType DEF IInv, Allocated
<1>2. CASE freed = << >>
  <2> DEFINE L == Len(values)
             R == Keys \ {k}
  <2>1. NewId = L + 1 /\ NewValues(k) = Append(values, k) /\ Len(Append(values, k)) = L + 1
    BY <1>1, <1>2 DEF NewId, NewValues
  <2>2. Range(freed) = {}
    BY <1>2 DEF Range
  <2>3. \A i \in 1 .. L : i \in Live
    BY <1>1, <2>2
  <2>4. \A i \in 1 .. L : values[i] \in R
    BY <1>1, <2>3 DEF Live
  <2>5. \A i, j \in 1 .. L : values[i] = values[j] => i = j
    BY <1>1, <2>3 DEF Injective, Live
  <2>6. IsFiniteSet(R) /\ Cardinality(R) = Cardinality(Keys) - 1
    BY FS_RemoveElement
  <2> DEFINE f == [i \in 1 .. L |-> values[i]]
  <2> HIDE DEF R
  <2>7. f \in Injection(1 .. L, R)
    BY <2>4, <2>5 DEF Injection, IsInjective
  <2> HIDE DEF f
  <2>8. Cardinality(1 .. L) <= Cardinality(R)
    BY <2>6, <2>7, FS_Injection
  <2>9. Cardinality(1 .. L) = L
    <3>1. 1 \in Int /\ L \in Int
      BY <1>1
    <3> HIDE DEF L
    <3>2. Cardinality(1 .. L) = IF 1 > L THEN 0 ELSE L - 1 + 1
      BY <3>1, FS_Interval
    <3> QED
      BY <1>1, <3>1, <3>2 DEF L
  <2> QED
    BY <1>1, <2>1, <2>6, <2>8, <2>9
<1>3. CASE freed # << >>
  <2>1. NewValues(k) = [values EXCEPT ![NewId] = k]
    BY <1>3 DEF NewValues
  <2>2. Len(NewValues(k)) = Len(values)
    BY <1>1, <2>1
  <2>3. NewId \in DOMAIN values
    <3>1. freed \in Seq(DOMAIN values)
      BY DEF IInv, Allocated
    <3> QED
      BY <1>3, <3>1 DEF NewId
  <2> QED
    BY <1>1, <2>2, <2>3
<1> QED
  BY <1>2, <1>3

\* What id_from returns.
LEMMA ResultFacts ==
  ASSUME Distinguishable, IInv, NEW k \in Keys, NEW r, r = IdFromResult(k), r.outcome = "return"
  PROVE  /\ \E c \in Sizes : Sound(r.tbl, c, r.vals)
         /\ r.vals = With(k) /\ r.id \in DOMAIN r.vals /\ r.vals[r.id] = k
<1>1. Acting(r, k)
  <2>1. Allocated /\ Sound(table, commit, values)
    BY SoundCommit DEF IInv
  <2> QED
    BY <2>1, ResultActs
<1> QED
  BY <1>1 DEF Acting

LEMMA IdFromInv ==
  ASSUME Distinguishable, IInv, NEW k \in Keys, IdFrom(k)
  PROVE  IInv'
<1> DEFINE r == IdFromResult(k)
<1>1. CASE r.outcome # "return"
  <2>1. UNCHANGED <<table, used, values, freed>>
    BY <1>1 DEF IdFrom
  <2> QED
    BY <2>1 DEF IInv, Allocated, Live
<1>2. CASE r.outcome = "return"
  <2>1. /\ table' = r.tbl /\ values' = r.vals /\ used' = used
        /\ freed' = IF r.vals = values THEN freed ELSE NewFreed
    BY <1>2 DEF IdFrom
  <2>2. r.vals = With(k) /\ \E c \in Sizes : Sound(r.tbl, c, r.vals)
    BY <1>2, ResultFacts
  <2> HIDE DEF r
  <2>3. \E c \in Sizes : Sound(table', c, values')
    BY <2>1, <2>2
  <2>4. Live' = Present(values')
    BY DEF Live, Present
  <2>5. Allocated' /\ (IsFiniteSet(Keys) => Len(values') <= Cardinality(Keys))
    <3>1. CASE \E i \in Live : values[i] = k
      <4>1. values' = values /\ freed' = freed
        BY <2>1, <2>2, <3>1 DEF With
      <4> QED
        BY <4>1 DEF IInv, Allocated, Live
    <3>2. CASE \A i \in Live : values[i] # k
      <4>1. Allocated
        BY DEF IInv
      <4>2. values' = NewValues(k) /\ freed' = NewFreed
        BY <2>1, <2>2, <3>2, <4>1, NewPresent DEF With
      <4>3. NewValues(k) \in Seq(Keys \cup {NoKey}) /\ Injective(NewValues(k))
        BY <3>2, <4>1, NewFacts, NewPresent
      <4>4. /\ NewFreed \in Seq(DOMAIN NewValues(k)) /\ IsInjective(NewFreed)
            /\ Range(NewFreed) = DOMAIN NewValues(k) \ Present(NewValues(k))
        BY <4>1, NewAllocated
      <4>5. Allocated'
        BY <2>4, <4>2, <4>3, <4>4 DEF Allocated
      <4>6. IsFiniteSet(Keys) => Len(NewValues(k)) <= Cardinality(Keys)
        BY <3>2, RoomForId
      <4> QED
        BY <4>2, <4>5, <4>6
    <3> QED
      BY <3>1, <3>2
  <2>6. used' \in 0 .. Wrap - 1
    BY <2>1 DEF IInv
  <2> QED
    BY <2>3, <2>5, <2>6 DEF IInv
<1> QED
  BY <1>1, <1>2

\* Removing the entry at s.
LEMMA UnlinkInv ==
  ASSUME IInv, NEW s \in Slots(commit), table[s] # Empty, Unlink(s)
  PROVE  IInv' /\ table[s].id \in Live /\ Live' = Live \ {table[s].id} /\ \A j \in Live' : values'[j] = values[j]
<1> DEFINE i == table[s].id
           c == commit
<1>1. Sound(table, c, values) /\ c \in Sizes /\ i \in Live
  BY SoundCommit, SoundTable DEF Present, Live
<1>2. /\ values' = [values EXCEPT ![i] = NoKey] /\ freed' = <<i>> \o freed
      /\ used' = (used - 1) % Wrap /\ table' = ShiftBack(s)
  BY DEF Unlink
<1>3. /\ values \in Seq(Keys \cup {NoKey}) /\ DOMAIN values = 1 .. Len(values) /\ Injective(values)
      /\ freed \in Seq(DOMAIN values) /\ IsInjective(freed) /\ Range(freed) = DOMAIN values \ Live
      /\ i \in DOMAIN values
  BY <1>1 DEF IInv, Allocated, Live
<1>4. Good(table', c, values) /\ Ids(table') = Live \ {i}
  BY <1>1, <1>2, ShiftKept
<1> HIDE DEF i
<1>5. /\ values' \in Seq(Keys \cup {NoKey}) /\ DOMAIN values' = DOMAIN values /\ Len(values') = Len(values)
      /\ values'[i] = NoKey /\ \A j \in DOMAIN values : j # i => values'[j] = values[j]
  BY <1>2, <1>3
<1>6. Live' = Live \ {i} /\ Present(values') = Live \ {i}
  BY <1>5 DEF Live, Present
<1>7. Ordered(table', c, values')
  <2>1. \A j \in Ids(table') : j \in DOMAIN values' /\ values'[j] = values[j]
    BY <1>4, <1>5 DEF Live
  <2>2. Ordered(table', c, values)
    BY <1>4 DEF Good
  <2> QED
    BY <1>1, <2>1, <2>2, OrderedTransfer
<1>8. Sound(table', c, values')
  BY <1>1, <1>4, <1>6, <1>7 DEF Sound, Good
<1>9. Allocated'
  <2>1. Injective(values')
    BY <1>3, <1>5 DEF Injective
  <2> DEFINE m == Len(freed)
             t == <<i>> \o freed
  <2>2. /\ m \in Nat /\ DOMAIN freed = 1 .. m /\ t \in Seq(DOMAIN values) /\ DOMAIN t = 1 .. m + 1
        /\ t[1] = i /\ \A n \in 1 .. m : t[n + 1] = freed[n]
    BY <1>3
  <2> HIDE DEF m, t
  <2>3. i \notin Range(freed)
    BY <1>1, <1>3 DEF i
  <2>4. \A n \in 2 .. m + 1 : n - 1 \in 1 .. m /\ t[n] = freed[n - 1] /\ t[n] # i
    <3> SUFFICES ASSUME NEW n \in 2 .. m + 1
                 PROVE  n - 1 \in 1 .. m /\ t[n] = freed[n - 1] /\ t[n] # i
      OBVIOUS
    <3>1. n - 1 \in 1 .. m /\ (n - 1) + 1 = n
      BY <2>2
    <3>2. t[n] = freed[n - 1]
      BY <2>2, <3>1
    <3> QED
      BY <2>2, <2>3, <3>1, <3>2 DEF Range
  <2>5. IsInjective(t)
    <3> SUFFICES ASSUME NEW a \in 1 .. m + 1, NEW b \in 1 .. m + 1, t[a] = t[b] PROVE a = b
      BY <2>2 DEF IsInjective
    <3>1. CASE a = 1 \/ b = 1
      BY <2>2, <2>4, <3>1
    <3>2. CASE a # 1 /\ b # 1
      <4>1. a \in 2 .. m + 1 /\ b \in 2 .. m + 1
        BY <2>2, <3>2
      <4>2. a - 1 \in 1 .. m /\ b - 1 \in 1 .. m /\ freed[a - 1] = freed[b - 1]
        BY <2>4, <4>1
      <4>3. a - 1 = b - 1
        BY <1>3, <2>2, <4>2 DEF IsInjective
      <4> QED
        BY <4>1, <4>3
    <3> QED
      BY <3>1, <3>2
  <2>6. Range(t) = Range(freed) \cup {i}
    <3>1. \A n \in 1 .. m : t[n + 1] \in Range(t) /\ n + 1 \in 1 .. m + 1
      BY <2>2 DEF Range
    <3>2. \A x \in Range(freed) : x \in Range(t)
      BY <2>2, <3>1 DEF Range
    <3>3. 1 \in 1 .. m + 1
      BY <2>2
    <3>4. \A x \in Range(t) : x = i \/ x \in Range(freed)
      <4> SUFFICES ASSUME NEW n \in 1 .. m + 1 PROVE t[n] = i \/ t[n] \in Range(freed)
        BY <2>2 DEF Range
      <4>1. n = 1 \/ n \in 2 .. m + 1
        BY <2>2
      <4> QED
        BY <2>2, <2>4, <4>1 DEF Range
    <3>5. i \in Range(t)
      BY <2>2, <3>3 DEF Range
    <3> QED
      BY <3>2, <3>4, <3>5
  <2>7. freed' = t
    BY <1>2 DEF t
  <2>8. Range(t) = DOMAIN values' \ Live'
    BY <1>3, <1>5, <1>6, <2>6
  <2> QED
    BY <1>5, <2>1, <2>2, <2>5, <2>7, <2>8 DEF Allocated
<1>10. used' \in 0 .. Wrap - 1
  <2> DEFINE x == used - 1
  <2>1. x \in Int /\ Wrap \in Nat \ {0}
    BY SizeAssumption, SizeFacts DEF IInv
  <2> HIDE DEF x
  <2>2. x % Wrap \in 0 .. Wrap - 1
    BY <2>1
  <2> QED
    BY <1>2, <2>2 DEF x
<1>11. IsFiniteSet(Keys) => Len(values') <= Cardinality(Keys)
  BY <1>5 DEF IInv
<1>12. \A j \in Live' : values'[j] = values[j]
  BY <1>5, <1>6 DEF Live
<1>13. IInv'
  BY <1>1, <1>8, <1>9, <1>10, <1>11 DEF IInv
<1> QED
  BY <1>1, <1>6, <1>12, <1>13 DEF i

LEMMA NextInv ==
  ASSUME Distinguishable, IInv, [Next]_vars
  PROVE  IInv'
<1>1. CASE UNCHANGED vars
  BY <1>1 DEF vars, IInv, Allocated, Live
<1>2. ASSUME NEW k \in Keys, IdFrom(k) PROVE IInv'
  BY <1>2, IdFromInv
<1>3. ASSUME NEW k \in Keys, TryIdFrom(k) PROVE IInv'
  BY <1>3 DEF TryIdFrom, IInv, Allocated, Live
<1>4. ASSUME NEW k \in Keys, RemoveKey(k) PROVE IInv'
  <2>1. CASE FindByKey(k) = {}
    BY <1>4, <2>1 DEF RemoveKey, IInv, Allocated, Live
  <2>2. CASE FindByKey(k) # {}
    <3>1. PICK s \in FindByKey(k) : Unlink(s)
      BY <1>4, <2>2 DEF RemoveKey
    <3>2. s \in Slots(commit) /\ table[s] # Empty
      BY <1>4, FindsKey
    <3> QED
      BY <3>1, <3>2, UnlinkInv
  <2> QED
    BY <2>1, <2>2
<1>5. ASSUME NEW i \in Live, RemoveValue(i) PROVE IInv'
  <2>1. PICK s \in FindByValue(i) : Unlink(s)
    BY <1>5 DEF RemoveValue
  <2>2. s \in Slots(commit) /\ table[s] # Empty
    BY <1>5, FindsValue
  <2> QED
    BY <2>1, <2>2, UnlinkInv
<1> QED
  BY <1>1, <1>2, <1>3, <1>4, <1>5 DEF Next

\* Displacing, shifting back and rehashing keep every value of the map where
\* both searches find it, for all keys and sizes, if keys can be told apart.
THEOREM SpecConsistent == ASSUME Distinguishable PROVE Spec => []Consistent
<1>1. IInv /\ [Next]_vars => IInv'
  BY NextInv
<1> QED
  BY InitInv, InvConsistent, <1>1, PTL DEF Spec

-----------------------------------------------------------------------------
(* The refinement of InternMap. *)

Interned(vals) == [k \in {vals[i] : i \in Present(vals)} |-> CHOOSE i \in Present(vals) : vals[i] = k]

LEMMA InternedKeys ==
  ASSUME NEW vals
  PROVE  \A j : j \in DOMAIN Interned(vals) <=> \E i \in Present(vals) : vals[i] = j
BY DEF Interned

LEMMA InternedFacts ==
  ASSUME NEW vals, Injective(vals)
  PROVE  /\ \A i \in Present(vals) : vals[i] \in DOMAIN Interned(vals)
         /\ \A i \in Present(vals) : Interned(vals)[vals[i]] = i
         /\ Interned(vals) = [k \in DOMAIN Interned(vals) |-> Interned(vals)[k]]
<1>1. \A i \in Present(vals) : vals[i] \in DOMAIN Interned(vals)
  BY InternedKeys
<1>2. ASSUME NEW i \in Present(vals) PROVE Interned(vals)[vals[i]] = i
  <2> DEFINE k == vals[i]
             j == CHOOSE j \in Present(vals) : vals[j] = k
  <2>1. j \in Present(vals) /\ vals[j] = k
    OBVIOUS
  <2>2. j = i
    BY <2>1 DEF Injective, Present
  <2>3. Interned(vals)[k] = j
    BY DEF Interned
  <2> QED
    BY <2>2, <2>3
<1>3. Interned(vals) = [k \in DOMAIN Interned(vals) |-> Interned(vals)[k]]
  BY DEF Interned
<1> QED
  BY <1>1, <1>2, <1>3

\* The map f with one key more, and what a new value and a removed one make of
\* the map that is interned.
Put(f, k, i) == [j \in DOMAIN f \cup {k} |-> IF j = k THEN i ELSE f[j]]

LEMMA InternedNew ==
  ASSUME NEW v, NEW w, Injective(v), Injective(w), NEW id, id \notin Present(v),
         Present(w) = Present(v) \cup {id}, \A i \in Present(v) : w[i] = v[i]
  PROVE  Interned(w) = Put(Interned(v), w[id], id)
<1> DEFINE k == w[id]
           f == [j \in DOMAIN Interned(v) \cup {k} |-> IF j = k THEN id ELSE Interned(v)[j]]
<1>1. DOMAIN Interned(w) = DOMAIN Interned(v) \cup {k}
  <2>1. ASSUME NEW j PROVE j \in DOMAIN Interned(w) <=> j \in DOMAIN Interned(v) \/ j = k
    <3>1. j \in DOMAIN Interned(w) <=> \E i \in Present(w) : w[i] = j
      BY InternedKeys
    <3>2. j \in DOMAIN Interned(v) <=> \E i \in Present(v) : v[i] = j
      BY InternedKeys
    <3> QED
      BY <3>1, <3>2
  <2> QED
    BY <2>1
<1>2. ASSUME NEW j \in DOMAIN Interned(w) PROVE Interned(w)[j] = f[j]
  <2>1. PICK i \in Present(w) : w[i] = j
    BY <1>2, InternedKeys
  <2>2. Interned(w)[j] = i
    BY <2>1, InternedFacts
  <2>3. CASE i = id
    BY <1>1, <2>1, <2>2, <2>3
  <2>4. CASE i # id
    <3>1. i \in Present(v) /\ j = v[i] /\ j # k
      BY <2>1, <2>4 DEF Injective, Present
    <3>2. Interned(v)[j] = i
      BY <3>1, InternedFacts
    <3> QED
      BY <1>1, <2>2, <3>1, <3>2
  <2> QED
    BY <2>3, <2>4
<1> HIDE DEF k
<1>3. Interned(w) = [j \in DOMAIN Interned(w) |-> Interned(w)[j]]
  BY InternedFacts
<1>4. f = [j \in DOMAIN Interned(w) |-> f[j]]
  BY <1>1
<1> HIDE DEF f
<1>5. Interned(w) = f
  BY <1>2, <1>3, <1>4
<1> QED
  BY <1>5 DEF f, k, Put

LEMMA InternedLess ==
  ASSUME NEW v, NEW w, Injective(v), Injective(w), NEW id \in Present(v),
         Present(w) = Present(v) \ {id}, \A i \in Present(w) : w[i] = v[i]
  PROVE  Interned(w) = [j \in DOMAIN Interned(v) \ {v[id]} |-> Interned(v)[j]]
<1> DEFINE k == v[id]
           f == [j \in DOMAIN Interned(v) \ {k} |-> Interned(v)[j]]
<1>1. \A i \in Present(v) : v[i] = k => i = id
  BY DEF Injective, Present
<1>2. DOMAIN Interned(w) = DOMAIN Interned(v) \ {k}
  <2>1. ASSUME NEW j PROVE j \in DOMAIN Interned(w) <=> j \in DOMAIN Interned(v) /\ j # k
    <3>1. j \in DOMAIN Interned(w) <=> \E i \in Present(w) : w[i] = j
      BY InternedKeys
    <3>2. j \in DOMAIN Interned(v) <=> \E i \in Present(v) : v[i] = j
      BY InternedKeys
    <3> QED
      BY <1>1, <3>1, <3>2
  <2> QED
    BY <2>1
<1>3. ASSUME NEW j \in DOMAIN Interned(w) PROVE Interned(w)[j] = f[j]
  <2>1. PICK i \in Present(w) : w[i] = j
    BY <1>3, InternedKeys
  <2>2. Interned(w)[j] = i /\ i \in Present(v) /\ j = v[i]
    BY <2>1, InternedFacts
  <2>3. Interned(v)[j] = i
    BY <2>2, InternedFacts
  <2> QED
    BY <1>2, <2>2, <2>3
<1> HIDE DEF k
<1>4. Interned(w) = [j \in DOMAIN Interned(w) |-> Interned(w)[j]]
  BY InternedFacts
<1>5. f = [j \in DOMAIN Interned(w) |-> f[j]]
  BY <1>2
<1> HIDE DEF f
<1>6. Interned(w) = f
  BY <1>3, <1>4, <1>5
<1> QED
  BY <1>6 DEF f, k

LEMMA MapIs ==
  /\ [k \in {values[i] : i \in Live} |-> CHOOSE i \in Live : values[i] = k] = Interned(values)
  /\ ([k \in {values[i] : i \in Live} |-> CHOOSE i \in Live : values[i] = k])' = Interned(values')
BY DEF Live, Interned, Present

LEMMA UnlinkRefines ==
  ASSUME IInv, IInv', NEW s \in Slots(commit), table[s] # Empty, Unlink(s),
         NEW k, values[table[s].id] = k
  PROVE  Intern!Remove(k)
<1> DEFINE i == table[s].id
<1>1. i \in Live /\ Live' = Live \ {i} /\ \A j \in Live' : values'[j] = values[j]
  BY UnlinkInv
<1>2. reply' = [op |-> "remove", key |-> k, found |-> TRUE]
  BY DEF Unlink
<1> HIDE DEF i
<1>3. Injective(values) /\ Injective(values') /\ Present(values) = Live /\ Present(values') = Live'
  BY DEF IInv, Allocated, Present, Live
<1>4. Interned(values') = [j \in DOMAIN Interned(values) \ {k} |-> Interned(values)[j]]
  <2>1. Interned(values') = [j \in DOMAIN Interned(values) \ {values[i]} |-> Interned(values)[j]]
    BY <1>1, <1>3, InternedLess
  <2> QED
    BY <2>1 DEF i
<1>5. k \in DOMAIN Interned(values)
  BY <1>1, <1>3, InternedFacts DEF i
<1> QED
  BY <1>2, <1>4, <1>5, MapIs DEF Intern!Remove, Intern!Present

GivesSome(k) == \E i \in 1 .. Cardinality(Keys) : Intern!IdFrom(k, i)

LEMMA IdFromRefines ==
  ASSUME Distinguishable, IsFiniteSet(Keys), IInv, IInv', NEW k \in Keys, IdFrom(k)
  PROVE  GivesSome(k) \/ Intern!Panic
<1> DEFINE r == IdFromResult(k)
<1>1. Injective(values) /\ Injective(values') /\ Present(values) = Live /\ Present(values') = Live'
  BY DEF IInv, Allocated, Present, Live
<1>2. CASE r.outcome # "return"
  <2>1. reply' = [op |-> "panic"] /\ values' = values
    BY <1>2 DEF IdFrom
  <2>2. Intern!Panic
    BY <2>1, MapIs DEF Intern!Panic
  <2> QED
    BY <2>2
<1>3. CASE r.outcome = "return"
  <2>1. values' = r.vals /\ reply' = [op |-> "id", key |-> k, id |-> r.id]
    BY <1>3 DEF IdFrom
  <2>2. r.vals = With(k) /\ r.id \in DOMAIN r.vals /\ r.vals[r.id] = k
    BY <1>3, ResultFacts
  <2>3. CASE \E j \in Live : values[j] = k
    <3>1. values' = values /\ r.id \in DOMAIN values /\ values[r.id] = k
      BY <2>1, <2>2, <2>3 DEF With
    <3> HIDE DEF r
    <3>5. r.id \in 1 .. Cardinality(Keys)
      BY <3>1, FS_CardinalityType DEF IInv, Allocated
    <3>6. PICK i \in 1 .. Cardinality(Keys) : r.id = i
      BY <3>5
    <3>2. i \in Live /\ k \in DOMAIN Interned(values) /\ Interned(values)[k] = i
      BY <1>1, <3>1, <3>6, InternedFacts, HashAssumption DEF Live
    <3>4. Intern!IdFrom(k, i)
      BY <2>1, <3>1, <3>2, <3>6, MapIs DEF Intern!IdFrom, Intern!Present
    <3> QED
      BY <3>4 DEF GivesSome
  <2>4. CASE \A j \in Live : values[j] # k
    <3>1. values' = NewValues(k) /\ r.id \in DOMAIN NewValues(k) /\ NewValues(k)[r.id] = k
      BY <2>1, <2>2, <2>4 DEF With
    <3> HIDE DEF r
    <3>2. Allocated
      BY DEF IInv
    <3>9. r.id = NewId /\ NewId \notin Live
      BY <2>4, <3>1, <3>2, NewPresent, NewFacts DEF Only
    <3>5. PICK i \in 1 .. Cardinality(Keys) : r.id = i
      BY <2>4, <3>9, RoomForId
    <3>3. i = NewId /\ i \notin Live
      BY <3>5, <3>9
    <3>4. Present(values') = Live \cup {i} /\ \A j \in Live : values'[j] = values[j]
      BY <3>1, <3>2, <3>3, NewPresent
    <3>6. Interned(values') = [j \in DOMAIN Interned(values) \cup {k} |->
                                 IF j = k THEN i ELSE Interned(values)[j]]
      <4>1. values'[i] = k
        BY <3>1, <3>5
      <4>2. i \notin Present(values)
        BY <1>1, <3>3
      <4>3. Present(values') = Present(values) \cup {i} /\ \A j \in Present(values) : values'[j] = values[j]
        BY <1>1, <3>4
      <4>4. Interned(values') = Put(Interned(values), values'[i], i)
        BY <1>1, <4>2, <4>3, InternedNew
      <4> QED
        BY <4>1, <4>4 DEF Put
    <3>7. k \notin DOMAIN Interned(values) /\ \A j \in DOMAIN Interned(values) : Interned(values)[j] # i
      <4>1. k \notin DOMAIN Interned(values)
        BY <1>1, <2>4, InternedKeys
      <4>2. ASSUME NEW j \in DOMAIN Interned(values) PROVE Interned(values)[j] # i
        <5>1. PICK n \in Present(values) : values[n] = j
          BY InternedKeys
        <5>2. Interned(values)[j] = n
          BY <1>1, <5>1, InternedFacts
        <5> QED
          BY <1>1, <3>3, <5>2
      <4> QED
        BY <4>1, <4>2
    <3>8. Intern!IdFrom(k, i)
      BY <2>1, <3>5, <3>6, <3>7, MapIs DEF Intern!IdFrom, Intern!Present
    <3> QED
      BY <3>8 DEF GivesSome
  <2> QED
    BY <2>3, <2>4
<1> QED
  BY <1>2, <1>3

LEMMA TryIdFromRefines ==
  ASSUME IInv, NEW k \in Keys, TryIdFrom(k)
  PROVE  Intern!TryIdFrom(k)
<1>1. Injective(values) /\ Present(values) = Live
  BY DEF IInv, Allocated, Present, Live
<1>2. /\ reply' = [op |-> "try", key |-> k,
                   id |-> IF FindByKey(k) = {} THEN 0 ELSE table[CHOOSE s \in FindByKey(k) : TRUE].id]
      /\ values' = values
  BY DEF TryIdFrom
<1>3. FindByKey(k) = {s \in Slots(commit) : table[s] # Empty /\ values[table[s].id] = k}
  BY FindsKey
<1>4. CASE \E i \in Live : values[i] = k
  <2>1. PICK i \in Live : values[i] = k
    BY <1>4
  <2>2. PICK s \in Slots(commit) : table[s].id = i /\ FindByKey(k) = {s}
    BY <1>3, <2>1, LiveEntry
  <2>3. (CHOOSE t \in FindByKey(k) : TRUE) = s /\ FindByKey(k) # {}
    BY <2>2
  <2>4. reply' = [op |-> "try", key |-> k, id |-> i]
    BY <1>2, <2>2, <2>3
  <2>5. k \in DOMAIN Interned(values) /\ Interned(values)[k] = i
    BY <1>1, <2>1, InternedFacts
  <2> QED
    BY <1>2, <2>4, <2>5, MapIs DEF Intern!TryIdFrom, Intern!Present
<1>5. CASE \A i \in Live : values[i] # k
  <2>1. FindByKey(k) = {}
    BY <1>3, <1>5, SoundCommit, SoundTable DEF Present, Live
  <2>2. reply' = [op |-> "try", key |-> k, id |-> 0]
    BY <1>2, <2>1
  <2>3. k \notin DOMAIN Interned(values)
    BY <1>1, <1>5, InternedKeys
  <2> QED
    BY <1>2, <2>2, <2>3, MapIs DEF Intern!TryIdFrom, Intern!Present
<1> QED
  BY <1>4, <1>5

LEMMA RemoveKeyRefines ==
  ASSUME IInv, IInv', NEW k \in Keys, RemoveKey(k)
  PROVE  Intern!Remove(k)
<1>1. FindByKey(k) = {s \in Slots(commit) : table[s] # Empty /\ values[table[s].id] = k}
  BY FindsKey
<1>2. CASE FindByKey(k) # {}
  <2>1. PICK s \in FindByKey(k) : Unlink(s)
    BY <1>2 DEF RemoveKey
  <2>2. s \in Slots(commit) /\ table[s] # Empty /\ values[table[s].id] = k
    BY <1>1
  <2> QED
    BY <2>1, <2>2, UnlinkRefines
<1>3. CASE FindByKey(k) = {}
  <2>1. reply' = [op |-> "remove", key |-> k, found |-> FALSE] /\ values' = values
    BY <1>3 DEF RemoveKey
  <2>2. Injective(values) /\ Present(values) = Live
    BY DEF IInv, Allocated, Present, Live
  <2>3. \A i \in Live : values[i] # k
    BY <1>1, <1>3, LiveEntry
  <2>4. k \notin DOMAIN Interned(values)
    BY <2>2, <2>3, InternedKeys
  <2>5. DOMAIN Interned(values) \ {k} = DOMAIN Interned(values)
    BY <2>4
  <2>6. Interned(values) = [j \in DOMAIN Interned(values) \ {k} |-> Interned(values)[j]]
    BY <2>2, <2>5, InternedFacts
  <2>7. reply' = [op |-> "remove", key |-> k, found |-> k \in DOMAIN Interned(values)]
    <3>1. (k \in DOMAIN Interned(values)) = FALSE
      BY <2>4
    <3> QED
      BY <2>1, <3>1, Zenon
  <2>8. Interned(values') = [j \in DOMAIN Interned(values) \ {k} |-> Interned(values)[j]]
    BY <2>1, <2>6
  <2> QED
    BY <2>7, <2>8, MapIs DEF Intern!Remove, Intern!Present
<1> QED
  BY <1>2, <1>3

\* The map interns: of any calls in any order a key keeps its id until it is
\* removed, no two keys share one, and both searches answer for what is there.
THEOREM SpecInterns == ASSUME Distinguishable, IsFiniteSet(Keys) PROVE Spec => InternSpec
<1>1. IInv /\ [Next]_vars => IInv'
  BY NextInv
<1>2. Init => Intern!Init
  <2> SUFFICES ASSUME Init PROVE Intern!Init
    OBVIOUS
  <2>1. values = << >> /\ reply = [op |-> "init"]
    BY DEF Init
  <2>2. Present(values) = {}
    BY <2>1 DEF Present
  <2>3. Interned(values) = [k \in {} |-> 0]
    BY <2>2 DEF Interned
  <2> QED
    BY <2>1, <2>3, MapIs DEF Intern!Init
<1>3. IInv /\ IInv' /\ [Next]_vars => [Intern!Next]_Intern!vars
  <2> SUFFICES ASSUME IInv, IInv', [Next]_vars PROVE [Intern!Next]_Intern!vars
    OBVIOUS
  <2>1. CASE UNCHANGED vars
    BY <2>1, MapIs DEF vars, Intern!vars
  <2>2. ASSUME NEW k \in Keys, IdFrom(k) PROVE Intern!Next
    <3>1. GivesSome(k) \/ Intern!Panic
      BY <2>2, IdFromRefines
    <3> QED
      BY <3>1 DEF GivesSome, Intern!Next
  <2>3. ASSUME NEW k \in Keys, TryIdFrom(k) PROVE Intern!Next
    BY <2>3, TryIdFromRefines DEF Intern!Next
  <2>4. ASSUME NEW k \in Keys, RemoveKey(k) PROVE Intern!Next
    BY <2>4, RemoveKeyRefines DEF Intern!Next
  <2>5. ASSUME NEW i \in Live, RemoveValue(i) PROVE Intern!Next
    <3>1. PICK s \in FindByValue(i) : Unlink(s)
      BY <2>5 DEF RemoveValue
    <3>2. s \in Slots(commit) /\ table[s] # Empty /\ table[s].id = i
      BY FindsValue
    <3>4. PICK k \in Keys : values[i] = k
      BY DEF IInv, Allocated, Live
    <3>3. values[table[s].id] = k
      BY <3>2, <3>4
    <3>5. Intern!Remove(k)
      BY <3>1, <3>2, <3>3, UnlinkRefines
    <3> QED
      BY <3>5 DEF Intern!Next
  <2> QED
    BY <2>1, <2>2, <2>3, <2>4, <2>5 DEF Next
<1> QED
  BY InitInv, <1>1, <1>2, <1>3, PTL DEF Spec, InternSpec, Intern!Spec
=============================================================================
