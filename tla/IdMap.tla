-------------------------------- MODULE IdMap --------------------------------
(***************************************************************************)
(* infra/container/id_map.hpp: the open-addressing table that interns      *)
(* identifiers, source files, holotypes and shadow values, with Robin Hood *)
(* insertion, backward-shift removal and growth by rehashing.  The values  *)
(* live in an allocator; the one modelled is ShadowStoreAlloc, the only    *)
(* one that frees ids for reuse.                                           *)
(***************************************************************************)
EXTENDS Integers, Sequences, FiniteSets, Functions

CONSTANTS
  Keys,          \* the keys callers use
  NoKey,         \* marks a freed value
  Hash,          \* hash of every key
  Shift,         \* 2^HASH_FINGERPRINT_SHIFT
  MaxPsl,        \* MAX_PSL
  FirstCommit,   \* lookup_commit passed to init
  Capacity,      \* m_lookup_capacity
  Wrap           \* m_lookup_used counts modulo this

ASSUME HashAssumption == NoKey \notin Keys /\ Hash \in [Keys -> Nat] /\ Shift \in Nat \ {0}

PowerOfTwo[j \in 0 .. Capacity] == IF j = 0 THEN 1 ELSE 2 * PowerOfTwo[j - 1]

\* What rehash can make of m_lookup_commit.
Sizes == {c \in FirstCommit .. Capacity :
            \E j \in 0 .. Capacity : c = FirstCommit * PowerOfTwo[j]}

\* Tables are powers of two long and, as in the code, longer than a probe.
ASSUME SizeAssumption ==
  /\ MaxPsl \in Nat \ {0} /\ FirstCommit \in Nat /\ FirstCommit > MaxPsl
  /\ Capacity \in Nat /\ Capacity \in Sizes
  /\ Wrap \in Nat /\ Wrap > 4 * Capacity

VARIABLES
  table,    \* m_lookups, by slot
  used,     \* m_lookup_used
  values,   \* the allocator's entries: the key of each id, or NoKey
  freed,    \* address_entries_freelist_head: freed ids, last freed first
  reply     \* outcome of the last call

vars == <<table, used, values, freed, reply>>

Slots(c) == 0 .. c - 1

commit == CHOOSE c \in Sizes : DOMAIN table = Slots(c)

-----------------------------------------------------------------------------
(* Lookup entries. *)

Empty == [fp |-> 0, psl |-> 0, id |-> 0]

\* create_lookup: the lowest bit is set, so that no fingerprint is that of an
\* empty entry.
Fingerprint(h) == LET f == h \div Shift IN IF f % 2 = 0 THEN f + 1 ELSE f

Lookup(k, i) == [fp |-> Fingerprint(Hash[k]), psl |-> 0, id |-> i]

Home(k, c) == Hash[k] % c

Live == {i \in DOMAIN values : values[i] # NoKey}

\* is_equal_lookup, against the keys in vals.
Equal(e, f, k, vals) == e.fp = f.fp /\ e.psl = f.psl /\ vals[e.id] = k

-----------------------------------------------------------------------------
(* Inserting.  A probe walks the table with the entry it has to place,     *)
(* which is swapped for every entry closer to its home.                    *)

\* Mutant: an entry never gives way to one further from its home.
GivesWayNever(e, p) == FALSE

GivesWay(e, p) == e.psl < p.entry.psl

Swap(p) ==
  IF GivesWay(p.tbl[p.i], p)
  THEN [p EXCEPT !.tbl = [p.tbl EXCEPT ![p.i] = p.entry], !.entry = p.tbl[p.i], !.placed = TRUE]
  ELSE p

Advance(p, c) ==
  IF p.entry.psl = MaxPsl
  THEN [p EXCEPT !.outcome = "exhausted"]
  ELSE [p EXCEPT !.entry.psl = p.entry.psl + 1, !.i = (p.i + 1) % c]

Place(p) == [p EXCEPT !.tbl = [p.tbl EXCEPT ![p.i] = p.entry], !.placed = TRUE, !.outcome = "inserted"]

ProbeOf(k, id, c, tbl) ==
  [i |-> Home(k, c), entry |-> Lookup(k, id), tbl |-> tbl, placed |-> FALSE, outcome |-> "run"]

\* Every step that goes on raises the sum of the psl of the table and the
\* entry in hand, so that this many steps end every probe.
Steps(c) == (c + 1) * (MaxPsl + 1)

\* One step of id_from.
IdFromStep(p, k, c, vals) ==
  LET e == p.tbl[p.i]
  IN  IF p.outcome # "run" THEN p
      ELSE IF e = Empty THEN Place(p)
      ELSE IF Equal(e, p.entry, k, vals) THEN [p EXCEPT !.outcome = "found", !.entry = e]
      ELSE Advance(Swap(p), c)

IdFromProbe(k, id, c, tbl, vals) ==
  LET run[n \in 0 .. Steps(c)] ==
        IF n = 0 THEN ProbeOf(k, id, c, tbl) ELSE IdFromStep(run[n - 1], k, c, vals)
  IN  run[Steps(c)]

\* One step of reinsert_value_into_lookup.
ReinsertStep(p, c) ==
  IF p.outcome # "run" THEN p
  ELSE IF p.tbl[p.i] = Empty THEN Place(p)
  ELSE Advance(Swap(p), c)

Reinsert(k, id, c, tbl) ==
  LET run[n \in 0 .. Steps(c)] ==
        IF n = 0 THEN ProbeOf(k, id, c, tbl) ELSE ReinsertStep(run[n - 1], c)
  IN  run[Steps(c)]

Readd(r, i, c, vals) ==
  IF vals[i] = NoKey \/ ~r.ok THEN r
  ELSE LET p == Reinsert(vals[i], i, c, r.tbl)
       IN  [ok |-> p.outcome = "inserted", tbl |-> p.tbl]

\* rehash to c slots: the table with every live value of vals reinserted, and
\* whether there was room for it and none exceeded MAX_PSL.
Rehash(c, vals) ==
  LET run[n \in 0 .. Len(vals)] ==
        IF n = 0 THEN [ok |-> c <= Capacity, tbl |-> [s \in Slots(c) |-> Empty]]
                 ELSE Readd(run[n - 1], n, c, vals)
  IN  run[Len(vals)]

-----------------------------------------------------------------------------
(* id_from. *)

\* ShadowStoreAlloc::alloc: a freed id if there is one.
NewId == IF freed = << >> THEN Len(values) + 1 ELSE Head(freed)

NewValues(k) == IF freed = << >> THEN Append(values, k) ELSE [values EXCEPT ![NewId] = k]

NewFreed == IF freed = << >> THEN freed ELSE Tail(freed)

\* m_lookup_used * 4 > m_lookup_commit * 3.  No call raises m_lookup_used.
Loaded(c) == (used * 4) % Wrap > c * 3

\* One activation a of id_from, in a table of a.c slots.  A probe that is
\* exhausted before its key is placed ends with a call of id_from itself.
Activation(a, k) ==
  LET c == IF Loaded(a.c) THEN 2 * a.c ELSE a.c
      first == IF Loaded(a.c) THEN Rehash(c, values) ELSE [ok |-> TRUE, tbl |-> a.tbl]
      p == IdFromProbe(k, NewId, c, first.tbl, NewValues(k))
      vals == IF p.placed THEN NewValues(k) ELSE values
      again == Rehash(2 * c, vals)
  IN  IF a.outcome # "call" THEN a
      ELSE IF ~first.ok THEN [a EXCEPT !.outcome = "panic"]
      ELSE IF p.outcome = "found"
      THEN [a EXCEPT !.outcome = "return", !.tbl = p.tbl, !.vals = vals, !.id = p.entry.id]
      ELSE IF p.outcome = "inserted"
      THEN [a EXCEPT !.outcome = "return", !.tbl = p.tbl, !.vals = vals, !.id = NewId]
      ELSE IF ~again.ok THEN [a EXCEPT !.outcome = "panic"]
      ELSE [outcome |-> IF p.placed THEN "return" ELSE "call",
            c |-> 2 * c, tbl |-> again.tbl, vals |-> vals, id |-> NewId]

\* The end of a call of id_from.  Every activation but the last doubles the
\* table, so that this many are enough.
IdFromResult(k) ==
  LET run[n \in 0 .. Capacity] ==
        IF n = 0 THEN [outcome |-> "call", c |-> commit, tbl |-> table, vals |-> values, id |-> 0]
                 ELSE Activation(run[n - 1], k)
  IN  run[Capacity]

IdFrom(k) ==
  LET r == IdFromResult(k)
  IN  IF r.outcome # "return"
      THEN reply' = [op |-> "panic"] /\ UNCHANGED <<table, used, values, freed>>
      ELSE /\ table' = r.tbl
           /\ values' = r.vals
           /\ freed' = IF r.vals = values THEN freed ELSE NewFreed
           /\ reply' = [op |-> "id", key |-> k, id |-> r.id]
           /\ UNCHANGED used

-----------------------------------------------------------------------------
(* Finding and removing. *)

SlotAt(k, d) == (Home(k, commit) + d) % commit

\* Where a search for k gives up: an empty slot, or an entry that k would have
\* been given the place of.
Ends(k, d) == LET e == table[SlotAt(k, d)] IN e = Empty \/ e.psl < d

\* find_by_key: the slots at which the search for k succeeds, at most one.
FindByKey(k) ==
  {SlotAt(k, d) : d \in {d \in 0 .. MaxPsl :
     /\ \A n \in 0 .. d : ~Ends(k, n)
     /\ Equal(table[SlotAt(k, d)], [Lookup(k, 0) EXCEPT !.psl = d], k, values)}}

\* find_by_value: the search by id, which must succeed.
FindByValue(i) ==
  {SlotAt(values[i], d) : d \in {d \in 0 .. MaxPsl :
     /\ \A n \in 0 .. d : ~Ends(values[i], n)
     /\ table[SlotAt(values[i], d)].psl = d /\ table[SlotAt(values[i], d)].id = i}}

TryIdFrom(k) ==
  /\ reply' = [op |-> "try", key |-> k,
               id |-> IF FindByKey(k) = {} THEN 0 ELSE table[CHOOSE s \in FindByKey(k) : TRUE].id]
  /\ UNCHANGED <<table, used, values, freed>>

\* Mutant: the entries behind the removed one stay where they are.
ShiftNone(s) == [table EXCEPT ![s] = Empty]

\* remove_from_lookups: the entries behind the removed one move up, until one
\* at its home or an empty slot.
ShiftBack(s) ==
  LET slot(n) == (s + n) % commit
      dist(t) == (t - s) % commit
      stop == CHOOSE n \in 1 .. commit :
                table[slot(n)].psl = 0 /\ \A m \in 1 .. n - 1 : table[slot(m)].psl # 0
  IN  [t \in Slots(commit) |->
         IF dist(t) < stop - 1
         THEN [table[slot(dist(t) + 1)] EXCEPT !.psl = @ - 1]
         ELSE IF dist(t) = stop - 1 THEN Empty ELSE table[t]]

Unlink(s) ==
  LET i == table[s].id
  IN  /\ values' = [values EXCEPT ![i] = NoKey]
      /\ freed' = <<i>> \o freed
      /\ used' = (used - 1) % Wrap
      /\ table' = ShiftBack(s)
      /\ reply' = [op |-> "remove", key |-> values[i], found |-> TRUE]

\* try_remove, and remove of a key, which asserts that the key is there.
RemoveKey(k) ==
  IF FindByKey(k) = {}
  THEN /\ reply' = [op |-> "remove", key |-> k, found |-> FALSE]
       /\ UNCHANGED <<table, used, values, freed>>
  ELSE \E s \in FindByKey(k) : Unlink(s)

\* remove of a value or of its id.
RemoveValue(i) == \E s \in FindByValue(i) : Unlink(s)

-----------------------------------------------------------------------------
Init ==
  /\ table = [s \in Slots(FirstCommit) |-> Empty]
  /\ used = 0
  /\ values = << >> /\ freed = << >>
  /\ reply = [op |-> "init"]

Next ==
  /\ reply.op # "panic"
  /\ \/ \E k \in Keys : IdFrom(k)
     \/ \E k \in Keys : TryIdFrom(k)
     \/ \E k \in Keys : RemoveKey(k)
     \/ \E i \in Live : RemoveValue(i)

Spec == Init /\ [][Next]_vars

-----------------------------------------------------------------------------
\* The types of the map's fields: a table of a legal size, ids within the
\* allocator, and every freed id free once.
TypeOK ==
  /\ \E c \in Sizes : table \in [Slots(c) -> [fp : Nat, psl : 0 .. MaxPsl, id : Nat]]
  /\ used \in 0 .. Wrap - 1
  /\ values \in Seq(Keys \cup {NoKey})
  /\ freed \in Seq(DOMAIN values) /\ IsInjective(freed)
  /\ Range(freed) = DOMAIN values \ Live

Full(s) == table[s] # Empty

\* The Robin Hood invariant that find_by_key's early exit relies on: every
\* entry knows its distance from home, and no entry is further from its home
\* than its predecessor plus one; behind an empty slot every entry is at home.
RobinHood ==
  \A s \in Slots(commit) :
    LET e == table[s]
        next == table[(s + 1) % commit]
    IN  /\ Full(s) =>
             /\ e.id \in Live
             /\ e.fp = Fingerprint(Hash[values[e.id]])
             /\ SlotAt(values[e.id], e.psl) = s
        /\ next.psl <= IF Full(s) THEN e.psl + 1 ELSE 0

\* Every interned value has exactly one lookup entry, at which both searches
\* find it; displacing, shifting and rehashing lose and duplicate none.
Findable ==
  \A i \in Live :
    /\ \E s \in Slots(commit) : FindByKey(values[i]) = {s} /\ FindByValue(i) = {s}
    /\ \A s, t \in Slots(commit) : table[s].id = i /\ table[t].id = i => s = t

\* Displacing on insertion, shifting back on removal and rehashing on growth
\* keep the table well formed, ordered and complete.  (id_from,
\* remove_from_lookups and rehash, id_map.hpp)
Consistent == TypeOK /\ RobinHood /\ Findable

\* The map as its callers see it.
Intern == INSTANCE InternMap
            WITH Ids <- 1 .. Cardinality(Keys),
                 ids <- [k \in {values[i] : i \in Live} |-> CHOOSE i \in Live : values[i] = k]

\* The map interns: a key keeps its id, and no two keys share one.
InternSpec == Intern!Spec
=============================================================================
