------------------------------ MODULE TypePool ------------------------------
(***************************************************************************)
(* core/type_pool.cpp: the structures behind TypeIds, their lazy hashing,  *)
(* the interning of every hashed structure into a holotype, and the        *)
(* comparison of types that may contain themselves or be still open.       *)
(* Numeric, pointer, array, signature and user-defined composite types and *)
(* the two kinds of indirection are modelled.  Hashes are the sequences of *)
(* what is mixed into them, so that two are equal only if they must be.    *)
(***************************************************************************)
EXTENDS Naturals, Sequences, SequencesExt, FiniteSets, TLC

CONSTANTS
  Widths,      \* widths of the integer types callers use
  Sites,       \* definition sites of create_type_builder calls
  NamesAt,     \* by rank, the names callers give to a composite's member
  Capacity,    \* members for which type_create_user_composite makes room
  Lengths,     \* lengths of the array types callers use
  Muts,        \* mutabilities of the pointer types callers use
  Sizes,       \* sizes callers seal composites with
  MaxHandles,  \* bound on indirections, which hold a composite's place
  MaxLoose,    \* bound on the references callers hold
  MaxTypes     \* bound on structures

ASSUME BoundsAssumption ==
  /\ Widths \subseteq Nat \ {0} /\ Lengths \subseteq Nat
  /\ MaxHandles \in Nat /\ MaxTypes \in Nat /\ Capacity \in Nat \ {0}

VARIABLES
  types,      \* the structures, by TypeId
  holotypes,  \* entries of the holotype map, oldest first
  held,       \* the TypeIds callers have been given
  stopped     \* whether an assertion has failed, which ends the program

vars == <<types, holotypes, held, stopped>>

\* TypeId::INVALID, and a hash that could not be formed.
Invalid == 0
NoHash == <<>>

\* attach: what the type holds besides other types.
Structure(tag, refs, attach) ==
  [tag |-> tag, refs |-> refs, attach |-> attach, hash |-> NoHash, holotype |-> Invalid]

Integer(width) == Structure("Integer", <<>>, width)
Pointer(mut, to) == Structure("Ptr", <<to>>, mut)
Array(length, of) == Structure("Array", <<of>>, length)
Signature(parameters, return) == Structure("Signature", <<return>> \o parameters, 0)
Composite(site) ==
  Structure("Composite", <<>>,
            [open |-> TRUE, site |-> site, size |-> 0, names |-> <<>>, capacity |-> Capacity])
Indirection(targets) == Structure("Indirection", targets, 0)

Ids == DOMAIN types

\* What a call computes with: the structures and the map, which a comparison
\* changes too.
Pool == [types |-> types, holotypes |-> holotypes]

-----------------------------------------------------------------------------
(* Indirections, and the set of types on the path of a traversal. *)

\* structure_from_id_follow: at most two indirections; Invalid if one of
\* them has no target yet.
Follow(p, id) ==
  LET Step(i) == IF i = Invalid \/ p.types[i].tag # "Indirection" THEN i
                 ELSE IF p.types[i].refs = <<>> THEN Invalid ELSE p.types[i].refs[1]
  IN  Step(Step(id))

\* structure_from_id_follow_with_last_indirection: what composite_realloc
\* points to the copy.
LastIndirection(p, id) ==
  LET target == p.types[id].refs[1]
  IN  IF p.types[target].tag = "Indirection" THEN target ELSE id

\* seen_set_push: the highest index at which id is already on the path, or 0.
SeenAt(seen, id) == LET at == {i \in DOMAIN seen : seen[i] = id}
                    IN  IF at = {} THEN 0 ELSE CHOOSE i \in at : \A j \in at : j <= i

-----------------------------------------------------------------------------
(* Hashing. *)

\* fnv1a_step with the bytes of x.
Mix(hash, x) == Append(hash, ToString(x))

RECURSIVE HashOf(_, _, _, _), HashMembers(_, _, _, _, _)

\* hash_type_id, hash_type_structure, hash_type_structure_preseen: the hash of
\* a structure that has one replaces all that was mixed in before.
HashOf(p, hash, seen, id) ==
  LET i == Follow(p, id)
      t == p.types[i]
      at == SeenAt(seen, i)
      on == Append(seen, i)
      tagged == Mix(hash, t.tag)
  IN  IF i = Invalid THEN NoHash
      ELSE IF at # 0 THEN Mix(hash, at)
      ELSE IF t.hash # NoHash THEN t.hash
      ELSE CASE t.tag = "Integer" -> Mix(tagged, t.attach)
             [] t.tag \in {"Ptr", "Array"} -> HashOf(p, Mix(tagged, t.attach), on, t.refs[1])
             [] t.tag = "Composite" ->
                  IF t.attach.open THEN NoHash
                  ELSE HashMembers(p, Mix(tagged, <<t.attach.site, t.attach.size, t.attach.names>>),
                                   on, t.refs, 1)
             [] t.tag = "Signature" ->
                  LET return == HashOf(p, tagged, on, t.refs[1])
                  IN  IF return = NoHash THEN NoHash
                      ELSE HashMembers(p, Mix(return, t.attach), on, t.refs, 2)

\* hash_composite_type's loop over the members from rank k on.
HashMembers(p, hash, seen, refs, k) ==
  IF k > Len(refs) THEN hash
  ELSE LET next == HashOf(p, Mix(hash, "member"), seen, refs[k])
       IN  IF next = NoHash THEN NoHash ELSE HashMembers(p, next, seen, refs, k + 1)

-----------------------------------------------------------------------------
(* Comparison and interning.  A comparison returns the pool it leaves, its  *)
(* verdict and the two paths, which it may leave longer than it got them.   *)

Verdict(p, v, a, b) == [pool |-> p, verdict |-> v, a |-> a, b |-> b]

SameIf(b) == IF b THEN "Equal" ELSE "Unequal"

\* What the comparison of two structures of one tag looks at besides the
\* types they refer to.  The names of members are not among it.
Looks(t) == CASE t.tag = "Composite" -> <<t.attach.site, t.attach.size, Len(t.refs)>>
              [] t.tag = "Signature" -> Len(t.refs)
              [] OTHER -> t.attach

RECURSIVE EqualNoLoop(_, _, _, _, _), EqualAll(_, _, _, _), Search(_, _, _)

\* Mutant: equal hashes are taken for equal types.
SearchByHash(p, i, k) ==
  IF k > Len(p.holotypes)
  THEN [p EXCEPT !.holotypes = Append(@, [id |-> i, hash |-> p.types[i].hash]),
                 !.types[i].holotype = i]
  ELSE IF p.holotypes[k].hash = p.types[i].hash
  THEN [p EXCEPT !.types[i].holotype = p.holotypes[k].id]
  ELSE Search(p, i, k + 1)

\* HolotypeAlloc under IdMap::value_from: the first entry of the same hash
\* that type_is_equal finds equal; comparing may itself add entries.
Search(p, i, k) ==
  LET Next(compared) ==
        IF compared.verdict = "Equal"
        THEN [compared.pool EXCEPT !.types[i].holotype = p.holotypes[k].id]
        ELSE Search(compared.pool, i, k + 1)
  IN  IF k > Len(p.holotypes)
      THEN [p EXCEPT !.holotypes = Append(@, [id |-> i, hash |-> p.types[i].hash]),
                     !.types[i].holotype = i]
      ELSE Next(IF p.holotypes[k].hash = p.types[i].hash
                THEN EqualNoLoop(p, p.holotypes[k].id, i, <<>>, <<>>)
                ELSE Verdict(p, "Unequal", <<>>, <<>>))

\* Mutant: a structure becomes its own holotype without a search.
InternAnew(p, i) ==
  LET hash == HashOf(p, NoHash, <<>>, i)
  IN  IF p.types[i].hash # NoHash \/ hash = NoHash THEN p
      ELSE [p EXCEPT !.types[i].hash = hash, !.types[i].holotype = i,
                     !.holotypes = Append(@, [id |-> i, hash |-> hash])]

\* init_structure_hash and, if that succeeds,
\* holotype_id_from_interned_type_structure.
Intern(p, i) ==
  LET hash == HashOf(p, NoHash, <<>>, i)
  IN  IF p.types[i].hash # NoHash \/ hash = NoHash THEN p
      ELSE Search([p EXCEPT !.types[i].hash = hash], i, 1)

\* The members, the referenced type or the element type of two structures in
\* turn, from rank k on, until a pair is not equal.  r is what is known so far.
EqualAll(r, as, bs, k) ==
  IF r.verdict # "Equal" \/ k > Len(as) THEN r
  ELSE EqualAll(EqualNoLoop(r.pool, as[k], bs[k], r.a, r.b), as, bs, k + 1)

\* Structures i and j under the ids a and b, once those that can be are hashed.
\* A pair met before is taken for equal, and left on the paths.
EqualHashed(p, a, b, i, j, seenA, seenB) ==
  LET s == p.types[i]
      t == p.types[j]
      onA == Append(seenA, a)
      onB == Append(seenB, b)
      Left(r) == [r EXCEPT !.a = Front(@), !.b = Front(@)]
  IN  IF s.holotype # Invalid /\ t.holotype # Invalid
      THEN Verdict(p, SameIf(s.holotype = t.holotype), seenA, seenB)
      ELSE IF s.tag # t.tag THEN Verdict(p, "Unequal", seenA, seenB)
      ELSE IF SeenAt(seenA, a) # SeenAt(seenB, b) THEN Verdict(p, "Unequal", onA, onB)
      ELSE IF SeenAt(seenA, a) # 0 THEN Verdict(p, "Equal", onA, onB)
      ELSE Left(EqualAll(Verdict(p, SameIf(Looks(s) = Looks(t)), onA, onB), s.refs, t.refs, 1))

\* type_is_equal_noloop
EqualNoLoop(p, a, b, seenA, seenB) ==
  LET i == Follow(p, a)
      j == Follow(p, b)
  IN  IF a = b THEN Verdict(p, "Equal", seenA, seenB)
      ELSE IF i = Invalid \/ j = Invalid THEN Verdict(p, "Incomplete", seenA, seenB)
      ELSE IF i = j THEN Verdict(p, "Equal", seenA, seenB)
      ELSE EqualHashed(Intern(Intern(p, i), j), a, b, i, j, seenA, seenB)

\* type_is_equal, whose shortcuts for equal ids and known holotypes
\* type_is_equal_noloop repeats.
IsEqual(p, a, b) == EqualNoLoop(p, a, b, <<>>, <<>>)

-----------------------------------------------------------------------------
(* The calls. *)

Room(n) == Len(types) + n <= MaxTypes

Adopt(p, given) ==
  /\ ~stopped
  /\ types' = p.types
  /\ holotypes' = p.holotypes
  /\ held' = held \cup given
  /\ UNCHANGED stopped

\* Mutant: the id returned is that of the structure whose memory is returned.
FromAttachmentFreed(t) ==
  LET new == Len(types) + 1
      p == Intern([Pool EXCEPT !.types = Append(@, t)], new)
  IN  /\ Room(1)
      /\ IF p.types[new].holotype \in {Invalid, new} THEN Adopt(p, {new})
         ELSE Adopt([p EXCEPT !.types = Front(@)], {new})

\* holotype_id_from_attachment: a structure that can be hashed is interned,
\* and its memory returned when an equal one was there already.
FromAttachment(t) ==
  LET new == Len(types) + 1
      p == Intern([Pool EXCEPT !.types = Append(@, t)], new)
      holotype == p.types[new].holotype
  IN  /\ Room(1)
      /\ IF holotype \in {Invalid, new} THEN Adopt(p, {new})
         ELSE Adopt([p EXCEPT !.types = Front(@)], {holotype})

\* Bounds on the order of calls.  The calls that make a number or open a
\* builder read nothing of other types, so callers make them first.
OnlyTags(tags) == \A i \in Ids : types[i].tag \in tags

Builders == {i \in Ids : types[i].tag = "Composite"}

Handles == {i \in Ids : types[i].tag = "Indirection"}

Unset == {i \in Handles : types[i].refs = <<>>}

\* Until a builder is sealed no call that fills them reads what another one
\* wrote, so callers fill them one after the other, each pointer made just
\* before the member that has its type, and make other types afterwards.
Filling == \A i \in Builders : types[i].attach.open

Loose == {i \in held : types[i].tag \in {"Ptr", "Array", "Signature"}}

RoomForLoose == Cardinality(Loose) < MaxLoose

\* type_create_numeric
CreateNumeric(width) ==
  /\ OnlyTags({"Integer"})
  /\ \A i \in Ids : types[i].attach < width
  /\ FromAttachment(Integer(width))

\* type_create_user_composite
CreateComposite(site) ==
  /\ OnlyTags({"Integer", "Composite", "Indirection"})
  /\ Room(2)
  /\ Cardinality(Handles) < MaxHandles
  /\ Adopt([Pool EXCEPT !.types = @ \o <<Composite(site), Indirection(<<Len(@) + 1>>)>>],
           {Len(types) + 2})

\* type_create_indirection
CreateIndirection ==
  /\ Cardinality(Handles) < MaxHandles
  /\ OnlyTags({"Integer", "Composite", "Indirection"})
  /\ Room(1)
  /\ Adopt([Pool EXCEPT !.types = Append(@, Indirection(<<>>))], {Len(types) + 1})

\* type_set_indirection_target, with a type that is not an unset or a doubled
\* indirection itself.
SetIndirectionTarget(i, to) ==
  /\ i \in Unset
  /\ types[to].tag = "Indirection" => /\ to \notin Unset
                                      /\ types[types[to].refs[1]].tag # "Indirection"
  /\ Adopt([Pool EXCEPT !.types[i].refs = <<to>>], {})

\* type_create_reference
CreateReference(mut, to) ==
  /\ IF Filling THEN Loose = {} ELSE RoomForLoose
  /\ FromAttachment(Pointer(mut, to))

\* type_create_array
CreateArray(length, of) ==
  /\ ~Filling /\ RoomForLoose
  /\ FromAttachment(Array(length, of))

\* The builders that callers may still add to or seal.
Building == {h \in held : /\ types[h].tag = "Indirection"
                          /\ LET i == Follow(Pool, h)
                             IN  i # Invalid /\ i \in Builders /\ types[i].attach.open}

\* composite_realloc: the indirection leads to a copy.  It is made with room for
\* one member more, and the old capacity is copied over the new one.
Reallocated(handle) ==
  [Pool EXCEPT !.types = [Append(@, @[Follow(Pool, handle)])
                            EXCEPT ![LastIndirection(Pool, handle)].refs = <<Len(types) + 1>>]]

\* type_add_user_composite_member: makes room, asserts that there is some, and
\* refuses a name the composite has.
AddMember(handle, name, of) ==
  LET old   == types[Follow(Pool, handle)]
      full  == Len(old.refs) = old.attach.capacity
      p     == IF full THEN Reallocated(handle) ELSE Pool
      i     == Follow(p, handle)
      t     == p.types[i]
      room  == Len(t.refs) < t.attach.capacity
      adds  == room /\ name \notin Range(t.attach.names)
      added == [t EXCEPT !.refs = Append(@, of), !.attach.names = Append(@, name)]
  IN  /\ ~stopped
      /\ Filling
      /\ Loose \subseteq {of}
      /\ types[of].tag # "Indirection"
      /\ \A j \in Builders : j > Follow(Pool, handle) => types[j].refs = <<>>
      /\ full => Room(1)
      /\ stopped' = ~room
      /\ types' = IF adds THEN [p.types EXCEPT ![i] = added] ELSE p.types
      /\ held' = IF adds THEN held \ Loose ELSE held
      /\ UNCHANGED holotypes

\* type_seal_user_composite
Seal(handle, size) ==
  LET i == Follow(Pool, handle)
      closed == [types[i] EXCEPT !.attach.open = FALSE, !.attach.size = size]
      p == Intern([Pool EXCEPT !.types[i] = closed], i)
      holotype == p.types[i].holotype
  IN  /\ Filling => Loose = {}
      /\ Adopt(p, IF holotype = Invalid THEN {} ELSE {holotype})

\* type_is_equal, whose verdict leaves the pool with what it hashed.
Compare(a, b) ==
  LET p == IsEqual(Pool, a, b).pool
  IN  p # Pool /\ Adopt(p, {})

\* The types that id is made of.
Parts(id) ==
  LET Step(S) == S \cup UNION {IF i = Invalid THEN {} ELSE {Follow(Pool, r) : r \in Range(types[i].refs)} : i \in S}
      grow[n \in Nat] == IF n = 0 THEN {Follow(Pool, id)} ELSE Step(grow[n - 1])
  IN  grow[Len(types)]

\* Nothing it is made of is open or undefined.
Complete(id) == \A i \in Parts(id) : /\ i # Invalid
                                     /\ types[i].tag = "Composite" => ~types[i].attach.open

\* type_create_signature, type_add_signature_parameter and
\* type_seal_signature, which asserts that the parameters can be hashed.
CreateSignature(parameters, return) ==
  LET new == Len(types) + 1
      p == Intern([Pool EXCEPT !.types = Append(@, Signature(parameters, return))], new)
  IN  /\ ~Filling /\ RoomForLoose
      /\ Room(1)
      /\ \A k \in DOMAIN parameters : Complete(parameters[k])
      /\ Complete(return)
      /\ Adopt(p, {p.types[new].holotype})

Init == types = <<>> /\ holotypes = <<>> /\ held = {} /\ stopped = FALSE

Next ==
  \/ \E width \in Widths : CreateNumeric(width)
  \/ \E site \in Sites : CreateComposite(site)
  \/ CreateIndirection
  \/ \E i, to \in held : SetIndirectionTarget(i, to)
  \/ \E to \in held, mut \in Muts : CreateReference(mut, to)
  \/ \E of \in held, length \in Lengths : CreateArray(length, of)
  \/ \E return, parameter \in held :
        types[return].tag = "Integer" /\ CreateSignature(<<parameter>>, return)
  \/ \E handle \in Building, of \in held :
        \E name \in NamesAt[Len(types[Follow(Pool, handle)].refs) + 1] : AddMember(handle, name, of)
  \/ \E handle \in Building, size \in Sizes : Seal(handle, size)
  \/ \E a, b \in held : Compare(a, b)

Spec == Init /\ [][Next]_vars

-----------------------------------------------------------------------------
(* What the pool promises. *)

\* Two types have the same meaning if they are built in the same way, at the
\* same sites, from members of the same names and types of the same meaning:
\* the largest such relation, since a type may contain itself.
SameMeaning ==
  LET Alike(i, j) == /\ types[i].tag = types[j].tag
                     /\ types[i].attach = types[j].attach
                     /\ Len(types[i].refs) = Len(types[j].refs)
      Kept(R) == {ij \in R : \A k \in DOMAIN types[ij[1]].refs :
                    <<Follow(Pool, types[ij[1]].refs[k]), Follow(Pool, types[ij[2]].refs[k])>> \in R}
      whole == {i \in Ids \ Handles : Complete(i)}
      round[n \in Nat] == IF n = 0 THEN {ij \in whole \X whole : Alike(ij[1], ij[2])}
                          ELSE Kept(round[n - 1])
  IN  round[Len(types) + 1]

\* The pairs of distinct ids that callers hold and can ask a final verdict of.
Askable == {ab \in held \X held : ab[1] # ab[2] /\ Complete(ab[1]) /\ Complete(ab[2])}

FoundEqual(ab) == IsEqual(Pool, ab[1], ab[2]).verdict = "Equal"

Both(a, b) == <<Follow(Pool, a), Follow(Pool, b)>>

Recursive(id) == \E i \in Parts(id) : \E r \in Range(types[i].refs) : i \in Parts(r)

\* Two types are built by the same calls if walking them side by side pairs
\* their parts one to one; as many rounds as there are types show it.
SameCalls(ab) ==
  LET Below(ij) == {Both(types[ij[1]].refs[k], types[ij[2]].refs[k]) : k \in DOMAIN types[ij[1]].refs}
      met[n \in Nat] == IF n = 0 THEN {Both(ab[1], ab[2])}
                        ELSE met[n - 1] \cup UNION {Below(ij) : ij \in met[n - 1]}
  IN  \A p, q \in met[Len(types)] : p[1] = q[1] <=> p[2] = q[2]

\* Every pointer, array and signature is the type of a member.
OnlyMembers ==
  \A i \in Ids : types[i].tag \in {"Ptr", "Array", "Signature"} =>
    \E j \in Builders : i \in Range(types[j].refs)

\* Every id in a structure, in the map or with a caller names a structure,
\* that of a duplicate whose memory was returned included; and a structure has
\* a hash exactly when it has a holotype, which type_get_holotype asserts, and
\* a holotype is its own.
TypeOK ==
  /\ held \subseteq Ids
  /\ \A i \in Ids :
       /\ Range(types[i].refs) \subseteq Ids
       /\ types[i].hash = NoHash <=> types[i].holotype = Invalid
       /\ types[i].holotype # Invalid => types[types[i].holotype].holotype = types[i].holotype
  /\ \A k \in DOMAIN holotypes : /\ holotypes[k].id \in Ids
                                 /\ types[holotypes[k].id].hash = holotypes[k].hash

\* type_is_equal (type_pool.cpp:2626) never takes two finished types for the
\* same one that are built differently, whatever the order of sealing, the
\* holotypes a comparison left behind and the types still open elsewhere.
\* Hashes are of no help: they forget what precedes a hashed part.
NeverConfused ==
  LET same == SameMeaning
  IN  \A ab \in Askable : FoundEqual(ab) => Both(ab[1], ab[2]) \in same

\* type_is_equal finds two finished types equal that are built alike, whichever
\* was sealed, hashed or interned first.  Types that contain themselves are if
\* the same calls built them and no type apart from those of members was made;
\* else a pointer interned between the two is found in place of one's own.
AlwaysFound ==
  LET same == SameMeaning
  IN  \A ab \in Askable :
        /\ Both(ab[1], ab[2]) \in same
        /\ Recursive(ab[1]) => OnlyMembers /\ SameCalls(ab)
        => FoundEqual(ab)

\* type_pool.cpp:2395: a composite that has no room for another member is given
\* some, so that the assertion behind composite_realloc holds.
RoomMade == ~stopped

\* README.md:449: composites whose members have different names are distinct.
NamesTell ==
  \A ab \in Askable :
    LET s == types[Follow(Pool, ab[1])]
        t == types[Follow(Pool, ab[2])]
    IN  s.tag = "Composite" /\ t.tag = "Composite" /\ s.attach.names # t.attach.names
          => ~FoundEqual(ab)

=============================================================================
