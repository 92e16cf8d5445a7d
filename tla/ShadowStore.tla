----------------------------- MODULE ShadowStore -----------------------------
(***************************************************************************)
(* core/shadow_store.cpp and its use by core/interpreter.cpp: members of   *)
(* types that exist at compile time only take no room in a composite.      *)
(* Their values are shadows, kept in blocks of their own and found by the  *)
(* address at which the member lies; values are copied with the shadows of *)
(* every address they cover.  The address map itself is IdMap's.           *)
(***************************************************************************)
EXTENDS Naturals, Sequences, SequencesExt

CONSTANTS
  Metrics,     \* size and align of the types that exist at compile time only
  Composites,  \* by name: size, align, the offsets and types of the members
               \* that are shadows, and the offsets and sizes of the others
  Values,      \* what such a member can hold
  MaxVariables, MaxBlocks  \* bounds on live variables and on blocks

ASSUME SizesAssumption ==
  /\ MaxVariables \in Nat /\ MaxBlocks \in Nat
  /\ \A k \in DOMAIN Metrics : Metrics[k].size \in Nat \ {0} /\ Metrics[k].align \in Nat \ {0}

\* Members lie inside their composite, a shadow possibly at its end.
ASSUME MembersAssumption ==
  \A name \in DOMAIN Composites :
     LET c == Composites[name]
     IN  /\ c.size \in Nat /\ c.align \in Nat \ {0}
         /\ c.shadows \in Seq([offset : 0 .. c.size, type : DOMAIN Metrics])
         /\ \A datum \in c.data : datum.offset \in Nat /\ datum.size \in Nat
                                  /\ datum.offset + datum.size <= c.size

VARIABLES
  layouts,    \* the interned layouts, each the types of the shadows at one address
  places,     \* of the sealed composites: the layout and rank of each shadow
  entries,    \* by address: the layout and the block of the shadows there
  blocks,     \* the bytes of the blocks, by the values they are part of
  variables,  \* the variables of the running code, in the order of their memory
  used,       \* where free memory begins
  location,   \* the member an assignment has looked up and not yet written
  stored      \* of each variable, the values last stored in its shadows

vars == <<layouts, places, entries, blocks, variables, used, location, stored>>

Shadows == [layouts |-> layouts, entries |-> entries, blocks |-> blocks]

Uninit == "uninitialized"
NoLocation == [variable |-> 0]

RoundUp(offset, align) == ((offset + align - 1) \div align) * align

\* Map f with y at x.
Put(f, x, y) == [z \in DOMAIN f \cup {x} |-> IF z = x THEN y ELSE f[z]]

-----------------------------------------------------------------------------
(* Layouts. *)

\* Where a shadow ends that comes next after an offset.
EndAfter(offset, type) == RoundUp(offset, Metrics[type].align) + Metrics[type].size

\* shadow_create_layout: where the shadows of the first ranks end.
Ends(layout) ==
  LET end[rank \in 0 .. Len(layout)] ==
        IF rank = 0 THEN 0 ELSE EndAfter(end[rank - 1], layout[rank])
  IN  end

\* shadow_layout_offset, and the type's size.
Bytes(layout, rank) ==
  LET end == Ends(layout)[rank] IN end - Metrics[layout[rank]].size .. end - 1

SizeOf(layout) == Ends(layout)[Len(layout)]

\* intern_shadow_layout; there is no layout without shadows.
Intern(known, layout) ==
  IF layout = <<>> \/ Contains(known, layout) THEN known ELSE Append(known, layout)

\* The types with that of a shadow, if it lies at the offset.
Join(types, shadow, offset) ==
  IF shadow.offset = offset THEN Append(types, shadow.type) ELSE types

\* The types of those of the first m shadows that lie at an offset, in order.
At(c, offset) ==
  LET types[m \in 0 .. Len(c.shadows)] ==
        IF m = 0 THEN <<>> ELSE Join(types[m - 1], c.shadows[m], offset)
  IN  types

LayoutAt(c, offset) == At(c, offset)[Len(c.shadows)]

\* The layouts with those of the shadows at each offset, in ascending order.
InternAll(known, c) ==
  LET grown[n \in 0 .. c.size + 1] ==
        IF n = 0 THEN known ELSE Intern(grown[n - 1], LayoutAt(c, n - 1))
  IN  grown[c.size + 1]

IdOf(known, layout) == CHOOSE l \in DOMAIN known : known[l] = layout

\* The layout and the rank in it of the m-th shadow.
PlaceIn(known, c, m) ==
  LET offset == c.shadows[m].offset
  IN  [layout |-> IdOf(known, LayoutAt(c, offset)), rank |-> Len(At(c, offset)[m])]

\* type_seal_user_composite, init_user_composite_shadow_data
Seal(name) ==
  LET c == Composites[name]
  IN  /\ name \notin DOMAIN places
      /\ layouts' = InternAll(layouts, c)
      /\ places' = Put(places, name, [m \in DOMAIN c.shadows |-> PlaceIn(layouts', c, m)])
      /\ UNCHANGED <<entries, blocks, variables, used, location, stored>>

-----------------------------------------------------------------------------
(* Entries. *)

HasEntry(s, address, layout) == address \in DOMAIN s.entries /\ s.entries[address].layout = layout

\* The entry that shadow_get and shadow_copy find or make: a new block if
\* there is none at the address, or one of another layout.
WithEntry(s, address, layout) ==
  IF HasEntry(s, address, layout) THEN s
  ELSE [s EXCEPT !.entries = Put(@, address, [layout |-> layout, block |-> Len(s.blocks) + 1]),
                 !.blocks = Append(@, [b \in 0 .. SizeOf(s.layouts[layout]) - 1 |-> Uninit])]

\* Mutant: the copy refers to the block of the original.
CopyAtShared(s, dst, src) ==
  IF src \notin DOMAIN s.entries THEN s
  ELSE [s EXCEPT !.entries = Put(@, dst, s.entries[src])]

\* shadow_copy's step for one address.
CopyAt(s, dst, src) ==
  IF src \notin DOMAIN s.entries THEN s
  ELSE LET from == s.entries[src]
           made == WithEntry(s, dst, from.layout)
       IN  [made EXCEPT !.blocks[made.entries[dst].block] = made.blocks[from.block]]

\* The shadows of a number of addresses, copied in ascending order.
CopyRange(s, dst, src, count) ==
  LET run[n \in 0 .. count] ==
        IF n = 0 THEN s ELSE CopyAt(run[n - 1], dst + n - 1, src + n - 1)
  IN  run[count]

\* Mutant: the address at the end of the range is left out.
CopyShort(s, dst, src, size) == CopyRange(s, dst, src, size)

\* shadow_copy: the addresses of size bytes and the one behind them, where the
\* shadows at the end of a composite lie.
Copy(s, dst, src, size) == CopyRange(s, dst, src, size + 1)

Write(s, block, place, value) ==
  [s EXCEPT !.blocks[block] =
     [b \in DOMAIN @ |-> IF b \in Bytes(s.layouts[place.layout], place.rank) THEN value ELSE @[b]]]

Become(s) == /\ Len(s.blocks) <= MaxBlocks
             /\ entries' = s.entries
             /\ blocks' = s.blocks

-----------------------------------------------------------------------------
(* Variables. *)

Composite(v) == Composites[variables[v].type]

AddressOf(v, m) == variables[v].begin + Composite(v).shadows[m].offset

PlaceOf(v, m) == places[variables[v].type][m]

\* scope_alloc_typed_member, handle_scope_alloc_untyped: the next variable's
\* memory begins where free memory does, padded to its alignment.
NextVariable(type) == [type |-> type, begin |-> RoundUp(used, Composites[type].align)]

Reserve(new) == /\ Len(variables) < MaxVariables
                /\ variables' = Append(variables, new)
                /\ used' = new.begin + Composites[new.type].size

\* handle_composite_preinit: the members are looked up in order.
LookUpAll(s, new, place) ==
  LET shadows == Composites[new.type].shadows
      run[m \in 0 .. Len(shadows)] ==
        IF m = 0 THEN s ELSE WithEntry(run[m - 1], new.begin + shadows[m].offset, place[m].layout)
  IN  run[Len(shadows)]

\* The members' values are converted into the places that were found.
InitializeAll(s, new, place, values) ==
  LET shadows == Composites[new.type].shadows
      run[m \in 0 .. Len(shadows)] ==
        IF m = 0 THEN s
        ELSE Write(run[m - 1], s.entries[new.begin + shadows[m].offset].block, place[m], values[m])
  IN  run[Len(shadows)]

\* A definition with a type and a composite literal: handle_scope_alloc_typed,
\* then handle_composite_preinit, which looks up all members before the
\* values are evaluated and converted into them.
DefineTyped(type, values) ==
  LET new == NextVariable(type)
  IN  /\ type \in DOMAIN places
      /\ Reserve(new)
      /\ stored' = Append(stored, values)
      /\ Become(InitializeAll(LookUpAll(Shadows, new, places[type]), new, places[type], values))
      /\ UNCHANGED <<layouts, places, location>>

\* A definition without a type, of the value of a variable:
\* handle_scope_alloc_untyped.
DefineCopy(v) ==
  LET new == NextVariable(variables[v].type)
  IN  /\ Reserve(new)
      /\ stored' = Append(stored, stored[v])
      /\ Become(Copy(Shadows, new.begin, variables[v].begin, Composite(v).size))
      /\ UNCHANGED <<layouts, places, location>>

\* An assignment of a whole variable: convert_into.
Assign(dst, src) ==
  /\ dst # src /\ variables[dst].type = variables[src].type
  /\ stored' = [stored EXCEPT ![dst] = stored[src]]
  /\ Become(Copy(Shadows, variables[dst].begin, variables[src].begin, Composite(src).size))
  /\ UNCHANGED <<layouts, places, variables, used, location>>

\* An assignment of a member that is no shadow: convert_into.
AssignDatum(dst, src, datum) ==
  /\ dst # src /\ variables[dst].type = variables[src].type
  /\ Become(Copy(Shadows, variables[dst].begin + datum.offset, variables[src].begin + datum.offset, datum.size))
  /\ UNCHANGED <<layouts, places, variables, used, location, stored>>

\* The left side of an assignment of a shadow: handle_load_member, which
\* keeps the place in the block while the right side is evaluated.
Locate(v, m) ==
  LET s == WithEntry(Shadows, AddressOf(v, m), PlaceOf(v, m).layout)
  IN  /\ location = NoLocation
      /\ location' = [variable |-> v, member |-> m, block |-> s.entries[AddressOf(v, m)].block]
      /\ Become(s)
      /\ UNCHANGED <<layouts, places, variables, used, stored>>

\* The value is converted into it.
StoreMember(value) ==
  LET v == location.variable
      m == location.member
  IN  /\ location # NoLocation
      /\ location' = NoLocation
      /\ stored' = [stored EXCEPT ![v][m] = value]
      /\ Become(Write(Shadows, location.block, PlaceOf(v, m), value))
      /\ UNCHANGED <<layouts, places, variables, used>>

\* scope_pop: memory is given back, and the entries of its addresses stay.
EndScope ==
  /\ Len(variables) > location.variable
  /\ used' = Last(variables).begin
  /\ variables' = Front(variables)
  /\ stored' = Front(stored)
  /\ UNCHANGED <<layouts, places, entries, blocks, location>>

Init ==
  /\ layouts = <<>> /\ places = <<>> /\ entries = <<>> /\ blocks = <<>>
  /\ variables = <<>> /\ used = 0 /\ location = NoLocation /\ stored = <<>>

Next ==
  \/ \E name \in DOMAIN Composites : Seal(name)
  \/ \E type \in DOMAIN places :
        \E values \in [DOMAIN Composites[type].shadows -> Values] : DefineTyped(type, values)
  \/ \E v \in DOMAIN variables : DefineCopy(v)
  \/ \E dst, src \in DOMAIN variables :
        \/ Assign(dst, src)
        \/ \E datum \in Composite(dst).data : AssignDatum(dst, src, datum)
  \/ \E v \in DOMAIN variables : \E m \in DOMAIN Composite(v).shadows : Locate(v, m)
  \/ \E value \in Values : StoreMember(value)
  \/ EndScope

Spec == Init /\ [][Next]_vars

-----------------------------------------------------------------------------
(* What the store promises. *)

\* shadow_try_get and the bytes found there.
Reads(v, m, value) ==
  LET place == PlaceOf(v, m)
  IN  /\ HasEntry(Shadows, AddressOf(v, m), place.layout)
      /\ \A b \in Bytes(layouts[place.layout], place.rank) :
            blocks[entries[AddressOf(v, m)].block][b] = value

\* Every member that exists at compile time only reads what was last stored in
\* it, whatever was copied over and around it, however often the memory of its
\* variable and of those it was copied from had been in use before, and
\* whatever happened between the lookup of a member and the store to it
\* (shadow_store.cpp:523, 577; interpreter.cpp:605).
ReadsBack == \A v \in DOMAIN variables : \A m \in DOMAIN stored[v] : Reads(v, m, stored[v][m])

\* A block belongs to one address, and has the size of the layout that the
\* address has there: no later layout or copy leaves two addresses with one
\* block, or one with a block that is too small (shadow_store.cpp:538, 604).
OneOwner ==
  /\ \A a, b \in DOMAIN entries : a # b => entries[a].block # entries[b].block
  /\ \A a \in DOMAIN entries :
       DOMAIN blocks[entries[a].block] = 0 .. SizeOf(layouts[entries[a].layout]) - 1

=============================================================================
