------------------------------- MODULE ImplCode -------------------------------
(***************************************************************************)
(* Traits and impls: their syntax, the names lexical_analyser.cpp binds in *)
(* them, and the code that opcode_pool.cpp emits for them.                 *)
(*                                                                         *)
(*   trait(A, B) { let x: <type> = <default> ... }                         *)
(*   <base> impl Tr(self, <type>) { let x: <type> = <value> ... }          *)
(*                                                                         *)
(* A function has parameters without types or defaults, whose arguments    *)
(* are given in order.  There are no blocks: the scopes that hold          *)
(* variables are those of functions.  A fixup is the code it leads to.     *)
(***************************************************************************)
EXTENDS Integers, Sequences, SequencesExt

(* Values a literal may have.  A type is named by what its values are.     *)

Num(n) == <<"num", n>>
Type(of) == <<"type", of>>
AnyType == Type("any")

(* Expressions and definitions.  Identifiers are numbers, in the order in  *)
(* which the source first mentions them.                                   *)

Lit(v) == [form |-> "lit", is |-> v]
Name(n) == [form |-> "name", name |-> n]
SelfRef == [form |-> "self"]
Get(e, n) == [form |-> "get", of |-> e, name |-> n]
Call(f, args) == [form |-> "call", callee |-> f, args |-> args]
Func(params, body) == [form |-> "func", params |-> params, body |-> body]
Trait(site, params, members) ==
  [form |-> "trait", site |-> site, params |-> params, members |-> members]
Impl(site, base, trait, args, members) ==
  [form |-> "impl", site |-> site, base |-> base, trait |-> trait, args |-> args, members |-> members]
Absent == [form |-> "absent"]

Define(n, mut, type, value) == [name |-> n, mut |-> mut, type |-> type, value |-> value]

-----------------------------------------------------------------------------
(* Names.  A scope has the names defined in it so far, and may be where a  *)
(* closure begins, which then has the names in closed.                     *)

Scope(kind, names, closes, closed) ==
  [kind |-> kind, names |-> names, closes |-> closes, closed |-> closed]

Defined(definitions, i) == [j \in 1..i |-> definitions[j].name]

\* The names in an expression that are not its own parameters.
RECURSIVE Names(_)
Names(e) ==
  CASE e.form = "name" -> <<e.name>>
    [] e.form = "get" -> Names(e.of)
    [] e.form = "call" -> Names(e.callee) \o FlattenSeq([i \in DOMAIN e.args |-> Names(e.args[i])])
    [] e.form = "func" -> SelectSeq(Names(e.body), LAMBDA n : ~Contains(e.params, n))
    [] e.form = "impl" ->
         Names(e.base) \o Names(e.trait) \o FlattenSeq([i \in DOMAIN e.args |-> Names(e.args[i])])
           \o FlattenSeq([i \in DOMAIN e.members |->
                            Names(e.members[i].type) \o Names(e.members[i].value)])
    [] OTHER -> <<>>

MemberNames(impl) ==
  FlattenSeq([i \in DOMAIN impl.members |->
                Names(impl.members[i].type) \o Names(impl.members[i].value)])

Innermost(n, env) == CHOOSE i \in DOMAIN env : Contains(env[i].names, n)
                                              /\ \A j \in i + 1 .. Len(env) : ~Contains(env[j].names, n)

ClosuresIn(env, i) == {j \in i + 1 .. Len(env) : env[j].closes}

Rank(seq, n) == CHOOSE i \in DOMAIN seq : seq[i] = n

\* resolve_names_rec of an identifier.  The scope of the definitions in an
\* impl or a trait is of the kind of a file's.
Binding(n, env) ==
  LET i == Innermost(n, env)
      rank == Rank(env[i].names, n)
      closures == ClosuresIn(env, i)
  IN  CASE env[i].kind = "global" -> [op |-> "load_global", rank |-> rank]
        [] env[i].kind = "trait" -> [op |-> "load_trait_argument", rank |-> rank]
        [] env[i].kind = "local" /\ closures = {} -> [op |-> "load_scope", rank |-> rank]
        [] OTHER -> [op |-> "load_closure", rank |-> Rank(env[Max(closures)].closed, n)]

IsLocal(n, env) == Binding(n, env).op \in {"load_scope", "load_closure"}

\* The closure list of what these names are in, in the order of their first
\* use.
Closed(names, env) ==
  FoldLeft(LAMBDA closed, n : IF Contains(closed, n) \/ ~IsLocal(n, env) THEN closed
                                                                      ELSE Append(closed, n),
           <<>>, names)

FuncScope(f, env) == Scope("local", f.params, TRUE, Closed(Names(f), env))
ImplScope(impl, i, env) ==
  Scope("global", Defined(impl.members, i), TRUE, Closed(MemberNames(impl), env))
TraitScopes(t, i) ==
  <<Scope("trait", t.params, TRUE, <<>>), Scope("global", Defined(t.members, i), FALSE, <<>>)>>

-----------------------------------------------------------------------------
(* Emission. *)

Op(op, ctx, arg) == [op |-> op, ctx |-> ctx, arg |-> arg]

Plain(op, arg) == <<Op(op, FALSE, arg)>>

EndCode == Plain("end_code", 0)

\* sort_members.
Sorted(members) == SortSeq(members, LAMBDA a, b : a.name < b.name)

RECURSIVE Code(_, _, _, _)

\* opcodes_from_arguments; the callbacks have what the call's own code has.
Arguments(args, env, self) ==
  Plain("prepare_args", [i \in DOMAIN args |-> Code(args[i], TRUE, env, self) \o EndCode])
    \o Plain("exec_args", 0)

\* emit_closure_values.
ClosureValues(closed, env) ==
  [i \in DOMAIN closed |-> LET b == Binding(closed[i], env) IN Op(b.op, FALSE, b.rank)]

\* The fixup of a function's body.  What is bound to a self takes it off again.
FuncBody(f, env, self) ==
  LET closed == FuncScope(f, env).closed
  IN  Code(f.body, TRUE, Append(env, FuncScope(f, env)), self)
        \o (IF closed = <<>> THEN <<>> ELSE Plain("pop_closure", 0))
        \o (IF self THEN Plain("pop_self", 0) ELSE <<>>)
        \o Plain("return", 1)

\* The fixups of a trait's members.  The type of a member may say self; its
\* default only where the trait itself may.
TraitMember(t, i, env, self) ==
  LET member == t.members[i]
      inner == env \o TraitScopes(t, i)
  IN  [name |-> member.name, mut |-> member.mut,
       type |-> Code(member.type, FALSE, inner, TRUE) \o EndCode,
       init |-> IF member.value = Absent THEN <<>>
                ELSE Plain("impl_member_alloc_prepare", [name |-> member.name, isDefault |-> TRUE])
                       \o Plain("alloc_typed", 0)
                       \o Code(member.value, TRUE, inner, self)
                       \o Plain("impl_member_alloc_complete", [isDefault |-> TRUE]) \o EndCode]

\* The fixup of an impl's member.
ImplMember(impl, i, env) ==
  LET member == impl.members[i]
      inner == Append(env, ImplScope(impl, i, env))
  IN  [name |-> member.name, mut |-> member.mut,
       init |-> Plain("impl_member_alloc_prepare", [name |-> member.name, isDefault |-> FALSE])
                  \o Plain("end_trait_member_type", 0)
                  \o (IF member.type = Absent THEN <<>>
                      ELSE Code(member.type, FALSE, inner, TRUE) \o Plain("check_types_equal", 0))
                  \o Plain("alloc_typed", 0)
                  \o Code(member.value, TRUE, inner, TRUE)
                  \o Plain("impl_member_alloc_complete", [isDefault |-> FALSE]) \o EndCode]

\* The slots of the members, by name.  Every member is put where the first one
\* belongs, and the fixups are completed from the last to the first: what is
\* there has the name of the last member and the code of the first one.  The
\* other slots are not written; what memory has there names no member.
Unwritten == [name |-> 0, mut |-> FALSE, init |-> <<>>]

ImplMembers(impl, env) ==
  LET members == [i \in DOMAIN impl.members |-> ImplMember(impl, i, env)]
  IN  [i \in DOMAIN members |->
         IF Sorted(members)[i].name # members[1].name THEN Unwritten
         ELSE [Last(members) EXCEPT !.init = members[1].init]]

\* opcodes_from_expression: into a write context or onto the value stack, with
\* a self or without one.
Code(e, ctx, env, self) ==
  CASE e.form = "lit" -> <<Op("value", ctx, e.is)>>
    [] e.form = "name" -> LET b == Binding(e.name, env) IN <<Op(b.op, ctx, b.rank)>>
    [] e.form = "self" -> <<Op("load_self", ctx, 0)>>
    [] e.form = "get" -> Code(e.of, FALSE, env, self) \o <<Op("load_member", ctx, e.name)>>
    [] e.form = "call" -> Code(e.callee, FALSE, env, self) \o Arguments(e.args, env, self)
                            \o <<Op("call", ctx, 0)>>
    [] e.form = "func" ->
         LET closed == FuncScope(e, env).closed
         IN  Plain("signature", Len(e.params)) \o ClosureValues(closed, env)
               \o <<Op("bind_body", ctx, [code |-> FuncBody(e, env, self), node |-> e,
                                          closed |-> Len(closed), self |-> self])>>
    [] e.form = "trait" ->
         <<Op("trait", ctx,
              [node |-> e, params |-> Len(e.params),
               members |-> Sorted([i \in DOMAIN e.members |-> TraitMember(e, i, env, self)])])>>
    [] e.form = "impl" ->
         LET closed == ImplScope(e, 0, env).closed
         IN  Code(e.base, FALSE, env, self) \o Code(e.trait, FALSE, env, self)
               \o ClosureValues(closed, env)
               \o Plain("impl_make_self", [node |-> e, closed |-> Len(closed)])
               \o Arguments(e.args, env, TRUE)
               \o <<Op("impl_body", ctx, ImplMembers(e, env))>>
               \o Plain("complete_impl_body", 0)

\* opcodes_from_file_member_ast, of definitions that do not mention themselves.
MemberCode(file, g) ==
  LET member == file[g]
      env == <<Scope("global", Defined(file, Len(file)), FALSE, <<>>)>>
  IN  Plain("file_member_alloc_prepare", g)
        \o (IF member.type = Absent THEN <<>>
            ELSE Code(member.type, FALSE, env, FALSE) \o Plain("alloc_typed", 0))
        \o Code(member.value, member.type # Absent, env, FALSE)
        \o (IF member.type = Absent THEN Plain("alloc_untyped", 0) ELSE Plain("alloc_complete", 0))
        \o EndCode
=============================================================================
