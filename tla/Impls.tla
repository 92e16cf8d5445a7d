--------------------------------- MODULE Impls ---------------------------------
(***************************************************************************)
(* Traits and impls at compile time: the handlers of interpreter.cpp that  *)
(* make an impl, complete its members and find it again through its trait, *)
(* with the types of type_pool.cpp they work on, one action per handler.   *)
(*                                                                         *)
(* A member of an impl is a definition whose code runs on first use, as a  *)
(* global's does, or when the impl's body is completed.  Which impl that   *)
(* code belongs to is on a stack of its own, interp.selfs, with a count of *)
(* the members that are complete below each impl in the making.            *)
(*                                                                         *)
(* Every value has a cell, which the value stack and write contexts name;  *)
(* what becomes of storage that is given back is left to StackMachine.     *)
(***************************************************************************)
EXTENDS ImplCode

CONSTANTS Programs   \* files, as sequences of definitions

VARIABLES file, code, m

vars == <<file, code, m>>

Uninitialized == <<"uninitialized">>
SelfType(i) == <<"self", i>>
BodyType(i) == <<"body", i>>
Count(total, complete) == <<"count", total, complete>>

\* A file is compiled when it is imported; then all its definitions are asked
\* for, or one.
Init ==
  /\ file \in Programs
  /\ code = [g \in DOMAIN file |-> MemberCode(file, g)]
  /\ \E todo \in {DOMAIN file} \cup {{g} : g \in DOMAIN file} :
       m = [todo |-> todo, asked |-> todo, outcome |-> "running", ops |-> <<>>, acts |-> <<>>, calls |-> <<>>,
            globals |-> [g \in DOMAIN file |-> [pending |-> TRUE, initializing |-> FALSE, cell |-> 0]],
            types |-> <<>>, cells |-> <<>>, values |-> <<>>, ctxs |-> <<>>, scopes |-> <<>>,
            closures |-> <<>>, packs |-> <<>>, selfs |-> <<>>, inits |-> <<>>]

-----------------------------------------------------------------------------
(* An opcode. *)

Current == Head(m.ops)

\* After the fetch, which takes the write context off its stack.
Fetched == [m EXCEPT !.ops = Tail(@), !.ctxs = IF Current.ctx THEN Front(@) ELSE @]

Dest == Last(m.ctxs)

CellOf(n) == m.values[Len(m.values) - n + 1]
Content(n) == m.cells[CellOf(n)]

Drop(s, n) == [s EXCEPT !.values = SubSeq(@, 1, Len(@) - n)]

Ends(s, outcome) == [s EXCEPT !.outcome = outcome]
Error(s) == Ends(s, "error")

NewCell(s, v) == [s EXCEPT !.cells = Append(@, v)]
Newest(s) == Len(s.cells)

IsType(v) == v[1] \in {"type", "self", "body"}

KindOf(v) == IF IsType(v) THEN Type("type") ELSE Type(v[1])

Fits(v, type) == type \in {AnyType, KindOf(v)}

ConvertInto(s, v, dst) == IF Fits(v, dst.type) THEN [s EXCEPT !.cells[dst.cell] = v] ELSE Error(s)

\* push_location_value and push_temporary_value.
PushLocation(s, cell) ==
  IF Current.ctx THEN ConvertInto(s, s.cells[cell], Dest) ELSE [s EXCEPT !.values = Append(@, cell)]

PushTemporary(s, v) == PushLocation(NewCell(s, v), Newest(s) + 1)

Running == m.outcome = "running" /\ m.ops # <<>>

\* An opcode runs when its operands are there, which the handlers assert.
Handle(op, operands, after) ==
  /\ Running /\ Current.op = op
  /\ Len(m.values) >= operands
  /\ Current.ctx => m.ctxs # <<>>
  /\ m' = after
  /\ UNCHANGED <<file, code>>

\* Code that runs now, and the opcodes that are run after it.
Enter(s, ops, after) == [s EXCEPT !.acts = Append(@, after), !.ops = ops]

EndCodeOp ==
  Handle("end_code", 0, IF m.acts = <<>> THEN Fetched
                        ELSE [Fetched EXCEPT !.ops = Last(m.acts), !.acts = Front(@)])

Value == Handle("value", 0, PushTemporary(Fetched, Current.arg))

-----------------------------------------------------------------------------
(* Definitions of the file. *)

Begun(member) == [member EXCEPT !.initializing = TRUE]
Completed(member) == [member EXCEPT !.pending = FALSE, !.initializing = FALSE]

\* A member of the file (impl is 0) or of an impl, in interp.global_initializations.
Initializing(impl, rank) == [impl |-> impl, rank |-> rank]

\* type_member_complete, without the end of the initialization.
InCell(s, init, cell) ==
  IF init.impl = 0 THEN [s EXCEPT !.globals[init.rank].cell = cell]
                   ELSE [s EXCEPT !.types[init.impl].body[init.rank].cell = cell]

\* type_member_end_initialization, and the end of the entry.
EndInitialization(s) ==
  LET init == Last(s.inits)
      after == [s EXCEPT !.inits = Front(@)]
  IN  IF init.impl = 0 THEN [after EXCEPT !.globals[init.rank] = Completed(@)]
                       ELSE [after EXCEPT !.types[init.impl].body[init.rank] = Completed(@)]

FileMemberAllocPrepare ==
  Handle("file_member_alloc_prepare", 0,
         LET g == Current.arg
         IN  IF m.globals[g].initializing THEN Ends(Fetched, "circular")
             ELSE [Fetched EXCEPT !.globals[g] = Begun(@), !.inits = Append(@, Initializing(0, g))])

\* handle_file_member_alloc_typed, for members of the file and of impls.
AllocTyped ==
  m.inits # <<>> /\ Handle("alloc_typed", 1,
    IF ~IsType(Content(1)) THEN Error(Fetched)
    ELSE LET after == NewCell(Fetched, Uninitialized)
         IN  [Drop(InCell(after, Last(m.inits), Newest(after)), 1) EXCEPT
                !.ctxs = Append(@, [cell |-> Newest(after), type |-> Content(1)])])

AllocUntyped ==
  Handle("alloc_untyped", 1,
         LET after == NewCell(Drop(Fetched, 1), Content(1))
         IN  EndInitialization(InCell(after, Last(m.inits), Newest(after))))

AllocComplete == Handle("alloc_complete", 0, EndInitialization(Fetched))

\* The write context is there again when the load is repeated.
LoadGlobal ==
  Handle("load_global", 0,
         LET g == m.globals[Current.arg]
         IN  IF g.pending THEN Enter(m, code[Current.arg], m.ops) ELSE PushLocation(Fetched, g.cell))

-----------------------------------------------------------------------------
(* Functions and calls. *)

LoadScope == Handle("load_scope", 0, PushLocation(Fetched, Last(m.scopes)[Current.arg]))

LoadClosure ==
  /\ m.closures # <<>>
  /\ Handle("load_closure", 0, PushTemporary(Fetched, Last(m.closures)[Current.arg]))

Signature == Handle("signature", 0, PushTemporary(Fetched, <<"signature", Current.arg>>))

\* create_closure, of the n topmost values.
ClosureOf(n) == [i \in 1..n |-> Content(n - i + 1)]

Callable(params, arg, closure, self) == <<"func", params, arg, closure, self>>

BindBody ==
  LET n == Current.arg.closed
  IN  /\ Running /\ Current.op = "bind_body"
      /\ Current.arg.self => m.selfs # <<>>
      /\ Handle("bind_body", n + 1,
                PushTemporary(Drop(Fetched, n + 1),
                              Callable(Content(n + 1)[2], Current.arg, ClosureOf(n),
                                       IF Current.arg.self THEN <<Last(m.selfs)>> ELSE <<>>)))

\* The parameters of a function or of a trait, and their type.
ParametersOf(callee) == IF callee[1] = "func" THEN callee[2] ELSE callee[2].params
ParameterType(callee) == IF callee[1] = "func" THEN AnyType ELSE Type("type")

\* What a function is bound to goes on the stack before its arguments are
\* evaluated.
PrepareArgs ==
  Handle("prepare_args", 1,
         LET callee == Content(1)
             after == IF callee[1] = "func" THEN [Fetched EXCEPT !.selfs = @ \o callee[5]] ELSE Fetched
         IN  IF callee[1] \notin {"func", "trait"} THEN Error(Fetched)
             ELSE IF ParametersOf(callee) # Len(Current.arg) THEN Error(after)
             ELSE [after EXCEPT !.packs = Append(@, [callbacks |-> Current.arg, args |-> <<>>,
                                                     type |-> ParameterType(callee)])])

ExecArgs ==
  m.packs # <<>> /\ Handle("exec_args", 1,
    LET pack == Last(m.packs)
        next == Len(pack.args) + 1
        after == NewCell(Fetched, Uninitialized)
    IN  IF next > Len(pack.callbacks) THEN Fetched
        ELSE Enter([after EXCEPT !.packs[Len(m.packs)].args = Append(@, Newest(after)),
                                 !.ctxs = Append(@, [cell |-> Newest(after), type |-> pack.type])],
                   pack.callbacks[next], m.ops))

Arguments_ == [i \in DOMAIN Last(m.packs).args |-> m.cells[Last(m.packs).args[i]]]

PackPopped(s) == [s EXCEPT !.packs = Front(@)]

\* handle_call of a function.  Its result goes to the write context of the
\* call, or to a temporary that is on the value stack already.
CallFunction ==
  /\ Running /\ Current.op = "call" /\ m.packs # <<>>
  /\ Content(1)[1] = "func"
  /\ LET callee == Content(1)
         target == IF Current.ctx THEN [Drop(Fetched, 1) EXCEPT !.ctxs = m.ctxs]
                   ELSE [NewCell(Fetched, Uninitialized) EXCEPT
                           !.values[Len(m.values)] = Newest(m) + 1,
                           !.ctxs = Append(@, [cell |-> Newest(m) + 1, type |-> AnyType])]
         after == [PackPopped(target) EXCEPT
                     !.scopes = Append(@, Last(m.packs).args),
                     !.closures = IF callee[4] = <<>> THEN @ ELSE Append(@, callee[4]),
                     !.calls = Append(@, Len(m.acts) + 1)]
     IN  Handle("call", 1, Enter(after, callee[3].code, Tail(m.ops)))

Return ==
  /\ m.calls # <<>>
  /\ Handle("return", 0,
            [Fetched EXCEPT !.scopes = SubSeq(@, 1, Len(@) - Current.arg), !.calls = Front(@),
                            !.ops = m.acts[Last(m.calls)],
                            !.acts = SubSeq(@, 1, Last(m.calls) - 1)])

PopClosure == m.closures # <<>> /\ Handle("pop_closure", 0, [Fetched EXCEPT !.closures = Front(@)])

PopSelf == m.selfs # <<>> /\ Handle("pop_self", 0, [Fetched EXCEPT !.selfs = Front(@)])

-----------------------------------------------------------------------------
(* Traits and impls.  A self is the type an impl makes; its body has the      *)
(* members.                                                                   *)

TraitOp == Handle("trait", 0, PushTemporary(Fetched, <<"trait", Current.arg>>))

\* A value as type_is_equal and compare see it: an impl is known by the place it
\* is written, what it extends, its trait's arguments, of which it may be one,
\* and what its members closed over.
RECURSIVE Structural(_, _)
Structural(types, v) ==
  LET Same(w) == Structural(types, w)
  IN  CASE v[1] = "self" ->
             LET self == types[v[2]]
             IN  <<"impl", self.node, Same(self.base), self.trait.node,
                   [i \in DOMAIN self.args |-> IF self.args[i] = v THEN <<"own">> ELSE Same(self.args[i])],
                   [i \in DOMAIN self.closure |-> Same(self.closure[i])]>>
        [] v[1] = "body" -> <<"body", Same(SelfType(v[2]))>>
        [] v[1] = "trait" -> <<"trait", v[2].node>>
        [] v[1] = "func" ->
             <<"func", v[3].node, [i \in DOMAIN v[4] |-> Same(v[4][i])],
               [i \in DOMAIN v[5] |-> Same(v[5][i])]>>
        [] OTHER -> v

EqualTypes(types, a, b) == a = b \/ Structural(types, a) = Structural(types, b)

\* What type_implements_trait asks of one of the arguments.
ImplementsAnyhow(types, arg, trait, args) ==   \* mutant: whatever the arguments
  arg[1] = "self" /\ types[arg[2]].trait.node = trait.node

Implements(types, arg, trait, args) ==
  /\ arg[1] = "self"
  /\ types[arg[2]].hasArgs
  /\ types[arg[2]].trait.node = trait.node
  /\ \A i \in DOMAIN args : EqualTypes(types, args[i], types[arg[2]].args[i])

\* It asserts that an impl is of a trait with as many parameters.
OtherCount(types, arg, args) ==
  arg[1] = "self" /\ Len(types[arg[2]].node.args) # Len(args)

\* handle_call of a trait: the body of the first argument that implements it.
CallTrait ==
  /\ Running /\ Current.op = "call" /\ m.packs # <<>>
  /\ Content(1)[1] = "trait"
  /\ LET args == Arguments_
         found == {i \in DOMAIN args : Implements(m.types, args[i], Content(1)[2], args)}
         first == args[Min(found)][2]
         asked == IF found = {} THEN DOMAIN args ELSE 1 .. Min(found)
     IN  Handle("call", 1,
                IF \E i \in asked : OtherCount(m.types, args[i], args) THEN Ends(Fetched, "assert")
                ELSE IF found = {} THEN Error(Fetched)
                ELSE IF ~m.types[first].hasBody THEN Ends(Fetched, "assert")
                ELSE PushTemporary(Drop(PackPopped(Fetched), 1), BodyType(first)))

\* The trait stays on the value stack for the opcodes of the arguments.
ImplMakeSelf ==
  LET n == Current.arg.closed
      trait == Content(n + 1)
      base == Content(n + 2)
      self == [node |-> Current.arg.node, base |-> base, trait |-> trait[2], args |-> <<>>,
               hasArgs |-> FALSE, closure |-> ClosureOf(n), hasBody |-> FALSE, body |-> <<>>,
               sealed |-> FALSE]
      after == [Fetched EXCEPT !.types = Append(@, self), !.selfs = Append(@, SelfType(Len(m.types) + 1)),
                               !.values[Len(m.values) - n - 1] = CellOf(n + 1)]
  IN  /\ Running /\ Current.op = "impl_make_self"
      /\ Handle("impl_make_self", n + 2,
                IF trait[1] # "trait" \/ ~IsType(base) THEN Error(Fetched) ELSE Drop(after, n + 1))

\* Functions and traits are equal to nothing, not to themselves either.
Comparable(v) == v[1] \notin {"func", "trait"}

\* The selfs a new one is equal to, in the table of holotypes.
AlikeSelfs(types, i) ==
  {j \in 1 .. i - 1 : /\ types[j].hasArgs
                      /\ EqualTypes(types, SelfType(i), SelfType(j))
                      /\ \A k \in DOMAIN types[i].closure : Comparable(types[i].closure[k])}

InternSelfAnew(types, i) == i   \* mutant: equal selfs are not found

\* type_set_self_trait_arguments.
InternSelf(types, i) ==
  LET alike == AlikeSelfs(types, i) IN IF alike = {} THEN i ELSE Min(alike)

\* The members of a body: those of the impl, and the trait's defaults for those
\* it leaves out.
Given(impl, name) == SelectSeq(impl, LAMBDA member : member.name = name)
BodyMember(impl, member) ==
  LET given == Given(impl, member.name)
  IN  [name |-> member.name, typeInit |-> member.type, cell |-> 0,
       init |-> IF given = <<>> THEN member.init ELSE given[1].init,
       isDefault |-> given = <<>>, pending |-> TRUE, initializing |-> FALSE]

Acceptable(impl, trait) ==
  /\ \A i \in DOMAIN impl : \E j \in DOMAIN trait : impl[i].name = trait[j].name
                                                  /\ impl[i].mut = trait[j].mut
  /\ \A j \in DOMAIN trait : Given(impl, trait[j].name) # <<>> \/ trait[j].init # <<>>

ReusedRunningOn(s) == [s EXCEPT !.selfs = Front(@)]   \* mutant: completes the body

\* An impl that was made before is used again, and the next opcode, which
\* completes its body, is skipped.
Reused(s) == [s EXCEPT !.selfs = Front(@), !.ops = Tail(@)]

ImplBody ==
  /\ m.packs # <<>> /\ m.selfs # <<>>
  /\ LET partial == Last(m.selfs)[2]
         types == [m.types EXCEPT ![partial].args = Arguments_, ![partial].hasArgs = TRUE]
         complete == InternSelf(types, partial)
         trait == m.types[partial].trait.members
         body == [i \in DOMAIN trait |-> BodyMember(Current.arg, trait[i])]
         after == PackPopped([Drop(Fetched, 1) EXCEPT !.types = types])
     IN  Handle("impl_body", 1,
                IF partial # complete
                THEN PushTemporary(Reused(after), SelfType(complete))
                ELSE IF ~Acceptable(Current.arg, trait) THEN Error(after)
                ELSE PushTemporary([after EXCEPT
                                      !.types[partial].body = body, !.types[partial].hasBody = TRUE,
                                      !.selfs = Front(@) \o <<Count(Len(trait), 0), SelfType(partial)>>],
                                   SelfType(partial)))

PendingAfterNext(body, count) ==   \* mutant: passes one by
  {i \in count[3] + 2 .. count[2] : body[i].pending}

PendingMembers(body, count) == {i \in count[3] + 1 .. count[2] : body[i].pending}

\* Completes the first member that is still pending, and runs again after it.
CompleteImplBody ==
  /\ Len(m.selfs) >= 2
  /\ LET self == Last(m.selfs)[2]
         count == m.selfs[Len(m.selfs) - 1]
         body == m.types[self].body
         pending == PendingMembers(body, count)
         next == Min(pending)
     IN  Handle("complete_impl_body", 0,
                IF pending = {}
                THEN [Fetched EXCEPT !.types[self].sealed = TRUE, !.selfs = SubSeq(@, 1, Len(@) - 2)]
                ELSE Enter([Fetched EXCEPT
                              !.selfs = Append([@ EXCEPT ![Len(@) - 1] = Count(count[2], next)], SelfType(self))],
                           body[next].init, m.ops))

\* The trait says of which type the member is.
ImplMemberAllocPrepare ==
  /\ m.selfs # <<>>
  /\ LET i == Last(m.selfs)[2]
         self == m.types[i]
         rank == CHOOSE r \in DOMAIN self.body : self.body[r].name = Current.arg.name
         after == [Fetched EXCEPT
                     !.closures = IF Current.arg.isDefault \/ self.closure = <<>> THEN @
                                  ELSE Append(@, self.closure)]
     IN  Handle("impl_member_alloc_prepare", 0,
                IF self.body[rank].initializing THEN Ends(after, "circular")
                ELSE Enter([after EXCEPT !.types[i].body[rank] = Begun(@),
                                         !.inits = Append(@, Initializing(i, rank))],
                           self.body[rank].typeInit, Tail(m.ops)))

\* No trait has a closure yet, which this would take off.
EndTraitMemberType == m.selfs # <<>> /\ Handle("end_trait_member_type", 0, Fetched)

CheckTypesEqual ==
  Handle("check_types_equal", 2,
         IF IsType(Content(1)) /\ IsType(Content(2)) /\ EqualTypes(m.types, Content(1), Content(2))
         THEN Drop(Fetched, 1) ELSE Error(Fetched))

ImplMemberAllocComplete ==
  /\ m.selfs # <<>> /\ m.inits # <<>>
  /\ LET self == m.types[Last(m.selfs)[2]]
     IN  Handle("impl_member_alloc_complete", 0,
                EndInitialization([Fetched EXCEPT
                  !.selfs = Front(@),
                  !.closures = IF Current.arg.isDefault \/ self.closure = <<>> THEN @ ELSE Front(@)]))

LoadSelf == m.selfs # <<>> /\ Handle("load_self", 0, PushTemporary(Fetched, Last(m.selfs)))

LoadTraitArgument ==
  /\ m.selfs # <<>>
  /\ Handle("load_trait_argument", 0,
            PushTemporary(Fetched, m.types[Last(m.selfs)[2]].args[Current.arg]))

\* handle_load_member of a type.  The code of a member that is pending is run
\* without a self of its own, and the write context is not put back.
LoadMember ==
  Handle("load_member", 1,
         LET of == Content(1)
             body == m.types[of[2]].body
             ranks == {r \in DOMAIN body : body[r].name = Current.arg}
             member == body[Min(ranks)]
         IN  IF ~IsType(of) THEN Error(Fetched)
             ELSE IF of[1] # "body" THEN Ends(Fetched, "assert")
             ELSE IF ranks = {} THEN Error(Fetched)
             ELSE IF member.pending THEN Enter(Fetched, member.init, m.ops)
             ELSE PushLocation(Drop(Fetched, 1), member.cell))

-----------------------------------------------------------------------------
(* evaluate_file_definition_by_name and evaluate_all_file_definitions, which  *)
(* asks for the definitions in their order until one fails.                   *)

Idle == m.outcome = "running" /\ m.ops = <<>>

Evaluate ==
  /\ Idle /\ m.todo # {}
  /\ LET g == Min(m.todo)
     IN  m' = [m EXCEPT !.todo = @ \ {g},
                        !.ops = IF m.globals[g].pending THEN code[g] ELSE <<>>]
  /\ UNCHANGED <<file, code>>

Finish ==
  /\ Idle /\ m.todo = {}
  /\ m' = Ends(m, "done")
  /\ UNCHANGED <<file, code>>

Next ==
  \/ EndCodeOp \/ Value \/ FileMemberAllocPrepare \/ AllocTyped \/ AllocUntyped \/ AllocComplete
  \/ LoadGlobal \/ LoadScope \/ LoadClosure \/ Signature \/ BindBody \/ PrepareArgs \/ ExecArgs
  \/ CallFunction \/ Return \/ PopClosure \/ PopSelf
  \/ TraitOp \/ CallTrait \/ ImplMakeSelf \/ ImplBody \/ CompleteImplBody
  \/ ImplMemberAllocPrepare \/ EndTraitMemberType \/ CheckTypesEqual \/ ImplMemberAllocComplete
  \/ LoadSelf \/ LoadTraitArgument \/ LoadMember
  \/ Evaluate \/ Finish

\* The interpreter's loop runs until an end of code leaves nothing to run.
Spec == Init /\ [][Next]_vars /\ WF_vars(Next)

-----------------------------------------------------------------------------
(* What a file means: its expressions evaluated in environments of values,    *)
(* with a self and the arguments of a trait where they have them.  An impl is *)
(* a value that names what is written, what it extends, its trait, its        *)
(* arguments and what it captured; its members are evaluated when they are    *)
(* asked for.  Fuel ends the evaluation of a definition that needs itself.    *)

Failed == <<"failed">>

Env(variables, arguments, self) == [vars |-> variables, args |-> arguments, self |-> self]
NoNames == <<>>
Binds(names, values) == [n \in ToSet(names) |-> values[Rank(names, n)]]

Denotes(v) == v[1] \in {"type", "impl", "body", "own"}   \* a type
Suits(v, type) ==
  type \in {AnyType, IF Denotes(v) THEN Type("type") ELSE Type(v[1])}

\* The variables among names, in the order of their first mention.
Captured(names, env) ==
  FoldLeft(LAMBDA closed, n : IF n \in DOMAIN env.vars /\ ~Contains(closed, n) THEN Append(closed, n)
                                                                               ELSE closed,
           <<>>, names)

Named(definitions, n) == definitions[CHOOSE i \in DOMAIN definitions : definitions[i].name = n]
HasNamed(definitions, n) == \E i \in DOMAIN definitions : definitions[i].name = n

MembersAgree(impl, trait) ==
  /\ \A i \in DOMAIN impl : HasNamed(trait, impl[i].name)
                            /\ Named(trait, impl[i].name).mut = impl[i].mut
  /\ \A i \in DOMAIN trait : HasNamed(impl, trait[i].name) \/ trait[i].value # Absent

OwnArguments(impl) == [i \in DOMAIN impl[5] |-> IF impl[5][i] = <<"own">> THEN impl ELSE impl[5][i]]

RECURSIVE Eval(_, _, _)

\* A value of a type that is given, or left to the value.
EvalTyped(type, value, envType, env, fuel) ==
  LET t == IF type = Absent THEN AnyType ELSE Eval(type, envType, fuel)
      v == Eval(value, env, fuel)
  IN  IF ~Denotes(t) \/ v = Failed \/ ~Suits(v, t) THEN Failed ELSE v

EvalMember(impl, n, fuel) ==
  LET node == impl[2]
      required == Named(impl[4].members, n)
      given == Named(node.members, n)
      asTrait(self) == Env(NoNames, Binds(impl[4].params, OwnArguments(impl)), self)
      asImpl == Env(Binds(impl[6][1], impl[6][2]), NoNames, <<impl>>)
  IN  IF ~HasNamed(node.members, n)
      THEN EvalTyped(required.type, required.value, asTrait(<<impl>>), asTrait(<<>>), fuel)
      ELSE IF given.type # Absent
              /\ Eval(given.type, asImpl, fuel) # Eval(required.type, asTrait(<<impl>>), fuel)
      THEN Failed
      ELSE EvalTyped(required.type, given.value, asTrait(<<impl>>), asImpl, fuel)

EvalGlobal(n, fuel) ==
  LET noEnv == Env(NoNames, NoNames, <<>>)
      global == Named(file, n)
  IN  EvalTyped(global.type, global.value, noEnv, noEnv, fuel)

EvalCall(callee, args, fuel) ==
  LET impls == {i \in DOMAIN args : /\ args[i][1] = "impl" /\ args[i][4] = callee[2]
                                    /\ OwnArguments(args[i]) = args}
  IN  CASE Contains(args, Failed) -> Failed
        [] callee[1] = "func" /\ Len(args) = Len(callee[2].params) ->
             Eval(callee[2].body,
                  Env(Binds(callee[2].params \o callee[3][1], args \o callee[3][2]), NoNames, callee[4]),
                  fuel)
        [] callee[1] = "trait" /\ impls # {} -> <<"body", args[Min(impls)]>>
        [] OTHER -> Failed

EvalImpl(e, base, trait, args, closed, env, fuel) ==
  LET impl == <<"impl", e, base, trait[2], args, <<closed, [i \in DOMAIN closed |-> env.vars[closed[i]]]>>>>
  IN  IF /\ Denotes(base) /\ trait[1] = "trait" /\ Len(args) = Len(trait[2].params)
         /\ \A i \in DOMAIN args : Denotes(args[i])
         /\ MembersAgree(e.members, trait[2].members)
         /\ \A i \in DOMAIN trait[2].members : EvalMember(impl, trait[2].members[i].name, fuel) # Failed
      THEN impl ELSE Failed

Eval(e, env, fuel) ==
  LET Of(f) == Eval(f, env, fuel)
      values(seq) == [i \in DOMAIN seq |-> Of(seq[i])]
      captured(names) == Captured(names, env)
  IN  CASE fuel = 0 -> Failed
        [] e.form = "lit" -> e.is
        [] e.form = "self" -> env.self[1]
        [] e.form = "name" /\ e.name \in DOMAIN env.vars -> env.vars[e.name]
        [] e.form = "name" /\ e.name \in DOMAIN env.args -> env.args[e.name]
        [] e.form = "name" -> EvalGlobal(e.name, fuel - 1)
        [] e.form = "get" -> LET of == Of(e.of)
                             IN  IF of[1] = "body" /\ HasNamed(of[2][4].members, e.name)
                                 THEN EvalMember(of[2], e.name, fuel - 1) ELSE Failed
        [] e.form = "call" -> EvalCall(Of(e.callee), values(e.args), fuel - 1)
        [] e.form = "func" -> LET closed == captured(Names(e))
                              IN  <<"func", e, <<closed, [i \in DOMAIN closed |-> env.vars[closed[i]]]>>,
                                    env.self>>
        [] e.form = "trait" -> <<"trait", e>>
        [] e.form = "impl" ->
             EvalImpl(e, Of(e.base), Of(e.trait),
                      [i \in DOMAIN e.args |-> Eval(e.args[i], [env EXCEPT !.self = <<<<"own">>>>], fuel)],
                      captured(MemberNames(e)), env, fuel - 1)

\* The values of the evaluation without the names of what they captured.
RECURSIVE Shape(_)
Shape(v) ==
  LET Each(seq) == [i \in DOMAIN seq |-> Shape(seq[i])]
  IN  CASE v[1] = "impl" -> <<"impl", v[2], Shape(v[3]), v[4], Each(v[5]), Each(v[6][2])>>
        [] v[1] = "func" -> <<"func", v[2], Each(v[3][2]), Each(v[4])>>
        [] v[1] = "body" -> <<"body", Shape(v[2])>>
        [] OTHER -> v

-----------------------------------------------------------------------------
Fuel == 12

Meaning(g) == EvalGlobal(file[g].name, Fuel)

\* What is asked for is evaluated without an error exactly if all of it has a
\* meaning, and then every definition that is complete has the value it means:
\* members get the self, the arguments and the captured values of their own
\* impl, wherever and whenever their code is run, and a trait finds the impl
\* that is of it.  (handle_impl_body and its successors, interpreter.cpp)
Means ==
  /\ m.outcome \in {"running", "done", "error", "circular"}
  /\ m.outcome # "running" => (m.outcome = "done" <=> \A g \in m.asked : Meaning(g) # Failed)
  /\ m.outcome = "done" =>
       \A g \in DOMAIN file :
         ~m.globals[g].pending =>
           Structural(m.types, m.cells[m.globals[g].cell]) = Shape(Meaning(g))

\* Where the stack of selfs has a count, and so an impl above it whose body is
\* being completed.
Counts == {k \in DOMAIN m.selfs : m.selfs[k][1] = "count"}

\* Between two definitions that are asked for, nothing is left on any stack: an
\* impl that is made anew and one that is found again, whose completion is
\* skipped, leave the same.
Balanced ==
  Idle => /\ m.values = <<>> /\ m.ctxs = <<>> /\ m.scopes = <<>> /\ m.closures = <<>>
          /\ m.packs = <<>> /\ m.selfs = <<>> /\ m.inits = <<>> /\ m.acts = <<>> /\ m.calls = <<>>

\* The bodies that are not sealed are those of the impls with a count below
\* them, one for each: the members before the count are complete, and those
\* after it untouched.
BodiesInProgress ==
  m.outcome = "running" =>
    /\ \A k \in Counts :
         LET body == m.types[m.selfs[k + 1][2]].body
         IN  /\ k < Len(m.selfs) /\ m.selfs[k][2] = Len(body)
             /\ \A i \in DOMAIN body :
                  /\ i < m.selfs[k][3] => ~body[i].pending
                  /\ i > m.selfs[k][3] => body[i].pending /\ ~body[i].initializing
    /\ \A t \in {t \in DOMAIN m.types : m.types[t].hasBody} :
         IF m.types[t].sealed THEN \A i \in DOMAIN m.types[t].body : ~m.types[t].body[i].pending
                              ELSE Cardinality({k \in Counts : m.selfs[k + 1] = SelfType(t)}) = 1

\* The selfs on the stack, and the flags of the members they are of, are at
\* every step those of the impls in the making, and none is left in the end.
\* (handle_impl_body and handle_complete_impl_body, interpreter.cpp)
SelfsAccounted == Balanced /\ BodiesInProgress

\* A member that is complete stays as it is, and no second impl with a body is
\* ever equal to one there is, so that equal calls make one impl.
\* (type_set_self_trait_arguments, type_pool.cpp)
OneBodyPerImpl ==
  [][\A t \in DOMAIN m.types :
       /\ \A i \in DOMAIN m.types[t].body :
            ~m.types[t].body[i].pending => m'.types[t].body[i] = m.types[t].body[i]
       /\ m'.types[t].hasBody /\ ~m.types[t].hasBody => AlikeSelfs(m'.types, t) = {}]_vars

\* Every file is compiled, or refused, in the end.
Terminates == <>(m.outcome # "running")
=============================================================================
