----------------------------- MODULE StackMachine -----------------------------
(***************************************************************************)
(* interpreter.cpp: the machine that runs the code of a file member, one   *)
(* action per opcode handler.                                              *)
(*                                                                         *)
(* Storage is a sequence of cells per region, a cell holding one value of  *)
(* any size: the temporaries, the data of scope members (one cell each),   *)
(* the closures on the compile-time heap, and the member being defined.    *)
(* What is popped keeps its content until it is overwritten.  A value on a *)
(* stack is a place; its type is that of the content.                      *)
(*                                                                         *)
(* Not modelled: as in Emission; and an error ends the run, whose stacks   *)
(* nobody looks at again.                                                  *)
(***************************************************************************)
EXTENDS Emission, Evaluator

\* Sources: the file members compiled and run, each a type (none, or one node)
\* and a value.  Stale: what memory a fixup reuses may hold.
CONSTANTS Sources, Stale

VARIABLES source, code, m

vars == <<source, code, m>>

Regions == {"temporary_data", "scope_data", "heap", "global", "prelude"}

Place(in, at) == [in |-> in, at |-> at, element |-> 0]

Holds(place, mut) == [place |-> place, mut |-> mut]

\* Depths of the four stacks the emitter keeps track of.
Depth(s) == Effect(Len(s.values), Len(s.scopes), Len(s.ctxs), Len(s.closures))

\* The globals that are complete when the member is computed have their values.
Storage == [r \in Regions |-> IF r = "prelude" THEN [i \in DOMAIN Prelude |-> TypeValue(Prelude[i])]
                                              ELSE <<>>]

\* base is no part of the program: the depths below the code now running.
Idle ==
  [pc |-> 1, base |-> NoEffect, outcome |-> "running", values |-> <<>>, ctxs |-> <<>>,
   scopes |-> <<>>, members |-> <<>>, temps |-> 0, memory |-> Storage,
   closures |-> <<>>, packs |-> <<>>, callbacks |-> <<>>, calls |-> <<>>, acts |-> <<>>]

\* The member has been compiled when the machine starts.
Init ==
  \E member \in Sources, stale \in Stale :
    \E names \in {ResolveNames(member.value)} :
      \E e \in {IF names.lex.error THEN [NewEmitter(stale) EXCEPT !.status = "error"]
                                    ELSE EmitMember(NewEmitter(stale), member.type, names.node)} :
        /\ source = member
        /\ code = e.code
        /\ m = [Idle EXCEPT !.outcome = IF e.status = "ok" THEN @ ELSE e.status]

-----------------------------------------------------------------------------
(* Storage.                                                                *)

Put(cells, i, v) == IF i <= Len(cells) THEN [cells EXCEPT ![i] = v] ELSE Append(cells, v)

Read(s, place) ==
  LET cell == s.memory[place.in][place.at]
  IN  IF place.element = 0 THEN cell ELSE cell.is[place.element]

Write(s, place, v) ==
  IF place.element = 0 THEN [s EXCEPT !.memory[place.in][place.at] = v]
                       ELSE [s EXCEPT !.memory[place.in][place.at].is[place.element] = v]

TypeAt(s, place) == TypeOfValue(Read(s, place))

\* alloc_temporary_value_uninit, and what is then written.
AllocTemporary(s, v) ==
  [s EXCEPT !.memory["temporary_data"] = Put(@, s.temps + 1, v), !.temps = @ + 1]

NewTemporary(s) == Holds(Place("temporary_data", s.temps), TRUE)

\* A member at the top of the member stack and of their data.
AllocMember(s, member, v) ==
  [s EXCEPT !.members = Append(@, member),
            !.memory["scope_data"] = Put(@, Len(s.members) + 1, v)]

NewMember(s) == Place("scope_data", Len(s.members))

\* A member of a type, and a write context for it.
ScopeAllocTypedMember(s, member, type) ==
  LET after == AllocMember(s, member, Blank(type))
  IN  [after EXCEPT !.ctxs = Append(@, [place |-> NewMember(after), type |-> type])]

-----------------------------------------------------------------------------
(* An opcode.                                                              *)

Op == code[m.pc].is

\* After the fetch, which takes the write context off its stack.
Fetched == [m EXCEPT !.pc = @ + 1, !.ctxs = IF Op.ctx THEN Front(@) ELSE @]

Dest == Last(m.ctxs)

\* The nth value from the top, as a value on the stack and as what it holds.
Operand(n) == m.values[Len(m.values) - n + 1]
Content(n) == Read(m, Operand(n).place)

Drop(s, n) == [s EXCEPT !.values = SubSeq(@, 1, Len(@) - n)]

PushValue(s, v) == [s EXCEPT !.values = Append(@, v)]

Error(s) == [s EXCEPT !.outcome = "error"]

ConvertInto(s, v, dst) == IF Fits(v, dst.type) THEN Write(s, dst.place, v) ELSE Error(s)

\* push_location_value and push_temporary_value.  After Drop they are the
\* handlers' poppush_....
PushLocation(s, v) ==
  IF Op.ctx THEN ConvertInto(s, Read(s, v.place), Dest) ELSE PushValue(s, v)

PushTemporary(s, v) ==
  LET after == AllocTemporary(s, v)
  IN  IF Op.ctx THEN ConvertInto(s, v, Dest) ELSE PushValue(after, NewTemporary(after))

Runs(op) == m.outcome = "running" /\ Op.op = op

\* An opcode runs when its operands are there, which the handlers assert.
Handle(op, operands, after) ==
  /\ Runs(op)
  /\ Len(m.values) >= operands
  /\ Op.ctx => m.ctxs # <<>>
  /\ m' = after
  /\ UNCHANGED <<source, code>>

\* A jump to code that was emitted apart, and the activation to come back to.
Enter(s, pc) == [s EXCEPT !.pc = pc, !.base = Minus(Depth(s), code[pc].at)]

PushActivation(s, pc) == [s EXCEPT !.acts = Append(@, [pc |-> pc, base |-> m.base])]

\* A handler that returns null.
Resume(s) ==
  IF s.acts = <<>> THEN [s EXCEPT !.outcome = "done"]
  ELSE [s EXCEPT !.pc = Last(s.acts).pc, !.base = Last(s.acts).base, !.acts = Front(@)]

EndCodeOp == Handle("end_code", 0, Resume(Fetched))

-----------------------------------------------------------------------------
(* Write contexts and scopes.                                              *)

OperandAsCtx ==
  IF Operand(1).mut
    THEN [Fetched EXCEPT !.ctxs = Append(@, [place |-> Operand(1).place,
                                             type |-> TypeAt(m, Operand(1).place)])]
    ELSE Error(Fetched)

SetWriteCtx == Handle("set_write_ctx", 1, Drop(OperandAsCtx, 1))

DuplicateToWriteCtx == Handle("duplicate_to_write_ctx", 1, OperandAsCtx)

PushScopeAt(s, first) ==
  [s EXCEPT !.scopes = Append(@, [first |-> first, temps |-> s.temps])]

\* scope_pop.  first is the number of members below the scope's own.
ScopePop(s) ==
  [s EXCEPT !.scopes = Front(@), !.temps = Last(s.scopes).temps,
            !.members = SubSeq(@, 1, Last(s.scopes).first)]

ScopeBegin == Handle("scope_begin", 0, PushScopeAt(Fetched, Len(m.members)))

ScopeEnd == m.scopes # <<>> /\ Handle("scope_end", 0, ScopePop(Fetched))

\* Mutant: the value of the block stays among its temporaries.
ScopeEndKeepTop == m.scopes # <<>> /\ Handle("scope_end_preserve_top", 1, ScopePop(Fetched))

\* A temporary of the scope moves to where the scope's temporaries began.
ScopeEndPreserveTop ==
  LET place == Operand(1).place
      kept == Last(m.scopes).temps + 1
      moved == [Fetched EXCEPT !.memory["temporary_data"][kept] = Content(1),
                               !.scopes[Len(m.scopes)].temps = kept,
                               !.values[Len(m.values)].place = Place("temporary_data", kept)]
  IN  /\ m.scopes # <<>>
      /\ Handle("scope_end_preserve_top", 1,
                ScopePop(IF place.in = "temporary_data" /\ place.at >= kept THEN moved ELSE Fetched))

ScopeAllocTyped ==
  Handle("scope_alloc_typed", 1,
         IF Content(1).tag = "type"
           THEN ScopeAllocTypedMember(Drop(Fetched, 1), Op.arg, Content(1).is)
           ELSE Error(Fetched))

ScopeAllocUntyped ==
  Handle("scope_alloc_untyped", 1, AllocMember(Drop(Fetched, 1), Op.arg, Content(1)))

FileMemberAllocTyped ==
  Handle("file_member_alloc_typed", 1,
         IF Content(1).tag = "type"
           THEN [Drop(Fetched, 1) EXCEPT
                   !.memory["global"] = <<Blank(Content(1).is)>>,
                   !.ctxs = Append(@, [place |-> Place("global", 1), type |-> Content(1).is])]
           ELSE Error(Fetched))

FileMemberAllocUntyped ==
  Handle("file_member_alloc_untyped", 1,
         [Drop(Fetched, 1) EXCEPT !.memory["global"] = <<Content(1)>>])

FileMemberAllocComplete ==
  Handle("file_member_alloc_complete", 0, [Fetched EXCEPT !.temps = 0])

-----------------------------------------------------------------------------
(* Names and values.                                                       *)

MemberIndex(out, rank) == m.scopes[Len(m.scopes) - out].first + rank

LoadScope ==
  LET i == MemberIndex(Op.arg.out, Op.arg.rank)
  IN  /\ Runs("load_scope")
      /\ Op.arg.out < Len(m.scopes)
      /\ i <= Len(m.members)
      /\ Handle("load_scope", 0,
                PushLocation(Fetched, Holds(Place("scope_data", i), m.members[i].mut)))

LoadClosure ==
  LET i == Last(m.closures).at + Op.arg.rank
  IN  /\ Runs("load_closure")
      /\ m.closures # <<>>
      /\ Op.arg.rank <= Len(Last(m.closures).names)
      /\ Handle("load_closure", 0, PushLocation(Fetched, Holds(Place("heap", i), FALSE)))

\* Of a global that is complete.
LoadGlobal ==
  \E i \in DOMAIN Prelude :
    /\ Runs("load_global")
    /\ Prelude[i] = Op.arg.global
    /\ Handle("load_global", 0, PushLocation(Fetched, Holds(Place("prelude", i), FALSE)))

PopClosure == m.closures # <<>> /\ Handle("pop_closure", 0, [Fetched EXCEPT !.closures = Front(@)])

ValueInteger == Handle("value_integer", 0, PushTemporary(Fetched, Op.arg))

ValueVoid == Handle("value_void", 0, PushTemporary(Fetched, Void))

DiscardVoid ==
  Handle("discard_void", 1, IF Content(1) = Void THEN Drop(Fetched, 1) ELSE Error(Fetched))

\* There is no action for check_top_void, which the emitter never asks for: a
\* branch without an alternative is void or discarded.
CheckWriteCtxVoid ==
  m.ctxs # <<>> /\ Handle("check_write_ctx_void", 0, IF Dest.type = VoidType THEN Fetched ELSE Error(Fetched))

Arithmetic(op, result) ==
  Handle(op, 2, IF Content(1).tag = "int" /\ Content(2).tag = "int"
                  THEN PushTemporary(Drop(Fetched, 2), result) ELSE Error(Fetched))

BinaryArithmeticOp == Arithmetic("add", Number(Content(2).is + Content(1).is))

Compare == Arithmetic("compare", Truth(Content(2).is < Content(1).is))

-----------------------------------------------------------------------------
(* Arrays.  Their elements are not arrays.                                 *)

ElementAt(place, i) == [place EXCEPT !.element = i]

ArrayPreinit ==
  LET element(i) == [place |-> ElementAt(Dest.place, i), type |-> IntType]
  IN  Handle("array_preinit", 0,
             IF Dest.type.type = "array" /\ Dest.type.count >= Op.arg.count
               THEN [Fetched EXCEPT !.ctxs = @ \o [i \in 1..Op.arg.count |-> element(i)]]
               ELSE Error(Fetched))

ArrayPostinit ==
  LET n == Op.arg.count
      elements == [i \in 1..n |-> Content(n - i + 1)]
  IN  Handle("array_postinit", Op.arg.count,
             IF \A i \in 1..n : elements[i].tag = elements[1].tag
               THEN PushTemporary(Drop(Fetched, n), ArrayValue(elements)) ELSE Error(Fetched))

Index_ ==
  LET i == Content(1).is + 1
      element == Holds(ElementAt(Operand(2).place, i), TRUE)
  IN  Handle("index", 2,
             IF Content(1).tag = "int" /\ Content(2).tag = "array" /\ i \in DOMAIN Content(2).is
               THEN PushLocation(Drop(Fetched, 2), element) ELSE Error(Fetched))

-----------------------------------------------------------------------------
(* Control flow inside an expression.                                      *)

If_ ==
  Handle("if", 1, IF Content(1).tag # "bool" THEN Error(Fetched)
                  ELSE IF Content(1).is
                    THEN Enter(PushActivation(Drop(Fetched, 1), m.pc + 1), Op.targets[1])
                    ELSE Drop(Fetched, 1))

\* Mutant: the write context is not passed on to the branch.
IfElseLosingCtx ==
  Handle("if_else", 1,
         IF Content(1).tag = "bool"
           THEN Enter(PushActivation(Drop(Fetched, 1), m.pc + 1),
                      Op.targets[IF Content(1).is THEN 1 ELSE 2])
           ELSE Error(Fetched))

\* The write context is for the branch.
IfElse_ ==
  LET given == [Fetched EXCEPT !.ctxs = m.ctxs]
  IN  Handle("if_else", 1,
             IF Content(1).tag = "bool"
               THEN Enter(PushActivation(Drop(given, 1), m.pc + 1),
                          Op.targets[IF Content(1).is THEN 1 ELSE 2])
               ELSE Error(Fetched))

\* Mutant: the body comes back to the loop itself.
LoopWithoutCondition ==
  Handle("loop", 1, IF Content(1).tag # "bool" THEN Error(Fetched)
                    ELSE IF Content(1).is
                      THEN Enter(PushActivation(Drop(Fetched, 1), m.pc), Op.targets[2])
                      ELSE Drop(Fetched, 1))

\* The first target is the condition, to which the body comes back.
Loop ==
  Handle("loop", 1, IF Content(1).tag # "bool" THEN Error(Fetched)
                    ELSE IF Content(1).is
                      THEN Enter(PushActivation(Drop(Fetched, 1), Op.targets[1]), Op.targets[2])
                      ELSE Drop(Fetched, 1))

-----------------------------------------------------------------------------
(* Functions.                                                              *)

Width(p) == IF p.typed /\ p.default THEN 2 ELSE 1

FirstOperand(flags, i) == FoldLeft(LAMBDA acc, p : acc + Width(p), 1, SubSeq(flags, 1, i - 1))

\* The parameters of a signature, from its operands.
ParametersOf(flags, operands) ==
  [i \in DOMAIN flags |->
    LET first == operands[FirstOperand(flags, i)]
        last == operands[FirstOperand(flags, i) + Width(flags[i]) - 1]
    IN  [name |-> flags[i].name, mut |-> flags[i].mut,
         type |-> IF flags[i].typed THEN first.is ELSE TypeOfValue(last),
         default |-> IF flags[i].default THEN <<last>> ELSE <<>>]]

SignatureOp ==
  LET flags == Op.arg.params
      n == Op.arg.count
      operands == [i \in 1..n |-> Content(n - i + 1)]
      type == [type |-> "signature", params |-> ParametersOf(flags, operands), ret |-> operands[n].is]
      typed == /\ operands[n].tag = "type"
               /\ \A i \in DOMAIN flags :
                    flags[i].typed => operands[FirstOperand(flags, i)].tag = "type"
  IN  Handle("signature", Op.arg.count,
             IF typed THEN PushTemporary(Drop(Fetched, n), TypeValue(type)) ELSE Error(Fetched))

\* Mutant: the closed-over values are stored as they are popped.
BindBodyReversed ==
  LET n == Op.arg.count
      closed == [i \in 1..n |-> Content(i)]
      callable == [tag |-> "func", signature |-> Content(n + 1).is, body |-> Op.targets[1],
                   closure |-> [at |-> Len(m.memory["heap"]), names |-> Op.arg.names]]
  IN  Handle("bind_body", Op.arg.count + 1,
             PushTemporary([Drop(Fetched, n + 1) EXCEPT !.memory["heap"] = @ \o closed], callable))

\* With create_closure.  The names in a closure are no part of the program.
BindBody ==
  LET n == Op.arg.count
      closed == [i \in 1..n |-> Content(n - i + 1)]
      callable == [tag |-> "func", signature |-> Content(n + 1).is, body |-> Op.targets[1],
                   closure |-> [at |-> Len(m.memory["heap"]), names |-> Op.arg.names]]
  IN  Handle("bind_body", Op.arg.count + 1,
             PushTemporary([Drop(Fetched, n + 1) EXCEPT !.memory["heap"] = @ \o closed], callable))

-----------------------------------------------------------------------------
(* Calls.                                                                  *)

Omitted == 0

\* The code of the argument for each parameter, in the order of parameters: a
\* positional argument is for the parameter after the previous argument's.
PlaceArguments(params, names, codes) ==
  LET Named(x) == {p \in DOMAIN params : params[p].name = x}
      Step(acc, i) ==
        LET for == IF names[i] = Positional THEN {acc.next} \cap DOMAIN params ELSE Named(names[i])
        IN  IF acc.bad \/ for = {} \/ \E p \in for : acc.placed[p] # Omitted
              THEN [acc EXCEPT !.bad = TRUE]
              ELSE [acc EXCEPT !.placed[Min(for)] = codes[i], !.next = Min(for) + 1]
      all == FoldLeft(Step, [placed |-> [p \in DOMAIN params |-> Omitted], next |-> 1, bad |-> FALSE],
                      [i \in DOMAIN names |-> i])
      missing == \E p \in DOMAIN params : all.placed[p] = Omitted /\ params[p].default = <<>>
  IN  [all EXCEPT !.bad = all.bad \/ missing]

PrepareArgs ==
  LET signature == Content(1).signature
      all == PlaceArguments(signature.params, Op.arg.names, Op.targets)
      pack == [signature |-> signature, first |-> Len(m.members), index |-> 0,
               count |-> Len(Op.arg.names)]
  IN  Handle("prepare_args", 1,
             IF Content(1).tag # "func" \/ all.bad THEN Error(Fetched)
             ELSE [Fetched EXCEPT !.callbacks = @ \o all.placed, !.packs = Append(@, pack)])

Pack == Last(m.packs)

\* The next argument, or default, into a new member of the callee's scope.  The
\* argument's code comes back here.
ExecArgument ==
  LET param == Pack.signature.params[Pack.index + 1]
      argument == m.callbacks[Len(m.callbacks) - Pack.count + Pack.index + 1]
      after == [ScopeAllocTypedMember(m, [name |-> param.name, mut |-> param.mut], param.type)
                  EXCEPT !.packs[Len(m.packs)].index = @ + 1]
  IN  IF argument = Omitted THEN ConvertInto(after, param.default[1], Last(after.ctxs))
                        ELSE Enter(PushActivation(after, m.pc), argument)

ExecArgs ==
  /\ Runs("exec_args")
  /\ m.packs # <<>>
  /\ Handle("exec_args", 1, IF Pack.index < Pack.count THEN ExecArgument ELSE Fetched)

\* Mutant: the callbacks stay.
PopPackAlone(s) == [s EXCEPT !.packs = Front(@)]

PopArgumentPack(s) ==
  [s EXCEPT !.callbacks = SubSeq(@, 1, Len(@) - Pack.count), !.packs = Front(@)]

\* The callee's frame, above a write context for its result.
EnterCallee(s, callee) ==
  LET framed == PopArgumentPack(PushScopeAt(s, Pack.first))
      closed == IF callee.closure.names = <<>> THEN framed
                ELSE [framed EXCEPT !.closures = Append(@, callee.closure)]
      called == [closed EXCEPT !.calls = Append(@, Len(m.acts))]
  IN  Enter(PushActivation(called, m.pc + 1), callee.body)

CallOp ==
  LET callee == Content(1)
      ret == Pack.signature.ret
      room == AllocTemporary(Drop(Fetched, 1), Blank(ret))
      fresh == [PushValue(room, NewTemporary(room))
                  EXCEPT !.ctxs = Append(@, [place |-> NewTemporary(room).place, type |-> ret])]
      given == [Drop(Fetched, 1) EXCEPT !.ctxs = m.ctxs]
  IN  /\ Runs("call")
      /\ m.packs # <<>>
      /\ Handle("call", 1,
                IF ~Op.ctx THEN EnterCallee(fresh, callee)
                ELSE IF Dest.type = ret THEN EnterCallee(given, callee) ELSE Error(Fetched))

\* All but the last scope are dropped as they are, the last one is popped.  The
\* assertion that there is one is compiled out of a release.
ReturnOp ==
  LET n == Max({Op.arg.popped, 1})
      inner == [Fetched EXCEPT !.scopes = SubSeq(@, 1, Len(@) - (n - 1))]
      left == ScopePop(inner)
      resumed == [left EXCEPT !.calls = Front(@), !.acts = SubSeq(@, 1, Last(m.calls) + 1)]
  IN  /\ Runs("return")
      /\ m.calls # <<>>
      /\ Op.arg.popped <= Len(m.scopes)
      /\ Handle("return", 0, Resume(resumed))

-----------------------------------------------------------------------------

Next ==
  \/ SetWriteCtx \/ DuplicateToWriteCtx
  \/ ScopeBegin \/ ScopeEnd \/ ScopeEndPreserveTop \/ ScopeAllocTyped \/ ScopeAllocUntyped
  \/ FileMemberAllocTyped \/ FileMemberAllocUntyped \/ FileMemberAllocComplete
  \/ LoadScope \/ LoadClosure \/ PopClosure
  \/ LoadGlobal \/ ValueInteger \/ ValueVoid
  \/ DiscardVoid \/ CheckWriteCtxVoid
  \/ BinaryArithmeticOp \/ Compare
  \/ ArrayPreinit \/ ArrayPostinit \/ Index_
  \/ If_ \/ IfElse_ \/ Loop
  \/ SignatureOp \/ BindBody \/ PrepareArgs \/ ExecArgs \/ CallOp \/ ReturnOp
  \/ EndCodeOp

\* The machine runs until it is done.
Spec == Init /\ [][Next]_vars /\ WF_vars(Next)

-----------------------------------------------------------------------------
(* Properties.                                                             *)

Places == {m.values[i].place : i \in DOMAIN m.values} \cup {m.ctxs[i].place : i \in DOMAIN m.ctxs}

Used(region) == CASE region = "temporary_data" -> m.temps
                  [] region = "scope_data" -> Len(m.members)
                  [] OTHER -> Len(m.memory[region])

\* The shape of the machine's state: what its indices point to is there.
TypeOK ==
  /\ m.outcome \in {"running", "done", "error", "assert"}
  /\ m.outcome = "running" => m.pc \in DOMAIN code
  /\ m.temps <= Len(m.memory["temporary_data"])
  /\ Len(m.members) <= Len(m.memory["scope_data"])
  /\ \A p \in Places : p.in \in Regions /\ p.at \in DOMAIN m.memory[p.in]
  /\ \A i \in DOMAIN m.acts : m.acts[i].pc \in DOMAIN code
  /\ \A i \in DOMAIN m.calls : m.calls[i] < Len(m.acts)
  /\ \A i \in DOMAIN m.scopes : m.scopes[i].first <= Len(m.members) /\ m.scopes[i].temps <= m.temps
  /\ \A i \in DOMAIN m.packs : m.packs[i].count <= Len(m.callbacks)

\* The depths that the emitter computed, by which it decides what to emit, are
\* the machine's at every opcode, relative to where its piece of code began;
\* so they are when a branch, a body, an argument or a call has come back.  What
\* a piece of code expects on the stacks when it is entered is there.
Depths ==
  m.outcome = "running" => /\ Depth(m) = Plus(m.base, code[m.pc].at)
                           /\ \A stack \in DOMAIN m.base : m.base[stack] >= 0

\* What the machine's stacks refer to is there, and no value and no write
\* context is in storage that a scope's end has given back: a write context may
\* outlive many scopes, and a block's value one.  (scope_pop, interpreter.cpp)
NoDangling == TypeOK /\ (m.outcome = "running" => \A p \in Places : p.at <= Used(p.in))

\* Positions computed by name resolution reach the variable of that name: in
\* the scopes and members that there are when the identifier is loaded, with
\* arguments half evaluated and calls under way, and in the closure that was
\* filled where the function was constructed.
BoundByName ==
  /\ Runs("load_scope") =>
       /\ Op.arg.out < Len(m.scopes)
       /\ MemberIndex(Op.arg.out, Op.arg.rank) <= Len(m.members)
       /\ m.members[MemberIndex(Op.arg.out, Op.arg.rank)].name = Op.arg.name
  /\ Runs("load_closure") =>
       /\ m.closures # <<>>
       /\ Op.arg.rank <= Len(Last(m.closures).names)
       /\ Last(m.closures).names[Op.arg.rank] = Op.arg.name

\* When the member has been computed, nothing is left on any stack.
Balanced ==
  m.outcome = "done" =>
    /\ Depth(m) = NoEffect
    /\ m.members = <<>> /\ m.packs = <<>> /\ m.callbacks = <<>> /\ m.calls = <<>> /\ m.acts = <<>>

\* Compiling and running gives what the expression means, and fails when it has
\* no meaning.
Means ==
  LET r == Meaning(source.type, source.value)
  IN  /\ m.outcome = "done" => r.stop = "no" /\ m.memory["global"] = <<r.is>>
      /\ m.outcome = "error" => r.stop = "fail"

\* Every member is computed, or ends with an error: no assertion of the emitter
\* fails, and no opcode waits for operands that the code before it did not leave.
Terminates == <>(m.outcome \in {"done", "error"})
=============================================================================
