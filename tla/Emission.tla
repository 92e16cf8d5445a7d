------------------------------- MODULE Emission -------------------------------
(***************************************************************************)
(* opcode_pool.cpp: code for the stack machine.  While it emits, the       *)
(* emitter keeps the depths that four of the machine's stacks will have,   *)
(* computed from the static effect of each opcode, and decides by them.    *)
(* Code that is jumped to (bodies, branches, arguments) is emitted after   *)
(* the code that jumps, from a stack of fixups.                            *)
(*                                                                         *)
(* Not modelled: globals that are not complete, composites, traits, impls, *)
(* slices, templated parameters, self references, and the operators that   *)
(* are like another.                                                       *)
(***************************************************************************)
EXTENDS NameResolution

\* OpcodeEffects: change of the depth of values, scopes, write_ctxs and
\* active_closures.
Effect(v, s, w, c) == [values |-> v, scopes |-> s, ctxs |-> w, closures |-> c]
NoEffect == Effect(0, 0, 0, 0)

Plus(a, b) == Effect(a.values + b.values, a.scopes + b.scopes, a.ctxs + b.ctxs,
                     a.closures + b.closures)
Minus(a, b) == Plus(a, Effect(-b.values, -b.scopes, -b.ctxs, -b.closures))

\* An opcode: whether it takes a write context, its attachment, the code it
\* may jump to, and the depths the emitter computed for the point before it.
Opcode(op, ctx, arg, targets) == [op |-> op, ctx |-> ctx, arg |-> arg, targets |-> targets]
NoArg == [none |-> 0]

Neutral == {"end_code", "prepare_args", "exec_args", "return", "check_top_void",
            "check_write_ctx_void", "file_member_alloc_complete"}

\* Operands of the opcodes that push one value.
OperandCount(o) ==
  CASE o.op \in {"load_scope", "load_closure", "loop_finally", "value_integer",
                 "value_void", "load_global"} -> 0
    [] o.op \in {"call", "if_else"} -> 1
    [] o.op \in {"index", "add", "compare"} -> 2
    [] o.op \in {"signature", "array_postinit"} -> o.arg.count
    [] o.op = "bind_body" -> o.arg.count + 1

\* opcode_effects.
Effects(o) ==
  CASE o.op \in Neutral -> NoEffect
    [] o.op \in {"set_write_ctx", "scope_alloc_typed", "file_member_alloc_typed"}
         -> Effect(-1, 0, 1, 0)
    [] o.op = "duplicate_to_write_ctx" -> Effect(0, 0, 1, 0)
    [] o.op = "scope_begin" -> Effect(0, 1, 0, 0)
    [] o.op \in {"scope_end", "scope_end_preserve_top"} -> Effect(0, -1, 0, 0)
    [] o.op \in {"scope_alloc_untyped", "file_member_alloc_untyped", "if", "loop", "discard_void"}
         -> Effect(-1, 0, 0, 0)
    [] o.op = "pop_closure" -> Effect(0, 0, 0, -1)
    [] o.op = "array_preinit" -> Effect(0, 0, o.arg.count - 1, 0)
    [] OTHER -> IF o.ctx THEN Effect(-OperandCount(o), 0, -1, 0)
                         ELSE Effect(1 - OperandCount(o), 0, 0, 0)

-----------------------------------------------------------------------------
(* The emitter's state.  status is what opcodes_from_... returns, and      *)
(* "assert" once an assertion has failed.  stale is what the return_adjust *)
(* of a fixup holds that never writes it.                                  *)

NewEmitter(stale) ==
  [code |-> <<>>, state |-> NoEffect, fixups |-> <<>>, status |-> "ok",
   allowReturn |-> FALSE, adjust |-> 0, stale |-> stale]

Asserting(e, holds) == IF e.status = "ok" /\ ~holds THEN [e EXCEPT !.status = "assert"] ELSE e

Counted(e) == Asserting(e, \A k \in DOMAIN e.state : e.state[k] >= 0)

\* emit_opcode.
Emit(e, o) ==
  IF e.status # "ok" THEN e
  ELSE Counted([e EXCEPT !.code = Append(@, [at |-> e.state, is |-> o]),
                         !.state = Plus(@, Effects(o))])

Plain(e, op) == Emit(e, Opcode(op, FALSE, NoArg, <<>>))
Into(e, op, ctx) == Emit(e, Opcode(op, ctx, NoArg, <<>>))

NextId(e) == Len(e.code) + 1

\* emit_fixup_for_...: to be emitted later, and stored as target number slot of
\* the next opcode.
Fixup(e, kind, slot, node) ==
  [kind |-> kind, dst |-> NextId(e), slot |-> slot, node |-> node, step |-> NoList, ctx |-> TRUE,
   expectVoid |-> FALSE, hasClosure |-> FALSE, allowReturn |-> e.allowReturn, adjust |-> e.stale]

PushFixup(e, f) == IF e.status # "ok" THEN e ELSE [e EXCEPT !.fixups = Append(@, f)]

-----------------------------------------------------------------------------
(* Expressions.                                                            *)

RECURSIVE Expr(_, _, _)

RECURSIVE ExprEach(_, _, _)
ExprEach(e, nodes, ctx) ==
  IF nodes = <<>> \/ e.status # "ok" THEN e ELSE ExprEach(Expr(e, Head(nodes), ctx), Tail(nodes), ctx)

\* opcodes_from_scope_definition.
ScopeDefinition(e, d) ==
  LET op == IF d.typed THEN "scope_alloc_typed" ELSE "scope_alloc_untyped"
      given == Emit(Expr(e, d.kids[1], FALSE),
                    Opcode(op, FALSE, [name |-> d.name, mut |-> d.mut], <<>>))
  IN  IF d.typed THEN Expr(given, d.kids[2], TRUE) ELSE given

\* opcodes_from_where and the ScopeBegin in front of it.
Where(e, where) ==
  IF where = NoList THEN e ELSE FoldLeft(ScopeDefinition, Plain(e, "scope_begin"), where)

EndWhere(e, where, preserve) ==
  IF where = NoList THEN e
  ELSE Plain(e, IF preserve THEN "scope_end_preserve_top" ELSE "scope_end")

\* After an expression in a block: its value is the block's, or void and
\* discarded.
GiveVoid(before, e, last, ctx) ==
  IF last /\ e.state.values = before.values /\ e.state.ctxs = before.ctxs
    THEN Into(e, "value_void", ctx) ELSE e

DiscardItem(before, e, last) ==
  IF ~last /\ e.state.values = before.values + 1 THEN Plain(e, "discard_void") ELSE e

LeftOver(before, e, count) == Asserting(e, e.state.values = before.values + count)

SettleItem(before, e, last, ctx) ==
  LeftOver(before, DiscardItem(before, GiveVoid(before, e, last, ctx), last),
           IF last /\ ~ctx THEN 1 ELSE 0)

RECURSIVE BlockItems(_, _, _)
BlockItems(e, items, ctx) ==
  IF items = <<>> \/ e.status # "ok" THEN e
  ELSE LET item == Head(items)
           last == Len(items) = 1
       IN  BlockItems(IF item.form = "definition" THEN ScopeDefinition(e, item)
                      ELSE SettleItem(e.state, Expr(e, item, last /\ ctx), last, ctx),
                      Tail(items), ctx)

EndBlock(e, ctx) ==
  Plain(IF (ctx /\ e.state.ctxs = 1) \/ (~ctx /\ e.state.values = 0)
          THEN Into(e, "value_void", ctx) ELSE e,
        IF ctx THEN "scope_end" ELSE "scope_end_preserve_top")

EmitBlock(e, n, ctx) == EndBlock(BlockItems(Plain(e, "scope_begin"), n.kids, ctx), ctx)

IfBranch(e, slot, node, ctx, expectVoid) ==
  PushFixup(e, [Fixup(e, "if_branch", slot, node) EXCEPT !.ctx = ctx, !.expectVoid = expectVoid])

Alternative(n) == Len(n.kids) = 3

IfElseOf(e, n, ctx) ==
  LET consequent == IfBranch(e, 1, n.kids[2], ctx, ~Alternative(n))
      both == IF Alternative(n) THEN IfBranch(consequent, 2, n.kids[3], ctx, FALSE)
              ELSE PushFixup(consequent, Fixup(consequent, "value_void", 2, n))
  IN  Emit(both, Opcode("if_else", ctx, NoArg, <<0, 0>>))

DiscardedIf(e, n) ==
  Emit(PushFixup(e, [Fixup(e, "discarded_if_branch", 1, n.kids[2]) EXCEPT !.ctx = FALSE]),
       Opcode("if", FALSE, NoArg, <<0>>))

EmitIf(e, n, ctx) ==
  LET valued == ctx \/ Alternative(n)
      condition(first) == Expr(first, n.kids[1], FALSE)
      branches(first) == IF valued THEN IfElseOf(first, n, ctx) ELSE DiscardedIf(first, n)
  IN  EndWhere(branches(condition(Where(e, n.where))), n.where, valued /\ ~ctx)

\* Loops without finally, which have no value.
LoopOf(e, n, start) ==
  Emit(PushFixup(e, [Fixup(e, "loop_body", 2, n.kids[3]) EXCEPT !.ctx = FALSE,
                                                                !.step = <<n.kids[2]>>]),
       Opcode("loop", FALSE, NoArg, <<start, 0>>))

ConditionOfLoop(e, n) == LoopOf(Expr(e, n.kids[1], FALSE), n, NextId(e))

EmitFor(e, n, ctx) ==
  IF ctx THEN [e EXCEPT !.status = "error"]
  ELSE EndWhere(ConditionOfLoop(Where(e, n.where), n), n.where, FALSE)

\* opcodes_from_signature, for a signature without templated parts: its
\* operands are the type or default or both of each parameter, and the return
\* type.
EmitSignature(e, n, ctx) ==
  LET params == Front(n.kids)
      Param(acc, p) == ExprEach(acc, p.kids, FALSE)
      values == Expr(FoldLeft(Param, e, params), Last(n.kids), FALSE)
      count == FoldLeft(LAMBDA acc, p : acc + Len(p.kids), 1, params)
      flags == [i \in DOMAIN params |-> [name |-> params[i].name, mut |-> params[i].mut,
                                         typed |-> params[i].typed, default |-> params[i].default]]
  IN  Emit(values, Opcode("signature", ctx, [params |-> flags, count |-> count], <<>>))

\* emit_closure_values.
ClosureValue(e, entry) ==
  Emit(e, IF entry.closed
            THEN Opcode("load_closure", FALSE, [rank |-> entry.rank, name |-> entry.name], <<>>)
            ELSE Opcode("load_scope", FALSE, [out |-> entry.out, rank |-> entry.rank,
                                              name |-> entry.name], <<>>))

EmitFunc(e, n, ctx) ==
  LET closed == FoldLeft(ClosureValue, EmitSignature(e, n.kids[1], FALSE), n.closure)
      body == [Fixup(closed, "function_body", 1, n.kids[2])
                 EXCEPT !.hasClosure = n.closure # NoList, !.allowReturn = TRUE,
                        !.adjust = IF n.closure # NoList THEN 1 ELSE 0]
      names == [i \in DOMAIN n.closure |-> n.closure[i].name]
  IN  PushFixup(Emit(closed, Opcode("bind_body", ctx, [count |-> Len(names), names |-> names], <<0>>)),
                body)

\* opcodes_from_arguments.
EmitCall(e, n, ctx) ==
  LET callee == Expr(e, n.kids[1], FALSE)
      args == Tail(n.kids)
      Argument(acc, i) ==
        PushFixup(acc, [Fixup(callee, "argument", i, args[i]) EXCEPT !.allowReturn = FALSE])
      prepared == FoldLeft(Argument,
                           Emit(callee, Opcode("prepare_args", FALSE, [names |-> n.names],
                                               [i \in DOMAIN args |-> 0])),
                           [i \in DOMAIN args |-> i])
  IN  Into(Plain(prepared, "exec_args"), "call", ctx)

EmitReturn(e, n) ==
  LET open == e.state.closures + e.adjust
      closed == Asserting(IF open # 0 THEN Plain(e, "pop_closure") ELSE e, open \in {0, 1})
      operand == Expr(closed, n.kids[1], TRUE)
      balanced == Asserting(operand, operand.state.values = 0 /\ operand.state.ctxs = 0)
  IN  IF ~e.allowReturn THEN [e EXCEPT !.status = "error"]
      ELSE Emit(balanced, Opcode("return", FALSE, [popped |-> balanced.state.scopes], <<>>))

EmitArray(e, n, ctx) ==
  LET arg == [count |-> Len(n.kids)]
  IN  IF ctx THEN ExprEach(Emit(e, Opcode("array_preinit", TRUE, arg, <<>>)), n.kids, TRUE)
      ELSE Emit(ExprEach(e, n.kids, FALSE), Opcode("array_postinit", FALSE, arg, <<>>))

EmitSet(e, n, ctx) ==
  LET value == Expr(Plain(Expr(e, n.kids[1], FALSE), "set_write_ctx"), n.kids[2], TRUE)
  IN  IF ctx THEN Into(value, "value_void", TRUE) ELSE value

EmitSetAdd(e, n, ctx) ==
  LET operands == Expr(Plain(Expr(e, n.kids[1], FALSE), "duplicate_to_write_ctx"),
                       n.kids[2], FALSE)
      value == Into(operands, "add", TRUE)
  IN  IF ctx THEN Into(value, "value_void", TRUE) ELSE value

EmitIdentifier(e, n, ctx) ==
  LET b == n.binding
  IN  IF b.kind = "scoped"
        THEN Emit(e, Opcode("load_scope", ctx, [out |-> b.out, rank |-> b.rank, name |-> n.name], <<>>))
        ELSE Emit(e, Opcode("load_closure", ctx, [rank |-> b.rank, name |-> n.name], <<>>))

EmitBinary(e, n, ctx) ==
  Into(ExprEach(e, n.kids, FALSE), IF n.form = "less" THEN "compare" ELSE n.form, ctx)

EmitLiteral(e, n, ctx) ==
  Emit(e, IF n.form = "integer" THEN Opcode("value_integer", ctx, Number(n.value), <<>>)
                                ELSE Opcode("load_global", ctx, [global |-> n.type], <<>>))

\* opcodes_from_expression.
Expr(e, n, ctx) ==
  CASE e.status # "ok" -> e
    [] n.form \in {"integer", "type"} -> EmitLiteral(e, n, ctx)
    [] n.form \in {"add", "less", "index"} -> EmitBinary(e, n, ctx)
    [] n.form = "identifier" -> EmitIdentifier(e, n, ctx)
    [] n.form = "array" -> EmitArray(e, n, ctx)
    [] n.form = "set" -> EmitSet(e, n, ctx)
    [] n.form = "set_add" -> EmitSetAdd(e, n, ctx)
    [] n.form = "block" -> EmitBlock(e, n, ctx)
    [] n.form = "if" -> EmitIf(e, n, ctx)
    [] n.form = "for" -> EmitFor(e, n, ctx)
    [] n.form = "func" -> EmitFunc(e, n, ctx)
    [] n.form = "call" -> EmitCall(e, n, ctx)
    [] n.form = "return" -> EmitReturn(e, n)

-----------------------------------------------------------------------------
(* Fixups.                                                                 *)

EndCode(e) == Plain(e, "end_code")

DiscardValue(e) == IF e.state.values = 1 THEN Plain(e, "discard_void") ELSE e

\* The depths at the start of the code, and a check that comes first.
StartFixup(e, f) ==
  LET start == [e EXCEPT !.state = Effect(0, 0, IF f.ctx THEN 1 ELSE 0, IF f.hasClosure THEN 1 ELSE 0),
                         !.allowReturn = f.allowReturn,
                         !.adjust = IF f.kind = "function_body" THEN 0 ELSE f.adjust,
                         !.code[f.dst].is.targets[f.slot] = NextId(e)]
  IN  IF f.expectVoid /\ f.ctx THEN Plain(start, "check_write_ctx_void") ELSE start

EndFunction(e, f) ==
  Emit(IF f.hasClosure THEN Plain(e, "pop_closure") ELSE e,
       Opcode("return", FALSE, [popped |-> 1], <<>>))

\* The value a branch leaves for its if is not counted as left over.
EndBranch(e, f) ==
  LET left == IF f.ctx THEN 0 ELSE 1
  IN  [Asserting(e, e.state.values = left) EXCEPT !.state.values = @ - left]

\* What follows the code for the fixup's node.
EndFixup(e, f) ==
  CASE f.kind = "function_body" -> EndFunction(e, f)
    [] f.kind \in {"argument", "value_void"} -> EndCode(e)
    [] f.kind = "if_branch" ->
         EndBranch(EndCode(IF f.expectVoid /\ ~f.ctx THEN Plain(e, "check_top_void") ELSE e), f)
    [] f.kind = "discarded_if_branch" -> EndCode(DiscardValue(e))
    [] f.kind = "loop_body" -> EndCode(DiscardValue(ExprEach(DiscardValue(e), f.step, FALSE)))

\* complete_fixup.
CompleteFixup(e, f) ==
  EndFixup(IF f.kind = "value_void" THEN Into(e, "value_void", TRUE) ELSE Expr(e, f.node, f.ctx), f)

Settled(e) == Asserting(e, e.state = NoEffect)

\* complete_fixups: the last fixup first, which may leave others.
RECURSIVE CompleteFixups(_)
CompleteFixups(e) ==
  IF e.fixups = <<>> \/ e.status # "ok" THEN e
  ELSE LET f == Last(e.fixups)
       IN  CompleteFixups(Settled(CompleteFixup(StartFixup([e EXCEPT !.fixups = Front(@)], f), f)))

\* opcodes_from_file_member_ast, for `let result: type = value` if a type is
\* given, and `let result = value` otherwise.
EmitMember(start, type, value) ==
  LET typed == Emit(ExprEach(start, type, FALSE), Opcode("file_member_alloc_typed", FALSE, NoArg, <<>>))
      member == IF type = NoList
                  THEN Plain(Expr(start, value, FALSE), "file_member_alloc_untyped")
                  ELSE Plain(Expr(typed, value, TRUE), "file_member_alloc_complete")
  IN  CompleteFixups(EndCode(member))
=============================================================================
