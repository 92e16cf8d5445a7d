------------------------------ MODULE EvalSyntax ------------------------------
(***************************************************************************)
(* Syntax trees of expressions and the values they have, shared by the     *)
(* name resolution, the code generator, the stack machine and the          *)
(* reference evaluator.                                                    *)
(*                                                                         *)
(* A node is a form, its children in source order, and the attributes its  *)
(* form has, as in ast_pool.cpp: optional children are announced by a      *)
(* flag.  A type stands for the name of a complete global that is one.     *)
(***************************************************************************)
EXTENDS Integers, Sequences, SequencesExt

NoList == <<>>

Literal(n) == [form |-> "integer", kids |-> <<>>, value |-> n]
TypeName(t) == [form |-> "type", kids |-> <<>>, type |-> t]
Name(x) == [form |-> "identifier", kids |-> <<>>, name |-> x, binding |-> NoList]

Add(l, r) == [form |-> "add", kids |-> <<l, r>>]
Less(l, r) == [form |-> "less", kids |-> <<l, r>>]
Index(a, i) == [form |-> "index", kids |-> <<a, i>>]
Array(elements) == [form |-> "array", kids |-> elements]

Set(l, r) == [form |-> "set", kids |-> <<l, r>>]
SetAdd(l, r) == [form |-> "set_add", kids |-> <<l, r>>]

Block(items) == [form |-> "block", kids |-> items]

Let(x, v) == [form |-> "definition", kids |-> <<v>>, name |-> x, mut |-> FALSE, typed |-> FALSE]
Mut(d) == [d EXCEPT !.mut = TRUE]
Typed(d, t) == [d EXCEPT !.kids = <<t>> \o @, !.typed = TRUE]

\* where: the definitions of a where clause, or none.
If(where, c, t) == [form |-> "if", kids |-> <<c, t>>, where |-> where]
IfElse(where, c, t, e) == [form |-> "if", kids |-> <<c, t, e>>, where |-> where]

For(where, c, step, body) ==
  [form |-> "for", kids |-> <<c, step, body>>, where |-> where]

\* A parameter has a type, a default, or both.
Parameter(x, t) == [form |-> "parameter", kids |-> <<t>>, name |-> x, mut |-> FALSE,
                    typed |-> TRUE, default |-> FALSE]
Default(p, v) == [p EXCEPT !.kids = Append(@, v), !.default = TRUE]
Optional(x, v) == [form |-> "parameter", kids |-> <<v>>, name |-> x, mut |-> FALSE,
                   typed |-> FALSE, default |-> TRUE]

Signature(params, ret) == [form |-> "signature", kids |-> Append(params, ret)]
Func(params, ret, body) ==
  [form |-> "func", kids |-> <<Signature(params, ret), body>>, closure |-> NoList]

\* names[i] is the parameter that argument i names, or Positional.
Positional == ""
NamedCall(f, names, args) == [form |-> "call", kids |-> <<f>> \o args, names |-> names]
Call(f, args) == NamedCall(f, [i \in DOMAIN args |-> Positional], args)
Return(e) == [form |-> "return", kids |-> <<e>>]

-----------------------------------------------------------------------------
(* Types and values.  Integer types are not told apart.                    *)

Simple(t) == [type |-> t]
IntType == Simple("int")
BoolType == Simple("bool")
VoidType == Simple("void")
ArrayOf(n) == [type |-> "array", count |-> n]

\* Globals that are complete: their initialization is no part of the machine's
\* programs.
Prelude == <<IntType, BoolType, VoidType, ArrayOf(1), ArrayOf(2)>>

Number(n) == [tag |-> "int", is |-> n]
Truth(b) == [tag |-> "bool", is |-> b]
Void == [tag |-> "void"]
TypeValue(t) == [tag |-> "type", is |-> t]
ArrayValue(s) == [tag |-> "array", is |-> s]
Unwritten == [tag |-> "unwritten"]

\* Storage of a type before anything is written to it.
Blank(t) == IF t.type = "array" THEN ArrayValue([i \in 1..t.count |-> Unwritten])
                                ELSE Unwritten

\* convert_into accepts the value.
Fits(v, t) == /\ v.tag = t.type
              /\ t.type = "array" => Len(v.is) = t.count

TypeOfValue(v) == IF v.tag = "array" THEN ArrayOf(Len(v.is)) ELSE Simple(v.tag)
=============================================================================
