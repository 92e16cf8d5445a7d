------------------------------- MODULE Parser -------------------------------
(***************************************************************************)
(* The parser, src/core/parse.cpp, from the token stream on: recursive     *)
(* descent for everything that starts with a keyword or a bracket, a stack *)
(* of operators and one of operands inside an expression.  It pushes the   *)
(* nodes of AstPool as it goes.  Tokens are strings; an identifier or a    *)
(* literal is a token of its own.  The parser's state is a record that     *)
(* every operator takes and returns:                                       *)
(*   in, at           the tokens and the position of the next one          *)
(*   builder, out     the nodes pushed and the token of the last result    *)
(*   ops, vals        the stacks of the expression being parsed            *)
(*   variadic         whether the last parameter was variadic              *)
(*   stopped          a fatal error has left the parser (longjmp)          *)
(*   has_errors       some error was reported and parsing went on          *)
(***************************************************************************)
EXTENDS AstPool

CONSTANTS
  Names,          \* identifiers
  Literals,       \* integer, float, character and string literals
  MaxOperators,   \* places of the operator stack of one expression
  MaxOperands,    \* places of its operand stack
  MaxParams       \* MAX_FUNC_PARAM_COUNT

ASSUME {MaxOperators, MaxOperands, MaxParams} \subseteq Nat \ {0}

ArrayTypeOp == [tag |-> "Binary", name |-> "[n]", level |-> 2, popEqual |-> FALSE]

\* UNARY_OPERATOR_DESCS: the tokens from "(" to "+" in the order of Token.
\* The opening parenthesis is an operator that nothing pops past.
PointerTokens == {"?", "[*]", "[?]", "[]", "*"}
KeywordPrefixes == {"eval", "try", "defer"}
PrefixTokens == KeywordPrefixes \cup PointerTokens
                \cup {"(", "distinct", "~", "!", "...", "[...]", "-", "+"}

PrefixOp(tok) ==
  [tag |-> IF tok = "(" THEN "Paren" ELSE "Prefix", name |-> tok, popEqual |-> FALSE,
   level |-> CASE tok = "(" -> 10 [] tok \in KeywordPrefixes -> 8 [] OTHER -> 2]

\* BINARY_OPERATOR_DESCS: the tokens from "*" to ">>=".  The flag the table
\* calls right-to-left makes an operator pop its equals: it is set for the
\* operators that group to the left.
AssignTokens == {"=", "+=", "-=", "*=", "/=", "+:=", "-:=", "*:=", "%=", "&=", "|=", "^=",
                 "<<=", ">>="}
LevelOf == [t \in {".&", ".*"} |-> 1] @@ [t \in {"*", "/", "*:", "%"} |-> 2]
           @@ [t \in {"-", "+", "+:", "-:"} |-> 3] @@ [t \in {"<<", ">>"} |-> 4]
           @@ [t \in {"<", ">", "<=", ">=", "!=", "=="} |-> 5] @@ [t \in {"&", "|", "^"} |-> 6]
           @@ [t \in {"&&", "||"} |-> 7] @@ [t \in AssignTokens |-> 9]

\* Mutant: no operator pops its equals.
BinaryOpRightmost(tok) ==
  [tag |-> IF LevelOf[tok] = 1 THEN "Postfix" ELSE "Binary", name |-> tok,
   level |-> LevelOf[tok], popEqual |-> FALSE]

BinaryOp(tok) ==
  [tag |-> IF LevelOf[tok] = 1 THEN "Postfix" ELSE "Binary", name |-> tok,
   level |-> LevelOf[tok], popEqual |-> LevelOf[tok] \in 2 .. 7]

-----------------------------------------------------------------------------
(* Tokens, errors and nodes *)

\* peek_n(core, n); peek is Ahead(s, 0).  The end of the source repeats.
Ahead(s, n) == IF s.at + n \in DOMAIN s.in THEN s.in[s.at + n] ELSE "end"
Peek(s) == Ahead(s, 0)

Skip(s) == [s EXCEPT !.at = @ + 1]

\* parse_error_fatal and parse_error_continuable
Fatal(s) == [s EXCEPT !.stopped = TRUE, !.has_errors = TRUE]
Continuable(s) == [s EXCEPT !.has_errors = TRUE]

\* Skip the token, or stop when another one follows.
Expect(s, tok) ==
  IF s.stopped THEN s ELSE IF Peek(s) = tok THEN Skip(s) ELSE Fatal(s)

Push(s, first, tag, name, flags) ==
  IF s.stopped THEN s
  ELSE [s EXCEPT !.builder = PushNode(@, first, tag, name, flags), !.out = Len(s.builder) + 1]

\* A node whose first or only child is the one that s returns.
PushParent(s, tag) == Push(s, s.out, tag, "", {})

IsDefinitionStart(tok) == tok \in {"let", "pub", "mut"}

-----------------------------------------------------------------------------
(* The operator stack *)

\* pop_operator: combine the operands of the top operator; a node's first
\* child is its left operand.
PopOperator(s) ==
  LET top   == Last(s.ops)
      left  == [s EXCEPT !.ops = Front(@)]
      arity == IF top.tag = "Binary" THEN 2 ELSE 1
      rest  == SubSeq(s.vals, 1, Len(s.vals) - arity)
      node  == Push(left, s.vals[Len(s.vals) - arity + 1], top.tag, top.name, top.flags)
  IN  IF top.tag = "Paren" THEN left
      ELSE IF Len(s.vals) < arity THEN Fatal(s)
      ELSE [node EXCEPT !.vals = Append(rest, node.out)]

\* pop_to_precedence
RECURSIVE PopToPrecedence(_, _, _)
PopToPrecedence(s, level, popEqual) ==
  IF \/ s.stopped
     \/ s.ops = <<>>
     \/ Last(s.ops).level > level
     \/ Last(s.ops).level = level /\ ~popEqual
  THEN s
  ELSE PopToPrecedence(PopOperator(s), level, popEqual)

\* pop_remaining: an open parenthesis is dropped like any other operator.
PopRemaining(s) ==
  LET done == PopToPrecedence(s, 10, TRUE)
  IN  IF done.stopped THEN done
      ELSE IF Len(done.vals) # 1 THEN Fatal(done)
      ELSE [done EXCEPT !.out = Head(done.vals)]

PushOperand(s) ==
  IF s.stopped THEN s
  ELSE IF Len(s.vals) = MaxOperands THEN Fatal(s) ELSE [s EXCEPT !.vals = Append(@, s.out)]

PushOperator(s, op, flags) ==
  LET popped == IF op.tag = "Paren" THEN s ELSE PopToPrecedence(s, op.level, op.popEqual)
  IN  IF popped.stopped THEN popped
      ELSE IF Len(popped.ops) = MaxOperators THEN Fatal(popped)
      ELSE [popped EXCEPT !.ops = Append(@, op @@ [flags |-> flags])]

\* Replace the top operand by a node it is the first child of, all nodes
\* pushed since being its further children.
Wrap(s, tag, name, flags) ==
  LET node == Push(s, Last(s.vals), tag, name, flags)
  IN  IF s.stopped THEN s ELSE [node EXCEPT !.vals = Append(Front(@), node.out)]

-----------------------------------------------------------------------------
(* Recursive descent.  An operator is entered with the token that starts   *)
(* its construct next, and returns with the one behind the construct next. *)

RECURSIVE ParseExpr(_, _), Operand(_, _), Operator(_, _), Items(_, _), FurtherItems(_, _)

\* A construct of several clauses while it is parsed: the state, its first
\* child and its flags.
Begun(s) == [s |-> s, first |-> s.out, flags |-> {}]

\* A clause that follows when its keyword does.
Clause(r, keyword, flag, Parse(_)) ==
  IF r.s.stopped \/ Peek(r.s) # keyword THEN r
  ELSE [r EXCEPT !.s = Parse(@), !.flags = @ \cup {flag}]

Finished(r, tag) == Push(r.s, r.first, tag, "", r.flags)

SkipIf(s, tok) == IF Peek(s) = tok THEN Skip(s) ELSE s

\* The modifiers of a definition: "pub" and "mut" in any order, or "let".
RECURSIVE Modifiers(_, _)
Modifiers(r, isParam) ==
  IF Peek(r.s) \notin {"pub", "mut"} THEN r
  ELSE Modifiers([s |-> Skip(IF Peek(r.s) \in r.flags \/ (isParam /\ Peek(r.s) = "pub")
                             THEN Continuable(r.s) ELSE r.s),
                  flags |-> r.flags \cup {Peek(r.s)}], isParam)

ModifiersOrLet(r, isParam) ==
  IF Peek(r.s) = "let" THEN [r EXCEPT !.s = Skip(@)] ELSE Modifiers(r, isParam)

\* The type of a definition, if any.
DefinitionType(s, optional, isParam) ==
  IF Peek(s) # ":" THEN [s EXCEPT !.out = NoChildren, !.has_errors = @ \/ ~optional]
  ELSE IF isParam /\ Ahead(s, 1) = "..."
  THEN LET t == ParseExpr(Skip(Skip(s)), FALSE) IN Push(t, t.out, "Prefix", "...", {})
  ELSE ParseExpr(Skip(s), FALSE)

\* The value of a definition, if any.
DefinitionValue(type, optional) ==
  IF Peek(type) = "=" THEN ParseExpr(Skip(type), TRUE)
  ELSE [type EXCEPT !.has_errors = @ \/ ~optional]

\* The node of a definition, from the states behind its type and its value.
\* The first child is the type if there is one, else the value.
Defines(d, type, value) ==
  LET typed == Ahead(d.name, 1) = ":"
      first == IF type.out = NoChildren THEN value.out ELSE type.out
      node  == Push(value, first, IF d.isParam THEN "Parameter" ELSE "Definition", Peek(d.name),
                    d.flags \cup {f \in {"type"} : typed})
  IN  IF type.stopped THEN type
      ELSE IF d.isParam THEN [node EXCEPT !.variadic = typed /\ Ahead(d.name, 2) = "..."]
      ELSE node

DefinitionRest(d, type) == Defines(d, type, DefinitionValue(type, d.optionalValue))

NamedDefinition(mods, optionalType, optionalValue, isParam) ==
  IF Peek(mods.s) \notin Names THEN Fatal(mods.s)
  ELSE DefinitionRest([name |-> mods.s, flags |-> mods.flags,
                       isParam |-> isParam, optionalValue |-> optionalValue],
                      DefinitionType(Skip(mods.s), optionalType, isParam))

\* parse_definition
ParseDefinition(s, optionalType, optionalValue, isParam) ==
  LET start == IF isParam /\ Peek(s) = "eval" THEN [s |-> Skip(s), flags |-> {"eval"}]
               ELSE [s |-> s, flags |-> {}]
  IN  IF s.stopped THEN s
      ELSE NamedDefinition(ModifiersOrLet(start, isParam), optionalType, optionalValue, isParam)

\* parse_return, parse_yield and parse_leave
Leaving(s) ==
  IF Peek(s) = "leave" THEN Push(Skip(s), NoChildren, "Leave", "", {})
  ELSE LET value == ParseExpr(Skip(s), TRUE)
       IN  Push(value, value.out, IF Peek(s) = "return" THEN "Return" ELSE "Yield", "", {})

\* parse_statement
ParseStatement(s) ==
  CASE IsDefinitionStart(Peek(s)) -> ParseDefinition(s, TRUE, FALSE, FALSE)
    [] Peek(s) \in {"return", "leave", "yield"} -> Leaving(s)
    [] OTHER -> ParseExpr(s, TRUE)

\* parse_argument
ParseArgument(s) ==
  IF IsDefinitionStart(Peek(s)) \/ (Peek(s) \in Names /\ Ahead(s, 1) = ":")
  THEN ParseDefinition(s, TRUE, TRUE, FALSE)
  ELSE ParseExpr(s, TRUE)

\* A round of the loop over the parameters of a signature: only the last may
\* be variadic.
ParseParameter(s) ==
  ParseDefinition([s EXCEPT !.has_errors = @ \/ s.variadic], TRUE, TRUE, TRUE)

\* A round of the loop over the parameters of a trait.
ParseTraitParameter(s) ==
  IF Peek(s) \in Names THEN Skip(Push(s, NoChildren, "Identifier", Peek(s), {})) ELSE Fatal(s)

Item(s, kind) ==
  CASE kind = "statement"  -> ParseStatement(s)
    [] kind = "definition" -> ParseDefinition(s, TRUE, FALSE, FALSE)
    [] kind = "member"     -> ParseDefinition(s, FALSE, TRUE, FALSE)
    [] kind = "parameter"  -> ParseParameter(s)
    [] kind = "name"       -> ParseTraitParameter(s)
    [] kind = "argument"   -> ParseArgument(s)
    [] kind = "expression" -> ParseExpr(s, TRUE)

\* The loops that parse up to a closing bracket, each kind of item with commas
\* between or without.  They return in front of the bracket with the token of
\* the first item.  A comma may precede the bracket except among parameters.
Items(s, list) ==
  LET counted == IF list.kind \in {"parameter", "argument"} /\ list.count = MaxParams
                 THEN Continuable(s) ELSE s
  IN  CASE s.stopped -> s
        [] ~s.stopped /\ Peek(s) = list.close /\ ~(list.kind = "parameter" /\ list.comma) ->
             [s EXCEPT !.out = list.first]
        [] OTHER -> FurtherItems(Item(counted, list.kind), list)

\* What follows an item.
FurtherItems(item, list) ==
  LET next == [list EXCEPT !.first = IF @ = NoChildren THEN item.out ELSE @, !.count = @ + 1]
  IN  IF item.stopped THEN item
      ELSE IF list.kind \in {"statement", "definition", "member"} THEN Items(item, next)
      ELSE IF Peek(item) = "," THEN Items(Skip(item), [next EXCEPT !.comma = TRUE])
      ELSE IF Peek(item) = list.close THEN [item EXCEPT !.out = next.first] ELSE Fatal(item)

List(s, close, kind) ==
  Items(s, [close |-> close, kind |-> kind, first |-> NoChildren, count |-> 0, comma |-> FALSE])

Bracketed(s, close, kind, tag) ==
  Skip(PushParent(List(Skip(s), close, kind), tag))

\* The loops over the definitions of a where clause, and over the conditions
\* of expects and ensures, which end where no comma follows.
RECURSIVE CommaList(_, _)
CommaList(s, tag) ==
  LET item == IF tag = "Where" THEN ParseDefinition(s, TRUE, FALSE, FALSE) ELSE ParseExpr(s, FALSE)
  IN  IF Peek(item) = "," /\ ~item.stopped
      THEN [CommaList(Skip(item), tag) EXCEPT !.out = item.out] ELSE item

CommaClause(s, tag) ==
  PushParent(CommaList(Skip(s), tag), tag)

ParseWhere(s) == CommaClause(s, "Where")
ParseExpects(s) == CommaClause(s, "Expects")
ParseEnsures(s) == CommaClause(s, "Ensures")

Where(r) == Clause(r, "where", "where", ParseWhere)

\* The expression behind an optional keyword.
Body(r, keyword) == [r EXCEPT !.s = ParseExpr(SkipIf(@, keyword), TRUE)]

\* parse_if
ParseIf(s) ==
  LET Alternative(q) == ParseExpr(Skip(q), TRUE)
      condition == Begun(ParseExpr(Skip(s), FALSE))
  IN  Finished(Clause(Body(Where(condition), "then"), "else", "alternative", Alternative), "If")

\* What both kinds of loop end with.  The finally clause is parsed without
\* skipping its keyword.
LoopRest(r) ==
  LET Finally(q) == ParseExpr(q, TRUE)
  IN  Clause(Body(Where(r), "do"), "finally", "finally", Finally)

\* The test of try_parse_foreach, up to three tokens ahead.
IsForeach(s) ==
  \/ IsDefinitionStart(Peek(s))
  \/ Ahead(s, 1) = "<-"
  \/ Ahead(s, 1) = "," /\ (IsDefinitionStart(Ahead(s, 2)) \/ Ahead(s, 3) = "<-")

\* try_parse_foreach
ParseForeach(s) ==
  LET Index(q) == ParseDefinition(Skip(q), TRUE, TRUE, FALSE)
      Iterated(r) == [r EXCEPT !.s = ParseExpr(Expect(@, "<-"), FALSE)]
      element == Begun(ParseDefinition(s, TRUE, TRUE, FALSE))
  IN  Finished(LoopRest(Iterated(Clause(element, ",", "index", Index))), "ForEach")

\* parse_for
ParseFor(s) ==
  LET Step(q) == ParseExpr(Skip(q), TRUE)
      condition == Begun(ParseExpr(Skip(s), FALSE))
  IN  IF IsForeach(Skip(s)) THEN ParseForeach(Skip(s))
      ELSE Finished(LoopRest(Clause(condition, ",", "step", Step)), "For")

\* parse_switch with parse_case, which ends at the arrow.
RECURSIVE Cases(_)
Cases(s) ==
  LET label == ParseExpr(Skip(s), FALSE)
      case  == PushParent(Expect(label, "->"), "Case")
  IN  IF case.stopped \/ Peek(case) # "case" THEN case ELSE Cases(case)

ParseSwitch(s) ==
  LET CasesOf(q) == IF q.stopped THEN q ELSE IF Peek(q) = "case" THEN Cases(q) ELSE Continuable(q)
      switched == Begun(ParseExpr(Skip(s), FALSE))
  IN  Finished([Where(switched) EXCEPT !.s = CasesOf(@)], "Switch")

\* parse_signature
ParseSignature(s) ==
  LET flags  == IF Peek(s) = "proc" THEN {"proc"} ELSE {}
      params == List([Expect(Skip(s), "(") EXCEPT !.variadic = FALSE], ")", "parameter")
      list   == [Begun(PushParent(params, "ParameterList")) EXCEPT !.flags = flags]
      return == [list EXCEPT !.s = ParseExpr(Expect(Skip(@), "->"), FALSE)]
      expects == Clause(return, "expects", "expects", ParseExpects)
  IN  Finished(Clause(expects, "ensures", "ensures", ParseEnsures), "Signature")

\* parse_func
FuncOf(signature) ==
  IF signature.stopped \/ Peek(signature) # "=>" THEN signature
  ELSE Push(ParseExpr(Skip(signature), TRUE), signature.out, "Func", "", {})

ParseFunc(s) == FuncOf(ParseSignature(s))

\* parse_trait, from its list of parameters on.  Its expects clause is entered
\* one token late: the keyword has been skipped already, and parse_expects skips
\* another token.
TraitOf(list) ==
  LET conditions == IF Ahead(list, 1) = "expects" THEN ParseExpects(Skip(Skip(list))) ELSE Skip(list)
      members == List(Expect(conditions, "{"), "}", "member")
  IN  IF list.stopped THEN list ELSE Skip(Push(members, list.out, "Trait", "", {}))

ParseTrait(s) ==
  TraitOf(PushParent(List(Expect(Skip(s), "("), ")", "name"), "TraitParameterList"))

-----------------------------------------------------------------------------
(* Expressions *)

LeafTags == [n \in Names |-> "Identifier"] @@ [l \in Literals |-> "Literal"]
            @@ [t \in {"_", "unreachable", "undefined", "self", "builtin"} |-> "Leaf"]

\* The operands that are complete by themselves.
Primary(s) ==
  LET tok == Peek(s)
  IN  CASE tok \in DOMAIN LeafTags -> Skip(Push(s, NoChildren, LeafTags[tok], tok, {}))
        [] tok = ".{" -> Bracketed(s, "}", "expression", "CompositeInitializer")
        [] tok = ".[" -> Bracketed(s, "]", "expression", "ArrayInitializer")
        [] tok = "{" -> Bracketed(s, "}", "statement", "Block")
        [] tok = "if" -> ParseIf(s)
        [] tok = "for" -> ParseFor(s)
        [] tok = "switch" -> ParseSwitch(s)
        [] tok \in {"func", "proc"} -> ParseFunc(s)
        [] tok = "trait" -> ParseTrait(s)
        [] tok = "." -> IF Ahead(s, 1) \in Names
                        THEN Skip(Skip(Push(s, NoChildren, "ImpliedMember", Ahead(s, 1), {})))
                        ELSE Fatal(s)

\* A prefix operator; those that make pointers take "mut".
Prefix(s) ==
  LET mut == Peek(s) \in PointerTokens /\ Ahead(s, 1) = "mut"
      noted == IF Peek(s) = "..." THEN Continuable(s) ELSE s
  IN  PushOperator(IF mut THEN Skip(Skip(noted)) ELSE Skip(noted), PrefixOp(Peek(s)),
                   IF mut THEN {"mut"} ELSE {})

\* "[" where an operand is expected: the count is the left operand of an
\* operator whose right operand is the element type.
ArrayType(s) ==
  LET count == PushOperand(Expect(ParseExpr(Skip(s), FALSE), "]"))
  IN  PushOperator(count, ArrayTypeOp, {})

\* The loop of parse_expr while an operand is expected.
Operand(s, complex) ==
  LET tok == Peek(s)
  IN  CASE s.stopped -> s
        [] ~s.stopped /\ tok = "[" -> Operand(ArrayType(s), complex)
        [] ~s.stopped /\ tok \in PrefixTokens -> Operand(Prefix(s), complex)
        [] ~s.stopped /\ \/ tok \in DOMAIN LeafTags
                         \/ tok \in {".{", ".[", "{", "if", "for", "switch", "func", "proc",
                                     "trait", "."} ->
             Operator(PushOperand(Primary(s)), complex)
        [] OTHER -> Fatal(s)

\* Mutant: the call takes the last operand as it is.
CallUnpopped(s) == Skip(Wrap(List(Skip(s), ")", "argument"), "Call", "", {}))

\* A postfix construct starts by completing the operators that bind tighter.
Call(s) ==
  Skip(Wrap(List(Skip(PopToPrecedence(s, 1, TRUE)), ")", "argument"), "Call", "", {}))

\* The end of a slice, then its closing bracket.
SliceEnd(s, flags) ==
  IF Peek(s) = "]" THEN Skip(Wrap(s, "OpSliceOf", "", flags))
  ELSE Wrap(Expect(ParseExpr(s, FALSE), "]"), "OpSliceOf", "", flags \cup {"end"})

IndexOrSlice(s) ==
  LET inside == Skip(PopToPrecedence(s, 1, TRUE))
      begin  == ParseExpr(inside, FALSE)
  IN  CASE inside.stopped -> inside
        [] ~inside.stopped /\ Peek(inside) = ".." -> SliceEnd(Skip(inside), {})
        [] OTHER -> IF begin.stopped THEN begin
                    ELSE IF Peek(begin) = "]" THEN Skip(Wrap(begin, "OpArrayIndex", "", {}))
                    ELSE IF Peek(begin) = ".." THEN SliceEnd(Skip(begin), {"begin"})
                    ELSE Fatal(begin)

Catch(s) ==
  LET inside == Skip(PopToPrecedence(s, 1, TRUE))
      named  == IsDefinitionStart(Peek(inside)) \/ Ahead(inside, 1) = "->"
      value  == Expect(ParseDefinition(inside, TRUE, TRUE, FALSE), "->")
  IN  Wrap(ParseExpr(IF named THEN value ELSE inside, FALSE), "Catch", "",
           IF named THEN {"definition"} ELSE {})

Member(s) ==
  LET inside == Skip(PopToPrecedence(s, 1, TRUE))
  IN  IF inside.stopped \/ Peek(inside) \notin Names THEN Fatal(inside)
      ELSE Skip(Wrap(inside, "Member", Peek(inside), {}))

Impl(s) ==
  LET trait == ParseExpr(Skip(PopToPrecedence(s, 9, TRUE)), FALSE)
  IN  Skip(Wrap(List(Expect(trait, "{"), "}", "definition"), "Impl", "", {}))

\* ")" closes the innermost parenthesis of this expression, or ends it.
CloseParen(s, complex) ==
  LET popped == PopToPrecedence(s, 10, FALSE)
  IN  IF popped.stopped THEN popped
      ELSE IF popped.ops = <<>> THEN [popped EXCEPT !.out = Last(popped.vals)]
      ELSE Operator([Skip(popped) EXCEPT !.ops = Front(@)], complex)

\* The loop of parse_expr after an operand.  An assignment ends an expression
\* that may not be complex.
Operator(s, complex) ==
  LET tok == Peek(s)
      infix == Skip(PushOperator(s, BinaryOp(tok), {}))
  IN  CASE s.stopped -> s
        [] ~s.stopped /\ tok = "(" -> Operator(Call(s), complex)
        [] ~s.stopped /\ tok = ")" -> CloseParen(s, complex)
        [] ~s.stopped /\ tok = "[" -> Operator(IndexOrSlice(s), complex)
        [] ~s.stopped /\ tok = "catch" -> Operator(Catch(s), complex)
        [] ~s.stopped /\ tok = "." -> Operator(Member(s), complex)
        [] ~s.stopped /\ tok = "impl" -> Operator(Impl(s), complex)
        [] ~s.stopped /\ tok \in DOMAIN LevelOf /\ (complex \/ tok # "=") ->
             IF BinaryOp(tok).tag = "Binary" THEN Operand(infix, complex)
                                             ELSE Operator(infix, complex)
        [] OTHER -> PopRemaining(s)

ParseExpr(s, complex) ==
  LET end == Operand([s EXCEPT !.ops = <<>>, !.vals = <<>>], complex)
  IN  IF s.stopped THEN s ELSE [end EXCEPT !.ops = s.ops, !.vals = s.vals]

-----------------------------------------------------------------------------
(* Files *)

\* parse_file: definitions to the end of the source.  Anything else is
\* reported once and skipped as an expression.
RECURSIVE ParseFile(_, _), FurtherFile(_, _)
ParseFile(s, first) ==
  IF s.stopped THEN s
  ELSE IF Peek(s) = "end" THEN Push(s, first, "File", "", {})
  ELSE FurtherFile(IF IsDefinitionStart(Peek(s)) THEN ParseDefinition(s, TRUE, FALSE, FALSE)
                   ELSE ParseExpr(Continuable(s), TRUE),
                   first)

FurtherFile(item, first) == ParseFile(item, IF first = NoChildren THEN item.out ELSE first)

\* parse, up to the completion of the tree
Parse(tokens) ==
  ParseFile([in |-> tokens, at |-> 1, builder |-> <<>>, out |-> NoChildren, ops |-> <<>>,
             vals |-> <<>>, variadic |-> FALSE, stopped |-> FALSE, has_errors |-> FALSE],
            NoChildren)

=============================================================================
