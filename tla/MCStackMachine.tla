---------------------------- MODULE MCStackMachine ----------------------------
(***************************************************************************)
(* File members for the stack machine: families of programs, each built    *)
(* from a few forms in all combinations.                                   *)
(***************************************************************************)
EXTENDS StackMachine

int == TypeName(IntType)
void == TypeName(VoidType)
a == Name("a")
b == Name("b")
x == Name("x")
f == Name("f")
g == Name("g")
p == Name("p")
q == Name("q")

Untyped(v) == [type |-> <<>>, value |-> v]
As(type, v) == [type |-> <<type>>, value |-> v]

\* A function of one integer parameter p.
Fun(body) == Func(<<Parameter("p", int)>>, int, body)

\* Ways to combine two integers, as operands, in scopes, branches, and calls.
\* No scope ends with the place of a variable of its own as its value.
Combined(l, r) ==
  {Add(l, r), Index(Array(<<r, l>>), Literal(1)),
   Block(<<Let("b", l), Add(b, r)>>),
   IfElse(<<>>, Less(l, r), l, Add(r, r)),
   IfElse(<<Let("b", l)>>, Less(b, r), r, Add(b, b)),
   Call(Fun(Add(p, r)), <<l>>),
   Call(Fun(Block(<<Let("b", r), Typed(Let("c", p), int), Add(b, Name("c"))>>)), <<l>>),
   NamedCall(Func(<<Parameter("p", int), Parameter("q", int)>>, int,
                  IfElse(<<>>, Less(p, Name("q")), p, Add(Name("q"), Name("q")))),
             <<"q", "p">>, <<l, r>>)}

Atoms == {Literal(1), a}
Simple1 == UNION {Combined(l, r) : l \in Atoms, r \in {a}}
Simple2 == UNION {Combined(l, r) : l \in Simple1, r \in {a}}
             \cup UNION {Combined(l, r) : l \in {a}, r \in Simple1}

\* Their value as the member's, or as an operand.
Expressions ==
  {As(int, Block(<<Let("a", Literal(2)), e>>)) : e \in Simple2}
    \cup {Untyped(Block(<<Let("a", Literal(2)), Add(e, a)>>)) : e \in Simple2}

\* Statements about a mutable x and an immutable a.
Assignments == {Set(x, Add(x, a)), SetAdd(x, Literal(1)), Set(x, a)}
Compound(s) ==
  {Block(<<Let("b", a), s, Set(x, Add(x, b))>>),
   If(<<>>, Less(x, Literal(3)), Block(<<s>>)),
   If(<<Let("b", a)>>, Less(x, b), Block(<<s>>)),
   IfElse(<<>>, Less(a, x), Block(<<s>>), Block(<<Let("b", x), Set(x, b)>>)),
   Block(<<Mut(Let("c", Literal(0))),
           For(<<>>, Less(Name("c"), a), Set(Name("c"), Add(Name("c"), Literal(1))),
               Block(<<Let("b", a), s>>))>>),
   For(<<Mut(Let("b", Literal(0)))>>, Less(b, a), SetAdd(b, Literal(1)), s)}
Statements == Assignments \cup UNION {Compound(s) : s \in Assignments}
Programs2 == {Block(<<s, t>>) : s \in Statements, t \in UNION {Compound(u) : u \in Statements}}

Procedures ==
  {As(int, Block(<<Let("a", Literal(2)), Mut(Let("x", Literal(0))), s, x>>)) : s \in Programs2}


\* A function f that sees a: as it is, beside its own parameter, in a function
\* of its own, and in one that sees f's parameter too.
Within(e, arg) == Block(<<Let("g", Func(<<Parameter("q", int)>>, int, e)), Call(g, <<arg>>)>>)

Bodies ==
  {Add(p, a), IfElse(<<>>, Less(p, a), a, p), Block(<<Let("b", a), Let("c", p), Add(Name("c"), b)>>),
   Within(Add(q, a), p), Within(Add(q, p), a), Within(Add(Add(p, p), Add(a, q)), Add(p, a)),
   Within(Call(Fun(Add(p, a)), <<q>>), p), Call(Fun(Block(<<Let("b", p), Add(b, a)>>)), <<Add(a, p)>>)}

\* Calls of f, in arguments, below another a, in conditions, and in a loop.
Calls ==
  LET of(e) == Call(f, <<e>>)
  IN  {of(a), Add(of(Literal(1)), of(of(a))), Block(<<Let("a", Literal(5)), Add(of(a), a)>>),
       IfElse(<<Let("b", of(a))>>, Less(a, b), of(b), Add(a, a)),
       Block(<<Mut(Let("x", Literal(0))),
               For(<<>>, Less(x, Literal(5)), Set(x, of(x)), SetAdd(x, Literal(1))),
               Add(x, a)>>)}

WithA(items) == Block(<<Let("a", Literal(2))>> \o items)

Functions ==
  LET all == {WithA(<<Let("f", Fun(body)), call>>) : body \in Bodies, call \in Calls}
  IN  {As(int, e) : e \in all} \cup {Untyped(Add(Literal(1), e)) : e \in all}

\* What has no meaning: a wrong argument list, a wrong type, an assignment to
\* what is not mutable, an index out of bounds, a value that nobody uses.
Two == Func(<<Parameter("p", int), Parameter("q", int)>>, int, Add(p, q))

Wrong ==
  {Call(Fun(p), <<>>), Call(Fun(p), <<a, a>>), NamedCall(Fun(p), <<"q">>, <<a>>),
   NamedCall(Two, <<"p", "p">>, <<a, a>>), NamedCall(Two, <<"q", Positional>>, <<a, a>>),
   NamedCall(Two, <<Positional, "p">>, <<a, a>>),
   Call(a, <<a>>), Call(Fun(p), <<Less(a, a)>>), Call(Fun(Less(p, a)), <<a>>),
   Call(Fun(Block(<<Set(p, a), a>>)), <<a>>), Call(Fun(Block(<<SetAdd(a, p), a>>)), <<a>>),
   Add(a, Less(a, a)), Less(int, a), IfElse(<<>>, a, a, a), Block(<<If(<<>>, a, Block(<<>>)), a>>),
   Block(<<If(<<>>, Less(Literal(1), a), a), a>>), Block(<<a, Literal(1)>>),
   Index(Array(<<a>>), a), Index(a, Literal(0)), Array(<<a, Less(a, a)>>),
   Block(<<Typed(Let("b", Less(a, a)), int), Literal(1)>>), Block(<<Typed(Let("b", a), a), Literal(1)>>),
   Block(<<SetAdd(a, Literal(1)), Literal(1)>>), Block(<<Mut(Let("x", Array(<<a>>))), Set(Index(x, a), a), a>>),
   Func(<<Parameter("p", Literal(1))>>, int, a), Func(<<>>, Literal(1), a), Name("z")}

Failing ==
  LET all == UNION {{w, Add(a, w), IfElse(<<>>, Less(a, Literal(3)), Add(w, a), a),
                     Call(Fun(Add(p, a)), <<w>>)} : w \in Wrong}
  IN  {As(int, WithA(<<e>>)) : e \in all} \cup {Untyped(WithA(<<e>>)) : e \in all}

\* Void values, arrays of a type, defaults, values seen before they change, and
\* parameters that can be set.
Assorted ==
  LET p_ == Parameter("p", int)
      given == NamedCall(Func(<<Default(p_, Literal(5)), Optional("q", Literal(3))>>, int, Add(p, q)),
                         <<"q", "p">>, <<a, Literal(1)>>)
      seen == <<Mut(Let("x", Literal(1))), Let("f", Fun(Add(p, x))), Set(x, Literal(9)), Call(f, <<x>>)>>
      setting == Call(Func(<<Mut(p_)>>, int, Block(<<SetAdd(p, a), Set(p, Add(p, a)), p>>)), <<a>>)
      procedure(body) == WithA(<<Call(Func(<<Mut(p_)>>, void, body), <<a>>), Literal(7)>>)
      cells == <<Mut(Let("x", Array(<<a, Literal(1)>>))), Set(Index(x, Literal(1)), Index(x, Literal(0))),
                 SetAdd(Index(x, Literal(0)), a), Add(Index(x, Literal(0)), Index(x, Literal(1)))>>
  IN  {As(void, WithA(<<If(<<>>, Less(a, n), Block(<<>>))>>)) : n \in {Literal(1), Literal(3)}}
        \cup {As(t, WithA(<<If(<<>>, Less(a, Literal(3)), e)>>)) : t \in {void, int}, e \in {a, Block(<<>>)}}
        \cup {As(TypeName(ArrayOf(n)), WithA(<<Array(<<Add(a, a)>>)>>)) : n \in {1}}
        \cup {As(TypeName(ArrayOf(1)), e) : e \in {Array(<<Literal(1), Literal(2)>>), Literal(1)}}
        \cup {As(t, WithA(items)) : t \in {int, void}, items \in {seen, cells, <<given>>, <<setting>>}}
        \cup {As(int, procedure(body)) : body \in {Set(p, a), SetAdd(p, a), Block(<<>>), p}}
        \cup {As(Literal(1), Literal(1))}

MCSources == Expressions \cup Procedures \cup Functions \cup Failing \cup Assorted
MCStale == {0}

\* The functions of return.evl and return-from-nested.evl.
WithReturn ==
  {As(int, Call(Func(<<>>, int, body), <<>>)) :
     body \in {Block(<<Return(Literal(65539))>>), Block(<<Block(<<Block(<<Return(Literal(65539))>>)>>)>>)}}

\* A default that is a variable of the surrounding block.
WithOuterDefault ==
  {As(int, WithA(<<Call(Func(<<Default(Parameter("p", int), a)>>, int, p), <<Literal(1)>>)>>))}

\* array-literal.evl.
WithTypedArray == {As(TypeName(ArrayOf(2)), Array(<<Literal(17), Literal(34)>>))}
=============================================================================
