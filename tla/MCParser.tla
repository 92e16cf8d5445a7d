------------------------------ MODULE MCParser ------------------------------
(***************************************************************************)
(* Programs for FrontEnd: every construct over small operands, the         *)
(* constructs of every level inside each other, and all short sequences of *)
(* a few tokens.                                                           *)
(***************************************************************************)
EXTENDS FrontEnd

CONSTANTS Alphabets, MaxLength

Id(n) == Node("Identifier", n, <<>>)
A == Id("a")
B == Id("b")
One == Node("Literal", "1", <<>>)
Bin(op, l, r) == Node("Binary", op, <<l, r>>)
Pre(op, x) == Node("Prefix", op, <<x>>)
MutPtr(x) == Tree("Prefix", "*", {"mut"}, [kids |-> <<x>>])
Let(n, v) == Defined("Definition", {}, n, <<>>, <<v>>)
Block(s) == Node("Block", "", s)

\* One operator of each level and each way of grouping.
BinaryOps == {"*", "-", "<<", "<", "&", "&&", "=", "+="}
PrefixOps == {"-", "*", "eval", "[]"}

Operators(X) ==
  {Bin(op, l, r) : op \in BinaryOps, l \in X, r \in X}
  \cup {Pre(op, x) : op \in PrefixOps, x \in X}
  \cup {MutPtr(x) : x \in X} \cup {Bin("[n]", One, x) : x \in X}
  \cup {Node("Postfix", op, <<x>>) : op \in {".&", ".*"}, x \in X}
  \cup {Node("Member", "b", <<x>>) : x \in X}
  \cup {Node("OpArrayIndex", "", <<x, y>>) : x \in X, y \in {B}}
  \cup {Node("Call", "", <<x>> \o args) : x \in X,
          args \in {<<>>, <<B>>, <<Defined("Definition", {}, "x", <<A>>, <<One>>), A>>}}

\* Brackets, clauses and definitions in every combination of what is optional.
Optionals(x) == {<<>>, <<x>>}
WhereOf(x) == Node("Where", "", <<Let("x", x), Let("y", One)>>)
Params(x) ==
  Node("ParameterList", "",
       <<Defined("Parameter", {"eval"}, "x", <<A>>, <<x>>), Defined("Parameter", {"mut"}, "y", <<>>, <<>>),
         Defined("Parameter", {}, "z", <<Pre("...", A)>>, <<>>)>>)

Loops(x) ==
  {Tree("For", "", {}, [condition |-> <<A>>, step |-> s, where |-> w, body |-> <<x>>, finally |-> <<>>]) :
      s \in Optionals(Bin("+=", A, One)), w \in Optionals(WhereOf(x))}
  \cup {Tree("ForEach", "", {},
             [element |-> <<Defined("Definition", {}, "x", <<>>, <<>>)>>, index |-> i, iterated |-> <<A>>,
              where |-> w, body |-> <<x>>, finally |-> <<>>]) :
      i \in Optionals(Defined("Definition", {}, "y", <<>>, <<>>)), w \in Optionals(WhereOf(x))}

Conditionals(x) ==
  {Tree("If", "", {}, [condition |-> <<B>>, where |-> w, consequent |-> <<x>>, alternative |-> e]) :
      w \in Optionals(WhereOf(A)), e \in Optionals(x)}

Signature(x, f, q, e) ==
  Tree("Signature", "", f, [parameters |-> <<Params(x)>>, return_type |-> <<MutPtr(A)>>,
                            expects |-> q, ensures |-> e])

Functions_(x) ==
  {Signature(x, f, q, e) : f \in {{}, {"proc"}},
      q \in Optionals(Node("Expects", "", <<A, B>>)), e \in Optionals(Node("Ensures", "", <<B>>))}
  \cup {Node("Func", "", <<Signature(One, {}, <<>>, <<>>), x>>)}

Brackets(x) ==
  {Block(<<x>>), Block(<<>>), Node("ArrayInitializer", "", <<x, A>>),
   Node("CompositeInitializer", "", <<Bin("=", Node("ImpliedMember", "x", <<>>), x), A>>),
   Block(<<Let("x", x), Defined("Definition", {"mut", "pub"}, "y", <<A>>, <<x>>), Node("Return", "", <<x>>)>>),
   Block(<<Node("Yield", "", <<x>>), Node("Leave", "", <<>>)>>),
   Node("Trait", "", <<Node("TraitParameterList", "", <<A, B>>),
                       Defined("Definition", {}, "x", <<A>>, <<>>), Defined("Definition", {}, "y", <<A>>, <<x>>)>>)}
  \cup {Tree("OpSliceOf", "", {}, [sliced |-> <<x>>, begin |-> b, end |-> e]) :
          b \in Optionals(One), e \in Optionals(B)}

Trailing(x) ==
  {Node("Catch", "", <<A, x>>),
   Node("Catch", "", <<A, Defined("Definition", {}, "b", <<>>, <<>>), x>>),
   Node("Impl", "", <<A, B, Let("x", x)>>)}

Constructs(x) == Loops(x) \cup Conditionals(x) \cup Functions_(x) \cup Brackets(x) \cup Trailing(x)

Small == {A, One}
Flat_ == Operators({A})

\* A representative of each construct, for the places inside another.
Inner ==
  Flat_ \cup {Tree("If", "", {}, [condition |-> <<B>>, where |-> <<>>, consequent |-> <<A>>, alternative |-> <<>>]),
              Tree("For", "", {}, [condition |-> <<A>>, step |-> <<>>, where |-> <<>>, body |-> <<B>>, finally |-> <<>>]),
              Node("Func", "", <<Signature(One, {}, <<>>, <<>>), A>>),
              Node("Catch", "", <<A, B>>), Node("Impl", "", <<A, B>>), Block(<<A>>)}

\* An expression that may not be complex has no assignment at its end.
Assigns(t) == t.tag = "Binary" /\ t.name = "="

Values ==
  Small \cup Operators(Inner)
  \cup UNION {Constructs(x) : x \in {A} \cup {y \in Inner : ~Assigns(y)}}

Whole(v) == Node("File", "", <<Let("x", v), Defined("Definition", {"pub"}, "y", <<A>>, <<v>>)>>)

\* Only children, first children and last children below each other, to a few
\* levels around MaxAstDepth.  The last have a sibling open on every level.
Nested(Around(_), k) ==
  LET at[n \in 0 .. k] == IF n = 0 THEN A ELSE Around(at[n - 1]) IN at[k]

Deep ==
  UNION {{Nested(LAMBDA x : Pre("-", x), k), Nested(LAMBDA x : Block(<<x>>), k),
          Nested(LAMBDA x : Bin("-", x, B), k), Nested(LAMBDA x : Bin("-", B, x), k)} :
           k \in MaxAstDepth - 5 .. MaxAstDepth + 2}

MCPrograms == {Whole(v) : v \in Values \cup Deep}
MCStrings == UNION {[1 .. n -> alphabet] : n \in 1 .. MaxLength, alphabet \in Alphabets}
=============================================================================
