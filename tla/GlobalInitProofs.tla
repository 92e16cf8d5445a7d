-------------------------- MODULE GlobalInitProofs --------------------------
(***************************************************************************)
(* Proofs about the initialization of globals, for every set of globals    *)
(* and programs and any room for activations.                              *)
(***************************************************************************)
EXTENDS GlobalInit, NumberFacts, FiniteSetTheorems, SequenceTheorems

Loads == {"load_global", "load_member"}

ExpressionOps == {"literal", "import", "sum"} \cup Loads

DefinitionOps ==
  {"type_type", "prepare", "alloc_typed", "alloc_untyped", "complete_circular", "complete", "end_code"}

Instructions == [op : ExpressionOps \cup DefinitionOps, ctx : BOOLEAN, of : Globals]

\* What the code of an expression is: only its last instruction may have a
\* context, and what it loads is mentioned.
Evaluates(s, e, ctx) ==
  /\ s \in Seq(Instructions) /\ Len(s) \in Nat \ {0}
  /\ \A i \in 1 .. Len(s) :
        /\ s[i] \in Instructions /\ s[i].op \in ExpressionOps
        /\ s[i].ctx <=> ctx /\ i = Len(s)
        /\ s[i].op \in Loads => s[i].of \in Mentions(e)
        /\ s[i].op = "load_member" /\ i = Len(s) => e.form = "member"

LEMMA SimpleForms ==
  ASSUME NEW e \in SimpleExpressions
  PROVE  /\ e.form \in {"literal", "import", "global", "member"}
         /\ e.form = "global" => e.of \in Globals
         /\ e.form = "member" => e.of \in Globals /\ e.via \in Globals
  BY DEF SimpleExpressions, Literal, Import, Global, Member

LEMMA SimpleMentioned ==
  ASSUME NEW e \in SimpleExpressions
  PROVE  /\ Mentions(e) = SimpleMentions(e)
         /\ e.form = "global" => e.of \in SimpleMentions(e)
         /\ e.form = "member" => e.of \in SimpleMentions(e) /\ e.via \in SimpleMentions(e)
<1>1. e.form \in {"literal", "import", "global", "member"}
  BY SimpleForms
<1>2. Mentions(e) = SimpleMentions(e)
  BY <1>1 DEF Mentions
<1>3. e.form = "global" => SimpleMentions(e) = {e.of}
  BY DEF SimpleMentions
<1>4. e.form = "member" => SimpleMentions(e) = {e.via, e.of}
  BY DEF SimpleMentions
<1> QED
  BY <1>2, <1>3, <1>4

LEMMA SimpleEvaluates ==
  ASSUME NEW e \in SimpleExpressions, NEW ctx \in BOOLEAN, NEW g \in Globals
  PROVE  Evaluates(SimpleCode(e, ctx, g), e, ctx)
<1>0. PICK s : s = SimpleCode(e, ctx, g)
  OBVIOUS
<1>1. e.form \in {"literal", "import", "global", "member"}
  BY SimpleForms
<1>2. CASE e.form \in {"literal", "import"}
  <2>1. PICK x : x = Instr(e.form, ctx, g)
    OBVIOUS
  <2>2. x \in Instructions /\ x.op = e.form /\ (x.ctx <=> ctx)
    BY <1>2, <2>1 DEF Instr, Instructions, ExpressionOps, Loads
  <2>3. s = <<x>>
    BY <1>0, <1>2, <2>1 DEF SimpleCode
  <2>4. s \in Seq(Instructions) /\ Len(s) = 1 /\ s[1] = x
    BY <2>2, <2>3
  <2> QED
    BY <1>0, <1>2, <2>2, <2>4 DEF Evaluates, ExpressionOps, Loads
<1>3. CASE e.form = "global"
  <2>1. PICK x : x = Instr("load_global", ctx, e.of)
    OBVIOUS
  <2>2. x \in Instructions /\ x.op = "load_global" /\ (x.ctx <=> ctx) /\ x.of = e.of
    BY <1>3, <2>1, SimpleForms DEF Instr, Instructions, ExpressionOps, Loads
  <2>3. s = <<x>>
    BY <1>0, <1>3, <2>1 DEF SimpleCode
  <2>4. s \in Seq(Instructions) /\ Len(s) = 1 /\ s[1] = x
    BY <2>2, <2>3
  <2>5. e.of \in Mentions(e)
    BY <1>3, SimpleMentioned
  <2> QED
    BY <1>0, <2>2, <2>4, <2>5 DEF Evaluates, ExpressionOps, Loads
<1>4. CASE e.form = "member"
  <2>1. PICK x : x = Instr("load_global", FALSE, e.via)
    OBVIOUS
  <2>2. PICK y : y = Instr("load_member", ctx, e.of)
    OBVIOUS
  <2>3. x \in Instructions /\ x.op = "load_global" /\ ~x.ctx /\ x.of = e.via
    BY <1>4, <2>1, SimpleForms DEF Instr, Instructions, ExpressionOps, Loads
  <2>4. y \in Instructions /\ y.op = "load_member" /\ (y.ctx <=> ctx) /\ y.of = e.of
    BY <1>4, <2>2, SimpleForms DEF Instr, Instructions, ExpressionOps, Loads
  <2>5. s = <<x, y>>
    BY <1>0, <1>4, <2>1, <2>2 DEF SimpleCode
  <2>6. s \in Seq(Instructions) /\ Len(s) = 2 /\ s[1] = x /\ s[2] = y
    BY <2>3, <2>4, <2>5
  <2>7. e.of \in Mentions(e) /\ e.via \in Mentions(e)
    BY <1>4, SimpleMentioned
  <2> QED
    BY <1>0, <1>4, <2>3, <2>4, <2>6, <2>7 DEF Evaluates, ExpressionOps, Loads
<1> QED
  BY <1>0, <1>1, <1>2, <1>3, <1>4

LEMMA ConcatFacts ==
  ASSUME NEW S, NEW s \in Seq(S), NEW t \in Seq(S)
  PROVE  /\ s \o t \in Seq(S) /\ Len(s \o t) = Len(s) + Len(t) /\ Len(s) \in Nat /\ Len(t) \in Nat
         /\ \A i \in 1 .. Len(s) : (s \o t)[i] = s[i]
         /\ \A i \in Len(s) + 1 .. Len(s) + Len(t) : (s \o t)[i] = t[i - Len(s)]
  OBVIOUS

LEMMA AppendedFacts ==
  ASSUME NEW S, NEW s \in Seq(S), NEW x \in S, NEW n \in Nat, Len(s) = n
  PROVE  /\ s \o <<x>> \in Seq(S) /\ Len(s \o <<x>>) = n + 1 /\ (s \o <<x>>)[n + 1] = x
         /\ \A i \in 1 .. n : (s \o <<x>>)[i] = s[i]
<1>1. <<x>> \in Seq(S) /\ Len(<<x>>) = 1 /\ <<x>>[1] = x
  OBVIOUS
<1>2. PICK t : t = <<x>>
  OBVIOUS
<1>3. t \in Seq(S) /\ Len(t) = 1 /\ t[1] = x
  BY <1>1, <1>2
<1>4. /\ s \o t \in Seq(S) /\ Len(s \o t) = n + 1
      /\ \A i \in 1 .. n : (s \o t)[i] = s[i]
      /\ \A i \in n + 1 .. n + 1 : (s \o t)[i] = t[i - n]
  <2>1. /\ s \o t \in Seq(S) /\ Len(s \o t) = Len(s) + Len(t)
        /\ \A i \in 1 .. Len(s) : (s \o t)[i] = s[i]
        /\ \A i \in Len(s) + 1 .. Len(s) + Len(t) : (s \o t)[i] = t[i - Len(s)]
    BY <1>3, ConcatFacts
  <2> QED
    BY <1>3, <2>1
<1>5. (s \o t)[n + 1] = x
  <2>1. n + 1 \in n + 1 .. n + 1 /\ n + 1 - n = 1
    OBVIOUS
  <2> QED
    BY <1>3, <1>4, <2>1
<1> QED
  BY <1>2, <1>4, <1>5

LEMMA ExprEvaluates ==
  ASSUME NEW e \in Expressions, NEW ctx \in BOOLEAN, NEW g \in Globals
  PROVE  Evaluates(ExprCode(e, ctx, g), e, ctx)
<1>1. CASE e \in SimpleExpressions
  <2>1. e.form # "sum"
    BY <1>1, SimpleForms
  <2>2. ExprCode(e, ctx, g) = SimpleCode(e, ctx, g)
    BY <2>1 DEF ExprCode
  <2> QED
    BY <1>1, <2>2, SimpleEvaluates
<1>2. ASSUME NEW l \in SimpleExpressions, NEW r \in SimpleExpressions, e = Sum(l, r)
      PROVE  Evaluates(ExprCode(e, ctx, g), e, ctx)
  <2>1. e.form = "sum" /\ e.left = l /\ e.right = r
    BY <1>2 DEF Sum
  <2>2. PICK a : a = SimpleCode(l, FALSE, g)
    OBVIOUS
  <2>3. PICK b : b = SimpleCode(r, FALSE, g)
    OBVIOUS
  <2>4. PICK x : x = Instr("sum", ctx, g)
    OBVIOUS
  <2>5. x \in Instructions /\ x.op = "sum" /\ (x.ctx <=> ctx)
    BY <2>4 DEF Instr, Instructions, ExpressionOps, Loads
  <2>6. Evaluates(a, l, FALSE) /\ Evaluates(b, r, FALSE)
    BY <2>2, <2>3, SimpleEvaluates
  <2>7. Mentions(l) \subseteq Mentions(e) /\ Mentions(r) \subseteq Mentions(e)
    <3>1. Mentions(l) = SimpleMentions(l) /\ Mentions(r) = SimpleMentions(r)
      BY SimpleMentioned
    <3>2. Mentions(e) = SimpleMentions(l) \cup SimpleMentions(r)
      BY <2>1 DEF Mentions
    <3> QED
      BY <3>1, <3>2
  <2>8. PICK ab : ab = a \o b
    OBVIOUS
  <2>9. a \in Seq(Instructions) /\ b \in Seq(Instructions)
    BY <2>6 DEF Evaluates
  <2>10. /\ ab \in Seq(Instructions) /\ Len(ab) = Len(a) + Len(b) /\ Len(a) \in Nat /\ Len(b) \in Nat
         /\ \A i \in 1 .. Len(a) : ab[i] = a[i]
         /\ \A i \in Len(a) + 1 .. Len(a) + Len(b) : ab[i] = b[i - Len(a)]
    BY <2>8, <2>9, ConcatFacts
  <2>11. ExprCode(e, ctx, g) = ab \o <<x>>
    BY <2>1, <2>2, <2>3, <2>4, <2>8 DEF ExprCode
  <2>12. PICK s : s = ExprCode(e, ctx, g)
    OBVIOUS
  <2>13. <<x>> \in Seq(Instructions) /\ Len(<<x>>) = 1 /\ <<x>>[1] = x
    BY <2>5
  <2>14. /\ s \in Seq(Instructions) /\ Len(s) = Len(ab) + 1
         /\ \A i \in 1 .. Len(ab) : s[i] = ab[i]
         /\ s[Len(ab) + 1] = x
    BY <2>10, <2>11, <2>12, <2>13, ConcatFacts
  <2>15. PICK n : n = Len(a)
    OBVIOUS
  <2>16. PICK k : k = Len(b)
    OBVIOUS
  <2>17. n \in Nat /\ k \in Nat /\ Len(s) = n + k + 1
    BY <2>10, <2>14, <2>15, <2>16
  <2>18. ASSUME NEW i \in 1 .. Len(s)
         PROVE  /\ s[i] \in Instructions /\ s[i].op \in ExpressionOps
                /\ s[i].ctx <=> ctx /\ i = Len(s)
                /\ s[i].op \in Loads => s[i].of \in Mentions(e)
                /\ s[i].op # "load_member" \/ i # Len(s)
    <3>1. CASE i \in 1 .. n
      <4>1. s[i] = a[i] /\ i # Len(s)
        BY <2>10, <2>14, <2>15, <2>17, <3>1
      <4> QED
        BY <2>6, <2>7, <2>15, <3>1, <4>1 DEF Evaluates
    <3>2. CASE i \in n + 1 .. n + k
      <4>1. s[i] = b[i - n] /\ i # Len(s) /\ i - n \in 1 .. k
        BY <2>10, <2>14, <2>15, <2>16, <2>17, <3>2
      <4> QED
        BY <2>6, <2>7, <2>16, <4>1 DEF Evaluates
    <3>3. CASE i = n + k + 1
      <4>1. s[i] = x /\ i = Len(s)
        BY <2>10, <2>14, <2>15, <2>16, <2>17, <3>3
      <4> QED
        BY <2>5, <4>1 DEF ExpressionOps, Loads
    <3> QED
      BY <2>17, <2>18, <3>1, <3>2, <3>3
  <2> QED
    BY <2>12, <2>14, <2>17, <2>18 DEF Evaluates
<1> QED
  BY <1>1, <1>2 DEF Expressions

-----------------------------------------------------------------------------
(* The code of a definition. *)

ValueCode(p, g) == ExprCode(p[g].value, Typed(p, g), g)

\* The places in the code of g: the last instruction before those of the value,
\* the last of the value, and the one that ends the initialization.
Before(p, g) == IF Typed(p, g) THEN Len(TypeCode(p, g)) + 2 ELSE 1

ValueEnd(p, g) == Before(p, g) + Len(ValueCode(p, g))

Closing(p, g) == ValueEnd(p, g) + (IF Circular(p, g) THEN 2 ELSE 1)

LEMMA ProgramFacts ==
  ASSUME NEW p \in Programs, NEW g \in Globals
  PROVE  p[g].value \in Expressions /\ (p[g].type # NoType => p[g].type \in Expressions)
<1>1. p[g] \in {Definition(t, v) : t \in {NoType} \cup Expressions, v \in Expressions}
  BY ProgramsAssumption
<1>2. PICK t \in {NoType} \cup Expressions, v \in Expressions : p[g] = Definition(t, v)
  BY <1>1
<1> QED
  BY <1>2 DEF Definition

LEMMA PlainFacts ==
  ASSUME NEW op \in DefinitionOps, NEW g \in Globals
  PROVE  LET x == Instr(op, FALSE, g)
         IN  x \in Instructions /\ x.op = op /\ ~x.ctx /\ x.of = g
  BY DEF Instr, Instructions

LEMMA SingleFacts ==
  ASSUME NEW S, NEW x \in S
  PROVE  <<x>> \in Seq(S) /\ Len(<<x>>) = 1 /\ <<x>>[1] = x
  OBVIOUS

LEMMA TypeCodeFacts ==
  ASSUME NEW p \in Programs, NEW g \in Globals
  PROVE  LET s == TypeCode(p, g)
         IN  /\ s \in Seq(Instructions) /\ Len(s) \in Nat \ {0}
             /\ \A i \in 1 .. Len(s) :
                   /\ s[i].op \in ExpressionOps \cup {"type_type"} /\ ~s[i].ctx
                   /\ s[i].op \in Loads => s[i].of \in Mentions(p[g].type)
<1>1. PICK s : s = TypeCode(p, g)
  OBVIOUS
<1>2. CASE p[g].type # NoType
  <2>1. s = ExprCode(p[g].type, FALSE, g)
    BY <1>1, <1>2 DEF TypeCode
  <2>2. Evaluates(s, p[g].type, FALSE)
    BY <1>2, <2>1, ProgramFacts, ExprEvaluates
  <2> QED
    BY <1>1, <2>2 DEF Evaluates
<1>3. CASE p[g].type = NoType
  <2>1. PICK x : x = Instr("type_type", FALSE, g)
    OBVIOUS
  <2>2. s = <<x>>
    BY <1>1, <1>3, <2>1 DEF TypeCode
  <2>3. "type_type" \in DefinitionOps
    BY DEF DefinitionOps
  <2>4. x \in Instructions /\ x.op = "type_type" /\ ~x.ctx
    BY <2>1, <2>3, PlainFacts
  <2>5. s \in Seq(Instructions) /\ Len(s) = 1 /\ s[1] = x
    BY <2>2, <2>4, SingleFacts
  <2> QED
    BY <1>1, <2>4, <2>5 DEF Loads
<1> QED
  BY <1>2, <1>3

LEMMA ValueCodeFacts ==
  ASSUME NEW p \in Programs, NEW g \in Globals
  PROVE  LET s == ValueCode(p, g)
         IN  /\ s \in Seq(Instructions) /\ Len(s) \in Nat \ {0}
             /\ \A i \in 1 .. Len(s) :
                   /\ s[i].op \in ExpressionOps
                   /\ s[i].ctx <=> Typed(p, g) /\ i = Len(s)
                   /\ s[i].op \in Loads => s[i].of \in Mentions(p[g].value)
                   /\ s[i].op = "load_member" /\ i = Len(s) => p[g].value.form = "member"
<1>1. Typed(p, g) \in BOOLEAN
  BY DEF Typed, Circular
<1>2. Evaluates(ValueCode(p, g), p[g].value, Typed(p, g))
  BY <1>1, ProgramFacts, ExprEvaluates DEF ValueCode
<1> QED
  BY <1>2 DEF Evaluates

\* The code up to the allocation of a typed definition.
Opening(p, g) ==
  <<Instr("prepare", FALSE, g)>>
    \o (IF Typed(p, g) THEN TypeCode(p, g) \o <<Instr("alloc_typed", FALSE, g)>> ELSE <<>>)

LEMMA OpeningFacts ==
  ASSUME NEW p \in Programs, NEW g \in Globals
  PROVE  LET s == Opening(p, g)
         IN  /\ s \in Seq(Instructions) /\ Len(s) = Before(p, g) /\ Before(p, g) \in Nat \ {0}
             /\ Typed(p, g) => Before(p, g) > 2
             /\ \A i \in 1 .. Len(s) :
                   /\ ~s[i].ctx
                   /\ i = 1 => s[i].op = "prepare" /\ s[i].of = g
                   /\ i > 1 /\ i < Len(s) =>
                        /\ s[i] = TypeCode(p, g)[i - 1]
                        /\ s[i].op \in ExpressionOps \cup {"type_type"}
                        /\ s[i].op \in Loads => s[i].of \in Mentions(p[g].type)
                   /\ i > 1 /\ i = Len(s) => s[i].op = "alloc_typed" /\ s[i].of = g
<1>1. PICK x : x = Instr("prepare", FALSE, g)
  OBVIOUS
<1>2. PICK y : y = Instr("alloc_typed", FALSE, g)
  OBVIOUS
<1>3. "prepare" \in DefinitionOps /\ "alloc_typed" \in DefinitionOps
  BY DEF DefinitionOps
<1>4. /\ x \in Instructions /\ x.op = "prepare" /\ ~x.ctx /\ x.of = g
      /\ <<x>> \in Seq(Instructions) /\ Len(<<x>>) = 1 /\ <<x>>[1] = x
  <2>1. x \in Instructions /\ x.op = "prepare" /\ ~x.ctx /\ x.of = g
    BY <1>1, <1>3, PlainFacts
  <2> QED
    BY <2>1, SingleFacts
<1>5. y \in Instructions /\ y.op = "alloc_typed" /\ ~y.ctx /\ y.of = g
  BY <1>2, <1>3, PlainFacts
<1>6. PICK s : s = Opening(p, g)
  OBVIOUS
<1>7. CASE Typed(p, g)
  <2>1. PICK t : t = TypeCode(p, g)
    OBVIOUS
  <2>2. /\ t \in Seq(Instructions) /\ Len(t) \in Nat \ {0}
        /\ \A i \in 1 .. Len(t) : /\ t[i].op \in ExpressionOps \cup {"type_type"} /\ ~t[i].ctx
                                  /\ t[i].op \in Loads => t[i].of \in Mentions(p[g].type)
    BY <2>1, TypeCodeFacts
  <2>3. PICK n : n = Len(t)
    OBVIOUS
  <2>4. PICK u : u = t \o <<y>>
    OBVIOUS
  <2>5. u \in Seq(Instructions) /\ Len(u) = n + 1 /\ (\A i \in 1 .. n : u[i] = t[i]) /\ u[n + 1] = y /\ n \in Nat \ {0}
    BY <1>5, <2>2, <2>3, <2>4, AppendedFacts
  <2>6. s = <<x>> \o u
    BY <1>1, <1>2, <1>6, <1>7, <2>1, <2>4 DEF Opening
  <2>7. /\ s \in Seq(Instructions) /\ Len(s) = n + 2 /\ s[1] = x
        /\ \A i \in 2 .. n + 2 : s[i] = u[i - 1]
    BY <1>4, <2>5, <2>6, ConcatFacts
  <2>8. Before(p, g) = n + 2
    BY <1>7, <2>1, <2>3 DEF Before
  <2>9. ASSUME NEW i \in 1 .. n + 2
        PROVE  /\ ~s[i].ctx
               /\ i = 1 => s[i].op = "prepare" /\ s[i].of = g
               /\ i > 1 /\ i < n + 2 =>
                        /\ s[i] = TypeCode(p, g)[i - 1]
                        /\ s[i].op \in ExpressionOps \cup {"type_type"}
                        /\ s[i].op \in Loads => s[i].of \in Mentions(p[g].type)
               /\ i > 1 /\ i = n + 2 => s[i].op = "alloc_typed" /\ s[i].of = g
    <3>1. CASE i = 1
      BY <1>4, <2>5, <2>7, <3>1
    <3>2. CASE i \in 2 .. n + 1
      <4>1. s[i] = t[i - 1] /\ i - 1 \in 1 .. n
        BY <2>5, <2>7, <3>2
      <4> QED
        BY <2>1, <2>2, <2>3, <2>5, <3>2, <4>1
    <3>3. CASE i = n + 2
      <4>1. s[i] = y
        BY <2>5, <2>7, <3>3
      <4> QED
        BY <1>5, <2>5, <3>3, <4>1
    <3> QED
      BY <2>5, <2>9, <3>1, <3>2, <3>3
  <2> QED
    BY <1>6, <2>5, <2>7, <2>8, <2>9
<1>8. CASE ~Typed(p, g)
  <2>1. s = <<x>> \o <<>>
    BY <1>1, <1>6, <1>8 DEF Opening
  <2>2. s = <<x>>
    BY <1>4, <2>1
  <2>3. Before(p, g) = 1
    BY <1>8 DEF Before
  <2> QED
    BY <1>4, <1>6, <1>8, <2>2, <2>3
<1> QED
  BY <1>7, <1>8

\* The operations of a definition's code and where they are.
Shape(s, p, g) ==
  /\ Before(p, g) \in Nat \ {0} /\ ValueEnd(p, g) \in Nat /\ Before(p, g) < ValueEnd(p, g)
  /\ Typed(p, g) => Before(p, g) > 2
  /\ Closing(p, g) = IF Circular(p, g) THEN ValueEnd(p, g) + 2 ELSE ValueEnd(p, g) + 1
  /\ Circular(p, g) => Typed(p, g)
  /\ s \in Seq(Instructions) /\ Len(s) = Closing(p, g) + 1
  /\ \A i \in 1 .. Closing(p, g) + 1 :
        /\ s[i].ctx <=> Typed(p, g) /\ i = ValueEnd(p, g)
        /\ i = 1 => s[i].op = "prepare" /\ s[i].of = g
        /\ i \in 2 .. Before(p, g) - 1 =>
             /\ s[i] = TypeCode(p, g)[i - 1]
             /\ s[i].op \in ExpressionOps \cup {"type_type"}
             /\ s[i].op \in Loads => s[i].of \in Mentioned(p, g)
        /\ i > 1 /\ i = Before(p, g) => s[i].op = "alloc_typed" /\ s[i].of = g
        /\ i \in Before(p, g) + 1 .. ValueEnd(p, g) =>
             /\ s[i] = ValueCode(p, g)[i - Before(p, g)]
             /\ s[i].op \in ExpressionOps
             /\ s[i].op \in Loads => s[i].of \in Mentioned(p, g)
             /\ s[i].op = "load_member" /\ i = ValueEnd(p, g) => p[g].value.form = "member"
        /\ i > ValueEnd(p, g) /\ i < Closing(p, g) =>
             s[i].op = "complete_circular" /\ s[i].of = g /\ Circular(p, g)
        /\ i = Closing(p, g) =>
             s[i].op = (IF Typed(p, g) THEN "complete" ELSE "alloc_untyped") /\ s[i].of = g
        /\ i = Closing(p, g) + 1 => s[i].op = "end_code"

LEMMA CodeFacts ==
  ASSUME NEW p \in Programs, NEW g \in Globals
  PROVE  Shape(Code(p, g), p, g)
<1>1. PICK a : a = Opening(p, g)
  OBVIOUS
<1>2. PICK b : b = ValueCode(p, g)
  OBVIOUS
<1>3. PICK x : x = Instr("complete_circular", FALSE, g)
  OBVIOUS
<1>4. PICK y : \E o \in DefinitionOps : /\ o = IF Typed(p, g) THEN "complete" ELSE "alloc_untyped"
                                     /\ y = Instr(o, FALSE, g)
  BY DEF DefinitionOps
<1>5. PICK z : z = Instr("end_code", FALSE, g)
  OBVIOUS
<1>6. /\ "complete_circular" \in DefinitionOps /\ "end_code" \in DefinitionOps
  BY DEF DefinitionOps
<1>7. x \in Instructions /\ x.op = "complete_circular" /\ ~x.ctx /\ x.of = g
  BY <1>3, <1>6, PlainFacts
<1>8. /\ y.op = (IF Typed(p, g) THEN "complete" ELSE "alloc_untyped") /\ ~y.ctx /\ y.of = g
      /\ y \in Instructions
  <2>1. PICK o \in DefinitionOps : /\ o = IF Typed(p, g) THEN "complete" ELSE "alloc_untyped"
                                   /\ y = Instr(o, FALSE, g)
    BY <1>4
  <2>2. y \in Instructions /\ y.op = o /\ ~y.ctx /\ y.of = g
    BY <2>1, PlainFacts
  <2> QED
    BY <2>1, <2>2
<1>9. z \in Instructions /\ z.op = "end_code" /\ ~z.ctx /\ z.of = g
  BY <1>5, <1>6, PlainFacts
<1>10. PICK n : n = Before(p, g)
  OBVIOUS
<1>11. /\ a \in Seq(Instructions) /\ Len(a) = n /\ n \in Nat \ {0} /\ (Typed(p, g) => n > 2)
       /\ \A i \in 1 .. n : /\ ~a[i].ctx
                            /\ i = 1 => a[i].op = "prepare" /\ a[i].of = g
                            /\ i > 1 /\ i < n =>
                                 /\ a[i] = TypeCode(p, g)[i - 1]
                                 /\ a[i].op \in ExpressionOps \cup {"type_type"}
                                 /\ a[i].op \in Loads => a[i].of \in Mentions(p[g].type)
                            /\ i > 1 /\ i = n => a[i].op = "alloc_typed" /\ a[i].of = g
  BY <1>1, <1>10, OpeningFacts
<1>12. PICK k : k = Len(b)
  OBVIOUS
<1>13. /\ b \in Seq(Instructions) /\ k \in Nat \ {0}
       /\ \A i \in 1 .. k : /\ b[i].op \in ExpressionOps
                            /\ b[i].ctx <=> Typed(p, g) /\ i = k
                            /\ b[i].op \in Loads => b[i].of \in Mentions(p[g].value)
                            /\ b[i].op = "load_member" /\ i = k => p[g].value.form = "member"
  BY <1>2, <1>12, ValueCodeFacts
<1>14. PICK ab : ab = a \o b
  OBVIOUS
<1>15. /\ ab \in Seq(Instructions) /\ Len(ab) = n + k
       /\ \A i \in 1 .. n : ab[i] = a[i]
       /\ \A i \in n + 1 .. n + k : ab[i] = b[i - n]
  <2>1. a \in Seq(Instructions) /\ b \in Seq(Instructions)
    BY <1>11, <1>13
  <2>2. /\ a \o b \in Seq(Instructions) /\ Len(a \o b) = Len(a) + Len(b)
        /\ \A i \in 1 .. Len(a) : (a \o b)[i] = a[i]
        /\ \A i \in Len(a) + 1 .. Len(a) + Len(b) : (a \o b)[i] = b[i - Len(a)]
    BY <2>1, ConcatFacts
  <2>3. Len(a) = n /\ Len(b) = k
    BY <1>11, <1>12
  <2> QED
    BY <1>14, <2>2, <2>3
<1>16. PICK c : c = IF Circular(p, g) THEN ab \o <<x>> ELSE ab \o <<>>
  OBVIOUS
<1>17. PICK l : l = IF Circular(p, g) THEN n + k + 1 ELSE n + k
  OBVIOUS
<1>18. /\ c \in Seq(Instructions) /\ Len(c) = l /\ l \in Nat /\ n + k <= l
       /\ \A i \in 1 .. n + k : c[i] = ab[i]
       /\ Circular(p, g) => c[n + k + 1] = x
  <2>1. CASE Circular(p, g)
    <3>1. c = ab \o <<x>>
      BY <1>16, <2>1
    <3>2. ab \in Seq(Instructions) /\ x \in Instructions /\ n + k \in Nat /\ Len(ab) = n + k
      BY <1>7, <1>11, <1>13, <1>15
    <3>3. c \in Seq(Instructions) /\ Len(c) = n + k + 1 /\ c[n + k + 1] = x
          /\ \A i \in 1 .. n + k : c[i] = ab[i]
      BY <3>1, <3>2, AppendedFacts
    <3> QED
      BY <1>17, <2>1, <3>2, <3>3
  <2>2. CASE ~Circular(p, g)
    <3>1. c = ab
      BY <1>15, <1>16, <2>2
    <3> QED
      BY <1>11, <1>13, <1>15, <1>17, <2>2, <3>1
  <2> QED
    BY <2>1, <2>2
<1>19. PICK d : d = c \o <<y>>
  OBVIOUS
<1>20. /\ d \in Seq(Instructions) /\ Len(d) = l + 1 /\ d[l + 1] = y
       /\ \A i \in 1 .. l : d[i] = c[i]
  <2>1. c \in Seq(Instructions) /\ y \in Instructions /\ l \in Nat /\ Len(c) = l
    BY <1>8, <1>18
  <2> QED
    BY <1>19, <2>1, AppendedFacts
<1>21. PICK s : s = d \o <<z>>
  OBVIOUS
<1>22. /\ s \in Seq(Instructions) /\ Len(s) = l + 2 /\ s[l + 2] = z
       /\ \A i \in 1 .. l + 1 : s[i] = d[i]
  <2>1. d \in Seq(Instructions) /\ z \in Instructions /\ l + 1 \in Nat /\ Len(d) = l + 1
    BY <1>9, <1>18, <1>20
  <2>2. /\ s \in Seq(Instructions) /\ Len(s) = l + 1 + 1 /\ s[l + 1 + 1] = z
        /\ \A i \in 1 .. l + 1 : s[i] = d[i]
    BY <1>21, <2>1, AppendedFacts
  <2> QED
    BY <1>18, <2>2
<1>23. Code(p, g) = s
  <2>1. a = <<Instr("prepare", FALSE, g)>>
           \o (IF Typed(p, g) THEN TypeCode(p, g) \o <<Instr("alloc_typed", FALSE, g)>> ELSE <<>>)
    BY <1>1 DEF Opening
  <2>2. b = ExprCode(p[g].value, Typed(p, g), g)
    BY <1>2 DEF ValueCode
  <2>3. c = ab \o (IF Circular(p, g) THEN <<x>> ELSE <<>>)
    BY <1>16
  <2>4. <<y>> = IF Typed(p, g) THEN <<Instr("complete", FALSE, g)>> ELSE <<Instr("alloc_untyped", FALSE, g)>>
    BY <1>4
  <2> QED
    BY <1>3, <1>5, <1>14, <1>19, <1>21, <2>1, <2>2, <2>3, <2>4 DEF Code
<1>24. ValueEnd(p, g) = n + k /\ Closing(p, g) = l + 1 /\ n + k \in Nat /\ n < n + k
  <2>1. ValueEnd(p, g) = n + k
    BY <1>2, <1>10, <1>12 DEF ValueEnd
  <2> QED
    BY <1>11, <1>13, <1>17, <2>1 DEF Closing
<1>25. Circular(p, g) => Typed(p, g)
  BY DEF Typed
<1>26. Mentioned(p, g) = Mentions(p[g].type) \cup Mentions(p[g].value)
  BY DEF Mentioned
<1>27. ASSUME NEW i \in 1 .. l + 2
       PROVE  /\ s[i].ctx <=> Typed(p, g) /\ i = n + k
              /\ i = 1 => s[i].op = "prepare" /\ s[i].of = g
              /\ i \in 2 .. n - 1 =>
                   /\ s[i] = TypeCode(p, g)[i - 1]
                   /\ s[i].op \in ExpressionOps \cup {"type_type"}
                   /\ s[i].op \in Loads => s[i].of \in Mentioned(p, g)
              /\ i > 1 /\ i = n => s[i].op = "alloc_typed" /\ s[i].of = g
              /\ i \in n + 1 .. n + k =>
                   /\ s[i] = ValueCode(p, g)[i - n]
                   /\ s[i].op \in ExpressionOps
                   /\ s[i].op \in Loads => s[i].of \in Mentioned(p, g)
                   /\ s[i].op = "load_member" /\ i = n + k => p[g].value.form = "member"
              /\ i > n + k /\ i < l + 1 => s[i].op = "complete_circular" /\ s[i].of = g /\ Circular(p, g)
              /\ i = l + 1 =>
                   s[i].op = (IF Typed(p, g) THEN "complete" ELSE "alloc_untyped") /\ s[i].of = g
              /\ i = l + 2 => s[i].op = "end_code"
  <2>1. CASE i \in 1 .. n
    <3>0. i \in 1 .. n + k /\ i \in 1 .. l /\ i \in 1 .. l + 1
      BY <1>11, <1>13, <1>18, <2>1
    <3>1. s[i] = a[i]
      BY <1>15, <1>18, <1>20, <1>22, <2>1, <3>0
    <3>2. i # n + k /\ i <= n + k /\ i < l + 1 /\ i # l + 2 /\ ~(i > n + k) /\ i \notin n + 1 .. n + k
      BY <1>11, <1>13, <1>18, <2>1
    <3> QED
      BY <1>11, <1>26, <2>1, <3>1, <3>2
  <2>2. CASE i \in n + 1 .. n + k
    <3>0. i - n \in 1 .. k /\ (i = n + k <=> i - n = k) /\ i \in 1 .. n + k /\ i \in 1 .. l /\ i \in 1 .. l + 1
      BY <1>11, <1>13, <1>18, <2>2
    <3>1. s[i] = b[i - n]
      BY <1>15, <1>18, <1>20, <1>22, <2>2, <3>0
    <3>2. i # 1 /\ i # n /\ i \notin 2 .. n - 1 /\ ~(i > n + k) /\ i # l + 1 /\ i # l + 2
      BY <1>11, <1>13, <1>18, <2>2
    <3> QED
      BY <1>2, <1>13, <1>26, <3>0, <3>1, <3>2
  <2>3. CASE i = n + k + 1 /\ Circular(p, g)
    <3>1. s[i] = x
      BY <1>11, <1>13, <1>17, <1>18, <1>20, <1>22, <2>3
    <3>2. i # 1 /\ i # n /\ i \notin 2 .. n - 1 /\ i # l + 1 /\ i # l + 2 /\ i \notin n + 1 .. n + k /\ i # n + k
      BY <1>11, <1>13, <1>17, <2>3
    <3> QED
      BY <1>7, <2>3, <3>1, <3>2
  <2>4. CASE i = l + 1
    <3>1. s[i] = y
      BY <1>18, <1>20, <1>22, <2>4
    <3>2. i # 1 /\ i # n /\ i \notin 2 .. n - 1 /\ i # l + 2 /\ i \notin n + 1 .. n + k /\ i # n + k
      BY <1>11, <1>13, <1>18, <2>4
    <3> QED
      BY <1>8, <1>18, <2>4, <3>1, <3>2
  <2>5. CASE i = l + 2
    <3>1. i # 1 /\ i # n /\ i \notin 2 .. n - 1 /\ i # l + 1 /\ i \notin n + 1 .. n + k /\ i # n + k
      BY <1>11, <1>13, <1>18, <2>5
    <3> QED
      BY <1>9, <1>18, <1>22, <2>5, <3>1
  <2> QED
    BY <1>11, <1>13, <1>17, <1>18, <2>1, <2>2, <2>3, <2>4, <2>5
<1>28. Closing(p, g) + 1 = l + 2 /\ Closing(p, g) = (IF Circular(p, g) THEN ValueEnd(p, g) + 2 ELSE ValueEnd(p, g) + 1)
  BY <1>11, <1>13, <1>17, <1>18, <1>24
<1> QED
  BY <1>10, <1>11, <1>22, <1>23, <1>24, <1>25, <1>27, <1>28 DEF Shape

-----------------------------------------------------------------------------
(* The stacks of the machine. *)

Frame == Globals \X (Nat \ {0})

Instruction(p, f) == Code(p, f[1])[f[2]]

Inside(p, f) == f[2] \in 1 .. Closing(p, f[1]) + 1

\* An initialization has its entry from its second instruction to the one that
\* ends it.
Active(p, f) == f[2] > 1 /\ f[2] <= Closing(p, f[1])

\* Where each operation is.
Placed(p, f, x) ==
  /\ x \in Instructions
  /\ Closing(p, f[1]) \in Nat /\ Closing(p, f[1]) > 1
  /\ x.ctx <=> Typed(p, f[1]) /\ f[2] = ValueEnd(p, f[1])
  /\ x.op \in DefinitionOps => ~x.ctx
  /\ x.op = "prepare" <=> f[2] = 1
  /\ f[2] = 1 => ~Active(p, f)
  /\ x.op = "end_code" <=> ~Active(p, f) /\ f[2] # 1
  /\ x.op \in ExpressionOps \cup {"type_type"} =>
       Active(p, f) /\ f[2] # Closing(p, f[1]) /\ f[2] # Before(p, f[1])
  /\ x.op \in Loads => x.of \in Mentioned(p, f[1])
  /\ x.op = "load_member" /\ x.ctx => p[f[1]].value.form = "member"
  /\ x.op = "alloc_typed" =>
       Active(p, f) /\ f[2] # Closing(p, f[1]) /\ f[2] = Before(p, f[1]) /\ Typed(p, f[1])
  /\ x.op = "complete_circular" =>
       Active(p, f) /\ f[2] # Closing(p, f[1]) /\ f[2] > Before(p, f[1]) /\ Circular(p, f[1])
  /\ x.op = "complete" => Active(p, f) /\ f[2] = Closing(p, f[1]) /\ Typed(p, f[1])
  /\ x.op = "alloc_untyped" => Active(p, f) /\ f[2] = Closing(p, f[1]) /\ ~Typed(p, f[1])
  /\ x.op \in {"prepare", "alloc_typed", "complete"} => x.of = f[1]
  /\ f[2] = Closing(p, f[1]) => f[2] > Before(p, f[1])

LEMMA PlaceFacts ==
  ASSUME NEW p \in Programs, NEW f \in Frame, Inside(p, f)
  PROVE  Placed(p, f, Instruction(p, f))
<1>1. PICK g \in Globals, i \in Nat \ {0} : g = f[1] /\ i = f[2]
  BY DEF Frame
<1>2. PICK s : s = Code(p, g)
  OBVIOUS
<1>3. Shape(s, p, g)
  BY <1>2, CodeFacts
<1>4. PICK x : x = Instruction(p, f)
  OBVIOUS
<1>5. x = s[i]
  BY <1>1, <1>2, <1>4 DEF Instruction
<1>6. PICK n : n = Before(p, g)
  OBVIOUS
<1>7. PICK m : m = ValueEnd(p, g)
  OBVIOUS
<1>8. PICK k : k = Closing(p, g)
  OBVIOUS
<1>9. /\ n \in Nat \ {0} /\ m \in Nat /\ k \in Nat /\ n < m /\ m < k /\ (Typed(p, g) => n > 2)
      /\ (Circular(p, g) => Typed(p, g)) /\ Len(s) = k + 1 /\ s \in Seq(Instructions)
  BY <1>3, <1>6, <1>7, <1>8 DEF Shape
<1>10. i \in 1 .. k + 1
  BY <1>1, <1>8 DEF Inside
<1>11. x \in Instructions
  BY <1>5, <1>9, <1>10
<1>12. /\ x.ctx <=> Typed(p, g) /\ i = m
       /\ i = 1 => x.op = "prepare" /\ x.of = g
       /\ i \in 2 .. n - 1 =>
            /\ x.op \in ExpressionOps \cup {"type_type"}
            /\ x.op \in Loads => x.of \in Mentioned(p, g)
       /\ i > 1 /\ i = n => x.op = "alloc_typed" /\ x.of = g
       /\ i \in n + 1 .. m =>
            /\ x.op \in ExpressionOps
            /\ x.op \in Loads => x.of \in Mentioned(p, g)
            /\ x.op = "load_member" /\ i = m => p[g].value.form = "member"
       /\ i > m /\ i < k => x.op = "complete_circular" /\ x.of = g /\ Circular(p, g)
       /\ i = k => x.op = (IF Typed(p, g) THEN "complete" ELSE "alloc_untyped") /\ x.of = g
       /\ i = k + 1 => x.op = "end_code"
  BY <1>3, <1>5, <1>6, <1>7, <1>8, <1>10 DEF Shape
<1>13. i > 1 /\ i = n => Typed(p, g)
  BY <1>1, <1>6 DEF Before
<1>14. /\ Active(p, f) <=> i > 1 /\ i <= k
       /\ f[1] = g /\ f[2] = i
  BY <1>1, <1>8 DEF Active
<1>15. /\ x.ctx <=> Typed(p, g) /\ i = m
       /\ x.op \in DefinitionOps => ~x.ctx
       /\ x.op = "prepare" <=> i = 1
       /\ x.op = "end_code" <=> i = k + 1
       /\ x.op \in ExpressionOps \cup {"type_type"} => i > 1 /\ i < k /\ i # n
       /\ x.op \in Loads => x.of \in Mentioned(p, g)
       /\ x.op = "load_member" /\ x.ctx => p[g].value.form = "member"
       /\ x.op = "alloc_typed" => i > 1 /\ i < k /\ i = n /\ Typed(p, g)
       /\ x.op = "complete_circular" => i > 1 /\ i < k /\ i > n /\ Circular(p, g)
       /\ x.op = "complete" => i = k /\ Typed(p, g)
       /\ x.op = "alloc_untyped" => i = k /\ ~Typed(p, g)
       /\ x.op \in {"prepare", "alloc_typed", "complete"} => x.of = g
  <2>1. CASE i = 1
    <3>1. x.op = "prepare" /\ x.of = g /\ ~(i > 1) /\ i # k /\ i # k + 1 /\ i # m
      BY <1>9, <1>12, <2>1
    <3> QED
      BY <1>12, <2>1, <3>1 DEF ExpressionOps, DefinitionOps, Loads
  <2>2. CASE i \in 2 .. n - 1
    <3>1. i > 1 /\ i < k /\ i # n /\ i # 1 /\ i # k + 1 /\ i # m
      BY <1>9, <1>10, <2>2
    <3> QED
      BY <1>12, <2>2, <3>1 DEF ExpressionOps, DefinitionOps, Loads
  <2>3. CASE i > 1 /\ i = n
    <3>1. i > 1 /\ i < k /\ i # 1 /\ i # k + 1 /\ i # m
      BY <1>9, <1>10, <2>3
    <3> QED
      BY <1>12, <1>13, <2>3, <3>1 DEF ExpressionOps, DefinitionOps, Loads
  <2>4. CASE i \in n + 1 .. m
    <3>1. i > 1 /\ i < k /\ i # n /\ i # 1 /\ i # k + 1
      BY <1>9, <1>10, <2>4
    <3> QED
      BY <1>12, <2>4, <3>1 DEF ExpressionOps, DefinitionOps, Loads
  <2>5. CASE i > m /\ i < k
    <3>1. i > 1 /\ i > n /\ i # 1 /\ i # k + 1 /\ i # m
      BY <1>9, <1>10, <2>5
    <3> QED
      BY <1>12, <2>5, <3>1 DEF ExpressionOps, DefinitionOps, Loads
  <2>6. CASE i = k
    <3>1. i > 1 /\ i # 1 /\ i # k + 1 /\ i # m
      BY <1>9, <1>10, <2>6
    <3> QED
      BY <1>12, <2>6, <3>1 DEF ExpressionOps, DefinitionOps, Loads
  <2>7. CASE i = k + 1
    <3>1. i > 1 /\ i # 1 /\ i # k /\ i # m
      BY <1>9, <1>10, <2>7
    <3> QED
      BY <1>12, <2>7, <3>1 DEF ExpressionOps, DefinitionOps, Loads
  <2> QED
    BY <1>9, <1>10, <2>1, <2>2, <2>3, <2>4, <2>5, <2>6, <2>7
<1>16. /\ i > 1 /\ i <= k <=> ~(i = 1 \/ i = k + 1)
       /\ 1 # k + 1 /\ k \in Nat /\ k > 1 /\ (i < k => i <= k /\ i # k) /\ (i = k => i > 1 /\ i <= k /\ i > n)
  BY <1>9, <1>10
<1>17. /\ x \in Instructions
       /\ k \in Nat /\ k > 1
       /\ x.ctx <=> Typed(p, g) /\ i = m
       /\ x.op \in DefinitionOps => ~x.ctx
       /\ x.op = "prepare" <=> i = 1
       /\ i = 1 => ~(i > 1 /\ i <= k)
       /\ x.op = "end_code" <=> ~(i > 1 /\ i <= k) /\ i # 1
       /\ x.op \in ExpressionOps \cup {"type_type"} => i > 1 /\ i <= k /\ i # k /\ i # n
       /\ x.op \in Loads => x.of \in Mentioned(p, g)
       /\ x.op = "load_member" /\ x.ctx => p[g].value.form = "member"
       /\ x.op = "alloc_typed" => i > 1 /\ i <= k /\ i # k /\ i = n /\ Typed(p, g)
       /\ x.op = "complete_circular" => i > 1 /\ i <= k /\ i # k /\ i > n /\ Circular(p, g)
       /\ x.op = "complete" => i > 1 /\ i <= k /\ i = k /\ Typed(p, g)
       /\ x.op = "alloc_untyped" => i > 1 /\ i <= k /\ i = k /\ ~Typed(p, g)
       /\ x.op \in {"prepare", "alloc_typed", "complete"} => x.of = g
       /\ i = k => i > n
  BY <1>11, <1>15, <1>16
<1> QED
  BY <1>4, <1>6, <1>7, <1>8, <1>14, <1>17 DEF Placed

\* The frames of the code that runs: those that wait, then that of the next
\* instruction.
FrameAt(i) == IF i \in DOMAIN activations THEN activations[i] ELSE ops

Count == IF ops = Idle THEN 0 ELSE Len(activations) + 1

\* Each frame but the last waits for the definition of the next one.
FramesKnown ==
  /\ prog \in Programs /\ activations \in Seq(Frame) /\ ops \in Frame \cup {Idle}
  /\ ops = Idle => activations = <<>>
  /\ \A i \in 1 .. Count : Inside(prog, FrameAt(i))
  /\ \A i \in DOMAIN activations :
        /\ Instruction(prog, activations[i]).op \in Loads
        /\ Instruction(prog, activations[i]).of = FrameAt(i + 1)[1]

Entry == [of : Globals, temporaries : Nat]

\* Each active frame has its entry.
InitsKnown ==
  /\ inits \in Seq(Entry) /\ temporaries \in Nat
  /\ Len(inits) = IF ops # Idle /\ Active(prog, ops) THEN Len(activations) + 1 ELSE Len(activations)
  /\ \A i \in DOMAIN inits : inits[i].of = FrameAt(i)[1]

LEMMA FrameNotIdle ==
  ASSUME NEW f \in Frame
  PROVE  f # Idle
<1>1. PICK g \in Globals, n \in Nat \ {0} : f = <<g, n>>
  BY DEF Frame
<1>2. <<g, n>> # <<>>
  OBVIOUS
<1> QED
  BY <1>1, <1>2 DEF Idle

LEMMA FrontFacts ==
  ASSUME NEW S, NEW s \in Seq(S), s # <<>>
  PROVE  /\ Len(s) \in Nat \ {0}
         /\ Front(s) \in Seq(S) /\ Len(Front(s)) = Len(s) - 1 /\ DOMAIN Front(s) = 1 .. Len(s) - 1
         /\ \A i \in 1 .. Len(s) - 1 : Front(s)[i] = s[i]
         /\ Last(s) = s[Len(s)] /\ Last(s) \in S
<1>1. PICK n : n = Len(s)
  OBVIOUS
<1>2. n \in Nat \ {0} /\ \A i \in 1 .. n : s[i] \in S
  BY <1>1
<1>3. PICK t : t = SubSeq(s, 1, n - 1)
  OBVIOUS
<1>4. 1 \in Int /\ n - 1 \in Int /\ \A i \in 1 .. n - 1 : s[i] \in S
  BY <1>2
<1>5. /\ t \in Seq(S) /\ Len(t) = IF 1 <= n - 1 THEN (n - 1) - 1 + 1 ELSE 0
      /\ \A i \in 1 .. (n - 1) - 1 + 1 : t[i] = s[1 + i - 1]
  BY <1>3, <1>4, SubSeqProperties
<1>6. t \in Seq(S) /\ Len(t) = n - 1 /\ (\A i \in 1 .. n - 1 : t[i] = s[i]) /\ DOMAIN t = 1 .. n - 1
  BY <1>2, <1>5
<1>7. t = Front(s) /\ Last(s) = s[n]
  BY <1>1, <1>3 DEF Front, Last
<1> QED
  BY <1>1, <1>2, <1>6, <1>7

LEMMA CurrentFacts ==
  ASSUME FramesKnown, ops # Idle
  PROVE  /\ Placed(prog, ops, Current) /\ Current = Instruction(prog, ops)
         /\ ops \in Frame /\ Inside(prog, ops) /\ ops[1] \in Globals
<1>1. prog \in Programs /\ ops \in Frame /\ Count = Len(activations) + 1 /\ Len(activations) \in Nat
  BY DEF FramesKnown, Count
<1>2. FrameAt(Count) = ops
  BY <1>1 DEF FrameAt, FramesKnown
<1>3. Inside(prog, ops)
  BY <1>1, <1>2 DEF FramesKnown
<1>4. Placed(prog, ops, Instruction(prog, ops))
  BY <1>1, <1>3, PlaceFacts
<1> QED
  BY <1>1, <1>3, <1>4 DEF Current, Instruction, Frame

LEMMA AdvanceKeepsFrames ==
  ASSUME FramesKnown, ops # Idle, ops' = Next1, UNCHANGED <<prog, activations>>,
         Active(prog, ops) \/ ops[2] = 1
  PROVE  FramesKnown' /\ ops'[1] = ops[1] /\ ops'[2] = ops[2] + 1 /\ ops' # Idle
<1>1. /\ ops \in Frame /\ prog \in Programs /\ activations \in Seq(Frame) /\ Count = Len(activations) + 1
      /\ Len(activations) \in Nat /\ Inside(prog, ops) /\ Placed(prog, ops, Current)
  BY CurrentFacts DEF FramesKnown, Count
<1>2. ops' \in Frame /\ ops'[1] = ops[1] /\ ops'[2] = ops[2] + 1 /\ ops' # Idle
  BY <1>1 DEF Next1, Frame, Idle
<1>3. Inside(prog, ops)'
  <2>1. Closing(prog, ops[1]) \in Nat /\ ops[2] \in Nat /\ ops[2] <= Closing(prog, ops[1])
    BY <1>1 DEF Placed, Active, Frame
  <2>2. Closing(prog', ops'[1]) = Closing(prog, ops[1])
    BY <1>2
  <2> QED
    BY <1>2, <2>1, <2>2 DEF Inside
<1>4. \A i \in DOMAIN activations : FrameAt(i)' = FrameAt(i) /\ FrameAt(i)' = activations[i]
  BY DEF FrameAt
<1>5. \A i \in DOMAIN activations : FrameAt(i + 1)'[1] = FrameAt(i + 1)[1]
  BY <1>1, <1>2 DEF FrameAt
<1>6. Count' = Len(activations) + 1
  BY <1>2 DEF Count
<1>7. ASSUME NEW i \in 1 .. Count' PROVE Inside(prog, FrameAt(i))'
  <2>1. CASE i \in DOMAIN activations
    <3>1. Inside(prog, FrameAt(i))
      BY <1>1, <2>1 DEF FramesKnown
    <3>2. Inside(prog', FrameAt(i)') <=> Inside(prog, FrameAt(i))
      BY <1>4, <2>1
    <3> QED
      BY <3>1, <3>2
  <2>2. CASE i \notin DOMAIN activations
    <3>1. FrameAt(i)' = ops'
      BY <2>2 DEF FrameAt
    <3> QED
      BY <1>3, <3>1
  <2> QED
    BY <2>1, <2>2
<1>8. /\ prog' \in Programs /\ activations' \in Seq(Frame) /\ ops' \in Frame \cup {Idle}
      /\ ops' = Idle => activations' = <<>>
  BY <1>1, <1>2
<1>9. \A i \in DOMAIN activations' :
        /\ Instruction(prog', activations'[i]).op \in Loads
        /\ Instruction(prog', activations'[i]).of = FrameAt(i + 1)'[1]
  BY <1>5 DEF FramesKnown
<1> QED
  BY <1>2, <1>7, <1>8, <1>9 DEF FramesKnown

LEMMA SuspendKeepsFrames ==
  ASSUME NEW g \in Globals, FramesKnown, ops # Idle, Current.op \in Loads, Current.of = g,
         activations' = Append(activations, ops), ops' = <<g, 1>>, UNCHANGED prog
  PROVE  FramesKnown' /\ ops'[1] = g /\ ops'[2] = 1 /\ ops' # Idle
<1>0. PICK n : n = Len(activations)
  OBVIOUS
<1>1. /\ ops \in Frame /\ prog \in Programs /\ activations \in Seq(Frame) /\ Count = n + 1
      /\ n \in Nat /\ Inside(prog, ops) /\ Current = Instruction(prog, ops)
  BY <1>0, CurrentFacts DEF FramesKnown, Count
<1>2. ops' \in Frame /\ ops'[1] = g /\ ops'[2] = 1 /\ ops' # Idle
  BY DEF Frame, Idle
<1>3. /\ activations' \in Seq(Frame) /\ DOMAIN activations' = 1 .. n + 1
      /\ Len(activations') = n + 1
      /\ \A i \in DOMAIN activations : activations'[i] = activations[i]
      /\ activations'[n + 1] = ops
      /\ DOMAIN activations = 1 .. n
  BY <1>0, <1>1
<1>4. Inside(prog', ops')
  <2>1. Shape(Code(prog, g), prog, g)
    BY <1>1, CodeFacts
  <2>2. Closing(prog, g) \in Nat
    BY <2>1 DEF Shape
  <2>3. Closing(prog', ops'[1]) = Closing(prog, g)
    BY <1>2
  <2> QED
    BY <1>2, <2>2, <2>3 DEF Inside
<1>5. Count' = n + 2
  BY <1>1, <1>2, <1>3 DEF Count
<1>6. ASSUME NEW i \in 1 .. n + 1 PROVE FrameAt(i)' = FrameAt(i)
  BY <1>1, <1>3, <1>6 DEF FrameAt
<1>7. FrameAt(n + 2)' = ops'
  BY <1>1, <1>3 DEF FrameAt
<1>8. ASSUME NEW i \in 1 .. Count' PROVE Inside(prog, FrameAt(i))'
  <2>1. CASE i \in 1 .. n + 1
    <3>1. Inside(prog, FrameAt(i))
      BY <1>1, <2>1 DEF FramesKnown
    <3>2. Inside(prog', FrameAt(i)') <=> Inside(prog, FrameAt(i))
      BY <1>6, <2>1
    <3> QED
      BY <3>1, <3>2
  <2>2. CASE i = n + 2
    <3>1. FrameAt(i)' = ops'
      BY <1>7, <2>2
    <3> QED
      BY <1>4, <3>1
  <2> QED
    BY <1>1, <1>5, <1>8, <2>1, <2>2
<1>9. ASSUME NEW i \in DOMAIN activations'
      PROVE  /\ Instruction(prog', activations'[i]).op \in Loads
             /\ Instruction(prog', activations'[i]).of = FrameAt(i + 1)'[1]
  <2>1. CASE i \in DOMAIN activations
    <3>1. i + 1 \in 1 .. n + 1
      BY <1>1, <1>3, <2>1
    <3>2. FrameAt(i + 1)' = FrameAt(i + 1) /\ activations'[i] = activations[i]
      BY <1>3, <1>6, <2>1, <3>1
    <3> QED
      BY <2>1, <3>2 DEF FramesKnown
  <2>2. CASE i = n + 1
    <3>1. i + 1 = n + 2
      BY <1>1, <2>2
    <3>2. FrameAt(i + 1)'[1] = g /\ activations'[i] = ops
      BY <1>2, <1>3, <1>7, <2>2, <3>1
    <3> QED
      BY <1>1, <3>2
  <2> QED
    BY <1>1, <1>3, <1>9, <2>1, <2>2
<1> QED
  BY <1>1, <1>2, <1>3, <1>8, <1>9 DEF FramesKnown

LEMMA EndKeepsFrames ==
  ASSUME FramesKnown, ops # Idle, UNCHANGED prog,
         IF activations = <<>>
           THEN ops' = Idle /\ UNCHANGED activations
           ELSE ops' = Last(activations) /\ activations' = Front(activations)
  PROVE  /\ FramesKnown' /\ Len(activations) \in Nat
         /\ activations = <<>> => ops' = Idle /\ activations' = <<>>
         /\ activations # <<>> =>
              /\ ops' \in Frame /\ ops' # Idle /\ Len(activations') = Len(activations) - 1
              /\ Active(prog, ops')
         /\ \A i \in 1 .. Len(activations) : FrameAt(i)' = activations[i] /\ FrameAt(i) = activations[i]
<1>1. prog \in Programs /\ activations \in Seq(Frame) /\ Len(activations) \in Nat
  BY DEF FramesKnown
<1>2. CASE activations = <<>>
  <2>1. ops' = Idle /\ activations' = <<>> /\ Count' = 0
    BY <1>2 DEF Count
  <2> QED
    BY <1>1, <1>2, <2>1 DEF FramesKnown
<1>3. CASE activations # <<>>
  <2>0. Len(activations) # 0
    BY <1>1, <1>3
  <2>1. /\ ops' = activations[Len(activations)] /\ ops' \in Frame
        /\ activations' \in Seq(Frame) /\ Len(activations') = Len(activations) - 1
        /\ \A i \in 1 .. Len(activations) - 1 : activations'[i] = activations[i]
        /\ DOMAIN activations' = 1 .. Len(activations) - 1
        /\ DOMAIN activations = 1 .. Len(activations)
    <3>1. activations' = Front(activations) /\ ops' = Last(activations)
      BY <1>3
    <3> QED
      BY <1>1, <1>3, <3>1, FrontFacts
  <2>2. ops' # Idle
    BY <2>1, FrameNotIdle
  <2>3. Count' = Len(activations)
    BY <1>1, <2>0, <2>1, <2>2 DEF Count
  <2>4. ASSUME NEW i \in 1 .. Len(activations) PROVE FrameAt(i)' = activations[i] /\ FrameAt(i) = activations[i]
    BY <1>1, <2>0, <2>1, <2>4 DEF FrameAt
  <2>5. ASSUME NEW i \in 1 .. Count' PROVE Inside(prog, FrameAt(i))'
    <3>1. Inside(prog, FrameAt(i))
      BY <1>1, <2>3, <2>5 DEF FramesKnown, Count
    <3>2. Inside(prog', FrameAt(i)') <=> Inside(prog, FrameAt(i))
      BY <2>3, <2>4, <2>5
    <3> QED
      BY <3>1, <3>2
  <2>6. ASSUME NEW i \in DOMAIN activations'
        PROVE  /\ Instruction(prog', activations'[i]).op \in Loads
               /\ Instruction(prog', activations'[i]).of = FrameAt(i + 1)'[1]
    <3>1. i \in 1 .. Len(activations) - 1 /\ i \in DOMAIN activations /\ i + 1 \in 1 .. Len(activations)
      BY <1>1, <2>0, <2>1, <2>6
    <3>2. activations'[i] = activations[i] /\ FrameAt(i + 1)' = FrameAt(i + 1)
      BY <2>1, <2>4, <3>1
    <3> QED
      BY <3>1, <3>2 DEF FramesKnown
  <2>7. Active(prog, ops')
    <3>1. Inside(prog, ops')
      BY <1>1, <2>0, <2>1, <2>4 DEF FramesKnown, Count
    <3>2. Instruction(prog, ops').op \in Loads
      BY <1>1, <2>0, <2>1 DEF FramesKnown
    <3>3. Placed(prog, ops', Instruction(prog, ops'))
      BY <1>1, <2>1, <3>1, PlaceFacts
    <3> QED
      BY <3>2, <3>3 DEF Placed, ExpressionOps
  <2> QED
    BY <1>1, <1>3, <2>1, <2>2, <2>4, <2>5, <2>6, <2>7 DEF FramesKnown
<1> QED
  BY <1>2, <1>3

\* The entry of the code that runs is the last one.
LEMMA LastEntry ==
  ASSUME FramesKnown, InitsKnown, ops # Idle, Active(prog, ops)
  PROVE  /\ inits # <<>> /\ Len(inits) = Len(activations) + 1 /\ Len(activations) \in Nat
         /\ Last(inits) = inits[Len(inits)] /\ Last(inits) \in Entry /\ Last(inits).of = ops[1]
         /\ Front(inits) \in Seq(Entry) /\ Len(Front(inits)) = Len(inits) - 1
         /\ DOMAIN Front(inits) = 1 .. Len(inits) - 1 /\ DOMAIN inits = 1 .. Len(inits)
         /\ \A i \in 1 .. Len(inits) - 1 : Front(inits)[i] = inits[i]
<1>1. /\ inits \in Seq(Entry) /\ activations \in Seq(Frame) /\ Len(inits) = Len(activations) + 1
      /\ Len(activations) \in Nat /\ Len(inits) \in Nat
  BY DEF FramesKnown, InitsKnown
<1>2. inits # <<>>
  BY <1>1
<1>3. PICK n : n = Len(inits)
  OBVIOUS
<1>4. n \in DOMAIN inits /\ n \notin DOMAIN activations
  BY <1>1, <1>3
<1>5. inits[n].of = ops[1]
  BY <1>4 DEF InitsKnown, FrameAt
<1>6. /\ Front(inits) \in Seq(Entry) /\ Len(Front(inits)) = Len(inits) - 1
      /\ DOMAIN Front(inits) = 1 .. Len(inits) - 1
      /\ \A i \in 1 .. Len(inits) - 1 : Front(inits)[i] = inits[i]
      /\ Last(inits) = inits[Len(inits)] /\ Last(inits) \in Entry
  BY <1>1, <1>2, FrontFacts
<1> QED
  BY <1>1, <1>2, <1>3, <1>5, <1>6

LEMMA AdvanceKeepsInits ==
  ASSUME FramesKnown, InitsKnown, ops # Idle, ops' = Next1, UNCHANGED <<prog, activations, inits>>,
         Active(prog, ops), ops[2] # Closing(prog, ops[1]), temporaries' \in Nat
  PROVE  InitsKnown' /\ Active(prog, ops')
<1>1. ops' # Idle /\ ops'[1] = ops[1] /\ ops'[2] = ops[2] + 1
  BY AdvanceKeepsFrames
<1>2. ops[2] \in Nat /\ Closing(prog, ops[1]) \in Nat
  BY CurrentFacts DEF Frame, Placed
<1>3. Active(prog, ops')
  BY <1>1, <1>2 DEF Active
<1>4. Active(prog', ops')
  BY <1>3
<1>5. \A i \in DOMAIN inits : FrameAt(i)'[1] = FrameAt(i)[1]
  BY <1>1 DEF FrameAt
<1> QED
  BY <1>1, <1>3, <1>4, <1>5 DEF InitsKnown

LEMMA PrepareKeepsInits ==
  ASSUME FramesKnown, InitsKnown, ops # Idle, ops' = Next1, UNCHANGED <<prog, activations, temporaries>>,
         ops[2] = 1, inits' = Append(inits, [of |-> ops[1], temporaries |-> temporaries])
  PROVE  /\ InitsKnown' /\ Active(prog, ops')
         /\ DOMAIN inits' = 1 .. Len(inits) + 1 /\ Len(inits) \in Nat /\ DOMAIN inits = 1 .. Len(inits)
         /\ inits'[Len(inits) + 1].of = ops[1]
         /\ \A i \in DOMAIN inits : inits'[i] = inits[i]
<1>1. ops' # Idle /\ ops'[1] = ops[1] /\ ops'[2] = 2
  BY AdvanceKeepsFrames
<1>2. Closing(prog, ops[1]) \in Nat /\ Closing(prog, ops[1]) > 1 /\ ops[1] \in Globals
  BY CurrentFacts DEF Placed
<1>3. Active(prog, ops') /\ ~Active(prog, ops)
  BY <1>1, <1>2 DEF Active
<1>4. PICK e : e = [of |-> ops[1], temporaries |-> temporaries]
  OBVIOUS
<1>5. e \in Entry /\ e.of = ops[1] /\ inits' = Append(inits, e)
  BY <1>2, <1>4 DEF Entry, InitsKnown
<1>6. PICK n : n = Len(inits)
  OBVIOUS
<1>7. inits \in Seq(Entry) /\ n \in Nat /\ n = Len(activations) /\ DOMAIN inits = 1 .. n
  BY <1>3, <1>6 DEF InitsKnown
<1>8. /\ inits' \in Seq(Entry) /\ Len(inits') = n + 1 /\ DOMAIN inits' = 1 .. n + 1
      /\ inits'[n + 1] = e /\ \A i \in 1 .. n : inits'[i] = inits[i]
  BY <1>5, <1>6, <1>7
<1>9. ASSUME NEW i \in DOMAIN inits' PROVE inits'[i].of = FrameAt(i)'[1]
  <2>1. FrameAt(i)'[1] = FrameAt(i)[1]
    BY <1>1 DEF FrameAt
  <2>2. CASE i \in 1 .. n
    BY <1>7, <1>8, <2>1, <2>2 DEF InitsKnown
  <2>3. CASE i = n + 1
    <3>1. i \notin DOMAIN activations
      BY <1>7, <2>3 DEF FramesKnown
    <3> QED
      BY <1>5, <1>8, <2>1, <2>3, <3>1 DEF FrameAt
  <2> QED
    BY <1>7, <1>8, <1>9, <2>2, <2>3
<1>10. Len(inits') = Len(activations') + 1 /\ temporaries' \in Nat
  BY <1>7, <1>8 DEF InitsKnown
<1>11. InitsKnown'
  BY <1>1, <1>3, <1>8, <1>9, <1>10 DEF InitsKnown
<1> QED
  BY <1>3, <1>5, <1>6, <1>7, <1>8, <1>11

LEMMA SuspendKeepsInits ==
  ASSUME NEW g \in Globals, FramesKnown, InitsKnown, ops # Idle, Active(prog, ops),
         activations' = Append(activations, ops), ops' = <<g, 1>>,
         UNCHANGED <<prog, inits, temporaries>>
  PROVE  InitsKnown' /\ \A i \in DOMAIN inits : FrameAt(i)' = FrameAt(i)
<1>1. PICK n : n = Len(activations)
  OBVIOUS
<1>2. activations \in Seq(Frame) /\ n \in Nat /\ Len(inits) = n + 1 /\ DOMAIN inits = 1 .. n + 1
  BY <1>1, LastEntry DEF FramesKnown
<1>3. ops \in Frame
  BY CurrentFacts
<1>4. /\ DOMAIN activations' = 1 .. n + 1 /\ Len(activations') = n + 1 /\ DOMAIN activations = 1 .. n
      /\ \A i \in 1 .. n : activations'[i] = activations[i]
      /\ activations'[n + 1] = ops
  BY <1>1, <1>2, <1>3
<1>5. \A i \in DOMAIN inits : FrameAt(i)' = FrameAt(i)
  BY <1>2, <1>4 DEF FrameAt
<1>6. ~Active(prog', ops')
  BY DEF Active
<1> QED
  BY <1>2, <1>4, <1>5, <1>6 DEF InitsKnown

LEMMA CloseKeepsInits ==
  ASSUME FramesKnown, InitsKnown, ops # Idle, ops' = Next1, UNCHANGED <<prog, activations>>,
         Active(prog, ops), ops[2] = Closing(prog, ops[1]), inits' = Front(inits), temporaries' \in Nat
  PROVE  /\ InitsKnown'
         /\ \A i \in DOMAIN inits' : i \in DOMAIN inits /\ i # Len(inits) /\ inits'[i] = inits[i]
                                       /\ FrameAt(i)' = FrameAt(i)
         /\ \A i \in DOMAIN inits : i # Len(inits) => i \in DOMAIN inits'
<1>1. ops' # Idle /\ ops'[1] = ops[1] /\ ops'[2] = ops[2] + 1
  BY AdvanceKeepsFrames
<1>2. ops[2] \in Nat /\ Closing(prog, ops[1]) \in Nat
  BY CurrentFacts DEF Frame, Placed
<1>3. ~Active(prog', ops')
  BY <1>1, <1>2 DEF Active
<1>4. /\ Len(inits) = Len(activations) + 1 /\ Len(activations) \in Nat
      /\ inits' \in Seq(Entry) /\ Len(inits') = Len(inits) - 1
      /\ DOMAIN inits' = 1 .. Len(inits) - 1 /\ DOMAIN inits = 1 .. Len(inits)
      /\ \A i \in 1 .. Len(inits) - 1 : inits'[i] = inits[i]
  BY LastEntry
<1>5. DOMAIN activations = 1 .. Len(activations)
  BY DEF FramesKnown
<1>6. ASSUME NEW i \in DOMAIN inits' PROVE FrameAt(i)' = FrameAt(i)
  <2>1. i \in DOMAIN activations
    BY <1>4, <1>5, <1>6
  <2> QED
    BY <2>1 DEF FrameAt
<1>7. \A i \in DOMAIN inits' : inits'[i].of = FrameAt(i)'[1]
  BY <1>4, <1>6 DEF InitsKnown
<1>8. Len(inits') = Len(activations')
  BY <1>4
<1> QED
  BY <1>3, <1>4, <1>6, <1>7, <1>8 DEF InitsKnown

LEMMA EndKeepsInits ==
  ASSUME FramesKnown, InitsKnown, ops # Idle, UNCHANGED <<prog, inits, temporaries>>,
         ~Active(prog, ops),
         IF activations = <<>>
           THEN ops' = Idle /\ UNCHANGED activations
           ELSE ops' = Last(activations) /\ activations' = Front(activations)
  PROVE  InitsKnown' /\ \A i \in DOMAIN inits : FrameAt(i)' = FrameAt(i)
<1>1. Len(inits) = Len(activations) /\ inits \in Seq(Entry) /\ DOMAIN inits = 1 .. Len(activations)
  BY DEF InitsKnown
<1>2. \A i \in DOMAIN inits : FrameAt(i)' = FrameAt(i)
  BY <1>1, EndKeepsFrames
<1>3. Len(activations) \in Nat
  BY DEF FramesKnown
<1>4. CASE activations = <<>>
  <2>1. ops' = Idle /\ activations' = <<>>
    BY <1>4, EndKeepsFrames
  <2> QED
    BY <1>1, <1>2, <1>4, <2>1 DEF InitsKnown
<1>5. CASE activations # <<>>
  <2>1. ops' # Idle /\ Len(activations') = Len(activations) - 1 /\ Active(prog, ops')
    BY <1>5, EndKeepsFrames
  <2>2. Active(prog', ops') /\ Len(inits') = Len(activations') + 1
    BY <1>1, <1>3, <2>1
  <2> QED
    BY <1>1, <1>2, <2>1, <2>2 DEF InitsKnown
<1> QED
  BY <1>4, <1>5

-----------------------------------------------------------------------------
(* The flags of the members. *)

Flags == [pending : BOOLEAN, initializing : BOOLEAN, value : {"none", "bytes", "indirection"}]

Outcomes == {"running", "ok", "error", "circular"}

\* A frame past the allocation of a typed definition finds it done.
Allocated(f) ==
  Typed(prog, f[1]) /\ f[2] > Before(prog, f[1]) =>
    member[f[1]].value # "none" /\ (Circular(prog, f[1]) => ~member[f[1]].pending)

FlagsKnown ==
  /\ TypeOK
  /\ member \in [Globals -> Flags]
  /\ \A i \in DOMAIN inits : Allocated(FrameAt(i))
  /\ ops # Idle /\ ops[2] = 1 => member[ops[1]].pending

LEMMA SameFlags ==
  ASSUME FlagsKnown, UNCHANGED <<prog, member, inits>>, contexts' \in Seq(Globals), outcome' \in Outcomes,
         \A i \in DOMAIN inits : Allocated(FrameAt(i))',
         ops' # Idle /\ ops'[2] = 1 => member[ops'[1]].pending
  PROVE  FlagsKnown'
<1>1. TypeOK'
  BY DEF FlagsKnown, TypeOK, InProgress, Outcomes
<1> QED
  BY <1>1 DEF FlagsKnown

LEMMA AdvanceKeepsFlags ==
  ASSUME FramesKnown, InitsKnown, FlagsKnown, ops # Idle, ops' = Next1,
         UNCHANGED <<prog, activations, inits, member, outcome>>,
         Active(prog, ops), ops[2] # Before(prog, ops[1]), contexts' \in Seq(Globals)
  PROVE  FlagsKnown'
<1>1. ops' # Idle /\ ops'[1] = ops[1] /\ ops'[2] = ops[2] + 1 /\ ops[2] \in Nat \ {0}
  BY AdvanceKeepsFrames, CurrentFacts DEF Frame
<1>2. Typed(prog, ops[1]) => Before(prog, ops[1]) \in Nat
  <2>1. Shape(Code(prog, ops[1]), prog, ops[1])
    BY CurrentFacts, CodeFacts DEF FramesKnown
  <2> QED
    BY <2>1 DEF Shape
<1>3. ASSUME NEW i \in DOMAIN inits PROVE Allocated(FrameAt(i))'
  <2>1. Allocated(FrameAt(i))
    BY DEF FlagsKnown
  <2>2. CASE i \in DOMAIN activations
    <3>1. FrameAt(i)' = FrameAt(i)
      BY <2>2 DEF FrameAt
    <3> QED
      BY <2>1, <3>1 DEF Allocated
  <2>3. CASE i \notin DOMAIN activations
    <3>1. FrameAt(i)' = ops' /\ FrameAt(i) = ops
      BY <2>3 DEF FrameAt
    <3>2. Typed(prog, ops[1]) /\ ops'[2] > Before(prog, ops[1]) => ops[2] > Before(prog, ops[1])
      BY <1>1, <1>2
    <3> QED
      BY <1>1, <2>1, <3>1, <3>2 DEF Allocated
  <2> QED
    BY <2>2, <2>3
<1>4. outcome' \in Outcomes
  BY DEF FlagsKnown, TypeOK, Outcomes
<1>5. ops'[2] # 1
  BY <1>1
<1> QED
  BY <1>3, <1>4, <1>5, SameFlags

LEMMA SuspendKeepsFlags ==
  ASSUME NEW g \in Globals, FramesKnown, InitsKnown, FlagsKnown, ops # Idle, Active(prog, ops),
         activations' = Append(activations, ops), ops' = <<g, 1>>, member[g].pending,
         UNCHANGED <<prog, inits, member, temporaries, outcome>>, contexts' \in Seq(Globals)
  PROVE  FlagsKnown'
<1>1. \A i \in DOMAIN inits : FrameAt(i)' = FrameAt(i)
  BY SuspendKeepsInits
<1>2. \A i \in DOMAIN inits : Allocated(FrameAt(i))'
  BY <1>1 DEF FlagsKnown, Allocated
<1>3. outcome' \in Outcomes
  BY DEF FlagsKnown, TypeOK, Outcomes
<1>4. member[ops'[1]].pending
  OBVIOUS
<1> QED
  BY <1>2, <1>3, <1>4, SameFlags

LEMMA EndKeepsFlags ==
  ASSUME FramesKnown, InitsKnown, FlagsKnown, ops # Idle, ~Active(prog, ops),
         UNCHANGED <<prog, inits, member, temporaries, contexts, outcome>>,
         IF activations = <<>>
           THEN ops' = Idle /\ UNCHANGED activations
           ELSE ops' = Last(activations) /\ activations' = Front(activations)
  PROVE  FlagsKnown'
<1>1. \A i \in DOMAIN inits : FrameAt(i)' = FrameAt(i)
  BY EndKeepsInits
<1>2. \A i \in DOMAIN inits : Allocated(FrameAt(i))'
  BY <1>1 DEF FlagsKnown, Allocated
<1>3. outcome' \in Outcomes /\ contexts' \in Seq(Globals)
  BY DEF FlagsKnown, TypeOK, Outcomes
<1>4. ops' # Idle => ops'[2] # 1
  BY EndKeepsFrames DEF Active
<1> QED
  BY <1>2, <1>3, <1>4, SameFlags

LEMMA PrepareKeepsFlags ==
  ASSUME FramesKnown, InitsKnown, FlagsKnown, ops # Idle, ops' = Next1, ops[2] = 1,
         ~member[ops[1]].initializing,
         inits' = Append(inits, [of |-> ops[1], temporaries |-> temporaries]),
         member' = [member EXCEPT ![ops[1]].initializing = TRUE],
         UNCHANGED <<prog, activations, temporaries, contexts, outcome>>
  PROVE  FlagsKnown'
<1>1. PICK g \in Globals : g = ops[1]
  BY CurrentFacts
<1>2. member[g].pending /\ ~member[g].initializing
  BY <1>1 DEF FlagsKnown
<1>3. ~InProgress(g)
  BY <1>2 DEF FlagsKnown, TypeOK
<1>4. PICK n : n = Len(inits)
  OBVIOUS
<1>5. /\ DOMAIN inits' = 1 .. n + 1 /\ n \in Nat /\ DOMAIN inits = 1 .. n
      /\ inits'[n + 1].of = g
      /\ \A i \in 1 .. n : inits'[i] = inits[i]
  BY <1>1, <1>4, PrepareKeepsInits
<1>6. /\ member' \in [Globals -> Flags]
      /\ member'[g].pending /\ member'[g].initializing
      /\ \A h \in Globals : h # g => member'[h] = member[h]
      /\ \A h \in Globals : member'[h].value = member[h].value /\ (member'[h].pending <=> member[h].pending)
  BY <1>1, <1>2 DEF FlagsKnown, Flags
<1>7. \A h \in Globals : InProgress(h)' <=> h = g \/ InProgress(h)
  BY <1>5 DEF InProgress
<1>8. \A i, j \in DOMAIN inits' : inits'[i].of = inits'[j].of => i = j
  <2>1. \A i \in 1 .. n : inits'[i].of # g
    BY <1>3, <1>5 DEF InProgress
  <2>2. \A i, j \in 1 .. n : inits'[i].of = inits'[j].of => i = j
    BY <1>5 DEF FlagsKnown, TypeOK
  <2> QED
    BY <1>5, <2>1, <2>2
<1>9. ASSUME NEW h \in Globals
      PROVE  /\ member'[h].initializing => member'[h].pending
             /\ member'[h].pending => (member'[h].initializing <=> InProgress(h)')
             /\ ~member'[h].pending => member'[h].value # "none"
             /\ ~member'[h].pending /\ InProgress(h)' => Circular(prog', h)
  BY <1>6, <1>7 DEF FlagsKnown, TypeOK
<1>10. TypeOK'
  BY <1>8, <1>9 DEF TypeOK, FlagsKnown
<1>11. ASSUME NEW i \in DOMAIN inits' PROVE Allocated(FrameAt(i))'
  <2>1. ops'[1] = g /\ ops'[2] = 2
    BY <1>1, AdvanceKeepsFrames
  <2>2. CASE i \in 1 .. n
    <3>1. FrameAt(i)' = FrameAt(i) /\ FrameAt(i)[1] \in Globals
      <4>1. i \in DOMAIN activations
        BY <1>4, <1>5, <2>2 DEF InitsKnown, FramesKnown, Active
      <4> QED
        BY <4>1 DEF FrameAt, FramesKnown, Frame
    <3>2. Allocated(FrameAt(i))
      BY <1>5, <2>2 DEF FlagsKnown
    <3> QED
      BY <1>6, <3>1, <3>2 DEF Allocated
  <2>3. CASE i = n + 1
    <3>1. FrameAt(i)' = ops'
      <4>1. i \notin DOMAIN activations
        BY <1>4, <1>5, <2>3 DEF InitsKnown, FramesKnown, Active
      <4> QED
        BY <4>1 DEF FrameAt
    <3>2. Typed(prog, g) => Before(prog, g) \in Nat /\ Before(prog, g) > 2
      <4>1. Shape(Code(prog, g), prog, g)
        BY CodeFacts DEF FramesKnown
      <4> QED
        BY <4>1 DEF Shape
    <3> QED
      BY <2>1, <3>1, <3>2 DEF Allocated
  <2> QED
    BY <1>5, <1>11, <2>2, <2>3
<1>12. ops'[2] # 1
  BY AdvanceKeepsFrames
<1> QED
  BY <1>6, <1>10, <1>11, <1>12 DEF FlagsKnown

LEMMA AllocKeepsFlags ==
  ASSUME FramesKnown, InitsKnown, FlagsKnown, ops # Idle, ops' = Next1, Active(prog, ops),
         member' = IF Circular(prog, ops[1])
                     THEN [member EXCEPT ![ops[1]] = Completed("indirection")]
                     ELSE [member EXCEPT ![ops[1]].value = "bytes"],
         UNCHANGED <<prog, activations, inits, outcome>>, contexts' \in Seq(Globals)
  PROVE  FlagsKnown'
<1>1. PICK g \in Globals : g = ops[1]
  BY CurrentFacts
<1>2. /\ member' \in [Globals -> Flags]
      /\ \A h \in Globals : h # g => member'[h] = member[h]
      /\ member'[g].value # "none"
      /\ Circular(prog, g) => ~member'[g].pending /\ ~member'[g].initializing
      /\ ~Circular(prog, g) => /\ member'[g].pending <=> member[g].pending
                               /\ member'[g].initializing <=> member[g].initializing
  BY <1>1 DEF FlagsKnown, Flags, Completed
<1>3. PICK n : n = Len(inits)
  OBVIOUS
<1>4. n \in DOMAIN inits /\ inits[n].of = g /\ DOMAIN inits = 1 .. n /\ n = Len(activations) + 1 /\ n \in Nat
  BY <1>1, <1>3, LastEntry DEF FramesKnown
<1>5. \A h \in Globals : InProgress(h)' <=> InProgress(h)
  BY DEF InProgress
<1>6. InProgress(g)
  BY <1>4 DEF InProgress
<1>7. ASSUME NEW h \in Globals
      PROVE  /\ member'[h].initializing => member'[h].pending
             /\ member'[h].pending => (member'[h].initializing <=> InProgress(h)')
             /\ ~member'[h].pending => member'[h].value # "none"
             /\ ~member'[h].pending /\ InProgress(h)' => Circular(prog', h)
  <2>1. CASE h = g
    BY <1>2, <1>5, <2>1 DEF FlagsKnown, TypeOK
  <2>2. CASE h # g
    BY <1>2, <1>5, <2>2 DEF FlagsKnown, TypeOK
  <2> QED
    BY <2>1, <2>2
<1>8. TypeOK'
  BY <1>7 DEF TypeOK, FlagsKnown
<1>9. ASSUME NEW i \in DOMAIN inits' PROVE Allocated(FrameAt(i))'
  <2>1. CASE i = n
    <3>1. FrameAt(i)'[1] = g
      <4>1. i \notin DOMAIN activations
        BY <1>4, <2>1 DEF FramesKnown
      <4> QED
        BY <1>1, <4>1, AdvanceKeepsFrames DEF FrameAt
    <3> QED
      BY <1>2, <3>1 DEF Allocated
  <2>2. CASE i # n
    <3>1. i \in DOMAIN activations
      BY <1>4, <1>9, <2>2 DEF FramesKnown
    <3>2. FrameAt(i)' = FrameAt(i) /\ FrameAt(i)[1] \in Globals
      BY <3>1 DEF FrameAt, FramesKnown, Frame
    <3>3. FrameAt(i)[1] # g
      <4>1. inits[i].of # inits[n].of
        BY <1>4, <1>9, <2>2 DEF FlagsKnown, TypeOK
      <4> QED
        BY <1>4, <1>9, <4>1 DEF InitsKnown
    <3>4. Allocated(FrameAt(i))
      BY <1>9 DEF FlagsKnown
    <3> QED
      BY <1>2, <3>2, <3>3, <3>4 DEF Allocated
  <2> QED
    BY <2>1, <2>2
<1>10. ops'[2] # 1
  BY AdvanceKeepsFrames, CurrentFacts DEF Active, Frame
<1> QED
  BY <1>2, <1>8, <1>9, <1>10 DEF FlagsKnown

LEMMA CloseKeepsFlags ==
  ASSUME FramesKnown, InitsKnown, FlagsKnown, ops # Idle, ops' = Next1, Active(prog, ops),
         ops[2] = Closing(prog, ops[1]), inits' = Front(inits), temporaries' \in Nat,
         NEW v \in Flags, ~v.pending, ~v.initializing, v.value # "none",
         member' = [member EXCEPT ![ops[1]] = v],
         UNCHANGED <<prog, activations, contexts, outcome>>
  PROVE  FlagsKnown'
<1>1. PICK g \in Globals : g = ops[1]
  BY CurrentFacts
<1>2. /\ member' \in [Globals -> Flags]
      /\ \A h \in Globals : h # g => member'[h] = member[h]
      /\ member'[g].value # "none" /\ ~member'[g].pending /\ ~member'[g].initializing
  BY <1>1 DEF FlagsKnown
<1>3. PICK n : n = Len(inits)
  OBVIOUS
<1>4. n \in DOMAIN inits /\ inits[n].of = g
  BY <1>1, <1>3, LastEntry DEF FramesKnown
<1>5. /\ \A i \in DOMAIN inits' : i \in DOMAIN inits /\ i # n /\ inits'[i] = inits[i] /\ FrameAt(i)' = FrameAt(i)
      /\ \A i \in DOMAIN inits : i # n => i \in DOMAIN inits'
  BY <1>3, CloseKeepsInits
<1>6. \A i \in DOMAIN inits' : inits'[i].of # g
  BY <1>4, <1>5 DEF FlagsKnown, TypeOK
<1>7. \A h \in Globals : InProgress(h)' <=> h # g /\ InProgress(h)
  BY <1>4, <1>5, <1>6 DEF InProgress
<1>8. ASSUME NEW h \in Globals
      PROVE  /\ member'[h].initializing => member'[h].pending
             /\ member'[h].pending => (member'[h].initializing <=> InProgress(h)')
             /\ ~member'[h].pending => member'[h].value # "none"
             /\ ~member'[h].pending /\ InProgress(h)' => Circular(prog', h)
  BY <1>2, <1>7 DEF FlagsKnown, TypeOK
<1>9. \A i, j \in DOMAIN inits' : inits'[i].of = inits'[j].of => i = j
  BY <1>5 DEF FlagsKnown, TypeOK
<1>10. TypeOK'
  BY <1>8, <1>9 DEF TypeOK, FlagsKnown
<1>11. ASSUME NEW i \in DOMAIN inits' PROVE Allocated(FrameAt(i))'
  <2>1. FrameAt(i)' = FrameAt(i) /\ FrameAt(i)[1] = inits[i].of /\ inits[i].of \in Globals
    <3>1. i \in DOMAIN inits /\ inits'[i] = inits[i] /\ FrameAt(i)' = FrameAt(i)
      BY <1>5, <1>11
    <3>2. inits[i].of = FrameAt(i)[1] /\ inits \in Seq(Entry)
      BY <3>1 DEF InitsKnown
    <3>3. inits[i] \in Entry
      BY <3>1, <3>2
    <3> QED
      BY <3>1, <3>2, <3>3 DEF Entry
  <2>2. FrameAt(i)[1] # g
    BY <1>5, <1>6, <1>11, <2>1
  <2>3. Allocated(FrameAt(i))
    BY <1>5, <1>11 DEF FlagsKnown
  <2> QED
    BY <1>2, <2>1, <2>2, <2>3 DEF Allocated
<1>12. ops'[2] # 1
  BY AdvanceKeepsFrames, CurrentFacts DEF Active, Frame
<1> QED
  BY <1>2, <1>10, <1>11, <1>12 DEF FlagsKnown

-----------------------------------------------------------------------------
(* TypeOK. *)

StateKnown == FramesKnown /\ InitsKnown /\ FlagsKnown

LEMMA RunningFacts ==
  ASSUME StateKnown, Running
  PROVE  /\ outcome = "running" /\ ops # Idle /\ Placed(prog, ops, Current)
         /\ Current \in Instructions /\ Current.of \in Globals
         /\ ContextsLeft \in Seq(Globals)
<1>1. ops # Idle /\ outcome = "running"
  BY DEF Running
<1>2. Placed(prog, ops, Current)
  BY <1>1, CurrentFacts DEF StateKnown
<1>3. Current \in Instructions /\ Current.of \in Globals
  BY <1>2 DEF Placed, Instructions
<1>4. contexts \in Seq(Globals)
  BY DEF StateKnown, FlagsKnown, TypeOK
<1>5. ContextsLeft \in Seq(Globals)
  <2>1. CASE Current.ctx
    <3>1. contexts # <<>>
      BY <2>1 DEF Running
    <3> QED
      BY <1>4, <2>1, <3>1, FrontFacts DEF ContextsLeft
  <2>2. CASE ~Current.ctx
    BY <1>4, <2>2 DEF ContextsLeft
  <2> QED
    BY <2>1, <2>2
<1> QED
  BY <1>1, <1>2, <1>3, <1>5

\* A step past an instruction within the code of a definition.
LEMMA PastKeepsState ==
  ASSUME StateKnown, Running, Active(prog, ops), ops[2] # Closing(prog, ops[1]), ops[2] # Before(prog, ops[1]),
         ops' = Next1, UNCHANGED <<prog, activations, inits, member, outcome>>,
         contexts' \in Seq(Globals), temporaries' \in Nat
  PROVE  StateKnown'
<1>1. ops # Idle
  BY DEF Running
<1>2. FramesKnown'
  BY <1>1, AdvanceKeepsFrames DEF StateKnown
<1>3. InitsKnown'
  BY <1>1, AdvanceKeepsInits DEF StateKnown
<1>4. FlagsKnown'
  BY <1>1, AdvanceKeepsFlags DEF StateKnown
<1> QED
  BY <1>2, <1>3, <1>4 DEF StateKnown

LEMMA DeliverKeepsState ==
  ASSUME StateKnown, Running, Current.op \in ExpressionOps \cup {"type_type"},
         NEW x, NEW operands, NEW isTemporary \in BOOLEAN, Deliver(x, operands, isTemporary),
         UNCHANGED <<prog, activations, inits, member, outcome>>
  PROVE  StateKnown'
<1>1. Active(prog, ops) /\ ops[2] # Closing(prog, ops[1]) /\ ops[2] # Before(prog, ops[1])
  BY RunningFacts DEF Placed
<1>2. contexts' \in Seq(Globals) /\ ops' = Next1
  BY RunningFacts DEF Deliver
<1>3. temporaries \in Nat
  BY DEF StateKnown, InitsKnown
<1>4. temporaries' = temporaries \/ temporaries' = temporaries + 1
  BY DEF Deliver
<1>5. temporaries' \in Nat
  BY <1>3, <1>4
<1> QED
  BY <1>1, <1>2, <1>5, PastKeepsState

LEMMA SuspendKeepsState ==
  ASSUME StateKnown, Running, Current.op \in Loads, member[Current.of].pending,
         Suspend(Current.of), contexts' \in Seq(Globals),
         UNCHANGED <<prog, inits, member, temporaries, outcome>>
  PROVE  StateKnown'
<1>1. PICK g \in Globals : g = Current.of
  BY RunningFacts
<1>2. ops # Idle /\ Active(prog, ops)
  BY RunningFacts DEF Placed, ExpressionOps
<1>3. activations' = Append(activations, ops) /\ ops' = <<g, 1>>
  BY <1>1 DEF Suspend
<1>4. FramesKnown'
  BY <1>1, <1>2, <1>3, SuspendKeepsFrames DEF StateKnown
<1>5. InitsKnown'
  BY <1>1, <1>2, <1>3, SuspendKeepsInits DEF StateKnown
<1>6. FlagsKnown'
  BY <1>1, <1>2, <1>3, SuspendKeepsFlags DEF StateKnown
<1> QED
  BY <1>4, <1>5, <1>6 DEF StateKnown

LEMMA StopKeepsState ==
  ASSUME StateKnown, outcome' \in Outcomes,
         UNCHANGED <<prog, member, inits, contexts, activations, temporaries, ops>>
  PROVE  StateKnown'
<1>1. \A i : FrameAt(i)' = FrameAt(i)
  BY DEF FrameAt
<1>2. Count' = Count
  BY DEF Count
<1>3. FramesKnown'
  BY <1>1, <1>2 DEF StateKnown, FramesKnown, Inside
<1>4. InitsKnown'
  BY <1>1 DEF StateKnown, InitsKnown, Active
<1>5. FlagsKnown'
  <2>1. \A i \in DOMAIN inits : Allocated(FrameAt(i))'
    BY <1>1 DEF StateKnown, FlagsKnown, Allocated
  <2>2. FlagsKnown /\ contexts' \in Seq(Globals)
    BY DEF StateKnown, FlagsKnown, TypeOK
  <2>3. ops' # Idle /\ ops'[2] = 1 => member[ops'[1]].pending
    BY DEF StateKnown, FlagsKnown
  <2> QED
    BY <2>1, <2>2, <2>3, SameFlags
<1> QED
  BY <1>3, <1>4, <1>5 DEF StateKnown

LEMMA SimpleKeepsState ==
  ASSUME StateKnown, Simple
  PROVE  StateKnown'
<1>1. Running /\ Current.op \in ExpressionOps \cup {"type_type"}
  BY DEF Simple, ExpressionOps
<1>2. Deliver(Object(Current.op, Current.of), 0, TRUE) /\ UNCHANGED <<prog, activations, inits, member, outcome>>
  BY DEF Simple
<1> QED
  BY <1>1, <1>2, DeliverKeepsState

LEMMA AddKeepsState ==
  ASSUME StateKnown, Add
  PROVE  StateKnown'
<1>1. Running /\ Current.op \in ExpressionOps \cup {"type_type"}
  BY DEF Add, Executes, ExpressionOps
<1>2. /\ Deliver(SumOf(Read(Operand(2).is), Read(Operand(1).is)), 2, TRUE)
      /\ UNCHANGED <<prog, activations, inits, member, outcome>>
  BY DEF Add
<1> QED
  BY <1>1, <1>2, DeliverKeepsState

LEMMA LoadKeepsState ==
  ASSUME StateKnown, LoadGlobal \/ LoadMember
  PROVE  StateKnown'
<1>1. Running /\ Current.op \in Loads /\ Current.op \in ExpressionOps \cup {"type_type"}
  BY DEF LoadGlobal, LoadMember, Executes, ExpressionOps, Loads
<1>2. UNCHANGED <<prog, inits, member, outcome>>
  BY DEF LoadGlobal, LoadMember
<1>3. CASE member[Current.of].pending
  <2>1. Suspend(Current.of) /\ UNCHANGED temporaries
    BY <1>3 DEF LoadGlobal, LoadMember
  <2>2. contexts' = contexts \/ contexts' = ContextsLeft
    BY <1>3 DEF LoadGlobal, LoadMember
  <2>3. contexts' \in Seq(Globals)
    BY <1>1, <2>2, RunningFacts DEF StateKnown, FlagsKnown, TypeOK
  <2> QED
    BY <1>1, <1>2, <1>3, <2>1, <2>3, SuspendKeepsState
<1>4. CASE ~member[Current.of].pending
  <2>1. PICK operands : Deliver(Location(Current.of), operands, FALSE)
    BY <1>4 DEF LoadGlobal, LoadMember
  <2>2. UNCHANGED activations
    BY <1>4 DEF LoadGlobal, LoadMember
  <2> QED
    BY <1>1, <1>2, <2>1, <2>2, DeliverKeepsState
<1> QED
  BY <1>3, <1>4

LEMMA PrepareKeepsState ==
  ASSUME StateKnown, Prepare
  PROVE  StateKnown'
<1>1. Running /\ Current.op = "prepare"
  BY DEF Prepare, Executes
<1>2. ops # Idle /\ ops[2] = 1 /\ Current.of = ops[1]
  BY <1>1, RunningFacts DEF Placed
<1>3. CASE member[ops[1]].initializing
  <2>1. outcome' \in Outcomes /\ UNCHANGED <<prog, member, inits, contexts, activations, temporaries, ops>>
    BY <1>2, <1>3 DEF Prepare, Outcomes
  <2> QED
    BY <2>1, StopKeepsState
<1>4. CASE ~member[ops[1]].initializing
  <2>1. /\ inits' = Append(inits, [of |-> ops[1], temporaries |-> temporaries])
        /\ member' = [member EXCEPT ![ops[1]].initializing = TRUE]
        /\ ops' = Next1
        /\ UNCHANGED <<prog, activations, temporaries, contexts, outcome>>
    BY <1>2, <1>4 DEF Prepare
  <2>2. FramesKnown'
    BY <1>2, <2>1, AdvanceKeepsFrames DEF StateKnown
  <2>3. InitsKnown'
    BY <1>2, <2>1, PrepareKeepsInits DEF StateKnown
  <2>4. FlagsKnown'
    BY <1>2, <1>4, <2>1, PrepareKeepsFlags DEF StateKnown
  <2> QED
    BY <2>2, <2>3, <2>4 DEF StateKnown
<1> QED
  BY <1>3, <1>4

LEMMA AllocTypedKeepsState ==
  ASSUME StateKnown, AllocTyped
  PROVE  StateKnown'
<1>1. Running /\ Current.op = "alloc_typed"
  BY DEF AllocTyped, Executes
<1>2. /\ ops # Idle /\ Active(prog, ops) /\ ops[2] # Closing(prog, ops[1]) /\ Current.of = ops[1]
  BY <1>1, RunningFacts DEF Placed
<1>3. Last(inits).of = ops[1] /\ ops[1] \in Globals
  BY <1>2, LastEntry, CurrentFacts DEF StateKnown
<1>4. /\ member' = IF Circular(prog, ops[1])
                     THEN [member EXCEPT ![ops[1]] = Completed("indirection")]
                     ELSE [member EXCEPT ![ops[1]].value = "bytes"]
      /\ UNCHANGED <<prog, activations, inits, outcome>>
      /\ contexts' = Append(contexts, ops[1])
      /\ ops' = Next1
      /\ temporaries' = temporaries + 1 \/ temporaries' = temporaries
  BY <1>2, <1>3 DEF AllocTyped
<1>5. contexts' \in Seq(Globals)
  BY <1>3, <1>4 DEF StateKnown, FlagsKnown, TypeOK
<1>6. temporaries' \in Nat
  BY <1>4 DEF StateKnown, InitsKnown
<1>7. FramesKnown'
  BY <1>2, <1>4, AdvanceKeepsFrames DEF StateKnown
<1>8. InitsKnown'
  BY <1>2, <1>4, <1>6, AdvanceKeepsInits DEF StateKnown
<1>9. FlagsKnown'
  BY <1>2, <1>4, <1>5, AllocKeepsFlags DEF StateKnown
<1> QED
  BY <1>7, <1>8, <1>9 DEF StateKnown

LEMMA CloseKeepsState ==
  ASSUME StateKnown, Running, Active(prog, ops), ops[2] = Closing(prog, ops[1]), ops' = Next1,
         inits' = Front(inits), temporaries' \in Nat,
         NEW v \in Flags, ~v.pending, ~v.initializing, v.value # "none",
         member' = [member EXCEPT ![ops[1]] = v],
         UNCHANGED <<prog, activations, contexts, outcome>>
  PROVE  StateKnown'
<1>1. ops # Idle
  BY DEF Running
<1>2. FramesKnown'
  BY <1>1, AdvanceKeepsFrames DEF StateKnown
<1>3. InitsKnown'
  BY <1>1, CloseKeepsInits DEF StateKnown
<1>4. FlagsKnown'
  BY <1>1, CloseKeepsFlags DEF StateKnown
<1> QED
  BY <1>2, <1>3, <1>4 DEF StateKnown

LEMMA AllocUntypedKeepsState ==
  ASSUME StateKnown, AllocUntyped
  PROVE  StateKnown'
<1>1. Running /\ Current.op = "alloc_untyped"
  BY DEF AllocUntyped, Executes
<1>2. ops # Idle /\ Active(prog, ops) /\ ops[2] = Closing(prog, ops[1])
  BY <1>1, RunningFacts DEF Placed
<1>3. Last(inits).of = ops[1]
  BY <1>2, LastEntry DEF StateKnown
<1>4. PICK v : v = Completed("bytes")
  OBVIOUS
<1>5. v \in Flags /\ ~v.pending /\ ~v.initializing /\ v.value # "none"
  BY <1>4 DEF Completed, Flags
<1>6. /\ member' = [member EXCEPT ![ops[1]] = v]
      /\ inits' = Front(inits) /\ ops' = Next1
      /\ UNCHANGED <<prog, activations, contexts, outcome, temporaries>>
  BY <1>3, <1>4 DEF AllocUntyped
<1>7. temporaries' \in Nat
  BY <1>6 DEF StateKnown, InitsKnown
<1> QED
  BY <1>1, <1>2, <1>5, <1>6, <1>7, CloseKeepsState

LEMMA CompleteCircularKeepsState ==
  ASSUME StateKnown, CompleteCircular
  PROVE  StateKnown'
<1>1. Running /\ Current.op = "complete_circular"
  BY DEF CompleteCircular, Executes
<1>2. Active(prog, ops) /\ ops[2] # Closing(prog, ops[1]) /\ ops[2] > Before(prog, ops[1]) /\ ops \in Frame
  BY <1>1, RunningFacts, CurrentFacts DEF Placed, StateKnown
<1>3. ops[2] # Before(prog, ops[1])
  <2>1. Shape(Code(prog, ops[1]), prog, ops[1])
    BY <1>2, CodeFacts DEF StateKnown, FramesKnown, Frame
  <2>2. Before(prog, ops[1]) \in Nat
    BY <2>1 DEF Shape
  <2> QED
    BY <1>2, <2>2
<1>4. ops' = Next1 /\ UNCHANGED <<prog, activations, inits, member, outcome, contexts, temporaries>>
  BY DEF CompleteCircular, stacks
<1>5. contexts' \in Seq(Globals) /\ temporaries' \in Nat
  BY <1>4 DEF StateKnown, FlagsKnown, TypeOK, InitsKnown
<1> QED
  BY <1>1, <1>2, <1>3, <1>4, <1>5, PastKeepsState

LEMMA CompleteKeepsState ==
  ASSUME StateKnown, Complete
  PROVE  StateKnown'
<1>1. Running /\ Current.op = "complete"
  BY DEF Complete, Executes
<1>2. /\ ops # Idle /\ Active(prog, ops) /\ ops[2] = Closing(prog, ops[1]) /\ Current.of = ops[1]
      /\ Typed(prog, ops[1]) /\ ops[2] > Before(prog, ops[1])
  BY <1>1, RunningFacts DEF Placed
<1>3. PICK g \in Globals : g = ops[1]
  BY <1>2, CurrentFacts DEF StateKnown
<1>4. Last(inits) \in Entry /\ Last(inits).of = g
  BY <1>2, <1>3, LastEntry DEF StateKnown
<1>5. PICK n : n = Len(inits)
  OBVIOUS
<1>6. n \in DOMAIN inits /\ n \notin DOMAIN activations
  BY <1>2, <1>5, LastEntry DEF StateKnown, FramesKnown
<1>7. member[g].value # "none" /\ (Circular(prog, g) => ~member[g].pending)
  <2>1. FrameAt(n) = ops
    BY <1>6 DEF FrameAt
  <2>2. Allocated(FrameAt(n))
    BY <1>6 DEF StateKnown, FlagsKnown
  <2> QED
    BY <1>2, <1>3, <2>1, <2>2 DEF Allocated
<1>8. PICK v : v = IF Circular(prog, g) THEN member[g] ELSE Completed(member[g].value)
  OBVIOUS
<1>9. member \in [Globals -> Flags] /\ member[g] \in Flags /\ (member[g].initializing => member[g].pending)
  BY DEF StateKnown, FlagsKnown, TypeOK
<1>10. v \in Flags /\ ~v.pending /\ ~v.initializing /\ v.value # "none"
  BY <1>7, <1>8, <1>9 DEF Completed, Flags
<1>11. member' = [member EXCEPT ![g] = v]
  <2>1. CASE Circular(prog, g)
    BY <1>2, <1>3, <1>8, <1>9, <2>1 DEF Complete
  <2>2. CASE ~Circular(prog, g)
    BY <1>2, <1>3, <1>4, <1>8, <2>2 DEF Complete
  <2> QED
    BY <2>1, <2>2
<1>12. /\ inits' = Front(inits) /\ ops' = Next1 /\ temporaries' = Last(inits).temporaries
       /\ UNCHANGED <<prog, activations, contexts, outcome>>
  BY DEF Complete
<1>13. temporaries' \in Nat
  BY <1>4, <1>12 DEF Entry
<1> QED
  BY <1>1, <1>2, <1>3, <1>10, <1>11, <1>12, <1>13, CloseKeepsState

LEMMA EndCodeKeepsState ==
  ASSUME StateKnown, EndCode
  PROVE  StateKnown'
<1>1. Running /\ Current.op = "end_code"
  BY DEF EndCode, Executes
<1>2. ops # Idle /\ ~Active(prog, ops)
  BY <1>1, RunningFacts DEF Placed
<1>3. /\ UNCHANGED <<prog, inits, member, temporaries, contexts, outcome>>
      /\ IF activations = <<>>
           THEN ops' = Idle /\ UNCHANGED activations
           ELSE ops' = Last(activations) /\ activations' = Front(activations)
  BY DEF EndCode
<1>4. FramesKnown'
  BY <1>2, <1>3, EndKeepsFrames DEF StateKnown
<1>5. InitsKnown'
  BY <1>2, <1>3, EndKeepsInits DEF StateKnown
<1>6. FlagsKnown'
  BY <1>2, <1>3, EndKeepsFlags DEF StateKnown
<1> QED
  BY <1>4, <1>5, <1>6 DEF StateKnown

LEMMA EvaluateKeepsState ==
  ASSUME NEW g \in Globals, StateKnown, Evaluate(g)
  PROVE  StateKnown'
<1>1. /\ ops = Idle /\ activations = <<>> /\ member[g].pending /\ ops' = <<g, 1>>
      /\ UNCHANGED <<prog, member, inits, contexts, activations, temporaries, outcome>>
  BY DEF Evaluate, StateKnown, FramesKnown, stacks
<1>2. ops' \in Frame /\ ops' # Idle /\ ops'[1] = g /\ ops'[2] = 1
  BY <1>1 DEF Frame, Idle
<1>3. inits = <<>>
  BY <1>1 DEF StateKnown, InitsKnown
<1>4. Inside(prog', ops')
  <2>1. Shape(Code(prog, g), prog, g)
    BY CodeFacts DEF StateKnown, FramesKnown
  <2>2. Closing(prog, g) \in Nat
    BY <2>1 DEF Shape
  <2>3. Closing(prog', ops'[1]) = Closing(prog, g)
    BY <1>1, <1>2
  <2> QED
    BY <1>2, <2>2, <2>3 DEF Inside
<1>5. Count' = 1
  BY <1>1, <1>2 DEF Count
<1>6. \A i \in 1 .. Count' : FrameAt(i)' = ops'
  BY <1>1, <1>5 DEF FrameAt
<1>7. ASSUME NEW i \in 1 .. Count' PROVE Inside(prog, FrameAt(i))'
  <2>1. FrameAt(i)' = ops'
    BY <1>6
  <2> QED
    BY <1>4, <2>1
<1>8. FramesKnown'
  BY <1>1, <1>2, <1>7 DEF StateKnown, FramesKnown
<1>9. ~Active(prog', ops')
  BY <1>2 DEF Active
<1>10. InitsKnown'
  BY <1>1, <1>3, <1>9 DEF StateKnown, InitsKnown
<1>11. FlagsKnown'
  <2>1. FlagsKnown /\ contexts' \in Seq(Globals) /\ outcome' \in Outcomes
    BY <1>1 DEF StateKnown, FlagsKnown, TypeOK, Outcomes
  <2>2. \A i \in DOMAIN inits : Allocated(FrameAt(i))'
    BY <1>3
  <2> QED
    BY <1>1, <1>2, <2>1, <2>2, SameFlags
<1> QED
  BY <1>8, <1>10, <1>11 DEF StateKnown

LEMMA InitStateKnown ==
  ASSUME Init
  PROVE  StateKnown
<1>1. /\ prog \in Programs /\ ops = Idle /\ activations = <<>> /\ inits = <<>> /\ contexts = <<>>
      /\ temporaries = 0 /\ outcome = "running"
      /\ member = [g \in Globals |-> [pending |-> TRUE, initializing |-> FALSE, value |-> "none"]]
  BY DEF Init
<1>2. FramesKnown
  BY <1>1 DEF FramesKnown, Count
<1>3. InitsKnown
  BY <1>1 DEF InitsKnown
<1>4. FlagsKnown
  <2>1. \A g \in Globals : ~InProgress(g)
    BY <1>1 DEF InProgress
  <2>2. TypeOK
    BY <1>1, <2>1 DEF TypeOK
  <2>3. member \in [Globals -> Flags]
    BY <1>1 DEF Flags
  <2> QED
    BY <1>1, <2>2, <2>3 DEF FlagsKnown
<1> QED
  BY <1>2, <1>3, <1>4 DEF StateKnown

LEMMA NextKeepsState ==
  ASSUME StateKnown, [Next]_vars
  PROVE  StateKnown'
<1>1. CASE Simple
  BY <1>1, SimpleKeepsState
<1>2. CASE Add
  BY <1>2, AddKeepsState
<1>3. CASE LoadGlobal
  BY <1>3, LoadKeepsState
<1>4. CASE LoadMember
  BY <1>4, LoadKeepsState
<1>5. CASE Prepare
  BY <1>5, PrepareKeepsState
<1>6. CASE AllocTyped
  BY <1>6, AllocTypedKeepsState
<1>7. CASE AllocUntyped
  BY <1>7, AllocUntypedKeepsState
<1>8. CASE CompleteCircular
  BY <1>8, CompleteCircularKeepsState
<1>9. CASE Complete
  BY <1>9, CompleteKeepsState
<1>10. CASE EndCode
  BY <1>10, EndCodeKeepsState
<1>11. CASE Fail
  BY <1>11, StopKeepsState DEF Fail, stacks, Outcomes
<1>12. CASE \E g \in Globals : Evaluate(g)
  BY <1>12, EvaluateKeepsState
<1>13. CASE Return
  BY <1>13, StopKeepsState DEF Return, stacks, Outcomes
<1>14. CASE UNCHANGED vars
  <2>1. outcome' \in Outcomes
    BY <1>14 DEF vars, StateKnown, FlagsKnown, TypeOK, Outcomes
  <2> QED
    BY <1>14, <2>1, StopKeepsState DEF vars, stacks
<1> QED
  BY <1>1, <1>2, <1>3, <1>4, <1>5, <1>6, <1>7, <1>8, <1>9, <1>10, <1>11, <1>12, <1>13, <1>14 DEF Next

LEMMA SpecStateKnown == Spec => []StateKnown
<1>1. Init => StateKnown
  BY InitStateKnown
<1>2. StateKnown /\ [Next]_vars => StateKnown'
  BY NextKeepsState
<1> QED
  BY <1>1, <1>2, PTL DEF Spec

\* The flags of the members and the stack of initializations agree, for every
\* program and however deep definitions suspend one another.
THEOREM SpecTypeOK == Spec => []TypeOK
<1>1. StateKnown => TypeOK
  BY DEF StateKnown, FlagsKnown
<1> QED
  BY <1>1, SpecStateKnown, PTL

-----------------------------------------------------------------------------
(* RealCycle. *)

\* Each active definition mentions the one it waits for.
LEMMA Waiting ==
  ASSUME StateKnown, NEW i \in DOMAIN activations
  PROVE  FrameAt(i + 1)[1] \in Mentioned(prog, FrameAt(i)[1])
<1>1. activations[i] \in Frame /\ FrameAt(i) = activations[i] /\ prog \in Programs
  BY DEF StateKnown, FramesKnown, FrameAt
<1>2. /\ Instruction(prog, activations[i]).op \in Loads
      /\ Instruction(prog, activations[i]).of = FrameAt(i + 1)[1]
  BY DEF StateKnown, FramesKnown
<1>3. Inside(prog, activations[i])
  <2>1. i \in 1 .. Count
    <3>1. activations # <<>> /\ activations \in Seq(Frame)
      BY DEF StateKnown, FramesKnown
    <3>2. ops # Idle
      BY <3>1 DEF StateKnown, FramesKnown
    <3> QED
      BY <3>1, <3>2 DEF Count
  <2> QED
    BY <1>1, <2>1 DEF StateKnown, FramesKnown
<1>4. Placed(prog, activations[i], Instruction(prog, activations[i]))
  BY <1>1, <1>3, PlaceFacts
<1> QED
  BY <1>1, <1>2, <1>4 DEF Placed

LEMMA ReportsRealCycle ==
  ASSUME StateKnown, Prepare
  PROVE  RealCycle'
<1>1. Running /\ Current.op = "prepare"
  BY DEF Prepare, Executes
<1>2. ops # Idle /\ ops[2] = 1 /\ Current.of = ops[1] /\ outcome = "running" /\ ops[1] \in Globals
  BY <1>1, RunningFacts DEF Placed
<1>3. CASE ~member[ops[1]].initializing
  <2>1. outcome' = "running"
    BY <1>2, <1>3 DEF Prepare
  <2> QED
    BY <2>1 DEF RealCycle
<1>4. CASE member[ops[1]].initializing
  <2>1. UNCHANGED <<prog, inits, ops>>
    BY <1>2, <1>4 DEF Prepare
  <2>2. InProgress(ops[1])
    BY <1>2, <1>4 DEF StateKnown, FlagsKnown, TypeOK
  <2>3. PICK k \in DOMAIN inits : inits[k].of = ops[1]
    BY <2>2 DEF InProgress
  <2>4. PICK n : n = Len(inits)
    OBVIOUS
  <2>5. DOMAIN inits = 1 .. n /\ n \in Nat /\ n = Len(activations) /\ DOMAIN activations = 1 .. n
    BY <1>2, <2>4 DEF StateKnown, InitsKnown, FramesKnown, Active
  <2>6. ASSUME NEW j \in k .. n - 1 PROVE inits[j + 1].of \in Mentioned(prog, inits[j].of)
    <3>1. j \in DOMAIN inits /\ j + 1 \in DOMAIN inits /\ j \in DOMAIN activations
      BY <2>5
    <3> QED
      BY <3>1, Waiting DEF StateKnown, InitsKnown
  <2>7. ops[1] \in Mentioned(prog, Last(inits).of)
    <3>1. n \in DOMAIN inits /\ n \in DOMAIN activations /\ n + 1 \notin DOMAIN activations /\ Last(inits) = inits[n]
      BY <2>3, <2>4, <2>5 DEF Last
    <3>2. FrameAt(n + 1) = ops
      BY <3>1 DEF FrameAt
    <3> QED
      BY <3>1, <3>2, Waiting DEF StateKnown, InitsKnown
  <2> QED
    BY <2>1, <2>3, <2>4, <2>6, <2>7 DEF RealCycle
<1> QED
  BY <1>3, <1>4

\* What is reported as circular is: each initialization in progress, from that
\* of the reported definition on, mentions the next.
THEOREM SpecRealCycle == Spec => []RealCycle
<1>1. Init => RealCycle
  BY DEF Init, RealCycle
<1>2. StateKnown /\ RealCycle /\ [Next]_vars => RealCycle'
  <2> SUFFICES ASSUME StateKnown, RealCycle, [Next]_vars PROVE RealCycle'
    OBVIOUS
  <2>1. CASE Prepare
    BY <2>1, ReportsRealCycle
  <2>2. CASE UNCHANGED vars
    BY <2>2 DEF vars, stacks, RealCycle
  <2>3. CASE Next /\ ~Prepare
    <3>1. outcome = "running" /\ (outcome' = outcome \/ outcome' \in {"error", "ok"})
      BY <2>3 DEF Next, Simple, Add, LoadGlobal, LoadMember, AllocTyped, AllocUntyped, CompleteCircular,
        Complete, EndCode, Fail, Evaluate, Return, Executes, Running
    <3> QED
      BY <3>1 DEF RealCycle
  <2> QED
    BY <2>1, <2>2, <2>3
<1> QED
  BY <1>1, <1>2, SpecStateKnown, PTL DEF Spec

-----------------------------------------------------------------------------
(* OwnContext. *)

\* From the allocation of a typed definition to the end of its value, its
\* context waits on the stack.
Holds(p, f) == Typed(p, f[1]) /\ f[2] \in Before(p, f[1]) + 1 .. ValueEnd(p, f[1])

\* The contexts c are those of the first n of frames, in their order; the first
\* i frames have the first held[i].
Matched(p, held, frames, n, c) ==
  /\ n \in Nat /\ held \in [0 .. n -> Nat] /\ held[0] = 0 /\ held[n] = Len(c)
  /\ \A i, j \in 0 .. n : i <= j => held[i] <= held[j]
  /\ \A i \in 1 .. n : IF Holds(p, frames[i])
                         THEN held[i] = held[i - 1] + 1 /\ c[held[i]] = frames[i][1]
                         ELSE held[i] = held[i - 1]

LEMMA MatchedSame ==
  ASSUME NEW p, NEW held, NEW a, NEW b, NEW n, NEW c, Matched(p, held, a, n, c),
         \A i \in 1 .. n : b[i][1] = a[i][1] /\ (Holds(p, b[i]) <=> Holds(p, a[i]))
  PROVE  Matched(p, held, b, n, c)
  BY DEF Matched

LEMMA MatchedPush ==
  ASSUME NEW p, NEW held, NEW a, NEW b, NEW n, NEW c \in Seq(Globals), NEW g \in Globals,
         Matched(p, held, a, n, c), n > 0,
         \A i \in 1 .. n - 1 : b[i] = a[i],
         b[n][1] = g, Holds(p, b[n]), ~Holds(p, a[n])
  PROVE  \E h : Matched(p, h, b, n, Append(c, g))
<1>1. PICK m : m = Len(c)
  OBVIOUS
<1>2. PICK d : d = Append(c, g)
  OBVIOUS
<1>3. m \in Nat /\ Len(d) = m + 1 /\ d[m + 1] = g /\ \A i \in 1 .. m : d[i] = c[i]
  BY <1>1, <1>2
<1>4. /\ n \in Nat /\ held \in [0 .. n -> Nat] /\ held[0] = 0 /\ held[n] = m /\ held[n - 1] = m
      /\ \A i, j \in 0 .. n : i <= j => held[i] <= held[j]
  <2>1. n \in Nat /\ n \in 1 .. n
    BY DEF Matched
  <2>2. /\ held \in [0 .. n -> Nat] /\ held[0] = 0 /\ held[n] = m
        /\ \A i, j \in 0 .. n : i <= j => held[i] <= held[j]
    BY <1>1 DEF Matched
  <2>3. held[n] = held[n - 1]
    BY <2>1 DEF Matched
  <2> QED
    BY <2>1, <2>2, <2>3
<1>5. PICK h : h = [held EXCEPT ![n] = m + 1]
  OBVIOUS
<1>6. /\ h \in [0 .. n -> Nat] /\ h[0] = 0 /\ h[n] = m + 1 /\ \A i \in 0 .. n - 1 : h[i] = held[i]
  BY <1>3, <1>4, <1>5
<1>7. ASSUME NEW i \in 0 .. n, NEW j \in 0 .. n, i <= j PROVE h[i] <= h[j]
  <2>1. CASE j = n
    <3>1. h[j] = m + 1 /\ held[i] \in Nat /\ held[i] <= m
      BY <1>4, <1>6, <2>1
    <3>2. h[i] = m + 1 \/ h[i] = held[i]
      BY <1>4, <1>6
    <3> QED
      BY <1>3, <3>1, <3>2
  <2>2. CASE j # n
    <3>1. i \in 0 .. n - 1 /\ j \in 0 .. n - 1
      BY <1>4, <1>7, <2>2
    <3> QED
      BY <1>4, <1>6, <1>7, <3>1
  <2> QED
    BY <2>1, <2>2
<1>8. ASSUME NEW i \in 1 .. n
      PROVE  IF Holds(p, b[i]) THEN h[i] = h[i - 1] + 1 /\ d[h[i]] = b[i][1] ELSE h[i] = h[i - 1]
  <2>1. CASE i = n
    BY <1>3, <1>4, <1>6, <2>1
  <2>2. CASE i \in 1 .. n - 1
    <3>1. h[i] = held[i] /\ h[i - 1] = held[i - 1] /\ b[i] = a[i] /\ held[i] \in Nat /\ held[i - 1] \in Nat
      BY <1>4, <1>6, <2>2
    <3>2. held[i] <= m
      BY <1>4, <2>2
    <3>3. IF Holds(p, a[i]) THEN held[i] = held[i - 1] + 1 /\ c[held[i]] = a[i][1] ELSE held[i] = held[i - 1]
      BY DEF Matched
    <3>4. Holds(p, a[i]) => held[i] \in 1 .. m
      BY <1>3, <3>1, <3>2, <3>3
    <3> QED
      BY <1>3, <3>1, <3>3, <3>4
  <2> QED
    BY <1>4, <1>8, <2>1, <2>2
<1>9. Matched(p, h, b, n, d)
  BY <1>3, <1>4, <1>6, <1>7, <1>8 DEF Matched
<1> QED
  BY <1>2, <1>9

LEMMA MatchedPop ==
  ASSUME NEW p, NEW held, NEW a, NEW b, NEW n, NEW c \in Seq(Globals),
         Matched(p, held, a, n, c), n > 0,
         \A i \in 1 .. n - 1 : b[i] = a[i],
         ~Holds(p, b[n]), Holds(p, a[n])
  PROVE  \E h : Matched(p, h, b, n, Front(c))
<1>1. PICK m : m = Len(c)
  OBVIOUS
<1>2. /\ n \in Nat /\ held \in [0 .. n -> Nat] /\ held[0] = 0 /\ held[n] = m /\ held[n - 1] = m - 1
      /\ m \in Nat \ {0}
      /\ \A i, j \in 0 .. n : i <= j => held[i] <= held[j]
  <2>1. n \in Nat /\ held \in [0 .. n -> Nat] /\ held[n] = m /\ n \in 1 .. n /\ n - 1 \in 0 .. n
    BY <1>1 DEF Matched
  <2>2. held[n] = held[n - 1] + 1
    BY <2>1 DEF Matched
  <2> QED
    BY <2>1, <2>2 DEF Matched
<1>3. PICK d : d = Front(c)
  OBVIOUS
<1>4. c # <<>>
  BY <1>1, <1>2
<1>5. Len(d) = m - 1 /\ \A i \in 1 .. m - 1 : d[i] = c[i]
  BY <1>1, <1>3, <1>4, FrontFacts
<1>6. PICK h : h = [held EXCEPT ![n] = m - 1]
  OBVIOUS
<1>7. /\ h \in [0 .. n -> Nat] /\ h[0] = 0 /\ h[n] = m - 1 /\ \A i \in 0 .. n - 1 : h[i] = held[i]
  BY <1>2, <1>6
<1>8. ASSUME NEW i \in 0 .. n, NEW j \in 0 .. n, i <= j PROVE h[i] <= h[j]
  <2>1. CASE i = n
    <3>1. j = n
      BY <1>2, <1>8, <2>1
    <3> QED
      BY <1>2, <1>7, <2>1, <3>1
  <2>2. CASE i # n /\ j = n
    <3>1. i \in 0 .. n - 1 /\ n - 1 \in 0 .. n /\ i \in 0 .. n /\ i <= n - 1
      BY <1>2, <2>2
    <3>2. held[i] <= held[n - 1]
      BY <1>2, <3>1
    <3> QED
      BY <1>2, <1>7, <2>2, <3>1, <3>2
  <2>3. CASE j # n
    <3>1. i \in 0 .. n - 1 /\ j \in 0 .. n - 1
      BY <1>2, <1>8, <2>3
    <3> QED
      BY <1>2, <1>7, <1>8, <3>1
  <2> QED
    BY <2>1, <2>2, <2>3
<1>9. ASSUME NEW i \in 1 .. n
      PROVE  IF Holds(p, b[i]) THEN h[i] = h[i - 1] + 1 /\ d[h[i]] = b[i][1] ELSE h[i] = h[i - 1]
  <2>1. CASE i = n
    BY <1>2, <1>7, <2>1
  <2>2. CASE i \in 1 .. n - 1
    <3>1. h[i] = held[i] /\ h[i - 1] = held[i - 1] /\ b[i] = a[i] /\ held[i] \in Nat /\ held[i - 1] \in Nat
      BY <1>2, <1>7, <2>2
    <3>2. held[i] <= m - 1
      BY <1>2, <2>2
    <3>3. IF Holds(p, a[i]) THEN held[i] = held[i - 1] + 1 /\ c[held[i]] = a[i][1] ELSE held[i] = held[i - 1]
      BY DEF Matched
    <3>4. Holds(p, a[i]) => held[i] \in 1 .. m - 1
      BY <1>2, <3>1, <3>2, <3>3
    <3> QED
      BY <1>5, <3>1, <3>3, <3>4
  <2> QED
    BY <1>2, <1>9, <2>1, <2>2
<1>10. Matched(p, h, b, n, d)
  BY <1>2, <1>5, <1>7, <1>8, <1>9 DEF Matched
<1> QED
  BY <1>3, <1>10

LEMMA MatchedExtend ==
  ASSUME NEW p, NEW held, NEW a, NEW b, NEW n, NEW c, Len(c) \in Nat,
         Matched(p, held, a, n, c),
         \A i \in 1 .. n : b[i] = a[i],
         ~Holds(p, b[n + 1])
  PROVE  \E h : Matched(p, h, b, n + 1, c)
<1>1. PICK m : m = Len(c)
  OBVIOUS
<1>2. /\ n \in Nat /\ held \in [0 .. n -> Nat] /\ held[0] = 0 /\ held[n] = m /\ m \in Nat
      /\ \A i, j \in 0 .. n : i <= j => held[i] <= held[j]
  BY <1>1 DEF Matched
<1>3. PICK h : h = [i \in 0 .. n + 1 |-> IF i = n + 1 THEN m ELSE held[i]]
  OBVIOUS
<1>4. /\ h \in [0 .. n + 1 -> Nat] /\ h[0] = 0 /\ h[n + 1] = m /\ \A i \in 0 .. n : h[i] = held[i]
  BY <1>2, <1>3
<1>5. \A i, j \in 0 .. n + 1 : i <= j => h[i] <= h[j]
  BY <1>2, <1>4
<1>6. ASSUME NEW i \in 1 .. n + 1
      PROVE  IF Holds(p, b[i]) THEN h[i] = h[i - 1] + 1 /\ c[h[i]] = b[i][1] ELSE h[i] = h[i - 1]
  <2>1. CASE i = n + 1
    BY <1>2, <1>4, <2>1
  <2>2. CASE i \in 1 .. n
    <3>1. h[i] = held[i] /\ h[i - 1] = held[i - 1] /\ b[i] = a[i]
      BY <1>2, <1>4, <2>2
    <3> QED
      BY <2>2, <3>1 DEF Matched
  <2> QED
    BY <1>2, <1>6, <2>1, <2>2
<1>7. Matched(p, h, b, n + 1, c)
  BY <1>1, <1>2, <1>4, <1>5, <1>6 DEF Matched
<1> QED
  BY <1>7

LEMMA MatchedShrink ==
  ASSUME NEW p, NEW held, NEW a, NEW b, NEW n, NEW c,
         Matched(p, held, a, n, c), n > 0,
         \A i \in 1 .. n - 1 : b[i] = a[i],
         ~Holds(p, a[n])
  PROVE  \E h : Matched(p, h, b, n - 1, c)
<1>1. /\ n \in Nat /\ held \in [0 .. n -> Nat] /\ held[0] = 0 /\ held[n] = Len(c) /\ held[n - 1] = held[n]
      /\ \A i, j \in 0 .. n : i <= j => held[i] <= held[j]
  BY DEF Matched
<1>2. PICK h : h = [i \in 0 .. n - 1 |-> held[i]]
  OBVIOUS
<1>3. h \in [0 .. n - 1 -> Nat] /\ \A i \in 0 .. n - 1 : h[i] = held[i]
  BY <1>1, <1>2
<1>4. h[0] = 0 /\ h[n - 1] = Len(c) /\ \A i, j \in 0 .. n - 1 : i <= j => h[i] <= h[j]
  BY <1>1, <1>3
<1>5. ASSUME NEW i \in 1 .. n - 1
      PROVE  IF Holds(p, b[i]) THEN h[i] = h[i - 1] + 1 /\ c[h[i]] = b[i][1] ELSE h[i] = h[i - 1]
  <2>1. h[i] = held[i] /\ h[i - 1] = held[i - 1] /\ b[i] = a[i] /\ i \in 1 .. n
    BY <1>1, <1>3
  <2> QED
    BY <2>1 DEF Matched
<1>6. Matched(p, h, b, n - 1, c)
  BY <1>1, <1>3, <1>4, <1>5 DEF Matched
<1> QED
  BY <1>6

LEMMA HoldsFacts ==
  ASSUME StateKnown, Running
  PROVE  /\ Current.ctx => Holds(prog, ops)
         /\ ops[2] = 1 \/ ~Active(prog, ops) \/ Current.op = "alloc_typed" => ~Holds(prog, ops)
         /\ Active(prog, ops) \/ ops[2] = 1 =>
              (Holds(prog, Next1) <=> Current.op = "alloc_typed" \/ (Holds(prog, ops) /\ ~Current.ctx))
         /\ Next1[1] = ops[1]
<1>1. ops # Idle /\ ops \in Frame /\ prog \in Programs /\ Placed(prog, ops, Current)
  BY RunningFacts, CurrentFacts DEF StateKnown, FramesKnown
<1>2. PICK g \in Globals, i \in Nat \ {0} : g = ops[1] /\ i = ops[2]
  BY <1>1 DEF Frame
<1>3. PICK n : n = Before(prog, g)
  OBVIOUS
<1>4. PICK m : m = ValueEnd(prog, g)
  OBVIOUS
<1>5. PICK k : k = Closing(prog, g)
  OBVIOUS
<1>6. n \in Nat \ {0} /\ m \in Nat /\ k \in Nat /\ n < m /\ m < k /\ (Typed(prog, g) => n > 2)
  <2>1. Shape(Code(prog, g), prog, g)
    BY <1>1, CodeFacts
  <2> QED
    BY <1>3, <1>4, <1>5, <2>1 DEF Shape
<1>7. Next1[1] = g /\ Next1[2] = i + 1
  BY <1>2 DEF Next1
<1>8. /\ Holds(prog, ops) <=> Typed(prog, g) /\ i \in n + 1 .. m
      /\ Holds(prog, Next1) <=> Typed(prog, g) /\ i + 1 \in n + 1 .. m
      /\ Active(prog, ops) <=> i > 1 /\ i <= k
  BY <1>2, <1>3, <1>4, <1>5, <1>7 DEF Holds, Active
<1>9. /\ Current.ctx <=> Typed(prog, g) /\ i = m
      /\ Current.op = "prepare" <=> i = 1
      /\ Current.op = "end_code" <=> ~(i > 1 /\ i <= k) /\ i # 1
      /\ Current.op \in ExpressionOps \cup {"type_type"} => i # n
      /\ Current.op = "alloc_typed" => i = n /\ Typed(prog, g)
      /\ Current.op = "complete_circular" => i > n
      /\ Current.op = "complete" => i = k
      /\ Current.op = "alloc_untyped" => ~Typed(prog, g)
      /\ Current.op \in ExpressionOps \cup DefinitionOps
  BY <1>1, <1>2, <1>3, <1>4, <1>5, <1>8 DEF Placed, Instructions
<1>10. Typed(prog, g) /\ i = n => Current.op = "alloc_typed"
  <2>1. SUFFICES ASSUME Typed(prog, g), i = n PROVE Current.op = "alloc_typed"
    OBVIOUS
  <2>2. i # 1 /\ i > 1 /\ i <= k /\ ~(i > n) /\ i # k
    BY <1>6, <2>1
  <2> QED
    BY <1>9, <2>1, <2>2 DEF ExpressionOps, DefinitionOps
<1>11. Current.ctx => Holds(prog, ops)
  BY <1>6, <1>8, <1>9
<1>12. i = 1 \/ ~(i > 1 /\ i <= k) \/ i = n => ~Holds(prog, ops)
  BY <1>6, <1>8
<1>13. i \in n .. m - 1 <=> i = n \/ (i \in n + 1 .. m /\ i # m)
  BY <1>6
<1>14. i + 1 \in n + 1 .. m <=> i \in n .. m - 1
  BY <1>6
<1> QED
  BY <1>2, <1>7, <1>8, <1>9, <1>10, <1>11, <1>12, <1>13, <1>14

Frames == [i \in 1 .. Count |-> FrameAt(i)]

ContextsKnown == \E held : Matched(prog, held, Frames, Count, contexts)

LEMMA AdvanceFrames ==
  ASSUME StateKnown, Running, ops' = Next1, UNCHANGED <<prog, activations>>,
         Active(prog, ops) \/ ops[2] = 1
  PROVE  /\ Count' = Count /\ Count \in Nat \ {0}
         /\ \A i \in 1 .. Count - 1 : Frames'[i] = Frames[i]
         /\ Frames[Count] = ops /\ Frames'[Count] = Next1
<1>1. PICK n : n = Count
  OBVIOUS
<1>2. /\ ops # Idle /\ ops' # Idle /\ activations \in Seq(Frame) /\ n = Len(activations) + 1
      /\ n \in Nat \ {0} /\ DOMAIN activations = 1 .. n - 1
  BY <1>1, RunningFacts, AdvanceKeepsFrames DEF StateKnown, FramesKnown, Count
<1>3. Count' = n
  BY <1>2 DEF Count
<1>4. \A i \in 1 .. n - 1 : FrameAt(i) = activations[i] /\ FrameAt(i)' = activations[i]
  BY <1>2 DEF FrameAt
<1>5. FrameAt(n) = ops /\ FrameAt(n)' = Next1
  BY <1>2 DEF FrameAt
<1>6. /\ \A i \in 1 .. n : Frames[i] = FrameAt(i)
      /\ \A i \in 1 .. n : Frames'[i] = FrameAt(i)'
  BY <1>1, <1>3 DEF Frames
<1> QED
  BY <1>1, <1>2, <1>3, <1>4, <1>5, <1>6

\* A step past an instruction, with what it does to the contexts.
LEMMA AdvanceKeepsContexts ==
  ASSUME StateKnown, ContextsKnown, Running, ops' = Next1, UNCHANGED <<prog, activations>>,
         Active(prog, ops) \/ ops[2] = 1,
         contexts' = IF Current.op = "alloc_typed" THEN Append(contexts, ops[1]) ELSE ContextsLeft
  PROVE  ContextsKnown'
<1>1. PICK n : n = Count
  OBVIOUS
<1>2. PICK held : Matched(prog, held, Frames, n, contexts)
  BY <1>1 DEF ContextsKnown
<1>3. PICK a : a = Frames
  OBVIOUS
<1>4. PICK b : b = Frames'
  OBVIOUS
<1>5. /\ Count' = n /\ n \in Nat \ {0} /\ a[n] = ops /\ b[n] = Next1
      /\ \A i \in 1 .. n - 1 : b[i] = a[i]
  BY <1>1, <1>3, <1>4, AdvanceFrames
<1>6. contexts \in Seq(Globals) /\ ops[1] \in Globals
  BY RunningFacts, CurrentFacts DEF StateKnown, FlagsKnown, TypeOK
<1>7. PICK p : p = prog
  OBVIOUS
<1>8. PICK c : c = contexts
  OBVIOUS
<1>9. Matched(p, held, a, n, c)
  BY <1>2, <1>3, <1>7, <1>8
<1>10. \E h : Matched(p, h, b, n, contexts')
  <2>1. CASE Current.op = "alloc_typed"
    <3>1. ~Holds(p, a[n]) /\ Holds(p, b[n]) /\ b[n][1] = ops[1]
      BY <1>5, <1>7, <2>1, HoldsFacts
    <3>2. n > 0 /\ c \in Seq(Globals)
      BY <1>5, <1>6, <1>8
    <3>3. PICK g \in Globals : g = ops[1]
      BY <1>6
    <3>4. \E h : Matched(p, h, b, n, Append(c, g))
      BY <1>5, <1>9, <3>1, <3>2, <3>3, MatchedPush
    <3> QED
      BY <1>8, <2>1, <3>3, <3>4
  <2>2. CASE Current.op # "alloc_typed" /\ Current.ctx
    <3>1. Holds(p, a[n]) /\ ~Holds(p, b[n])
      BY <1>5, <1>7, <2>2, HoldsFacts
    <3>2. n > 0 /\ c \in Seq(Globals)
      BY <1>5, <1>6, <1>8
    <3>3. \E h : Matched(p, h, b, n, Front(c))
      BY <1>5, <1>9, <3>1, <3>2, MatchedPop
    <3> QED
      BY <1>8, <2>2, <3>3 DEF ContextsLeft
  <2>3. CASE Current.op # "alloc_typed" /\ ~Current.ctx
    <3>1. b[n][1] = a[n][1] /\ (Holds(p, b[n]) <=> Holds(p, a[n]))
      BY <1>5, <1>7, <2>3, HoldsFacts
    <3>2. \A i \in 1 .. n : b[i][1] = a[i][1] /\ (Holds(p, b[i]) <=> Holds(p, a[i]))
      BY <1>5, <3>1
    <3>3. Matched(p, held, b, n, c)
      BY <1>9, <3>2, MatchedSame
    <3> QED
      BY <1>8, <2>3, <3>3 DEF ContextsLeft
  <2> QED
    BY <2>1, <2>2, <2>3
<1> QED
  BY <1>4, <1>5, <1>7, <1>10 DEF ContextsKnown

LEMMA SuspendKeepsContexts ==
  ASSUME StateKnown, ContextsKnown, Running, NEW g \in Globals,
         activations' = Append(activations, ops), ops' = <<g, 1>>, UNCHANGED <<prog, contexts>>
  PROVE  ContextsKnown'
<1>1. PICK n : n = Count
  OBVIOUS
<1>2. PICK held : Matched(prog, held, Frames, n, contexts)
  BY <1>1 DEF ContextsKnown
<1>3. /\ ops # Idle /\ ops \in Frame /\ activations \in Seq(Frame) /\ n = Len(activations) + 1
      /\ n \in Nat \ {0} /\ DOMAIN activations = 1 .. n - 1
  BY <1>1, RunningFacts, CurrentFacts DEF StateKnown, FramesKnown, Count
<1>4. /\ DOMAIN activations' = 1 .. n /\ Len(activations') = n /\ activations'[n] = ops
      /\ \A i \in 1 .. n - 1 : activations'[i] = activations[i]
  BY <1>3
<1>5. ops' # Idle
  BY DEF Idle
<1>6. Count' = n + 1
  BY <1>4, <1>5 DEF Count
<1>7. \A i \in 1 .. n : FrameAt(i)' = FrameAt(i)
  BY <1>3, <1>4 DEF FrameAt
<1>8. PICK k : k = n + 1
  OBVIOUS
<1>9. FrameAt(k)' = ops'
  BY <1>3, <1>4, <1>8 DEF FrameAt
<1>10. PICK a : a = Frames
  OBVIOUS
<1>11. PICK b : b = Frames'
  OBVIOUS
<1>12. /\ \A i \in 1 .. n : a[i] = FrameAt(i)
       /\ \A i \in 1 .. n + 1 : b[i] = FrameAt(i)'
  BY <1>1, <1>6, <1>10, <1>11 DEF Frames
<1>13. /\ \A i \in 1 .. n : b[i] = a[i]
       /\ b[n + 1] = <<g, 1>>
  BY <1>3, <1>7, <1>8, <1>9, <1>12
<1>14. PICK p : p = prog
  OBVIOUS
<1>15. ~Holds(p, b[n + 1])
  <2>1. b[n + 1][1] = g /\ b[n + 1][2] = 1
    BY <1>13
  <2>2. Shape(Code(p, g), p, g)
    BY <1>14, CodeFacts DEF StateKnown, FramesKnown
  <2>3. Before(p, g) \in Nat /\ ValueEnd(p, g) \in Nat /\ (Typed(p, g) => Before(p, g) > 2)
    BY <2>2 DEF Shape
  <2>4. Typed(p, g) => 1 \notin Before(p, g) + 1 .. ValueEnd(p, g)
    BY <2>3
  <2> QED
    BY <2>1, <2>4 DEF Holds
<1>16. PICK c : c = contexts
  OBVIOUS
<1>17. Matched(p, held, a, n, c) /\ Len(c) \in Nat
  BY <1>2, <1>10, <1>14, <1>16 DEF StateKnown, FlagsKnown, TypeOK
<1>18. \E h : Matched(p, h, b, n + 1, c)
  BY <1>13, <1>15, <1>17, MatchedExtend
<1> QED
  BY <1>6, <1>11, <1>14, <1>16, <1>18 DEF ContextsKnown

LEMMA EndKeepsContexts ==
  ASSUME StateKnown, ContextsKnown, EndCode
  PROVE  ContextsKnown'
<1>1. Running /\ Current.op = "end_code"
  BY DEF EndCode, Executes
<1>2. ops # Idle /\ ~Active(prog, ops)
  BY <1>1, RunningFacts DEF Placed
<1>3. /\ UNCHANGED <<prog, contexts>>
      /\ IF activations = <<>>
           THEN ops' = Idle /\ UNCHANGED activations
           ELSE ops' = Last(activations) /\ activations' = Front(activations)
  BY DEF EndCode
<1>4. PICK n : n = Count
  OBVIOUS
<1>5. PICK held : Matched(prog, held, Frames, n, contexts)
  BY <1>4 DEF ContextsKnown
<1>6. activations \in Seq(Frame) /\ n = Len(activations) + 1 /\ n \in Nat \ {0} /\ DOMAIN activations = 1 .. n - 1
  BY <1>2, <1>4 DEF StateKnown, FramesKnown, Count
<1>7. /\ activations = <<>> => ops' = Idle /\ activations' = <<>>
      /\ activations # <<>> => ops' # Idle /\ Len(activations') = Len(activations) - 1
      /\ \A i \in 1 .. Len(activations) : FrameAt(i)' = activations[i] /\ FrameAt(i) = activations[i]
  BY <1>2, <1>3, EndKeepsFrames DEF StateKnown
<1>8. Count' = n - 1
  <2>1. CASE activations = <<>>
    BY <1>6, <1>7, <2>1 DEF Count
  <2>2. CASE activations # <<>>
    <3>1. ops' # Idle /\ Len(activations') = Len(activations) - 1
      BY <1>7, <2>2
    <3>2. Count' = Len(activations') + 1
      BY <3>1 DEF Count
    <3>3. Len(activations) = n - 1
      BY <1>6
    <3> QED
      BY <1>6, <3>1, <3>2, <3>3
  <2> QED
    BY <2>1, <2>2
<1>9. FrameAt(n) = ops
  BY <1>6 DEF FrameAt
<1>10. PICK a : a = Frames
  OBVIOUS
<1>11. PICK b : b = Frames'
  OBVIOUS
<1>12. /\ \A i \in 1 .. n : a[i] = FrameAt(i)
       /\ \A i \in 1 .. n - 1 : b[i] = FrameAt(i)'
  BY <1>4, <1>8, <1>10, <1>11 DEF Frames
<1>13. (\A i \in 1 .. n - 1 : b[i] = a[i]) /\ a[n] = ops
  <2>1. ASSUME NEW i \in 1 .. n - 1 PROVE b[i] = a[i]
    <3>1. i \in 1 .. Len(activations) /\ i \in 1 .. n
      BY <1>6
    <3>2. FrameAt(i)' = FrameAt(i)
      BY <1>7, <3>1
    <3> QED
      BY <1>12, <3>1, <3>2
  <2>2. n \in 1 .. n
    BY <1>6
  <2> QED
    BY <1>9, <1>12, <2>1, <2>2
<1>14. PICK p : p = prog
  OBVIOUS
<1>15. ~Holds(p, a[n])
  BY <1>1, <1>2, <1>13, <1>14, HoldsFacts
<1>16. PICK c : c = contexts
  OBVIOUS
<1>17. Matched(p, held, a, n, c) /\ n > 0
  BY <1>5, <1>6, <1>10, <1>14, <1>16
<1>18. \E h : Matched(p, h, b, n - 1, c)
  BY <1>13, <1>15, <1>17, MatchedShrink
<1> QED
  BY <1>3, <1>8, <1>11, <1>14, <1>16, <1>18 DEF ContextsKnown

LEMMA StartKeepsContexts ==
  ASSUME StateKnown, ContextsKnown, NEW g \in Globals, Evaluate(g)
  PROVE  ContextsKnown'
<1>1. /\ ops = Idle /\ activations = <<>> /\ ops' = <<g, 1>> /\ UNCHANGED <<prog, contexts, activations>>
  BY DEF Evaluate, StateKnown, FramesKnown, stacks
<1>2. Count = 0 /\ Count' = 1
  BY <1>1 DEF Count, Idle
<1>3. FrameAt(1)' = <<g, 1>>
  BY <1>1 DEF FrameAt
<1>4. PICK p : p = prog
  OBVIOUS
<1>5. PICK a : a = Frames
  OBVIOUS
<1>6. PICK b : b = Frames'
  OBVIOUS
<1>7. b[1] = <<g, 1>>
  BY <1>2, <1>3, <1>6 DEF Frames
<1>8. ~Holds(p, b[0 + 1])
  <2>1. b[0 + 1][1] = g /\ b[0 + 1][2] = 1
    BY <1>7
  <2>2. Shape(Code(p, g), p, g)
    BY <1>4, CodeFacts DEF StateKnown, FramesKnown
  <2>3. Before(p, g) \in Nat /\ ValueEnd(p, g) \in Nat /\ (Typed(p, g) => Before(p, g) > 2)
    BY <2>2 DEF Shape
  <2>4. Typed(p, g) => 1 \notin Before(p, g) + 1 .. ValueEnd(p, g)
    BY <2>3
  <2> QED
    BY <2>1, <2>4 DEF Holds
<1>9. PICK c : c = contexts
  OBVIOUS
<1>10. PICK held : Matched(p, held, a, 0, c)
  BY <1>2, <1>4, <1>5, <1>9 DEF ContextsKnown
<1>11. Len(c) \in Nat /\ \A i \in 1 .. 0 : b[i] = a[i]
  BY <1>9 DEF StateKnown, FlagsKnown, TypeOK
<1>12. \E h : Matched(p, h, b, 0 + 1, c)
  BY <1>8, <1>10, <1>11, MatchedExtend
<1> QED
  BY <1>1, <1>2, <1>4, <1>6, <1>9, <1>12 DEF ContextsKnown

LEMMA StillKeepsContexts ==
  ASSUME ContextsKnown, UNCHANGED <<prog, ops, activations, contexts>>
  PROVE  ContextsKnown'
<1>1. Count' = Count /\ Frames' = Frames
  BY DEF Count, Frames, FrameAt
<1> QED
  BY <1>1 DEF ContextsKnown

\* No definition with a type has a member of a file as its value: the load of
\* that member would lose the context when it is suspended.
NoMemberIntoContext == \A p \in Programs : \A g \in Globals : Typed(p, g) => p[g].value.form # "member"

LEMMA NextKeepsContexts ==
  ASSUME NoMemberIntoContext, StateKnown, ContextsKnown, [Next]_vars
  PROVE  ContextsKnown'
<1>1. ASSUME Running, NEW x, NEW operands, NEW isTemporary \in BOOLEAN, Deliver(x, operands, isTemporary),
             Current.op \in ExpressionOps \cup {"type_type"}, UNCHANGED <<prog, activations>>
      PROVE  ContextsKnown'
  <2>1. contexts' = ContextsLeft /\ ops' = Next1 /\ Current.op # "alloc_typed"
    BY <1>1 DEF Deliver, ExpressionOps, Loads
  <2>2. Active(prog, ops)
    BY <1>1, RunningFacts DEF Placed
  <2> QED
    BY <1>1, <2>1, <2>2, AdvanceKeepsContexts
<1>2. CASE Simple
  <2>1. /\ Running /\ Deliver(Object(Current.op, Current.of), 0, TRUE) /\ UNCHANGED <<prog, activations>>
        /\ Current.op \in ExpressionOps \cup {"type_type"}
    BY <1>2 DEF Simple, ExpressionOps
  <2> QED
    BY <1>1, <2>1
<1>3. CASE Add
  <2>1. /\ Running /\ Deliver(SumOf(Read(Operand(2).is), Read(Operand(1).is)), 2, TRUE)
        /\ UNCHANGED <<prog, activations>> /\ Current.op \in ExpressionOps \cup {"type_type"}
    BY <1>3 DEF Add, Executes, ExpressionOps
  <2> QED
    BY <1>1, <2>1
<1>4. CASE (LoadGlobal \/ LoadMember) /\ ~member[Current.of].pending
  <2>1. /\ Running /\ Current.op \in ExpressionOps \cup {"type_type"} /\ UNCHANGED <<prog, activations>>
        /\ \E operands \in {0, 1} : Deliver(Location(Current.of), operands, FALSE)
    BY <1>4 DEF LoadGlobal, LoadMember, Executes, ExpressionOps, Loads
  <2> QED
    BY <1>1, <2>1
<1>5. CASE (LoadGlobal \/ LoadMember) /\ member[Current.of].pending
  <2>1. Running /\ Suspend(Current.of) /\ UNCHANGED prog
    BY <1>5 DEF LoadGlobal, LoadMember, Executes
  <2>2. PICK g \in Globals : g = Current.of
    BY <2>1, RunningFacts
  <2>3. contexts' = contexts
    <3>1. CASE LoadGlobal
      BY <1>5, <3>1 DEF LoadGlobal
    <3>2. CASE LoadMember
      <4>1. Current.op = "load_member" /\ contexts' = ContextsLeft
        BY <1>5, <3>2 DEF LoadMember, Executes
      <4>2. /\ Current.ctx => Typed(prog, ops[1]) /\ prog[ops[1]].value.form = "member"
            /\ prog \in Programs /\ ops[1] \in Globals
        BY <2>1, <4>1, RunningFacts, CurrentFacts DEF Placed, StateKnown, FramesKnown
      <4>3. ~Current.ctx
        BY <4>2 DEF NoMemberIntoContext
      <4> QED
        BY <4>1, <4>3 DEF ContextsLeft
    <3> QED
      BY <1>5, <3>1, <3>2
  <2> QED
    BY <2>1, <2>2, <2>3, SuspendKeepsContexts DEF Suspend
<1>6. ASSUME Running, Current.op \in {"prepare", "alloc_typed", "alloc_untyped", "complete_circular", "complete"},
             ops' = Next1, UNCHANGED <<prog, activations>>,
             contexts' = IF Current.op = "alloc_typed" THEN Append(contexts, ops[1]) ELSE contexts
      PROVE  ContextsKnown'
  <2>1. Placed(prog, ops, Current)
    BY <1>6, RunningFacts
  <2>2. Active(prog, ops) \/ ops[2] = 1
    BY <1>6, <2>1 DEF Placed
  <2>3. ~Current.ctx
    BY <1>6, <2>1 DEF Placed, DefinitionOps
  <2>4. contexts' = IF Current.op = "alloc_typed" THEN Append(contexts, ops[1]) ELSE ContextsLeft
    BY <1>6, <2>3 DEF ContextsLeft
  <2> QED
    BY <1>6, <2>2, <2>4, AdvanceKeepsContexts
<1>7. CASE Prepare
  <2>1. CASE member[Current.of].initializing
    <3>1. UNCHANGED <<prog, ops, activations, contexts>>
      BY <1>7, <2>1 DEF Prepare
    <3> QED
      BY <3>1, StillKeepsContexts
  <2>2. CASE ~member[Current.of].initializing
    <3>1. Running /\ Current.op = "prepare" /\ ops' = Next1 /\ UNCHANGED <<prog, activations, contexts>>
      BY <1>7, <2>2 DEF Prepare, Executes
    <3> QED
      BY <1>6, <3>1
  <2> QED
    BY <2>1, <2>2
<1>8. CASE AllocTyped
  <2>1. Running /\ Current.op = "alloc_typed" /\ ops' = Next1 /\ UNCHANGED <<prog, activations>>
    BY <1>8 DEF AllocTyped, Executes
  <2>2. ops # Idle /\ Active(prog, ops)
    BY <2>1, RunningFacts DEF Placed
  <2>3. Last(inits).of = ops[1]
    BY <2>2, LastEntry DEF StateKnown
  <2>4. contexts' = Append(contexts, ops[1])
    BY <1>8, <2>3 DEF AllocTyped
  <2> QED
    BY <1>6, <2>1, <2>4
<1>9. CASE AllocUntyped \/ CompleteCircular \/ Complete
  <2>1. /\ Running /\ Current.op \in {"alloc_untyped", "complete_circular", "complete"}
        /\ ops' = Next1 /\ UNCHANGED <<prog, activations, contexts>>
    BY <1>9 DEF AllocUntyped, CompleteCircular, Complete, Executes, stacks
  <2> QED
    BY <1>6, <2>1
<1>10. CASE EndCode
  BY <1>10, EndKeepsContexts
<1>11. CASE \E g \in Globals : Evaluate(g)
  BY <1>11, StartKeepsContexts
<1>12. CASE Fail \/ Return \/ UNCHANGED vars
  <2>1. UNCHANGED <<prog, ops, activations, contexts>>
    BY <1>12 DEF Fail, Return, vars, stacks
  <2> QED
    BY <2>1, StillKeepsContexts
<1> QED
  BY <1>2, <1>3, <1>4, <1>5, <1>7, <1>8, <1>9, <1>10, <1>11, <1>12 DEF Next

LEMMA InitContexts ==
  ASSUME Init
  PROVE  ContextsKnown
<1>1. Count = 0 /\ contexts = <<>> /\ Len(contexts) = 0
  BY DEF Init, Count
<1>2. PICK held : held = [i \in 0 .. 0 |-> 0]
  OBVIOUS
<1>3. held \in [0 .. 0 -> Nat] /\ held[0] = 0
  BY <1>2
<1>4. \A i, j \in 0 .. 0 : i <= j => held[i] <= held[j]
  BY <1>3
<1>5. Matched(prog, held, Frames, 0, contexts)
  BY <1>1, <1>3, <1>4 DEF Matched
<1> QED
  BY <1>1, <1>5 DEF ContextsKnown

\* The last of the contexts that wait is that of the code that runs.
LEMMA ContextFound ==
  ASSUME StateKnown, ContextsKnown, ops # Idle, Current.ctx
  PROVE  contexts # <<>> /\ Last(contexts) = ops[1]
<1>1. PICK n : n = Count
  OBVIOUS
<1>2. PICK held : Matched(prog, held, Frames, n, contexts)
  BY <1>1 DEF ContextsKnown
<1>3. activations \in Seq(Frame) /\ n = Len(activations) + 1 /\ n \in Nat \ {0}
  BY <1>1 DEF StateKnown, FramesKnown, Count
<1>4. Frames[n] = ops
  BY <1>1, <1>3 DEF Frames, FrameAt
<1>5. Holds(prog, ops)
  <2>1. Placed(prog, ops, Current) /\ ops \in Frame
    BY CurrentFacts DEF StateKnown
  <2>2. Typed(prog, ops[1]) /\ ops[2] = ValueEnd(prog, ops[1])
    BY <2>1 DEF Placed
  <2>3. Shape(Code(prog, ops[1]), prog, ops[1])
    BY <2>1, CodeFacts DEF StateKnown, FramesKnown, Frame
  <2>4. ops[2] \in Before(prog, ops[1]) + 1 .. ValueEnd(prog, ops[1])
    BY <2>2, <2>3 DEF Shape
  <2> QED
    BY <2>2, <2>4 DEF Holds
<1>6. n \in 1 .. n /\ n - 1 \in 0 .. n
  BY <1>3
<1>7. /\ held[n] = held[n - 1] + 1 /\ contexts[held[n]] = ops[1] /\ held[n] = Len(contexts)
      /\ held[n - 1] \in Nat
  BY <1>2, <1>4, <1>5, <1>6 DEF Matched
<1>8. contexts # <<>>
  BY <1>7
<1> QED
  BY <1>7, <1>8 DEF Last

\* The value of a definition is written where it belongs, for every program in
\* which no definition with a type has a member of a file as its value; with
\* one, it is not.
THEOREM SpecOwnContext ==
  ASSUME NoMemberIntoContext
  PROVE  Spec => []OwnContext
<1>1. Init => ContextsKnown
  BY InitContexts
<1>2. StateKnown /\ ContextsKnown /\ [Next]_vars => ContextsKnown'
  BY NextKeepsContexts
<1>3. StateKnown /\ ContextsKnown => OwnContext
  BY ContextFound DEF OwnContext
<1> QED
  BY <1>1, <1>2, <1>3, SpecStateKnown, PTL DEF Spec

-----------------------------------------------------------------------------
(* InitializedOnce. *)

BytesKnown == DOMAIN bytes = Globals

LEMMA NextKeepsBytes ==
  ASSUME BytesKnown, [Next]_vars
  PROVE  BytesKnown'
<1>1. CASE bytes' = bytes
  BY <1>1 DEF BytesKnown
<1>2. CASE \E g, x : bytes' = [bytes EXCEPT ![g] = x]
  BY <1>2 DEF BytesKnown
<1>3. ASSUME NEW x, NEW operands, NEW isTemporary, Deliver(x, operands, isTemporary)
      PROVE  bytes' = bytes \/ \E g, v : bytes' = [bytes EXCEPT ![g] = v]
  BY <1>3 DEF Deliver
<1>4. CASE Simple \/ Add \/ LoadGlobal \/ LoadMember
  <2>1. bytes' = bytes \/ \E x, operands, isTemporary : Deliver(x, operands, isTemporary)
    BY <1>4 DEF Simple, Add, LoadGlobal, LoadMember
  <2> QED
    BY <1>1, <1>2, <1>3, <2>1
<1>5. CASE AllocTyped \/ AllocUntyped
  BY <1>2, <1>5 DEF AllocTyped, AllocUntyped
<1> QED
  BY <1>1, <1>4, <1>5 DEF Next, vars, stacks, Prepare, CompleteCircular, Complete, EndCode, Fail, Evaluate, Return

\* A definition whose code has run is not touched.
Kept(g) == member'[g] = member[g] /\ bytes'[g] = bytes[g] /\ target'[g] = target[g]

\* A step writes to the definition whose code runs, or to none.
LEMMA OneWritten ==
  ASSUME StateKnown, BytesKnown, NEW h, NEW g \in Globals, g # h,
         \/ member' = member
         \/ \E v : member' = [member EXCEPT ![h] = v]
         \/ member' = [member EXCEPT ![h].value = "bytes"]
         \/ member' = [member EXCEPT ![h].initializing = TRUE],
         bytes' = bytes \/ \E v : bytes' = [bytes EXCEPT ![h] = v],
         UNCHANGED target
  PROVE  Kept(g)
<1>1. member'[g] = member[g]
  BY DEF StateKnown, FlagsKnown
<1>2. bytes'[g] = bytes[g]
  BY DEF BytesKnown
<1> QED
  BY <1>1, <1>2 DEF Kept

LEMMA WritesOwn ==
  ASSUME StateKnown, ContextsKnown, BytesKnown, Running, Active(prog, ops),
         NEW g \in Globals, ~InProgress(g),
         \/ member' = member
         \/ \E v : member' = [member EXCEPT ![ops[1]] = v]
         \/ member' = [member EXCEPT ![ops[1]].value = "bytes"],
         bytes' = bytes \/ \E v : bytes' = [bytes EXCEPT ![ops[1]] = v],
         UNCHANGED target
  PROVE  Kept(g)
<1>1. ops # Idle
  BY DEF Running
<1>2. inits # <<>> /\ Last(inits) = inits[Len(inits)] /\ Last(inits).of = ops[1] /\ DOMAIN inits = 1 .. Len(inits)
  BY <1>1, LastEntry DEF StateKnown
<1>3. Len(inits) \in DOMAIN inits
  BY <1>2, LastEntry, <1>1 DEF StateKnown
<1>4. InProgress(ops[1])
  BY <1>2, <1>3 DEF InProgress
<1>5. PICK h : h = ops[1]
  OBVIOUS
<1>6. g # h
  BY <1>4, <1>5
<1>7. /\ \/ member' = member
         \/ \E v : member' = [member EXCEPT ![h] = v]
         \/ member' = [member EXCEPT ![h].value = "bytes"]
         \/ member' = [member EXCEPT ![h].initializing = TRUE]
      /\ bytes' = bytes \/ \E v : bytes' = [bytes EXCEPT ![h] = v]
  BY <1>5
<1> QED
  BY <1>6, <1>7, OneWritten

NoneRefersToItself == \A p \in Programs : \A g \in Globals : ~Circular(p, g)

LEMMA NextKeepsCompleted ==
  ASSUME NoneRefersToItself, StateKnown, ContextsKnown, BytesKnown, [Next]_vars,
         NEW g \in Globals, ~member[g].pending, ~InProgress(g)
  PROVE  Kept(g)
<1>1. CASE UNCHANGED <<member, bytes, target>>
  BY <1>1 DEF Kept
<1>2. ASSUME Running, NEW x, NEW operands, NEW isTemporary \in BOOLEAN, Deliver(x, operands, isTemporary),
             Current.op \in ExpressionOps \cup {"type_type"}, UNCHANGED <<member, target>>
      PROVE  Kept(g)
  <2>1. Active(prog, ops) /\ ops # Idle
    BY <1>2, RunningFacts DEF Placed
  <2>2. bytes' = bytes \/ \E v : bytes' = [bytes EXCEPT ![ops[1]] = v]
    <3>1. CASE Current.ctx
      <4>1. Last(contexts) = ops[1]
        BY <2>1, <3>1, ContextFound
      <4> QED
        BY <1>2, <3>1, <4>1 DEF Deliver
    <3>2. CASE ~Current.ctx
      BY <1>2, <3>2 DEF Deliver
    <3> QED
      BY <3>1, <3>2
  <2> QED
    BY <1>2, <2>1, <2>2, WritesOwn
<1>3. CASE Simple
  <2>1. /\ Running /\ Deliver(Object(Current.op, Current.of), 0, TRUE) /\ UNCHANGED <<member, target>>
        /\ Current.op \in ExpressionOps \cup {"type_type"}
    BY <1>3 DEF Simple, ExpressionOps
  <2> QED
    BY <1>2, <2>1
<1>4. CASE Add
  <2>1. /\ Running /\ Deliver(SumOf(Read(Operand(2).is), Read(Operand(1).is)), 2, TRUE)
        /\ UNCHANGED <<member, target>> /\ Current.op \in ExpressionOps \cup {"type_type"}
    BY <1>4 DEF Add, Executes, ExpressionOps
  <2> QED
    BY <1>2, <2>1
<1>5. CASE LoadGlobal \/ LoadMember
  <2>1. CASE member[Current.of].pending
    <3>1. UNCHANGED <<member, bytes, target>>
      BY <1>5, <2>1 DEF LoadGlobal, LoadMember
    <3> QED
      BY <1>1, <3>1
  <2>2. CASE ~member[Current.of].pending
    <3>1. /\ Running /\ Current.op \in ExpressionOps \cup {"type_type"} /\ UNCHANGED <<member, target>>
          /\ \E operands \in {0, 1} : Deliver(Location(Current.of), operands, FALSE)
      BY <1>5, <2>2 DEF LoadGlobal, LoadMember, Executes, ExpressionOps, Loads
    <3> QED
      BY <1>2, <3>1
  <2> QED
    BY <2>1, <2>2
<1>6. CASE Prepare
  <2>1. Running /\ Current.op = "prepare"
    BY <1>6 DEF Prepare, Executes
  <2>2. ops # Idle /\ ops[2] = 1 /\ Current.of = ops[1]
    BY <2>1, RunningFacts DEF Placed
  <2>3. PICK h : h = ops[1]
    OBVIOUS
  <2>4. member[h].pending /\ h # g
    BY <2>2, <2>3 DEF StateKnown, FlagsKnown
  <2>5. /\ member' = member \/ member' = [member EXCEPT ![h].initializing = TRUE]
        /\ bytes' = bytes /\ target' = target
    BY <1>6, <2>2, <2>3 DEF Prepare
  <2> QED
    BY <2>4, <2>5, OneWritten
<1>7. CASE AllocTyped \/ AllocUntyped \/ Complete
  <2>1. Running /\ Current.op \in {"alloc_typed", "alloc_untyped", "complete"}
    BY <1>7 DEF AllocTyped, AllocUntyped, Complete, Executes
  <2>2. Active(prog, ops) /\ ops # Idle
    BY <2>1, RunningFacts DEF Placed
  <2>3. Last(inits).of = ops[1]
    BY <2>2, LastEntry DEF StateKnown
  <2>4. UNCHANGED target /\ (bytes' = bytes \/ \E v : bytes' = [bytes EXCEPT ![ops[1]] = v])
    BY <1>7, <2>3 DEF AllocTyped, AllocUntyped, Complete
  <2>5. \/ member' = member
        \/ \E v : member' = [member EXCEPT ![ops[1]] = v]
        \/ member' = [member EXCEPT ![ops[1]].value = "bytes"]
    BY <1>7, <2>3 DEF AllocTyped, AllocUntyped, Complete
  <2> QED
    BY <2>1, <2>2, <2>4, <2>5, WritesOwn
<1>8. CASE CompleteCircular
  <2>1. Running /\ Current.op = "complete_circular"
    BY <1>8 DEF CompleteCircular, Executes
  <2>2. Circular(prog, ops[1]) /\ prog \in Programs /\ ops[1] \in Globals
    BY <2>1, RunningFacts, CurrentFacts DEF Placed, StateKnown, FramesKnown
  <2> QED
    BY <2>2 DEF NoneRefersToItself
<1>9. CASE EndCode \/ Fail \/ (\E h \in Globals : Evaluate(h)) \/ Return \/ UNCHANGED vars
  BY <1>1, <1>9 DEF EndCode, Fail, Evaluate, Return, vars
<1> QED
  BY <1>3, <1>4, <1>5, <1>6, <1>7, <1>8, <1>9 DEF Next

\* No step touches a definition whose code has ended, for every program in
\* which no definition refers to itself and none with a type has a member of a
\* file as its value.
THEOREM SpecInitializedOnce ==
  ASSUME NoMemberIntoContext, NoneRefersToItself
  PROVE  Spec => InitializedOnce
<1>1. Init => ContextsKnown /\ BytesKnown
  BY InitContexts DEF Init, BytesKnown
<1>2. StateKnown /\ ContextsKnown /\ BytesKnown /\ [Next]_vars => (ContextsKnown /\ BytesKnown)'
  BY NextKeepsContexts, NextKeepsBytes
<1>3. StateKnown /\ ContextsKnown /\ BytesKnown /\ [Next]_vars
        => [\A g \in Globals : ~member[g].pending /\ ~InProgress(g) =>
              member'[g] = member[g] /\ bytes'[g] = bytes[g] /\ target'[g] = target[g]]_vars
  BY NextKeepsCompleted DEF Kept
<1> QED
  BY <1>1, <1>2, <1>3, SpecStateKnown, PTL DEF Spec, InitializedOnce

-----------------------------------------------------------------------------
(* StacksKept. *)

\* The operands of an instruction.
Pops(op) == CASE op = "sum" -> 2
              [] op \in {"load_member", "alloc_typed", "alloc_untyped"} -> 1
              [] OTHER -> 0

\* The operands of e on the stack before instruction i of the n of its code.
OnStack(e, g, n, i) ==
  IF i = 1 THEN 0
  ELSE IF e.form = "sum" /\ i > Len(SimpleCode(e.left, FALSE, g)) + 1 /\ i <= n THEN 2
  ELSE 1

\* What the code s of e does to the stack: each instruction finds its operands
\* and leaves one value.
Stacks(s, e, g) ==
  \A i \in 1 .. Len(s) :
    /\ Pops(s[i].op) <= OnStack(e, g, Len(s), i)
    /\ OnStack(e, g, Len(s), i + 1) = OnStack(e, g, Len(s), i) - Pops(s[i].op) + 1

LEMMA SimpleShape ==
  ASSUME NEW e \in SimpleExpressions, NEW ctx \in BOOLEAN, NEW g \in Globals
  PROVE  LET s == SimpleCode(e, ctx, g)
         IN  /\ Len(s) \in {1, 2}
             /\ Pops(s[1].op) = 0
             /\ Len(s) = 2 => Pops(s[2].op) = 1
<1>0. PICK s : s = SimpleCode(e, ctx, g)
  OBVIOUS
<1>1. e.form \in {"literal", "import", "global", "member"}
  BY SimpleForms
<1>2. CASE e.form \in {"literal", "import"}
  <2>1. PICK x : x = Instr(e.form, ctx, g)
    OBVIOUS
  <2>2. x.op = e.form
    BY <2>1 DEF Instr
  <2>3. s = <<x>>
    BY <1>0, <1>2, <2>1 DEF SimpleCode
  <2>4. Len(s) = 1 /\ s[1] = x
    BY <2>3
  <2> QED
    BY <1>0, <1>2, <2>2, <2>4 DEF Pops
<1>3. CASE e.form = "global"
  <2>1. PICK x : x = Instr("load_global", ctx, e.of)
    OBVIOUS
  <2>2. x.op = "load_global"
    BY <2>1 DEF Instr
  <2>3. s = <<x>>
    BY <1>0, <1>3, <2>1 DEF SimpleCode
  <2>4. Len(s) = 1 /\ s[1] = x
    BY <2>3
  <2> QED
    BY <1>0, <2>2, <2>4 DEF Pops
<1>4. CASE e.form = "member"
  <2>1. PICK x : x = Instr("load_global", FALSE, e.via)
    OBVIOUS
  <2>2. PICK y : y = Instr("load_member", ctx, e.of)
    OBVIOUS
  <2>3. x.op = "load_global" /\ y.op = "load_member"
    BY <2>1, <2>2 DEF Instr
  <2>4. s = <<x, y>>
    BY <1>0, <1>4, <2>1, <2>2 DEF SimpleCode
  <2>5. Len(s) = 2 /\ s[1] = x /\ s[2] = y
    BY <2>4
  <2> QED
    BY <1>0, <2>3, <2>5 DEF Pops
<1> QED
  BY <1>0, <1>1, <1>2, <1>3, <1>4

LEMMA ExprStacks ==
  ASSUME NEW e \in Expressions, NEW ctx \in BOOLEAN, NEW g \in Globals
  PROVE  Stacks(ExprCode(e, ctx, g), e, g)
<1>1. CASE e \in SimpleExpressions
  <2>1. e.form # "sum"
    BY <1>1, SimpleForms
  <2>2. PICK s : s = SimpleCode(e, ctx, g)
    OBVIOUS
  <2>3. ExprCode(e, ctx, g) = s
    BY <2>1, <2>2 DEF ExprCode
  <2>4. PICK n : n = Len(s)
    OBVIOUS
  <2>5. n \in {1, 2} /\ Pops(s[1].op) = 0 /\ (n = 2 => Pops(s[2].op) = 1)
    BY <1>1, <2>2, <2>4, SimpleShape
  <2>6. \A i \in 1 .. n : OnStack(e, g, n, i) = (IF i = 1 THEN 0 ELSE 1) /\ OnStack(e, g, n, i + 1) = 1
    BY <2>1, <2>5 DEF OnStack
  <2>7. \A i \in 1 .. n : /\ Pops(s[i].op) <= OnStack(e, g, n, i)
                          /\ OnStack(e, g, n, i + 1) = OnStack(e, g, n, i) - Pops(s[i].op) + 1
    BY <2>5, <2>6
  <2> QED
    BY <2>3, <2>4, <2>7 DEF Stacks
<1>2. ASSUME NEW l \in SimpleExpressions, NEW r \in SimpleExpressions, e = Sum(l, r)
      PROVE  Stacks(ExprCode(e, ctx, g), e, g)
  <2>1. e.form = "sum" /\ e.left = l /\ e.right = r
    BY <1>2 DEF Sum
  <2>2. PICK a : a = SimpleCode(l, FALSE, g)
    OBVIOUS
  <2>3. PICK b : b = SimpleCode(r, FALSE, g)
    OBVIOUS
  <2>4. PICK x : x = Instr("sum", ctx, g)
    OBVIOUS
  <2>5. Pops(x.op) = 2 /\ x \in Instructions
    BY <2>4 DEF Instr, Pops, Instructions, ExpressionOps, Loads
  <2>6. PICK n : n = Len(a)
    OBVIOUS
  <2>7. PICK k : k = Len(b)
    OBVIOUS
  <2>8. /\ n \in {1, 2} /\ Pops(a[1].op) = 0 /\ (n = 2 => Pops(a[2].op) = 1)
        /\ k \in {1, 2} /\ Pops(b[1].op) = 0 /\ (k = 2 => Pops(b[2].op) = 1)
    BY <2>2, <2>3, <2>6, <2>7, SimpleShape
  <2>9. a \in Seq(Instructions) /\ b \in Seq(Instructions)
    BY <2>2, <2>3, SimpleEvaluates DEF Evaluates
  <2>10. PICK ab : ab = a \o b
    OBVIOUS
  <2>11. /\ ab \in Seq(Instructions) /\ Len(ab) = Len(a) + Len(b)
         /\ \A i \in 1 .. Len(a) : ab[i] = a[i]
         /\ \A i \in Len(a) + 1 .. Len(a) + Len(b) : ab[i] = b[i - Len(a)]
    BY <2>9, <2>10, ConcatFacts
  <2>12. PICK s : s = ExprCode(e, ctx, g)
    OBVIOUS
  <2>13. s = ab \o <<x>>
    BY <2>1, <2>2, <2>3, <2>4, <2>10, <2>12 DEF ExprCode
  <2>14. <<x>> \in Seq(Instructions) /\ Len(<<x>>) = 1 /\ <<x>>[1] = x
    BY <2>5
  <2>15. /\ Len(s) = Len(ab) + 1 /\ s[Len(ab) + 1] = x
         /\ \A i \in 1 .. Len(ab) : s[i] = ab[i]
    BY <2>11, <2>13, <2>14, ConcatFacts
  <2>16. /\ Len(s) = n + k + 1 /\ s[n + k + 1] = x
         /\ \A i \in 1 .. n : s[i] = a[i]
         /\ \A i \in n + 1 .. n + k : s[i] = b[i - n]
    <3>1. Len(ab) = n + k
      BY <2>6, <2>7, <2>11
    <3>2. \A i \in 1 .. n : i \in 1 .. n + k
      BY <2>8
    <3>3. \A i \in n + 1 .. n + k : i \in 1 .. n + k
      BY <2>8
    <3> QED
      BY <2>6, <2>7, <2>11, <2>15, <3>1, <3>2, <3>3
  <2>17. \A i \in 1 .. n + k + 2 :
           OnStack(e, g, n + k + 1, i) = IF i = 1 THEN 0 ELSE IF i > n + 1 /\ i <= n + k + 1 THEN 2 ELSE 1
    BY <2>1, <2>2, <2>6, <2>8 DEF OnStack
  <2>18. ASSUME NEW i \in 1 .. n + k + 1
         PROVE  /\ Pops(s[i].op) <= OnStack(e, g, n + k + 1, i)
                /\ OnStack(e, g, n + k + 1, i + 1) = OnStack(e, g, n + k + 1, i) - Pops(s[i].op) + 1
    <3>1. i \in 1 .. n + k + 2 /\ i + 1 \in 1 .. n + k + 2
      BY <2>8
    <3>2. PICK u : u = OnStack(e, g, n + k + 1, i)
      OBVIOUS
    <3>3. PICK w : w = OnStack(e, g, n + k + 1, i + 1)
      OBVIOUS
    <3>4. /\ u = IF i = 1 THEN 0 ELSE IF i > n + 1 /\ i <= n + k + 1 THEN 2 ELSE 1
          /\ w = IF i + 1 = 1 THEN 0 ELSE IF i + 1 > n + 1 /\ i + 1 <= n + k + 1 THEN 2 ELSE 1
      BY <2>17, <3>1, <3>2, <3>3
    <3>5. Pops(s[i].op) = IF i = n + k + 1 THEN 2 ELSE IF i = 1 \/ i = n + 1 THEN 0 ELSE 1
      <4>1. CASE i \in 1 .. n
        <5>1. s[i] = a[i] /\ i # n + k + 1 /\ i # n + 1
          BY <2>8, <2>16, <4>1
        <5> QED
          BY <2>8, <4>1, <5>1
      <4>2. CASE i \in n + 1 .. n + k
        <5>1. s[i] = b[i - n] /\ i # n + k + 1 /\ i # 1 /\ i - n \in {1, 2} /\ (i = n + 1 <=> i - n = 1)
          BY <2>8, <2>16, <4>2
        <5>2. i - n = 2 => k = 2
          BY <2>8, <4>2
        <5> QED
          BY <2>8, <5>1, <5>2
      <4>3. CASE i = n + k + 1
        BY <2>5, <2>16, <4>3
      <4> QED
        BY <2>8, <4>1, <4>2, <4>3
    <3>6. Pops(s[i].op) <= u /\ w = u - Pops(s[i].op) + 1
      BY <2>8, <3>4, <3>5
    <3> QED
      BY <3>2, <3>3, <3>6
  <2> QED
    BY <2>12, <2>16, <2>18 DEF Stacks
<1> QED
  BY <1>1, <1>2 DEF Expressions

LEMMA TypeStacks ==
  ASSUME NEW p \in Programs, NEW g \in Globals
  PROVE  Stacks(TypeCode(p, g), p[g].type, g)
<1>1. CASE p[g].type # NoType
  <2>1. TypeCode(p, g) = ExprCode(p[g].type, FALSE, g)
    BY <1>1 DEF TypeCode
  <2> QED
    BY <1>1, <2>1, ProgramFacts, ExprStacks
<1>2. CASE p[g].type = NoType
  <2>1. PICK x : x = Instr("type_type", FALSE, g)
    OBVIOUS
  <2>2. PICK s : s = TypeCode(p, g)
    OBVIOUS
  <2>3. s = <<x>>
    BY <1>2, <2>1, <2>2 DEF TypeCode
  <2>4. Len(s) = 1 /\ s[1] = x
    BY <2>3
  <2>5. Pops(x.op) = 0
    BY <2>1 DEF Instr, Pops
  <2>6. p[g].type.form # "sum"
    BY <1>2 DEF NoType
  <2>7. OnStack(p[g].type, g, 1, 1) = 0 /\ OnStack(p[g].type, g, 1, 1 + 1) = 1
    BY <2>6 DEF OnStack
  <2> QED
    BY <2>2, <2>4, <2>5, <2>7 DEF Stacks
<1> QED
  BY <1>1, <1>2

LEMMA ValueStacks ==
  ASSUME NEW p \in Programs, NEW g \in Globals
  PROVE  Stacks(ValueCode(p, g), p[g].value, g)
<1>1. Typed(p, g) \in BOOLEAN
  BY DEF Typed, Circular
<1> QED
  BY <1>1, ProgramFacts, ExprStacks DEF ValueCode

\* The values that the code of a frame has on the stack.
Pushed(p, f) ==
  LET g == f[1]
      i == f[2]
  IN  IF i > 1 /\ i <= Before(p, g) THEN OnStack(p[g].type, g, Len(TypeCode(p, g)), i - 1)
      ELSE IF i > Before(p, g) /\ i <= ValueEnd(p, g) THEN OnStack(p[g].value, g, Len(ValueCode(p, g)), i - Before(p, g))
      ELSE IF i = ValueEnd(p, g) + 1 /\ ~Typed(p, g) THEN 1
      ELSE 0

Pushes(x) == IF x.op \in ExpressionOps \cup {"type_type"} /\ ~x.ctx THEN 1 ELSE 0

LEMMA PushedFacts ==
  ASSUME NEW p \in Programs, NEW f \in Frame, Inside(p, f), ~Circular(p, f[1])
  PROVE  LET x == Instruction(p, f)
         IN  /\ Pushed(p, f) \in Nat /\ Pops(x.op) \in Nat /\ Pops(x.op) <= Pushed(p, f)
             /\ f[2] = 1 \/ x.op \in {"complete", "end_code"} => Pushed(p, f) = 0
             /\ Pushed(p, <<f[1], f[2] + 1>>) = Pushed(p, f) - Pops(x.op) + Pushes(x)
<1>1. PICK g \in Globals, i \in Nat \ {0} : g = f[1] /\ i = f[2]
  BY DEF Frame
<1>2. PICK s : s = Code(p, g)
  OBVIOUS
<1>3. Shape(s, p, g)
  BY <1>2, CodeFacts
<1>4. PICK x : x = Instruction(p, f)
  OBVIOUS
<1>5. x = s[i]
  BY <1>1, <1>2, <1>4 DEF Instruction
<1>6. PICK n : n = Before(p, g)
  OBVIOUS
<1>7. PICK m : m = ValueEnd(p, g)
  OBVIOUS
<1>8. PICK k : k = Closing(p, g)
  OBVIOUS
<1>9. PICK t : t = Len(TypeCode(p, g))
  OBVIOUS
<1>10. PICK v : v = Len(ValueCode(p, g))
  OBVIOUS
<1>11. /\ n \in Nat \ {0} /\ m \in Nat /\ n < m /\ k = m + 1 /\ t \in Nat \ {0} /\ v \in Nat \ {0}
       /\ m = n + v /\ (Typed(p, g) => n = t + 2) /\ (~Typed(p, g) => n = 1)
  <2>1. n \in Nat \ {0} /\ m \in Nat /\ n < m /\ k = m + 1
    BY <1>1, <1>3, <1>6, <1>7, <1>8 DEF Shape
  <2>2. t \in Nat \ {0} /\ v \in Nat \ {0}
    BY <1>9, <1>10, TypeCodeFacts, ValueCodeFacts
  <2>3. m = n + v
    BY <1>6, <1>7, <1>10 DEF ValueEnd
  <2>4. n = IF Typed(p, g) THEN t + 2 ELSE 1
    BY <1>6, <1>9 DEF Before
  <2> QED
    BY <2>1, <2>2, <2>3, <2>4
<1>12. i \in 1 .. m + 2
  BY <1>1, <1>8, <1>11 DEF Inside
<1>13. /\ i = 1 => x.op = "prepare"
       /\ i \in 2 .. n - 1 => x = TypeCode(p, g)[i - 1] /\ x.op \in ExpressionOps \cup {"type_type"}
       /\ i > 1 /\ i = n => x.op = "alloc_typed"
       /\ i \in n + 1 .. m => x = ValueCode(p, g)[i - n] /\ x.op \in ExpressionOps
       /\ i = m + 1 => x.op = (IF Typed(p, g) THEN "complete" ELSE "alloc_untyped")
       /\ i = m + 2 => x.op = "end_code"
       /\ x.ctx <=> Typed(p, g) /\ i = m
  <2>1. i \in 1 .. k + 1 /\ k + 1 = m + 2 /\ k = m + 1
    BY <1>11, <1>12
  <2>2. i \in 1 .. Closing(p, g) + 1
    BY <1>8, <2>1
  <2>3. /\ s[i].ctx <=> Typed(p, g) /\ i = ValueEnd(p, g)
        /\ i = 1 => s[i].op = "prepare"
        /\ i \in 2 .. Before(p, g) - 1 => s[i] = TypeCode(p, g)[i - 1] /\ s[i].op \in ExpressionOps \cup {"type_type"}
        /\ i > 1 /\ i = Before(p, g) => s[i].op = "alloc_typed"
        /\ i \in Before(p, g) + 1 .. ValueEnd(p, g) =>
             s[i] = ValueCode(p, g)[i - Before(p, g)] /\ s[i].op \in ExpressionOps
        /\ i = Closing(p, g) => s[i].op = (IF Typed(p, g) THEN "complete" ELSE "alloc_untyped")
        /\ i = Closing(p, g) + 1 => s[i].op = "end_code"
    BY <1>3, <2>2 DEF Shape
  <2> QED
    BY <1>5, <1>6, <1>7, <1>8, <2>1, <2>3
<1>14. PICK y : y = <<f[1], f[2] + 1>>
  OBVIOUS
<1>15. y[1] = g /\ y[2] = i + 1
  BY <1>1, <1>14
<1>16. /\ Pushed(p, f) = IF i > 1 /\ i <= n THEN OnStack(p[g].type, g, t, i - 1)
                         ELSE IF i > n /\ i <= m THEN OnStack(p[g].value, g, v, i - n)
                         ELSE IF i = m + 1 /\ ~Typed(p, g) THEN 1 ELSE 0
       /\ Pushed(p, y) = IF i + 1 > 1 /\ i + 1 <= n THEN OnStack(p[g].type, g, t, (i + 1) - 1)
                         ELSE IF i + 1 > n /\ i + 1 <= m THEN OnStack(p[g].value, g, v, (i + 1) - n)
                         ELSE IF i + 1 = m + 1 /\ ~Typed(p, g) THEN 1 ELSE 0
  BY <1>1, <1>6, <1>7, <1>9, <1>10, <1>15 DEF Pushed
<1>17. /\ \A j : OnStack(p[g].type, g, t, j) \in {0, 1, 2} /\ OnStack(p[g].value, g, v, j) \in {0, 1, 2}
       /\ OnStack(p[g].type, g, t, 1) = 0 /\ OnStack(p[g].value, g, v, 1) = 0
  BY DEF OnStack
<1>18. OnStack(p[g].type, g, t, t + 1) = 1 /\ OnStack(p[g].value, g, v, v + 1) = 1
  <2>1. t + 1 # 1 /\ ~(t + 1 <= t) /\ v + 1 # 1 /\ ~(v + 1 <= v)
    BY <1>11
  <2> QED
    BY <2>1 DEF OnStack
<1>19. \A o : Pops(o) \in {0, 1, 2}
  BY DEF Pops
<1> HIDE DEF OnStack
<1>20. CASE i = 1
  <2>1. Pushed(p, f) = 0 /\ Pushed(p, y) = 0
    <3>1. CASE Typed(p, g)
      BY <1>11, <1>16, <1>17, <1>20, <3>1
    <3>2. CASE ~Typed(p, g)
      BY <1>11, <1>16, <1>17, <1>20, <3>2
    <3> QED
      BY <3>1, <3>2
  <2>2. Pops(x.op) = 0 /\ Pushes(x) = 0
    BY <1>13, <1>20 DEF Pops, Pushes, ExpressionOps, Loads
  <2> QED
    BY <1>1, <1>4, <1>14, <2>1, <2>2
<1>21. CASE i \in 2 .. n - 1
  <2>1. Typed(p, g) /\ i - 1 \in 1 .. t /\ i # 1 /\ i # m + 1 /\ i # m + 2 /\ i # m
    BY <1>11, <1>21
  <2>2. x = TypeCode(p, g)[i - 1] /\ x.op \in ExpressionOps \cup {"type_type"} /\ ~x.ctx
    BY <1>13, <1>21, <2>1
  <2>3. Pushed(p, f) = OnStack(p[g].type, g, t, i - 1) /\ Pushed(p, y) = OnStack(p[g].type, g, t, (i - 1) + 1)
    <3>1. i > 1 /\ i <= n /\ i + 1 > 1 /\ i + 1 <= n /\ (i + 1) - 1 = (i - 1) + 1
      BY <1>11, <1>21
    <3> QED
      BY <1>16, <3>1
  <2>4. /\ Pops(x.op) <= OnStack(p[g].type, g, t, i - 1)
        /\ OnStack(p[g].type, g, t, (i - 1) + 1) = OnStack(p[g].type, g, t, i - 1) - Pops(x.op) + 1
    <3>1. Stacks(TypeCode(p, g), p[g].type, g)
      BY TypeStacks
    <3> QED
      BY <1>9, <2>1, <2>2, <3>1 DEF Stacks
  <2>5. Pushes(x) = 1 /\ x.op \notin {"complete", "end_code"}
    BY <2>2 DEF Pushes, ExpressionOps, Loads
  <2> QED
    BY <1>1, <1>4, <1>14, <1>17, <1>19, <2>1, <2>3, <2>4, <2>5
<1>22. CASE i > 1 /\ i = n
  <2>1. Typed(p, g) /\ i - 1 = t + 1 /\ i # m + 1 /\ i # m + 2 /\ i # m /\ i + 1 <= m
    BY <1>11, <1>22
  <2>2. Pushed(p, f) = 1 /\ Pushed(p, y) = 0
    <3>1. i <= n /\ i + 1 > n /\ (i + 1) - n = 1 /\ ~(i + 1 <= n)
      BY <1>11, <1>22
    <3> QED
      BY <1>16, <1>17, <1>18, <1>22, <2>1, <3>1
  <2>3. x.op = "alloc_typed"
    BY <1>13, <1>22
  <2>4. Pops(x.op) = 1 /\ Pushes(x) = 0
    BY <2>3 DEF Pops, Pushes, ExpressionOps, Loads
  <2> QED
    BY <1>1, <1>4, <1>14, <1>22, <2>2, <2>3, <2>4
<1>23. CASE i \in n + 1 .. m
  <2>1. i - n \in 1 .. v /\ i # 1 /\ i # m + 1 /\ i # m + 2
    BY <1>11, <1>23
  <2>2. x = ValueCode(p, g)[i - n] /\ x.op \in ExpressionOps /\ (x.ctx <=> Typed(p, g) /\ i = m)
    BY <1>13, <1>23
  <2>3. Pushed(p, f) = OnStack(p[g].value, g, v, i - n)
    <3>1. ~(i <= n) /\ i > n /\ i <= m
      BY <1>11, <1>23
    <3> QED
      BY <1>16, <3>1
  <2>4. /\ Pops(x.op) <= OnStack(p[g].value, g, v, i - n)
        /\ OnStack(p[g].value, g, v, (i - n) + 1) = OnStack(p[g].value, g, v, i - n) - Pops(x.op) + 1
    <3>1. Stacks(ValueCode(p, g), p[g].value, g)
      BY ValueStacks
    <3> QED
      BY <1>10, <2>1, <2>2, <3>1 DEF Stacks
  <2>5. x.op \notin {"complete", "end_code"} /\ Pushes(x) = IF x.ctx THEN 0 ELSE 1
    BY <2>2 DEF Pushes, ExpressionOps, Loads
  <2>6. CASE i < m
    <3>1. i + 1 > n /\ i + 1 <= m /\ ~(i + 1 <= n) /\ (i + 1) - n = (i - n) + 1 /\ i # m
      BY <1>11, <1>23, <2>6
    <3>2. Pushed(p, y) = OnStack(p[g].value, g, v, (i - n) + 1)
      BY <1>16, <3>1
    <3> QED
      BY <1>1, <1>4, <1>14, <1>17, <1>19, <2>1, <2>2, <2>3, <2>4, <2>5, <3>1, <3>2
  <2>7. CASE i = m
    <3>1. ~(i + 1 <= n) /\ ~(i + 1 <= m) /\ i + 1 = m + 1 /\ (i - n) + 1 = v + 1
      BY <1>11, <2>7
    <3>2. Pushed(p, y) = IF Typed(p, g) THEN 0 ELSE 1
      BY <1>16, <3>1
    <3>3. OnStack(p[g].value, g, v, (i - n) + 1) = 1
      BY <1>18, <3>1
    <3> QED
      BY <1>1, <1>4, <1>14, <1>17, <1>19, <2>1, <2>2, <2>3, <2>4, <2>5, <2>7, <3>2, <3>3
  <2> QED
    BY <1>11, <1>23, <2>6, <2>7
<1>24. CASE i = m + 1
  <2>1. Pushed(p, f) = (IF Typed(p, g) THEN 0 ELSE 1) /\ Pushed(p, y) = 0
    <3>1. ~(i <= n) /\ ~(i <= m) /\ ~(i + 1 <= n) /\ ~(i + 1 <= m) /\ i + 1 # m + 1
      BY <1>11, <1>24
    <3> QED
      BY <1>16, <1>24, <3>1
  <2>2. x.op = (IF Typed(p, g) THEN "complete" ELSE "alloc_untyped") /\ i # 1
    BY <1>11, <1>13, <1>24
  <2>3. Pops(x.op) = (IF Typed(p, g) THEN 0 ELSE 1) /\ Pushes(x) = 0
    BY <2>2 DEF Pops, Pushes, ExpressionOps, Loads
  <2> QED
    BY <1>1, <1>4, <1>14, <2>1, <2>2, <2>3
<1>25. CASE i = m + 2
  <2>1. Pushed(p, f) = 0 /\ Pushed(p, y) = 0
    <3>1. ~(i <= n) /\ ~(i <= m) /\ ~(i + 1 <= n) /\ ~(i + 1 <= m) /\ i + 1 # m + 1 /\ i # m + 1
      BY <1>11, <1>25
    <3> QED
      BY <1>16, <3>1
  <2>2. x.op = "end_code"
    BY <1>13, <1>25
  <2>3. Pops(x.op) = 0 /\ Pushes(x) = 0
    BY <2>2 DEF Pops, Pushes, ExpressionOps, Loads
  <2> QED
    BY <1>1, <1>4, <1>14, <2>1, <2>2, <2>3
<1> QED
  BY <1>11, <1>12, <1>20, <1>21, <1>22, <1>23, <1>24, <1>25

\* The values v are those that the first n of frames have on the stack, in
\* their order; the first i frames have the first tall[i].  No value is a
\* temporary beyond the extent t, nor is one beneath a frame beyond the extent
\* in the frame's entry in e.
Levels(p, tall, frames, n, v, e, t) ==
  /\ n \in Nat /\ tall \in [0 .. n -> Nat] /\ tall[0] = 0 /\ tall[n] = Len(v)
  /\ \A i, j \in 0 .. n : i <= j => tall[i] <= tall[j]
  /\ \A i \in 1 .. n : tall[i] = tall[i - 1] + Pushed(p, frames[i])
  /\ \A k \in 1 .. Len(v) : v[k].temp \in Nat /\ v[k].temp <= t
  /\ Len(e) <= n
  /\ \A i \in 1 .. Len(e) : e[i].temporaries <= t
  /\ \A i, j \in 1 .. Len(e) : i <= j => e[i].temporaries <= e[j].temporaries
  /\ \A i \in 1 .. Len(e) : \A k \in 1 .. tall[i - 1] : v[k].temp <= e[i].temporaries

LEMMA LevelsTop ==
  ASSUME NEW p, NEW tall, NEW a, NEW b, NEW n, NEW v, NEW e, NEW t,
         NEW w, NEW d, NEW u,
         Levels(p, tall, a, n, v, e, t), n > 0,
         \A i \in 1 .. n - 1 : b[i] = a[i],
         Pushed(p, b[n]) \in Nat, Len(w) = tall[n - 1] + Pushed(p, b[n]),
         \A k \in 1 .. tall[n - 1] : w[k] = v[k],
         \A k \in 1 .. Len(w) : w[k].temp \in Nat /\ w[k].temp <= u,
         Len(d) \in Nat, Len(d) <= n,
         \A i \in 1 .. Len(d) : d[i].temporaries <= u,
         \A i, j \in 1 .. Len(d) : i <= j => d[i].temporaries <= d[j].temporaries,
         \A i \in 1 .. Len(d) : \A k \in 1 .. tall[i - 1] : v[k].temp <= d[i].temporaries
  PROVE  \E h : Levels(p, h, b, n, w, d, u)
<1>1. /\ n \in Nat \ {0} /\ tall \in [0 .. n -> Nat] /\ tall[0] = 0 /\ tall[n - 1] \in Nat
      /\ \A i, j \in 0 .. n : i <= j => tall[i] <= tall[j]
      /\ \A i \in 1 .. n : tall[i] = tall[i - 1] + Pushed(p, a[i])
  BY DEF Levels
<1>2. PICK m : m = Len(w)
  OBVIOUS
<1>3. m \in Nat /\ m = tall[n - 1] + Pushed(p, b[n]) /\ tall[n - 1] <= m
  BY <1>1, <1>2
<1>4. PICK h : h = [tall EXCEPT ![n] = m]
  OBVIOUS
<1>5. h \in [0 .. n -> Nat] /\ h[0] = 0 /\ h[n] = m /\ \A i \in 0 .. n - 1 : h[i] = tall[i]
  BY <1>1, <1>3, <1>4
<1>6. \A i \in 0 .. n - 1 : tall[i] <= tall[n - 1]
  BY <1>1
<1>7. ASSUME NEW i \in 0 .. n, NEW j \in 0 .. n, i <= j PROVE h[i] <= h[j]
  <2>1. CASE i = n
    <3>1. j = n
      BY <1>1, <1>7, <2>1
    <3> QED
      BY <1>3, <1>5, <2>1, <3>1
  <2>2. CASE i # n /\ j = n
    <3>1. i \in 0 .. n - 1 /\ tall[i] \in Nat
      BY <1>1, <2>2
    <3>2. tall[i] <= tall[n - 1]
      BY <1>6, <3>1
    <3> QED
      BY <1>1, <1>3, <1>5, <2>2, <3>1, <3>2
  <2>3. CASE j # n
    <3>1. i \in 0 .. n - 1 /\ j \in 0 .. n - 1
      BY <1>1, <1>7, <2>3
    <3> QED
      BY <1>1, <1>5, <1>7, <3>1
  <2> QED
    BY <2>1, <2>2, <2>3
<1>8. ASSUME NEW i \in 1 .. n PROVE h[i] = h[i - 1] + Pushed(p, b[i])
  <2>1. CASE i = n
    BY <1>1, <1>3, <1>5, <2>1
  <2>2. CASE i \in 1 .. n - 1
    <3>1. i \in 0 .. n - 1 /\ i - 1 \in 0 .. n - 1
      BY <1>1, <2>2
    <3>2. h[i] = tall[i] /\ h[i - 1] = tall[i - 1] /\ b[i] = a[i]
      BY <1>5, <2>2, <3>1
    <3>3. tall[i] = tall[i - 1] + Pushed(p, a[i])
      BY <1>1
    <3> QED
      BY <3>2, <3>3
  <2> QED
    BY <1>1, <1>8, <2>1, <2>2
<1>9. ASSUME NEW i \in 1 .. Len(d), NEW k \in 1 .. h[i - 1] PROVE w[k].temp <= d[i].temporaries
  <2>1. i - 1 \in 0 .. n - 1
    BY <1>1
  <2>2. h[i - 1] = tall[i - 1] /\ tall[i - 1] \in Nat /\ tall[i - 1] <= tall[n - 1]
    BY <1>1, <1>5, <1>6, <2>1
  <2>3. k \in 1 .. tall[n - 1] /\ k \in 1 .. tall[i - 1]
    BY <1>1, <2>2
  <2> QED
    BY <2>3
<1>10. Levels(p, h, b, n, w, d, u)
  BY <1>1, <1>2, <1>5, <1>7, <1>8, <1>9 DEF Levels
<1> QED
  BY <1>10

LEMMA LevelsExtend ==
  ASSUME NEW p, NEW tall, NEW a, NEW b, NEW n, NEW v, NEW e, NEW t,
         Levels(p, tall, a, n, v, e, t), Len(e) \in Nat,
         \A i \in 1 .. n : b[i] = a[i],
         Pushed(p, b[n + 1]) = 0
  PROVE  \E h : Levels(p, h, b, n + 1, v, e, t)
<1>1. PICK m : m = Len(v)
  OBVIOUS
<1>2. /\ n \in Nat /\ tall \in [0 .. n -> Nat] /\ tall[0] = 0 /\ tall[n] = m /\ m \in Nat
      /\ \A i, j \in 0 .. n : i <= j => tall[i] <= tall[j]
      /\ Len(e) <= n
  BY <1>1 DEF Levels
<1>3. PICK h : h = [i \in 0 .. n + 1 |-> IF i = n + 1 THEN m ELSE tall[i]]
  OBVIOUS
<1>4. h \in [0 .. n + 1 -> Nat] /\ h[0] = 0 /\ h[n + 1] = m /\ \A i \in 0 .. n : h[i] = tall[i]
  BY <1>2, <1>3
<1>5. ASSUME NEW i \in 0 .. n + 1, NEW j \in 0 .. n + 1, i <= j PROVE h[i] <= h[j]
  <2>1. CASE j = n + 1
    <3>1. h[j] = m /\ h[i] \in Nat /\ \A q \in 0 .. n : tall[q] <= tall[n]
      BY <1>2, <1>4, <2>1
    <3>2. i = n + 1 \/ i \in 0 .. n
      BY <1>2
    <3> QED
      BY <1>2, <1>4, <3>1, <3>2
  <2>2. CASE j # n + 1
    <3>1. i \in 0 .. n /\ j \in 0 .. n
      BY <1>2, <1>5, <2>2
    <3> QED
      BY <1>2, <1>4, <1>5, <3>1
  <2> QED
    BY <2>1, <2>2
<1>6. ASSUME NEW i \in 1 .. n + 1 PROVE h[i] = h[i - 1] + Pushed(p, b[i])
  <2>1. CASE i = n + 1
    BY <1>2, <1>4, <2>1
  <2>2. CASE i \in 1 .. n
    <3>1. h[i] = tall[i] /\ h[i - 1] = tall[i - 1] /\ b[i] = a[i]
      BY <1>2, <1>4, <2>2
    <3> QED
      BY <2>2, <3>1 DEF Levels
  <2> QED
    BY <1>2, <1>6, <2>1, <2>2
<1>7. ASSUME NEW i \in 1 .. Len(e), NEW k \in 1 .. h[i - 1] PROVE v[k].temp <= e[i].temporaries
  <2>1. i - 1 \in 0 .. n
    BY <1>2
  <2>2. h[i - 1] = tall[i - 1]
    BY <1>4, <2>1
  <2> QED
    BY <1>7, <2>2 DEF Levels
<1>8. Len(e) <= n + 1
  BY <1>2
<1>9. Levels(p, h, b, n + 1, v, e, t)
  BY <1>1, <1>2, <1>4, <1>5, <1>6, <1>7, <1>8 DEF Levels
<1> QED
  BY <1>9

LEMMA LevelsShrink ==
  ASSUME NEW p, NEW tall, NEW a, NEW b, NEW n, NEW v, NEW e, NEW t,
         Levels(p, tall, a, n, v, e, t), n > 0, Len(e) \in Nat, Len(e) <= n - 1,
         \A i \in 1 .. n - 1 : b[i] = a[i],
         Pushed(p, a[n]) = 0
  PROVE  \E h : Levels(p, h, b, n - 1, v, e, t)
<1>1. /\ n \in Nat \ {0} /\ tall \in [0 .. n -> Nat] /\ tall[0] = 0 /\ tall[n] = Len(v)
      /\ \A i, j \in 0 .. n : i <= j => tall[i] <= tall[j]
      /\ \A i \in 1 .. n : tall[i] = tall[i - 1] + Pushed(p, a[i])
  BY DEF Levels
<1>2. tall[n - 1] = Len(v)
  BY <1>1
<1>3. PICK h : h = [i \in 0 .. n - 1 |-> tall[i]]
  OBVIOUS
<1>4. h \in [0 .. n - 1 -> Nat] /\ \A i \in 0 .. n - 1 : h[i] = tall[i]
  BY <1>1, <1>3
<1>5. h[0] = 0 /\ h[n - 1] = Len(v) /\ \A i, j \in 0 .. n - 1 : i <= j => h[i] <= h[j]
  BY <1>1, <1>2, <1>4
<1>6. ASSUME NEW i \in 1 .. n - 1 PROVE h[i] = h[i - 1] + Pushed(p, b[i])
  <2>1. h[i] = tall[i] /\ h[i - 1] = tall[i - 1] /\ b[i] = a[i] /\ i \in 1 .. n
    BY <1>1, <1>4
  <2> QED
    BY <1>1, <2>1
<1>7. ASSUME NEW i \in 1 .. Len(e), NEW k \in 1 .. h[i - 1] PROVE v[k].temp <= e[i].temporaries
  <2>1. i - 1 \in 0 .. n - 1
    BY <1>1
  <2>2. h[i - 1] = tall[i - 1]
    BY <1>4, <2>1
  <2> QED
    BY <1>7, <2>2 DEF Levels
<1>8. n - 1 \in Nat
  BY <1>1
<1>9. Levels(p, h, b, n - 1, v, e, t)
  BY <1>4, <1>5, <1>6, <1>7, <1>8 DEF Levels
<1> QED
  BY <1>9

ValuesKnown ==
  /\ \E S : values \in Seq(S)
  /\ \E tall : Levels(prog, tall, Frames, Count, values, inits, temporaries)

LEMMA PoppedFacts ==
  ASSUME NEW S, values \in Seq(S), NEW n \in Nat, n <= Len(values)
  PROVE  /\ Popped(n) \in Seq(S) /\ Len(Popped(n)) = Len(values) - n /\ Len(values) \in Nat
         /\ \A k \in 1 .. Len(values) - n : Popped(n)[k] = values[k]
<1>1. PICK m : m = Len(values)
  OBVIOUS
<1>2. m \in Nat /\ \A i \in 1 .. m : values[i] \in S
  BY <1>1
<1>3. PICK t : t = SubSeq(values, 1, m - n)
  OBVIOUS
<1>4. 1 \in Int /\ m - n \in Int /\ \A i \in 1 .. m - n : values[i] \in S
  BY <1>2
<1>5. /\ t \in Seq(S) /\ Len(t) = IF 1 <= m - n THEN (m - n) - 1 + 1 ELSE 0
      /\ \A i \in 1 .. (m - n) - 1 + 1 : t[i] = values[1 + i - 1]
  BY <1>3, <1>4, SubSeqProperties
<1>6. t \in Seq(S) /\ Len(t) = m - n /\ (\A i \in 1 .. m - n : t[i] = values[i])
  BY <1>1, <1>2, <1>5
<1>7. t = Popped(n)
  BY <1>1, <1>3 DEF Popped
<1> QED
  BY <1>1, <1>2, <1>6, <1>7

LEMMA AppendFacts ==
  ASSUME NEW S, NEW s \in Seq(S), NEW x
  PROVE  \E T : /\ Append(s, x) \in Seq(T) /\ Len(Append(s, x)) = Len(s) + 1
                /\ Append(s, x)[Len(s) + 1] = x
                /\ \A k \in 1 .. Len(s) : Append(s, x)[k] = s[k]
<1>1. PICK T : T = S \cup {x}
  OBVIOUS
<1>2. x \in T /\ \A k \in 1 .. Len(s) : s[k] \in T
  BY <1>1
<1>3. s \in Seq(T)
  BY <1>2
<1>4. /\ Append(s, x) \in Seq(T) /\ Len(Append(s, x)) = Len(s) + 1
      /\ Append(s, x)[Len(s) + 1] = x
      /\ \A k \in 1 .. Len(s) : Append(s, x)[k] = s[k]
  BY <1>2, <1>3
<1> QED
  BY <1>4

LEMMA CurrentPushed ==
  ASSUME StateKnown, NoneCircular, Running,
         NEW tall, Levels(prog, tall, Frames, Count, values, inits, temporaries)
  PROVE  /\ Count \in Nat \ {0} /\ tall[Count] = Len(values) /\ Len(values) \in Nat
         /\ tall[Count - 1] \in Nat /\ tall[Count] = tall[Count - 1] + Pushed(prog, ops)
         /\ Pushed(prog, ops) \in Nat /\ Pops(Current.op) \in Nat /\ Pops(Current.op) <= Pushed(prog, ops)
         /\ ops[2] = 1 \/ Current.op \in {"complete", "end_code"} => Pushed(prog, ops) = 0
         /\ Pushed(prog, Next1) = Pushed(prog, ops) - Pops(Current.op) + Pushes(Current)
         /\ Len(values) - Pops(Current.op) \in Nat
         /\ Pushes(Current) \in {0, 1} /\ Frames[Count] = ops
<1>1. /\ ops # Idle /\ ops \in Frame /\ prog \in Programs /\ Inside(prog, ops) /\ Current = Instruction(prog, ops)
      /\ ops[1] \in Globals
  BY RunningFacts, CurrentFacts DEF StateKnown, FramesKnown
<1>2. ~Circular(prog, ops[1])
  BY <1>1 DEF NoneCircular
<1>3. PICK n : n = Count
  OBVIOUS
<1>4. activations \in Seq(Frame) /\ n = Len(activations) + 1 /\ n \in Nat \ {0}
  BY <1>1, <1>3 DEF StateKnown, FramesKnown, Count
<1>5. Frames[n] = ops
  BY <1>3, <1>4 DEF Frames, FrameAt
<1>6. /\ Pushed(prog, ops) \in Nat /\ Pops(Current.op) \in Nat /\ Pops(Current.op) <= Pushed(prog, ops)
      /\ ops[2] = 1 \/ Current.op \in {"complete", "end_code"} => Pushed(prog, ops) = 0
      /\ Pushed(prog, <<ops[1], ops[2] + 1>>) = Pushed(prog, ops) - Pops(Current.op) + Pushes(Current)
  BY <1>1, <1>2, PushedFacts
<1>7. n \in 1 .. n /\ n - 1 \in 0 .. n /\ n \in 0 .. n
  BY <1>4
<1>8. /\ tall[n] = Len(values) /\ tall[n] \in Nat /\ tall[n - 1] \in Nat
      /\ tall[n] = tall[n - 1] + Pushed(prog, ops)
  BY <1>3, <1>5, <1>7 DEF Levels
<1>9. Len(values) - Pops(Current.op) \in Nat
  BY <1>6, <1>8
<1>10. Pushes(Current) \in {0, 1}
  BY DEF Pushes
<1> QED
  BY <1>3, <1>4, <1>5, <1>6, <1>8, <1>9, <1>10 DEF Next1

\* A step past an instruction, with what it does to the values.
LEMMA AdvanceKeepsValues ==
  ASSUME StateKnown, NoneCircular, Running, ops' = Next1, UNCHANGED <<prog, activations>>,
         Active(prog, ops) \/ ops[2] = 1,
         NEW tall, Levels(prog, tall, Frames, Count, values, inits, temporaries),
         NEW S, values' \in Seq(S),
         Len(values') = Len(values) - Pops(Current.op) + Pushes(Current),
         \A k \in 1 .. Len(values) - Pops(Current.op) : values'[k] = values[k],
         \A k \in 1 .. Len(values') : values'[k].temp \in Nat /\ values'[k].temp <= temporaries',
         NEW T, inits' \in Seq(T), Len(inits') <= Count,
         \A i \in 1 .. Len(inits') : inits'[i].temporaries <= temporaries',
         \A i, j \in 1 .. Len(inits') : i <= j => inits'[i].temporaries <= inits'[j].temporaries,
         \A i \in 1 .. Len(inits') : \A k \in 1 .. tall[i - 1] : values[k].temp <= inits'[i].temporaries
  PROVE  ValuesKnown'
<1>1. PICK n : n = Count
  OBVIOUS
<1>2. PICK a : a = Frames
  OBVIOUS
<1>3. PICK b : b = Frames'
  OBVIOUS
<1>4. PICK p : p = prog
  OBVIOUS
<1>5. /\ Count' = n /\ n \in Nat \ {0} /\ a[n] = ops /\ b[n] = Next1
      /\ \A i \in 1 .. n - 1 : b[i] = a[i]
  BY <1>1, <1>2, <1>3, AdvanceFrames
<1>6. PICK v : v = values
  OBVIOUS
<1>7. PICK w : w = values'
  OBVIOUS
<1>8. PICK e : e = inits
  OBVIOUS
<1>9. PICK d : d = inits'
  OBVIOUS
<1>10. PICK t : t = temporaries
  OBVIOUS
<1>11. PICK u : u = temporaries'
  OBVIOUS
<1>12. PICK q : q = Pops(Current.op)
  OBVIOUS
<1>13. /\ tall[n] = Len(v) /\ Len(v) \in Nat /\ tall[n - 1] \in Nat
       /\ tall[n] = tall[n - 1] + Pushed(p, a[n]) /\ Pushed(p, a[n]) \in Nat
       /\ q \in Nat /\ q <= Pushed(p, a[n])
       /\ Pushed(p, b[n]) = Pushed(p, a[n]) - q + Pushes(Current)
       /\ Pushes(Current) \in {0, 1}
  BY <1>1, <1>4, <1>5, <1>6, <1>12, CurrentPushed
<1>14. Levels(p, tall, a, n, v, e, t)
  BY <1>1, <1>2, <1>4, <1>6, <1>8, <1>10
<1>15. Pushed(p, b[n]) \in Nat
  BY <1>13
<1>16. Len(w) = tall[n - 1] + Pushed(p, b[n])
  <2>1. Len(w) = Len(v) - q + Pushes(Current)
    BY <1>6, <1>7, <1>12
  <2>2. PICK x : x = Pushed(p, a[n])
    OBVIOUS
  <2>3. PICK y : y = Pushes(Current)
    OBVIOUS
  <2>4. PICK z : z = tall[n - 1]
    OBVIOUS
  <2>5. /\ Len(v) = z + x /\ z \in Nat /\ x \in Nat /\ q \in Nat /\ y \in {0, 1}
        /\ Pushed(p, b[n]) = x - q + y
    BY <1>13, <2>2, <2>3, <2>4
  <2>6. Len(w) = z + (x - q + y)
    BY <2>1, <2>3, <2>5
  <2> QED
    BY <2>4, <2>5, <2>6
<1>17. ASSUME NEW k \in 1 .. tall[n - 1] PROVE w[k] = v[k]
  <2>1. k \in 1 .. Len(v) - q
    BY <1>13
  <2> QED
    BY <1>6, <1>7, <1>12, <2>1
<1>18. \A k \in 1 .. Len(w) : w[k].temp \in Nat /\ w[k].temp <= u
  BY <1>7, <1>11
<1>19. Len(d) \in Nat /\ Len(d) <= n
  BY <1>1, <1>9
<1>20. /\ \A i \in 1 .. Len(d) : d[i].temporaries <= u
       /\ \A i, j \in 1 .. Len(d) : i <= j => d[i].temporaries <= d[j].temporaries
       /\ \A i \in 1 .. Len(d) : \A k \in 1 .. tall[i - 1] : v[k].temp <= d[i].temporaries
  BY <1>6, <1>9, <1>11
<1>21. n > 0
  BY <1>5
<1>22. \E h : Levels(p, h, b, n, w, d, u)
  BY <1>5, <1>14, <1>15, <1>16, <1>17, <1>18, <1>19, <1>20, <1>21, LevelsTop
<1>23. \E h : Levels(prog', h, Frames', Count', values', inits', temporaries')
  BY <1>3, <1>4, <1>5, <1>7, <1>9, <1>11, <1>22
<1> QED
  BY <1>23 DEF ValuesKnown

\* What is known of the entries when they do not change.
LEMMA EntriesKnown ==
  ASSUME StateKnown, NEW tall, Levels(prog, tall, Frames, Count, values, inits, temporaries),
         temporaries' \in Nat, temporaries <= temporaries'
  PROVE  /\ inits \in Seq(Entry) /\ Len(inits) <= Count
         /\ \A i \in 1 .. Len(inits) : inits[i].temporaries \in Nat /\ inits[i].temporaries <= temporaries'
         /\ \A i, j \in 1 .. Len(inits) : i <= j => inits[i].temporaries <= inits[j].temporaries
         /\ \A i \in 1 .. Len(inits) : \A k \in 1 .. tall[i - 1] : values[k].temp <= inits[i].temporaries
<1>1. inits \in Seq(Entry) /\ temporaries \in Nat
  BY DEF StateKnown, InitsKnown
<1>2. ASSUME NEW i \in 1 .. Len(inits) PROVE inits[i].temporaries \in Nat
  <2>1. inits[i] \in Entry
    BY <1>1
  <2> QED
    BY <2>1 DEF Entry
<1>3. /\ Len(inits) <= Count
      /\ \A i \in 1 .. Len(inits) : inits[i].temporaries <= temporaries
      /\ \A i, j \in 1 .. Len(inits) : i <= j => inits[i].temporaries <= inits[j].temporaries
      /\ \A i \in 1 .. Len(inits) : \A k \in 1 .. tall[i - 1] : values[k].temp <= inits[i].temporaries
  BY DEF Levels
<1>4. \A i \in 1 .. Len(inits) : inits[i].temporaries <= temporaries'
  BY <1>1, <1>2, <1>3
<1> QED
  BY <1>1, <1>2, <1>3, <1>4

LEMMA DeliverKeepsValues ==
  ASSUME StateKnown, ValuesKnown, NoneCircular, Running,
         NEW x, NEW isTemporary \in BOOLEAN, Deliver(x, Pops(Current.op), isTemporary),
         Current.op \in ExpressionOps \cup {"type_type"}, UNCHANGED <<prog, activations, inits>>
  PROVE  ValuesKnown'
<1>1. PICK tall : Levels(prog, tall, Frames, Count, values, inits, temporaries)
  BY DEF ValuesKnown
<1>2. PICK S : values \in Seq(S)
  BY DEF ValuesKnown
<1>3. PICK q : q = Pops(Current.op)
  OBVIOUS
<1>4. q \in Nat /\ Len(values) \in Nat /\ q <= Len(values)
  BY <1>1, <1>3, CurrentPushed
<1>5. /\ Popped(q) \in Seq(S) /\ Len(Popped(q)) = Len(values) - q
      /\ \A k \in 1 .. Len(values) - q : Popped(q)[k] = values[k]
  BY <1>2, <1>4, PoppedFacts
<1>6. temporaries \in Nat /\ \A k \in 1 .. Len(values) : values[k].temp \in Nat /\ values[k].temp <= temporaries
  BY <1>1 DEF Levels, StateKnown, InitsKnown
<1>7. Active(prog, ops)
  BY RunningFacts DEF Placed
<1>8. /\ temporaries' \in Nat /\ temporaries <= temporaries'
      /\ Len(values') = Len(values) - q + Pushes(Current)
      /\ \A k \in 1 .. Len(values) - q : values'[k] = values[k]
      /\ \A k \in 1 .. Len(values') : values'[k].temp \in Nat /\ values'[k].temp <= temporaries'
      /\ \E T : values' \in Seq(T)
  <2>1. CASE Current.ctx
    <3>1. values' = Popped(q) /\ temporaries' = temporaries
      BY <1>3, <2>1 DEF Deliver
    <3>2. Pushes(Current) = 0
      BY <2>1 DEF Pushes
    <3>3. Len(values') = Len(values) - q
      BY <1>5, <3>1
    <3>4. \A k \in 1 .. Len(values) - q : k \in 1 .. Len(values)
      BY <1>4
    <3> QED
      BY <1>4, <1>5, <1>6, <3>1, <3>2, <3>3, <3>4
  <2>2. CASE ~Current.ctx
    <3>1. PICK y : y = Value(x, IF isTemporary THEN temporaries + 1 ELSE 0)
      OBVIOUS
    <3>2. /\ values' = Append(Popped(q), y)
          /\ temporaries' = IF isTemporary THEN temporaries + 1 ELSE temporaries
      BY <1>3, <2>2, <3>1 DEF Deliver
    <3>3. temporaries' \in Nat /\ temporaries <= temporaries' /\ y.temp \in Nat /\ y.temp <= temporaries'
      BY <1>6, <3>1, <3>2 DEF Value
    <3>4. PICK m : m = Len(values) - q
      OBVIOUS
    <3>5. m \in Nat /\ m <= Len(values)
      BY <1>4, <3>4
    <3>6. PICK T : /\ values' \in Seq(T) /\ Len(values') = m + 1 /\ values'[m + 1] = y
                   /\ \A k \in 1 .. m : values'[k] = Popped(q)[k]
      <4>1. PICK r : r = Popped(q)
        OBVIOUS
      <4>2. r \in Seq(S) /\ Len(r) = m
        BY <1>5, <3>4, <4>1
      <4>3. PICK T : /\ Append(r, y) \in Seq(T) /\ Len(Append(r, y)) = Len(r) + 1
                     /\ Append(r, y)[Len(r) + 1] = y
                     /\ \A k \in 1 .. Len(r) : Append(r, y)[k] = r[k]
        BY <4>2, AppendFacts
      <4> QED
        BY <3>2, <4>1, <4>2, <4>3
    <3>7. Pushes(Current) = 1
      BY <2>2 DEF Pushes
    <3>8. \A k \in 1 .. m : values'[k] = values[k]
      BY <1>5, <3>4, <3>6
    <3>9. ASSUME NEW k \in 1 .. Len(values') PROVE values'[k].temp \in Nat /\ values'[k].temp <= temporaries'
      <4>1. CASE k \in 1 .. m
        <5>1. k \in 1 .. Len(values)
          BY <1>4, <3>5, <4>1
        <5>2. values[k].temp \in Nat /\ values[k].temp <= temporaries
          BY <1>6, <5>1
        <5> QED
          BY <1>6, <3>3, <3>8, <4>1, <5>2
      <4>2. CASE k = m + 1
        BY <3>3, <3>6, <4>2
      <4> QED
        BY <3>5, <3>6, <3>9, <4>1, <4>2
    <3> QED
      BY <3>3, <3>4, <3>6, <3>7, <3>8, <3>9
  <2> QED
    BY <2>1, <2>2
<1>9. PICK T : values' \in Seq(T)
  BY <1>8
<1>10. /\ inits \in Seq(Entry) /\ Len(inits) <= Count
       /\ \A i \in 1 .. Len(inits) : inits[i].temporaries <= temporaries'
       /\ \A i, j \in 1 .. Len(inits) : i <= j => inits[i].temporaries <= inits[j].temporaries
       /\ \A i \in 1 .. Len(inits) : \A k \in 1 .. tall[i - 1] : values[k].temp <= inits[i].temporaries
  BY <1>1, <1>8, EntriesKnown
<1>11. ops' = Next1 /\ inits' = inits
  BY DEF Deliver
<1> QED
  BY <1>1, <1>3, <1>7, <1>8, <1>9, <1>10, <1>11, AdvanceKeepsValues

LEMMA PrepareKeepsValues ==
  ASSUME StateKnown, ValuesKnown, NoneCircular, Prepare, ~member[Current.of].initializing
  PROVE  ValuesKnown'
<1>1. PICK tall : Levels(prog, tall, Frames, Count, values, inits, temporaries)
  BY DEF ValuesKnown
<1>2. PICK S : values \in Seq(S)
  BY DEF ValuesKnown
<1>3. Running /\ Current.op = "prepare"
  BY DEF Prepare, Executes
<1>4. ops # Idle /\ ops[2] = 1 /\ Current.of = ops[1] /\ ~Active(prog, ops)
  BY <1>3, RunningFacts DEF Placed
<1>5. /\ ops' = Next1 /\ inits' = Append(inits, [of |-> ops[1], temporaries |-> temporaries])
      /\ UNCHANGED <<prog, activations, values, temporaries>>
  BY <1>4 DEF Prepare
<1>6. PICK y : y = [of |-> ops[1], temporaries |-> temporaries]
  OBVIOUS
<1>7. PICK m : m = Len(inits)
  OBVIOUS
<1>8. /\ inits \in Seq(Entry) /\ temporaries \in Nat /\ m \in Nat /\ Count = m + 1
      /\ y \in Entry /\ y.temporaries = temporaries
  <2>1. inits \in Seq(Entry) /\ temporaries \in Nat /\ m \in Nat /\ m = Len(activations)
    BY <1>4, <1>7 DEF StateKnown, InitsKnown
  <2>2. y \in Entry /\ y.temporaries = temporaries
    BY <1>4, <1>6, <2>1, CurrentFacts DEF Entry, StateKnown
  <2> QED
    BY <1>4, <2>1, <2>2 DEF Count
<1>9. /\ inits' \in Seq(Entry) /\ Len(inits') = m + 1 /\ inits'[m + 1] = y
      /\ \A i \in 1 .. m : inits'[i] = inits[i]
  BY <1>5, <1>6, <1>7, <1>8
<1>10. /\ \A i \in 1 .. m : inits[i].temporaries \in Nat /\ inits[i].temporaries <= temporaries
       /\ \A i, j \in 1 .. m : i <= j => inits[i].temporaries <= inits[j].temporaries
       /\ \A i \in 1 .. m : \A k \in 1 .. tall[i - 1] : values[k].temp <= inits[i].temporaries
  BY <1>1, <1>5, <1>7, <1>8, EntriesKnown
<1>11. Pops(Current.op) = 0 /\ Pushes(Current) = 0
  BY <1>3 DEF Pops, Pushes, ExpressionOps, Loads
<1>12. \A k \in 1 .. Len(values) : values[k].temp \in Nat /\ values[k].temp <= temporaries
  BY <1>1 DEF Levels
<1>13. /\ Count = m + 1 /\ tall[Count] = Len(values) /\ tall[Count - 1] = Len(values) /\ Len(values) \in Nat
  BY <1>1, <1>3, <1>4, <1>8, CurrentPushed
<1>14. /\ Len(values') = Len(values) - Pops(Current.op) + Pushes(Current)
       /\ \A k \in 1 .. Len(values) - Pops(Current.op) : values'[k] = values[k]
       /\ \A k \in 1 .. Len(values') : values'[k].temp \in Nat /\ values'[k].temp <= temporaries'
  BY <1>5, <1>11, <1>12, <1>13
<1>15. \A i \in 1 .. Len(inits') : inits'[i].temporaries \in Nat /\ inits'[i].temporaries <= temporaries'
  BY <1>5, <1>8, <1>9, <1>10
<1>16. ASSUME NEW i \in 1 .. Len(inits'), NEW j \in 1 .. Len(inits'), i <= j
       PROVE  inits'[i].temporaries <= inits'[j].temporaries
  <2>1. CASE j = m + 1
    BY <1>5, <1>8, <1>9, <1>15, <2>1
  <2>2. CASE j # m + 1
    <3>1. i \in 1 .. m /\ j \in 1 .. m
      BY <1>8, <1>9, <1>16, <2>2
    <3> QED
      BY <1>9, <1>10, <1>16, <3>1
  <2> QED
    BY <2>1, <2>2
<1>17. ASSUME NEW i \in 1 .. Len(inits'), NEW k \in 1 .. tall[i - 1]
       PROVE  values[k].temp <= inits'[i].temporaries
  <2>1. CASE i = m + 1
    <3>1. i - 1 = Count - 1
      BY <1>8, <2>1
    <3>2. k \in 1 .. Len(values)
      BY <1>13, <3>1
    <3> QED
      BY <1>8, <1>9, <1>12, <2>1, <3>2
  <2>2. CASE i # m + 1
    <3>1. i \in 1 .. m
      BY <1>8, <1>9, <1>17, <2>2
    <3> QED
      BY <1>9, <1>10, <1>17, <3>1
  <2> QED
    BY <2>1, <2>2
<1>18. Len(inits') <= Count /\ values' \in Seq(S)
  BY <1>2, <1>5, <1>8, <1>9
<1> QED
  BY <1>1, <1>3, <1>4, <1>5, <1>9, <1>14, <1>15, <1>16, <1>17, <1>18, AdvanceKeepsValues

\* An instruction that only takes its operands.
LEMMA TakeKeepsValues ==
  ASSUME StateKnown, ValuesKnown, NoneCircular, Running, Active(prog, ops), ops' = Next1,
         Current.op \in {"alloc_typed", "alloc_untyped", "complete"},
         values' = IF Current.op = "complete" THEN values ELSE Popped(1),
         UNCHANGED <<prog, activations>>,
         inits' = IF Current.op = "alloc_typed" THEN inits ELSE Front(inits),
         temporaries' = IF Current.op = "complete" THEN Last(inits).temporaries ELSE temporaries
  PROVE  ValuesKnown'
<1>1. PICK tall : Levels(prog, tall, Frames, Count, values, inits, temporaries)
  BY DEF ValuesKnown
<1>2. PICK S : values \in Seq(S)
  BY DEF ValuesKnown
<1>3. PICK q : q = Pops(Current.op)
  OBVIOUS
<1>4. Pushes(Current) = 0 /\ q = IF Current.op = "complete" THEN 0 ELSE 1
  BY <1>3 DEF Pops, Pushes, ExpressionOps, Loads
<1>5. /\ Count \in Nat \ {0} /\ tall[Count] = Len(values) /\ Len(values) \in Nat /\ q \in Nat
      /\ Len(values) - q \in Nat
      /\ Current.op = "complete" => tall[Count - 1] = Len(values)
  BY <1>1, <1>3, CurrentPushed
<1>6. temporaries \in Nat
  BY DEF StateKnown, InitsKnown
<1>7. /\ inits \in Seq(Entry) /\ Len(inits) <= Count
      /\ \A i \in 1 .. Len(inits) : inits[i].temporaries \in Nat /\ inits[i].temporaries <= temporaries
      /\ \A i, j \in 1 .. Len(inits) : i <= j => inits[i].temporaries <= inits[j].temporaries
      /\ \A i \in 1 .. Len(inits) : \A k \in 1 .. tall[i - 1] : values[k].temp <= inits[i].temporaries
  <2>1. PICK tall2 : tall2 = tall
    OBVIOUS
  <2>2. /\ inits \in Seq(Entry)
        /\ Len(inits) <= Count
        /\ \A i \in 1 .. Len(inits) : inits[i].temporaries <= temporaries
        /\ \A i, j \in 1 .. Len(inits) : i <= j => inits[i].temporaries <= inits[j].temporaries
        /\ \A i \in 1 .. Len(inits) : \A k \in 1 .. tall[i - 1] : values[k].temp <= inits[i].temporaries
    BY <1>1 DEF Levels, StateKnown, InitsKnown
  <2>3. ASSUME NEW i \in 1 .. Len(inits) PROVE inits[i].temporaries \in Nat
    <3>1. inits[i] \in Entry
      BY <2>2
    <3> QED
      BY <3>1 DEF Entry
  <2> QED
    BY <2>2, <2>3
<1>8. ops # Idle
  BY DEF Running
<1>9. PICK m : m = Len(inits)
  OBVIOUS
<1>10. /\ inits # <<>> /\ m = Count /\ m \in Nat \ {0} /\ Last(inits) = inits[m]
       /\ Front(inits) \in Seq(Entry) /\ Len(Front(inits)) = m - 1
       /\ \A i \in 1 .. m - 1 : Front(inits)[i] = inits[i]
  BY <1>8, <1>9, LastEntry DEF StateKnown, Count
<1>11. \A k \in 1 .. Len(values) : values[k].temp \in Nat /\ values[k].temp <= temporaries
  BY <1>1 DEF Levels
<1>12. /\ values' \in Seq(S) /\ Len(values') = Len(values) - q
       /\ \A k \in 1 .. Len(values) - q : values'[k] = values[k]
  <2>1. CASE Current.op = "complete"
    BY <1>2, <1>4, <1>5, <2>1
  <2>2. CASE Current.op # "complete"
    <3>1. values' = Popped(1) /\ q = 1 /\ 1 \in Nat /\ 1 <= Len(values)
      BY <1>4, <1>5, <2>2
    <3> QED
      BY <1>2, <3>1, PoppedFacts
  <2> QED
    BY <2>1, <2>2
<1>13. \A k \in 1 .. Len(values') : values'[k].temp \in Nat /\ values'[k].temp <= temporaries'
  <2>1. CASE Current.op = "complete"
    <3>1. \A k \in 1 .. Len(values) : values[k].temp <= inits[m].temporaries
      <4>1. m \in 1 .. Len(inits) /\ tall[m - 1] = Len(values)
        BY <1>5, <1>9, <1>10, <2>1
      <4> QED
        BY <1>7, <4>1
    <3>2. values' = values /\ temporaries' = inits[m].temporaries
      BY <1>10, <2>1
    <3> QED
      BY <1>11, <3>1, <3>2
  <2>2. CASE Current.op # "complete"
    <3>1. temporaries' = temporaries
      BY <2>2
    <3>2. \A k \in 1 .. Len(values') : k \in 1 .. Len(values) /\ values'[k] = values[k]
      BY <1>5, <1>12
    <3> QED
      BY <1>11, <3>1, <3>2
  <2> QED
    BY <2>1, <2>2
<1>14. /\ inits' \in Seq(Entry) /\ Len(inits') <= m
       /\ \A i \in 1 .. Len(inits') : i \in 1 .. m /\ inits'[i] = inits[i]
       /\ Current.op = "complete" => Len(inits') = m - 1
  <2>1. CASE Current.op = "alloc_typed"
    BY <1>7, <1>9, <1>10, <2>1
  <2>2. CASE Current.op # "alloc_typed"
    BY <1>10, <2>2
  <2> QED
    BY <2>1, <2>2
<1>15. ASSUME NEW i \in 1 .. Len(inits') PROVE inits'[i].temporaries <= temporaries'
  <2>1. CASE Current.op = "complete"
    <3>1. i \in 1 .. m /\ m \in 1 .. Len(inits) /\ i <= m /\ inits'[i] = inits[i] /\ temporaries' = inits[m].temporaries
      BY <1>9, <1>10, <1>14, <2>1
    <3> QED
      BY <1>7, <1>9, <3>1
  <2>2. CASE Current.op # "complete"
    BY <1>7, <1>9, <1>14, <2>2
  <2> QED
    BY <2>1, <2>2
<1>16. \A i, j \in 1 .. Len(inits') : i <= j => inits'[i].temporaries <= inits'[j].temporaries
  BY <1>7, <1>9, <1>14
<1>17. \A i \in 1 .. Len(inits') : \A k \in 1 .. tall[i - 1] : values[k].temp <= inits'[i].temporaries
  BY <1>7, <1>9, <1>14
<1>18. Len(values') = Len(values) - q + Pushes(Current) /\ Len(inits') <= Count
  BY <1>4, <1>5, <1>10, <1>12, <1>14
<1> QED
  BY <1>1, <1>3, <1>12, <1>13, <1>14, <1>15, <1>16, <1>17, <1>18, AdvanceKeepsValues

LEMMA NewFrame ==
  ASSUME NEW p \in Programs, NEW g \in Globals
  PROVE  Pushed(p, <<g, 1>>) = 0
<1>1. PICK f : f = <<g, 1>>
  OBVIOUS
<1>2. f[1] = g /\ f[2] = 1
  BY <1>1
<1>3. Shape(Code(p, g), p, g)
  BY CodeFacts
<1>4. Before(p, g) \in Nat \ {0} /\ ValueEnd(p, g) \in Nat /\ Before(p, g) < ValueEnd(p, g)
  BY <1>3 DEF Shape
<1>5. ~(1 > 1) /\ ~(1 > Before(p, g)) /\ 1 # ValueEnd(p, g) + 1
  BY <1>4
<1>6. Pushed(p, f) = 0
  BY <1>2, <1>5 DEF Pushed
<1> QED
  BY <1>1, <1>6

LEMMA SuspendKeepsValues ==
  ASSUME StateKnown, ValuesKnown, Running, NEW g \in Globals,
         activations' = Append(activations, ops), ops' = <<g, 1>>, UNCHANGED <<prog, values, inits, temporaries>>
  PROVE  ValuesKnown'
<1>1. PICK n : n = Count
  OBVIOUS
<1>2. PICK tall : Levels(prog, tall, Frames, n, values, inits, temporaries)
  BY <1>1 DEF ValuesKnown
<1>3. PICK a : a = Frames
  OBVIOUS
<1>4. PICK b : b = Frames'
  OBVIOUS
<1>5. /\ ops # Idle /\ ops \in Frame /\ activations \in Seq(Frame) /\ n = Len(activations) + 1
      /\ n \in Nat \ {0} /\ DOMAIN activations = 1 .. n - 1
  BY <1>1, RunningFacts, CurrentFacts DEF StateKnown, FramesKnown, Count
<1>6. /\ DOMAIN activations' = 1 .. n /\ Len(activations') = n /\ activations'[n] = ops
      /\ \A i \in 1 .. n - 1 : activations'[i] = activations[i]
  BY <1>5
<1>7. Count' = n + 1
  BY <1>6 DEF Count, Idle
<1>8. PICK k : k = n + 1
  OBVIOUS
<1>9. FrameAt(k)' = ops' /\ \A i \in 1 .. n : FrameAt(i)' = FrameAt(i)
  BY <1>5, <1>6, <1>8 DEF FrameAt
<1>10. /\ \A i \in 1 .. n : a[i] = FrameAt(i)
       /\ \A i \in 1 .. n + 1 : b[i] = FrameAt(i)'
  BY <1>1, <1>3, <1>4, <1>7 DEF Frames
<1>11. (\A i \in 1 .. n : b[i] = a[i]) /\ b[n + 1] = <<g, 1>>
  <2>1. k \in 1 .. n + 1 /\ \A i \in 1 .. n : i \in 1 .. n + 1
    BY <1>5, <1>8
  <2>2. b[k] = <<g, 1>>
    BY <1>9, <1>10, <2>1
  <2>3. ASSUME NEW i \in 1 .. n PROVE b[i] = a[i]
    <3>1. b[i] = FrameAt(i)' /\ a[i] = FrameAt(i)
      BY <1>10, <2>1
    <3> QED
      BY <1>9, <3>1
  <2> QED
    BY <1>8, <2>2, <2>3
<1>12. PICK p : p = prog
  OBVIOUS
<1>13. Pushed(p, b[n + 1]) = 0
  BY <1>11, <1>12, NewFrame DEF StateKnown, FramesKnown
<1>14. PICK v : v = values
  OBVIOUS
<1>15. PICK e : e = inits
  OBVIOUS
<1>16. PICK t : t = temporaries
  OBVIOUS
<1>17. Levels(p, tall, a, n, v, e, t) /\ Len(e) \in Nat
  BY <1>2, <1>3, <1>12, <1>14, <1>15, <1>16 DEF StateKnown, InitsKnown
<1>18. \E h : Levels(p, h, b, n + 1, v, e, t)
  BY <1>11, <1>13, <1>17, LevelsExtend
<1>19. \E h : Levels(prog', h, Frames', Count', values', inits', temporaries')
  BY <1>4, <1>7, <1>12, <1>14, <1>15, <1>16, <1>18
<1> QED
  BY <1>19 DEF ValuesKnown

LEMMA StartKeepsValues ==
  ASSUME StateKnown, ValuesKnown, NEW g \in Globals, Evaluate(g)
  PROVE  ValuesKnown'
<1>1. /\ ops = Idle /\ activations = <<>> /\ ops' = <<g, 1>>
      /\ UNCHANGED <<prog, activations, values, inits, temporaries>>
  BY DEF Evaluate, StateKnown, FramesKnown, stacks
<1>2. Count = 0 /\ Count' = 0 + 1
  BY <1>1 DEF Count, Idle
<1>3. FrameAt(1)' = <<g, 1>>
  BY <1>1 DEF FrameAt
<1>4. PICK p : p = prog
  OBVIOUS
<1>5. PICK a : a = Frames
  OBVIOUS
<1>6. PICK b : b = Frames'
  OBVIOUS
<1>7. b[0 + 1] = <<g, 1>>
  BY <1>2, <1>3, <1>6 DEF Frames
<1>8. Pushed(p, b[0 + 1]) = 0
  BY <1>4, <1>7, NewFrame DEF StateKnown, FramesKnown
<1>9. PICK v : v = values
  OBVIOUS
<1>10. PICK e : e = inits
  OBVIOUS
<1>11. PICK t : t = temporaries
  OBVIOUS
<1>12. PICK tall : Levels(p, tall, a, 0, v, e, t)
  BY <1>2, <1>4, <1>5, <1>9, <1>10, <1>11 DEF ValuesKnown
<1>13. Len(e) \in Nat /\ \A i \in 1 .. 0 : b[i] = a[i]
  BY <1>10 DEF StateKnown, InitsKnown
<1>14. \E h : Levels(p, h, b, 0 + 1, v, e, t)
  BY <1>8, <1>12, <1>13, LevelsExtend
<1>15. \E h : Levels(prog', h, Frames', Count', values', inits', temporaries')
  BY <1>1, <1>2, <1>4, <1>6, <1>9, <1>10, <1>11, <1>14
<1> QED
  BY <1>1, <1>15 DEF ValuesKnown

LEMMA EndFrames ==
  ASSUME StateKnown, EndCode
  PROVE  /\ Count \in Nat \ {0} /\ Count' = Count - 1 /\ Frames[Count] = ops
         /\ Running /\ Current.op = "end_code" /\ ~Active(prog, ops) /\ Len(inits) = Count - 1
         /\ \A i \in 1 .. Count - 1 : Frames'[i] = Frames[i]
<1>1. Running /\ Current.op = "end_code"
  BY DEF EndCode, Executes
<1>2. ops # Idle /\ ~Active(prog, ops)
  BY <1>1, RunningFacts DEF Placed
<1>3. /\ UNCHANGED prog
      /\ IF activations = <<>>
           THEN ops' = Idle /\ UNCHANGED activations
           ELSE ops' = Last(activations) /\ activations' = Front(activations)
  BY DEF EndCode
<1>4. PICK n : n = Count
  OBVIOUS
<1>5. activations \in Seq(Frame) /\ n = Len(activations) + 1 /\ n \in Nat \ {0} /\ DOMAIN activations = 1 .. n - 1
  BY <1>2, <1>4 DEF StateKnown, FramesKnown, Count
<1>6. /\ activations = <<>> => ops' = Idle /\ activations' = <<>>
      /\ activations # <<>> => ops' # Idle /\ Len(activations') = Len(activations) - 1
      /\ \A i \in 1 .. Len(activations) : FrameAt(i)' = activations[i] /\ FrameAt(i) = activations[i]
  BY <1>2, <1>3, EndKeepsFrames DEF StateKnown
<1>7. Count' = n - 1
  <2>1. CASE activations = <<>>
    BY <1>5, <1>6, <2>1 DEF Count
  <2>2. CASE activations # <<>>
    <3>1. ops' # Idle /\ Len(activations') = Len(activations) - 1
      BY <1>6, <2>2
    <3>2. Count' = Len(activations') + 1
      BY <3>1 DEF Count
    <3>3. Len(activations) = n - 1
      BY <1>5
    <3> QED
      BY <1>5, <3>1, <3>2, <3>3
  <2> QED
    BY <2>1, <2>2
<1>8. FrameAt(n) = ops
  BY <1>5 DEF FrameAt
<1>9. /\ \A i \in 1 .. n : Frames[i] = FrameAt(i)
      /\ \A i \in 1 .. n - 1 : Frames'[i] = FrameAt(i)'
  BY <1>4, <1>7 DEF Frames
<1>10. ASSUME NEW i \in 1 .. n - 1 PROVE Frames'[i] = Frames[i]
  <2>1. i \in 1 .. Len(activations) /\ i \in 1 .. n
    BY <1>5
  <2>2. FrameAt(i)' = FrameAt(i)
    BY <1>6, <2>1
  <2> QED
    BY <1>9, <2>1, <2>2
<1>11. n \in 1 .. n /\ Len(inits) = n - 1
  BY <1>2, <1>5 DEF StateKnown, InitsKnown
<1> QED
  BY <1>1, <1>2, <1>4, <1>5, <1>7, <1>8, <1>9, <1>10, <1>11

LEMMA EndKeepsValues ==
  ASSUME StateKnown, ValuesKnown, NoneCircular, EndCode
  PROVE  ValuesKnown'
<1>1. PICK tall : Levels(prog, tall, Frames, Count, values, inits, temporaries)
  BY DEF ValuesKnown
<1>2. UNCHANGED <<prog, values, inits, temporaries>>
  BY DEF EndCode
<1>3. PICK n : n = Count
  OBVIOUS
<1>4. PICK p : p = prog
  OBVIOUS
<1>5. PICK a : a = Frames
  OBVIOUS
<1>6. PICK b : b = Frames'
  OBVIOUS
<1>7. PICK v : v = values
  OBVIOUS
<1>8. PICK e : e = inits
  OBVIOUS
<1>9. PICK t : t = temporaries
  OBVIOUS
<1>10. /\ n \in Nat \ {0} /\ Count' = n - 1 /\ a[n] = ops /\ Len(e) = n - 1 /\ Running /\ Current.op = "end_code"
       /\ \A i \in 1 .. n - 1 : b[i] = a[i]
  BY <1>3, <1>5, <1>6, <1>8, EndFrames
<1>11. Pushed(p, a[n]) = 0
  BY <1>1, <1>4, <1>10, CurrentPushed
<1>12. Levels(p, tall, a, n, v, e, t) /\ n > 0 /\ Len(e) \in Nat /\ Len(e) <= n - 1
  BY <1>1, <1>3, <1>4, <1>5, <1>7, <1>8, <1>9, <1>10
<1>13. \E h : Levels(p, h, b, n - 1, v, e, t)
  BY <1>10, <1>11, <1>12, LevelsShrink
<1>14. \E h : Levels(prog', h, Frames', Count', values', inits', temporaries')
  BY <1>2, <1>4, <1>6, <1>7, <1>8, <1>9, <1>10, <1>13
<1> QED
  BY <1>2, <1>14 DEF ValuesKnown

LEMMA StillKeepsValues ==
  ASSUME ValuesKnown, UNCHANGED <<prog, ops, activations, values, inits, temporaries>>
  PROVE  ValuesKnown'
<1>1. Count' = Count /\ Frames' = Frames
  BY DEF Count, Frames, FrameAt
<1> QED
  BY <1>1 DEF ValuesKnown

LEMMA NextKeepsValues ==
  ASSUME StateKnown, ValuesKnown, NoneCircular, [Next]_vars
  PROVE  ValuesKnown'
<1>1. CASE Simple
  <2>1. /\ Running /\ Deliver(Object(Current.op, Current.of), 0, TRUE) /\ UNCHANGED <<prog, activations, inits>>
        /\ Current.op \in ExpressionOps \cup {"type_type"}
    BY <1>1 DEF Simple, ExpressionOps
  <2>2. Pops(Current.op) = 0
    BY <1>1 DEF Simple, Pops
  <2>3. Deliver(Object(Current.op, Current.of), Pops(Current.op), TRUE)
    BY <2>1, <2>2
  <2> QED
    BY <2>1, <2>3, DeliverKeepsValues
<1>2. CASE Add
  <2>1. /\ Running /\ Deliver(SumOf(Read(Operand(2).is), Read(Operand(1).is)), 2, TRUE)
        /\ UNCHANGED <<prog, activations, inits>> /\ Current.op = "sum"
    BY <1>2 DEF Add, Executes
  <2>2. Pops(Current.op) = 2 /\ Current.op \in ExpressionOps \cup {"type_type"}
    BY <2>1 DEF Pops, ExpressionOps
  <2>3. Deliver(SumOf(Read(Operand(2).is), Read(Operand(1).is)), Pops(Current.op), TRUE)
    BY <2>1, <2>2
  <2> QED
    BY <2>1, <2>2, <2>3, DeliverKeepsValues
<1>3. CASE (LoadGlobal \/ LoadMember) /\ ~member[Current.of].pending
  <2>1. Running /\ Current.op \in ExpressionOps \cup {"type_type"} /\ UNCHANGED <<prog, activations, inits>>
    BY <1>3 DEF LoadGlobal, LoadMember, Executes, ExpressionOps, Loads
  <2>2. Deliver(Location(Current.of), Pops(Current.op), FALSE)
    <3>1. CASE LoadGlobal
      <4>1. Current.op = "load_global" /\ Deliver(Location(Current.of), 0, FALSE)
        BY <1>3, <3>1 DEF LoadGlobal, Executes
      <4>2. Pops(Current.op) = 0
        BY <4>1 DEF Pops
      <4> QED
        BY <4>1, <4>2
    <3>2. CASE LoadMember
      <4>1. Current.op = "load_member" /\ Deliver(Location(Current.of), 1, FALSE)
        BY <1>3, <3>2 DEF LoadMember, Executes
      <4>2. Pops(Current.op) = 1
        BY <4>1 DEF Pops
      <4> QED
        BY <4>1, <4>2
    <3> QED
      BY <1>3, <3>1, <3>2
  <2> QED
    BY <2>1, <2>2, DeliverKeepsValues
<1>4. CASE (LoadGlobal \/ LoadMember) /\ member[Current.of].pending
  <2>1. Running /\ Suspend(Current.of) /\ UNCHANGED <<prog, values, inits, temporaries>>
    BY <1>4 DEF LoadGlobal, LoadMember, Executes
  <2>2. PICK g \in Globals : g = Current.of
    BY <2>1, RunningFacts
  <2> QED
    BY <2>1, <2>2, SuspendKeepsValues DEF Suspend
<1>5. CASE Prepare
  <2>1. CASE member[Current.of].initializing
    <3>1. UNCHANGED <<prog, ops, activations, values, inits, temporaries>>
      BY <1>5, <2>1 DEF Prepare
    <3> QED
      BY <3>1, StillKeepsValues
  <2>2. CASE ~member[Current.of].initializing
    BY <1>5, <2>2, PrepareKeepsValues
  <2> QED
    BY <2>1, <2>2
<1>6. CASE AllocTyped
  <2>1. Running /\ Current.op = "alloc_typed" /\ ops' = Next1 /\ UNCHANGED <<prog, activations, inits>>
    BY <1>6 DEF AllocTyped, Executes
  <2>2. Active(prog, ops) /\ Current.of = ops[1] /\ ops[1] \in Globals
    BY <2>1, RunningFacts, CurrentFacts DEF Placed, StateKnown
  <2>3. ~Circular(prog, Current.of)
    BY <2>2 DEF NoneCircular
  <2>4. values' = Popped(1) /\ temporaries' = temporaries
    BY <1>6, <2>3 DEF AllocTyped
  <2> QED
    BY <2>1, <2>2, <2>4, TakeKeepsValues
<1>7. CASE AllocUntyped
  <2>1. /\ Running /\ Current.op = "alloc_untyped" /\ ops' = Next1 /\ UNCHANGED <<prog, activations, temporaries>>
        /\ values' = Popped(1) /\ inits' = Front(inits)
    BY <1>7 DEF AllocUntyped, Executes
  <2>2. Active(prog, ops)
    BY <2>1, RunningFacts DEF Placed
  <2> QED
    BY <2>1, <2>2, TakeKeepsValues
<1>8. CASE CompleteCircular
  <2>1. Running /\ Current.op = "complete_circular"
    BY <1>8 DEF CompleteCircular, Executes
  <2>2. Circular(prog, ops[1]) /\ ops[1] \in Globals
    BY <2>1, RunningFacts, CurrentFacts DEF Placed, StateKnown
  <2> QED
    BY <2>2 DEF NoneCircular
<1>9. CASE Complete
  <2>1. /\ Running /\ Current.op = "complete" /\ ops' = Next1 /\ UNCHANGED <<prog, activations, values>>
        /\ inits' = Front(inits) /\ temporaries' = Last(inits).temporaries
    BY <1>9 DEF Complete, Executes
  <2>2. Active(prog, ops)
    BY <2>1, RunningFacts DEF Placed
  <2> QED
    BY <2>1, <2>2, TakeKeepsValues
<1>10. CASE EndCode
  BY <1>10, EndKeepsValues
<1>11. CASE \E g \in Globals : Evaluate(g)
  BY <1>11, StartKeepsValues
<1>12. CASE Fail \/ Return \/ UNCHANGED vars
  <2>1. UNCHANGED <<prog, ops, activations, values, inits, temporaries>>
    BY <1>12 DEF Fail, Return, vars, stacks
  <2> QED
    BY <2>1, StillKeepsValues
<1> QED
  BY <1>1, <1>2, <1>3, <1>4, <1>5, <1>6, <1>7, <1>8, <1>9, <1>10, <1>11, <1>12 DEF Next

LEMMA InitValues ==
  ASSUME Init
  PROVE  ValuesKnown
<1>1. Count = 0 /\ values = <<>> /\ inits = <<>> /\ temporaries = 0
  BY DEF Init, Count
<1>2. PICK tall : tall = [i \in 0 .. 0 |-> 0]
  OBVIOUS
<1>3. tall \in [0 .. 0 -> Nat] /\ tall[0] = 0
  BY <1>2
<1>4. \A i, j \in 0 .. 0 : i <= j => tall[i] <= tall[j]
  BY <1>3
<1>5. Len(values) = 0 /\ Len(inits) = 0 /\ values \in Seq({})
  BY <1>1
<1>6. Levels(prog, tall, Frames, 0, values, inits, temporaries)
  BY <1>3, <1>4, <1>5 DEF Levels
<1> QED
  BY <1>1, <1>5, <1>6 DEF ValuesKnown

LEMMA ProgramKept ==
  ASSUME [Next]_vars
  PROVE  prog' = prog
  BY DEF Next, vars, stacks, Simple, Add, LoadGlobal, LoadMember, Prepare, AllocTyped, AllocUntyped,
    CompleteCircular, Complete, EndCode, Fail, Evaluate, Return

\* When nothing runs the stacks are empty, and no value that waits is a
\* temporary that a nested initialization has discarded, for every program in
\* which no definition with a type has a member of a file as its value.
THEOREM SpecStacksKept ==
  ASSUME NoMemberIntoContext
  PROVE  Spec => []StacksKept
<1>1. Init => ContextsKnown /\ (NoneCircular => ValuesKnown)
  BY InitContexts, InitValues
<1>2. /\ StateKnown /\ ContextsKnown /\ (NoneCircular => ValuesKnown) /\ [Next]_vars
           => (ContextsKnown /\ (NoneCircular => ValuesKnown))'
  <2> SUFFICES ASSUME StateKnown, ContextsKnown, NoneCircular => ValuesKnown, [Next]_vars
               PROVE  ContextsKnown' /\ (NoneCircular' => ValuesKnown')
    OBVIOUS
  <2>1. ContextsKnown'
    BY NextKeepsContexts
  <2>2. NoneCircular' <=> NoneCircular
    BY ProgramKept DEF NoneCircular
  <2>3. NoneCircular => ValuesKnown'
    BY NextKeepsValues
  <2> QED
    BY <2>1, <2>2, <2>3
<1>3. StateKnown /\ ContextsKnown /\ (NoneCircular => ValuesKnown) => StacksKept
  <2> SUFFICES ASSUME StateKnown, ContextsKnown, ValuesKnown PROVE Balanced /\ \A i \in DOMAIN values : values[i].temp <= temporaries
    BY DEF StacksKept
  <2>1. PICK tall : Levels(prog, tall, Frames, Count, values, inits, temporaries)
    BY DEF ValuesKnown
  <2>2. PICK S : values \in Seq(S)
    BY DEF ValuesKnown
  <2>3. DOMAIN values = 1 .. Len(values)
    BY <2>2
  <2>4. \A i \in DOMAIN values : values[i].temp <= temporaries
    BY <2>1, <2>3 DEF Levels
  <2>5. ASSUME ops = Idle PROVE values = <<>> /\ contexts = <<>> /\ inits = <<>> /\ activations = <<>>
    <3>1. Count = 0 /\ activations = <<>>
      BY <2>5 DEF Count, StateKnown, FramesKnown
    <3>2. Len(values) = 0
      BY <2>1, <3>1 DEF Levels
    <3>3. PICK held : Matched(prog, held, Frames, 0, contexts)
      BY <3>1 DEF ContextsKnown
    <3>4. Len(contexts) = 0 /\ contexts \in Seq(Globals)
      BY <3>3 DEF Matched, StateKnown, FlagsKnown, TypeOK
    <3>5. Len(inits) = 0 /\ inits \in Seq(Entry)
      BY <2>5, <3>1 DEF StateKnown, InitsKnown
    <3> QED
      BY <2>2, <3>1, <3>2, <3>4, <3>5
  <2> QED
    BY <2>4, <2>5 DEF Balanced
<1> QED
  BY <1>1, <1>2, <1>3, SpecStateKnown, PTL DEF Spec

-----------------------------------------------------------------------------
(* MeansItsDefinition. *)

Referring == {"global", "member"}

\* The value of an expression in the code of g, given those of the globals.
Taken(e, g, of) == IF e.form \in Referring THEN of[e.of] ELSE Object(e.form, g)

Meaning(e, g, of) ==
  IF e.form = "sum" THEN SumOf(Taken(e.left, g, of), Taken(e.right, g, of)) ELSE Taken(e, g, of)

\* The globals that it is read from are complete, by their flags m.
Settled(e, m) == e.form \in Referring => ~m[e.of].pending

AllSettled(e, m) == IF e.form = "sum" THEN Settled(e.left, m) /\ Settled(e.right, m) ELSE Settled(e, m)

\* What the code of an expression leaves on the stack, when the globals have
\* the flags m and the contents c.
Stands(x, e, g, m) ==
  Settled(e, m) /\ x = IF e.form \in Referring THEN At(e.of) ELSE Object(e.form, g)

Answers(x, e, g, m, c) ==
  IF e.form = "sum" THEN AllSettled(e, m) /\ x = Meaning(e, g, c) ELSE Stands(x, e, g, m)

\* What the last instruction of a simple expression is.
Leaves(x, e, g) ==
  IF e.form \in Referring THEN x.op \in Loads /\ x.of = e.of ELSE x.op = e.form /\ x.of = g

LEMMA SimpleLast ==
  ASSUME NEW e \in SimpleExpressions, NEW ctx \in BOOLEAN, NEW g \in Globals
  PROVE  LET s == SimpleCode(e, ctx, g)
         IN  Len(s) \in {1, 2} /\ Leaves(s[Len(s)], e, g)
<1>0. PICK s : s = SimpleCode(e, ctx, g)
  OBVIOUS
<1>1. e.form \in {"literal", "import", "global", "member"}
  BY SimpleForms
<1>2. CASE e.form \in {"literal", "import"}
  <2>1. PICK x : x = Instr(e.form, ctx, g)
    OBVIOUS
  <2>2. x.op = e.form /\ x.of = g
    BY <2>1 DEF Instr
  <2>3. s = <<x>>
    BY <1>0, <1>2, <2>1 DEF SimpleCode
  <2>4. Len(s) = 1 /\ s[1] = x
    BY <2>3
  <2> QED
    BY <1>0, <1>2, <2>2, <2>4 DEF Leaves, Referring
<1>3. CASE e.form = "global"
  <2>1. PICK x : x = Instr("load_global", ctx, e.of)
    OBVIOUS
  <2>2. x.op = "load_global" /\ x.of = e.of
    BY <2>1 DEF Instr
  <2>3. s = <<x>>
    BY <1>0, <1>3, <2>1 DEF SimpleCode
  <2>4. Len(s) = 1 /\ s[1] = x
    BY <2>3
  <2> QED
    BY <1>0, <1>3, <2>2, <2>4 DEF Leaves, Referring, Loads
<1>4. CASE e.form = "member"
  <2>1. PICK x : x = Instr("load_global", FALSE, e.via)
    OBVIOUS
  <2>2. PICK y : y = Instr("load_member", ctx, e.of)
    OBVIOUS
  <2>3. y.op = "load_member" /\ y.of = e.of
    BY <2>2 DEF Instr
  <2>4. s = <<x, y>>
    BY <1>0, <1>4, <2>1, <2>2 DEF SimpleCode
  <2>5. Len(s) = 2 /\ s[2] = y
    BY <2>4
  <2> QED
    BY <1>0, <1>4, <2>3, <2>5 DEF Leaves, Referring, Loads
<1> QED
  BY <1>0, <1>1, <1>2, <1>3, <1>4

\* Where the code of an expression leaves its operands and itself.
LastPlaces(s, e, g) ==
  /\ e.form # "sum" => e \in SimpleExpressions /\ Leaves(s[Len(s)], e, g)
  /\ e.form = "sum" =>
       /\ e.left \in SimpleExpressions /\ e.right \in SimpleExpressions
       /\ \E n \in {1, 2}, k \in {1, 2} :
             /\ n = Len(SimpleCode(e.left, FALSE, g)) /\ Len(s) = n + k + 1
             /\ Leaves(s[n], e.left, g) /\ Leaves(s[n + k], e.right, g) /\ s[n + k + 1].op = "sum"

LEMMA ExprPlaces ==
  ASSUME NEW e \in Expressions, NEW ctx \in BOOLEAN, NEW g \in Globals
  PROVE  LastPlaces(ExprCode(e, ctx, g), e, g)
<1>1. CASE e \in SimpleExpressions
  <2>1. e.form # "sum"
    BY <1>1, SimpleForms
  <2>2. ExprCode(e, ctx, g) = SimpleCode(e, ctx, g)
    BY <2>1 DEF ExprCode
  <2>3. Leaves(SimpleCode(e, ctx, g)[Len(SimpleCode(e, ctx, g))], e, g)
    BY <1>1, SimpleLast
  <2> QED
    BY <1>1, <2>1, <2>2, <2>3 DEF LastPlaces
<1>2. ASSUME NEW l \in SimpleExpressions, NEW r \in SimpleExpressions, e = Sum(l, r)
      PROVE  LastPlaces(ExprCode(e, ctx, g), e, g)
  <2>1. e.form = "sum" /\ e.left = l /\ e.right = r
    BY <1>2 DEF Sum
  <2>2. PICK a : a = SimpleCode(l, FALSE, g)
    OBVIOUS
  <2>3. PICK b : b = SimpleCode(r, FALSE, g)
    OBVIOUS
  <2>4. PICK x : x = Instr("sum", ctx, g)
    OBVIOUS
  <2>5. x.op = "sum" /\ x \in Instructions
    BY <2>4 DEF Instr, Instructions, ExpressionOps, Loads
  <2>6. PICK n : n = Len(a)
    OBVIOUS
  <2>7. PICK k : k = Len(b)
    OBVIOUS
  <2>8. n \in {1, 2} /\ k \in {1, 2} /\ Leaves(a[n], l, g) /\ Leaves(b[k], r, g)
    BY <2>2, <2>3, <2>6, <2>7, SimpleLast
  <2>9. a \in Seq(Instructions) /\ b \in Seq(Instructions)
    BY <2>2, <2>3, SimpleEvaluates DEF Evaluates
  <2>10. PICK ab : ab = a \o b
    OBVIOUS
  <2>11. /\ ab \in Seq(Instructions) /\ Len(ab) = n + k
         /\ \A i \in 1 .. n : ab[i] = a[i]
         /\ \A i \in n + 1 .. n + k : ab[i] = b[i - n]
    BY <2>6, <2>7, <2>9, <2>10, ConcatFacts
  <2>12. PICK s : s = ExprCode(e, ctx, g)
    OBVIOUS
  <2>13. s = ab \o <<x>>
    BY <2>1, <2>2, <2>3, <2>4, <2>10, <2>12 DEF ExprCode
  <2>14. Len(s) = n + k + 1 /\ s[n + k + 1] = x /\ \A i \in 1 .. n + k : s[i] = ab[i]
    <3>1. n + k \in Nat
      BY <2>8
    <3> QED
      BY <2>5, <2>11, <2>13, <3>1, AppendedFacts
  <2>15. s[n] = a[n]
    BY <2>8, <2>11, <2>14
  <2>16. s[n + k] = b[k]
    <3>1. PICK j : j = n + k
      OBVIOUS
    <3>2. j \in n + 1 .. n + k /\ j \in 1 .. n + k /\ j - n = k
      BY <2>8, <3>1
    <3>3. s[j] = ab[j] /\ ab[j] = b[j - n]
      BY <2>11, <2>14, <3>2
    <3> QED
      BY <3>1, <3>2, <3>3
  <2> QED
    BY <2>1, <2>2, <2>5, <2>6, <2>8, <2>12, <2>14, <2>15, <2>16 DEF LastPlaces
<1> QED
  BY <1>1, <1>2 DEF Expressions

LEMMA ValuePlaces ==
  ASSUME NEW p \in Programs, NEW g \in Globals
  PROVE  LastPlaces(ValueCode(p, g), p[g].value, g)
<1>1. Typed(p, g) \in BOOLEAN
  BY DEF Typed, Circular
<1> QED
  BY <1>1, ProgramFacts, ExprPlaces DEF ValueCode

\* What an operand on the stack is read as.
ReadFrom(x, c) == IF x[1] = "at" THEN c[x[2]] ELSE x

LEMMA StandsRead ==
  ASSUME NEW m, NEW c, NEW x, NEW e \in SimpleExpressions, NEW g \in Globals, Stands(x, e, g, m)
  PROVE  ReadFrom(x, c) = Taken(e, g, c) /\ Settled(e, m)
<1>1. CASE e.form \in Referring
  <2>1. x = <<"at", e.of>>
    BY <1>1 DEF Stands, At
  <2> QED
    BY <1>1, <2>1 DEF ReadFrom, Taken, Stands
<1>2. CASE e.form \notin Referring
  <2>1. x = <<e.form, g>> /\ e.form \in {"literal", "import"}
    BY <1>2, SimpleForms DEF Stands, Object, Referring
  <2>2. x[1] # "at"
    BY <2>1
  <2> QED
    BY <1>2, <2>1, <2>2 DEF ReadFrom, Taken, Stands, Object
<1> QED
  BY <1>1, <1>2

LEMMA AnswersRead ==
  ASSUME NEW m, NEW c, NEW x, NEW e \in Expressions, NEW g \in Globals, Answers(x, e, g, m, c)
  PROVE  ReadFrom(x, c) = Meaning(e, g, c) /\ AllSettled(e, m)
<1>1. CASE e.form = "sum"
  <2>1. x = <<"sum", Taken(e.left, g, c), Taken(e.right, g, c)>> /\ AllSettled(e, m)
    BY <1>1 DEF Answers, Meaning, SumOf
  <2>2. x[1] # "at"
    BY <2>1
  <2> QED
    BY <1>1, <2>1, <2>2 DEF ReadFrom, Answers
<1>2. CASE e.form # "sum"
  <2>1. e \in SimpleExpressions
    BY <1>2 DEF Expressions, Sum
  <2> QED
    BY <1>2, <2>1, StandsRead DEF Answers, Meaning, AllSettled
<1> QED
  BY <1>1, <1>2

\* What is complete still is, and is the same.
Steady(m, c, m2, c2) ==
  \A h \in Globals : ~m[h].pending => ~m2[h].pending /\ c2[h] = c[h]

LEMMA StandsStill ==
  ASSUME NEW m, NEW c, NEW m2, NEW c2, Steady(m, c, m2, c2),
         NEW x, NEW e \in SimpleExpressions, NEW g \in Globals, Stands(x, e, g, m)
  PROVE  Stands(x, e, g, m2)
<1>1. CASE e.form \in Referring
  <2>1. e.of \in Globals
    BY <1>1, SimpleForms DEF Referring
  <2> QED
    BY <1>1, <2>1 DEF Stands, Settled, Steady
<1>2. CASE e.form \notin Referring
  BY <1>2 DEF Stands, Settled
<1> QED
  BY <1>1, <1>2

LEMMA TakenStill ==
  ASSUME NEW m, NEW c, NEW m2, NEW c2, Steady(m, c, m2, c2),
         NEW e \in SimpleExpressions, NEW g \in Globals, Settled(e, m)
  PROVE  Settled(e, m2) /\ Taken(e, g, c2) = Taken(e, g, c)
<1>1. e.form \in Referring => e.of \in Globals
  BY SimpleForms DEF Referring
<1> QED
  BY <1>1 DEF Taken, Settled, Steady

LEMMA MeaningStill ==
  ASSUME NEW m, NEW c, NEW m2, NEW c2, Steady(m, c, m2, c2),
         NEW e \in Expressions, NEW g \in Globals, AllSettled(e, m)
  PROVE  AllSettled(e, m2) /\ Meaning(e, g, c2) = Meaning(e, g, c)
<1>1. CASE e \in SimpleExpressions
  <2>1. e.form # "sum"
    BY <1>1, SimpleForms
  <2> QED
    BY <1>1, <2>1, TakenStill DEF AllSettled, Meaning
<1>2. ASSUME NEW l \in SimpleExpressions, NEW r \in SimpleExpressions, e = Sum(l, r)
      PROVE  AllSettled(e, m2) /\ Meaning(e, g, c2) = Meaning(e, g, c)
  <2>1. e.form = "sum" /\ e.left = l /\ e.right = r
    BY <1>2 DEF Sum
  <2>2. Settled(l, m) /\ Settled(r, m)
    BY <2>1 DEF AllSettled
  <2>3. /\ Settled(l, m2) /\ Taken(l, g, c2) = Taken(l, g, c)
        /\ Settled(r, m2) /\ Taken(r, g, c2) = Taken(r, g, c)
    BY <2>2, TakenStill
  <2> QED
    BY <2>1, <2>3 DEF AllSettled, Meaning
<1> QED
  BY <1>1, <1>2 DEF Expressions

LEMMA AnswersStill ==
  ASSUME NEW m, NEW c, NEW m2, NEW c2, Steady(m, c, m2, c2),
         NEW x, NEW e \in Expressions, NEW g \in Globals, Answers(x, e, g, m, c)
  PROVE  Answers(x, e, g, m2, c2)
<1>1. CASE e.form = "sum"
  <2>1. AllSettled(e, m) /\ x = Meaning(e, g, c)
    BY <1>1 DEF Answers
  <2>2. AllSettled(e, m2) /\ Meaning(e, g, c2) = Meaning(e, g, c)
    BY <2>1, MeaningStill
  <2> QED
    BY <1>1, <2>1, <2>2 DEF Answers
<1>2. CASE e.form # "sum"
  <2>1. e \in SimpleExpressions
    BY <1>2 DEF Expressions, Sum
  <2>2. Stands(x, e, g, m2)
    BY <1>2, <2>1, StandsStill DEF Answers
  <2> QED
    BY <1>2, <2>2 DEF Answers
<1> QED
  BY <1>1, <1>2

\* The heights of the frames are those of the code below.
LEMMA LevelsSame ==
  ASSUME NEW p, NEW tall, NEW high, NEW a, NEW b, NEW n, NEW k, NEW v, NEW w, NEW e, NEW d, NEW t, NEW u,
         Levels(p, tall, a, n, v, e, t), Levels(p, high, b, k, w, d, u),
         NEW m \in Nat, m <= n, m <= k, \A i \in 1 .. m : a[i] = b[i]
  PROVE  \A i \in 0 .. m : tall[i] = high[i]
<1> DEFINE S == {i \in 0 .. m : tall[i] = high[i]}
<1>1. /\ n \in Nat /\ k \in Nat /\ tall[0] = 0 /\ high[0] = 0
      /\ \A i \in 1 .. n : tall[i] = tall[i - 1] + Pushed(p, a[i])
      /\ \A i \in 1 .. k : high[i] = high[i - 1] + Pushed(p, b[i])
  BY DEF Levels
<1>2. 0 \in S
  BY <1>1
<1>3. ASSUME NEW j \in 1 .. m, j - 1 \in S PROVE j \in S
  <2>1. j \in 1 .. n /\ j \in 1 .. k
    BY <1>1
  <2>2. tall[j] = high[j]
    BY <1>1, <1>3, <2>1
  <2> QED
    BY <2>2
<1>4. 0 .. m \subseteq S
  <2>1. S \in SUBSET Nat
    OBVIOUS
  <2> HIDE DEF S
  <2> QED
    BY <1>2, <1>3, <2>1, Increasing
<1> QED
  BY <1>4

LeftEnd(p, g) == Before(p, g) + Len(SimpleCode(p[g].value.left, FALSE, g))

\* What the values of a frame are, from the first after lo.
Holding(p, f, v, lo, m, c) ==
  LET g == f[1]
      e == p[g].value
  IN  /\ e.form = "sum" /\ f[2] > LeftEnd(p, g) /\ f[2] <= ValueEnd(p, g) => Stands(v[lo + 1].is, e.left, g, m)
      /\ e.form = "sum" /\ f[2] = ValueEnd(p, g) => Stands(v[lo + 2].is, e.right, g, m)
      /\ ~Typed(p, g) /\ f[2] = ValueEnd(p, g) + 1 => Answers(v[lo + 1].is, e, g, m, c)

\* The places of a value's code.
LEMMA ValuePlaced ==
  ASSUME NEW p \in Programs, NEW g \in Globals
  PROVE  /\ Before(p, g) \in Nat \ {0} /\ ValueEnd(p, g) \in Nat
         /\ ValueEnd(p, g) = Before(p, g) + Len(ValueCode(p, g)) /\ Len(ValueCode(p, g)) \in Nat \ {0}
         /\ p[g].value.form = "sum" =>
              LeftEnd(p, g) \in Nat /\ Before(p, g) < LeftEnd(p, g) /\ LeftEnd(p, g) + 1 < ValueEnd(p, g)
<1>1. PICK n : n = Before(p, g)
  OBVIOUS
<1>2. PICK v : v = Len(ValueCode(p, g))
  OBVIOUS
<1>3. v \in Nat \ {0}
  BY <1>2, ValueCodeFacts
<1>4. Shape(Code(p, g), p, g)
  BY CodeFacts
<1>5. n \in Nat \ {0}
  BY <1>1, <1>4 DEF Shape
<1>6. ValueEnd(p, g) = n + v
  BY <1>1, <1>2 DEF ValueEnd
<1>7. ASSUME p[g].value.form = "sum"
      PROVE  LeftEnd(p, g) \in Nat /\ n < LeftEnd(p, g) /\ LeftEnd(p, g) + 1 < n + v
  <2>1. PICK a \in {1, 2}, k \in {1, 2} : a = Len(SimpleCode(p[g].value.left, FALSE, g)) /\ v = a + k + 1
    BY <1>2, <1>7, ValuePlaces DEF LastPlaces
  <2>2. LeftEnd(p, g) = n + a
    BY <1>1, <2>1 DEF LeftEnd
  <2>3. v = a + k + 1
    BY <2>1
  <2>4. n + a \in Nat /\ n < n + a /\ n + a + 1 < n + v
    BY <1>5, <2>3
  <2> QED
    BY <2>2, <2>4
<1> QED
  BY <1>1, <1>2, <1>3, <1>5, <1>6, <1>7

LEMMA PushedWhere ==
  ASSUME NEW p \in Programs, NEW f \in Frame, ~Circular(p, f[1])
  PROVE  LET g == f[1]
             e == p[g].value
         IN  /\ e.form = "sum" /\ f[2] > LeftEnd(p, g) /\ f[2] <= ValueEnd(p, g) =>
                  Pushed(p, f) = IF f[2] > LeftEnd(p, g) + 1 THEN 2 ELSE 1
             /\ ~Typed(p, g) /\ f[2] = ValueEnd(p, g) + 1 => Pushed(p, f) = 1
<1>1. PICK g \in Globals, i \in Nat \ {0} : g = f[1] /\ i = f[2]
  BY DEF Frame
<1>2. PICK n : n = Before(p, g)
  OBVIOUS
<1>3. PICK m : m = ValueEnd(p, g)
  OBVIOUS
<1>4. PICK e : e = p[g].value
  OBVIOUS
<1>5. PICK v : v = Len(ValueCode(p, g))
  OBVIOUS
<1>6. n \in Nat \ {0} /\ v \in Nat \ {0} /\ m = n + v
  BY <1>2, <1>3, <1>5, ValuePlaced
<1>7. Pushed(p, f) = IF i > 1 /\ i <= n THEN OnStack(p[g].type, g, Len(TypeCode(p, g)), i - 1)
                     ELSE IF i > n /\ i <= m THEN OnStack(e, g, v, i - n)
                     ELSE IF i = m + 1 /\ ~Typed(p, g) THEN 1 ELSE 0
  BY <1>1, <1>2, <1>3, <1>4, <1>5 DEF Pushed
<1>8. ~Typed(p, g) /\ i = m + 1 => Pushed(p, f) = 1
  BY <1>6, <1>7
<1>9. ASSUME e.form = "sum", i > LeftEnd(p, g), i <= m
      PROVE  Pushed(p, f) = IF i > LeftEnd(p, g) + 1 THEN 2 ELSE 1
  <2>1. PICK a : a = Len(SimpleCode(e.left, FALSE, g))
    OBVIOUS
  <2>2. LeftEnd(p, g) = n + a
    BY <1>2, <1>4, <2>1 DEF LeftEnd
  <2>3. n + a \in Nat /\ n < n + a
    BY <1>2, <1>4, <1>9, <2>2, ValuePlaced
  <2>4. a \in {1, 2}
    <3>1. e.left \in SimpleExpressions
      BY <1>4, <1>9, ValuePlaces DEF LastPlaces
    <3> QED
      BY <2>1, <3>1, SimpleLast
  <2>5. i > n /\ ~(i <= n) /\ i - n # 1 /\ i - n <= v
    BY <1>6, <1>9, <2>2, <2>4
  <2>6. Pushed(p, f) = OnStack(e, g, v, i - n)
    BY <1>7, <1>9, <2>5
  <2>7. OnStack(e, g, v, i - n) = IF i - n > a + 1 THEN 2 ELSE 1
    BY <1>9, <2>1, <2>5 DEF OnStack
  <2>8. i - n > a + 1 <=> i > n + a + 1
    BY <1>6, <2>4
  <2> QED
    BY <2>2, <2>6, <2>7, <2>8
<1> QED
  BY <1>1, <1>3, <1>4, <1>8, <1>9

\* The values of a frame stay what they are where they stay.
LEMMA HoldingMoved ==
  ASSUME NEW m, NEW c, NEW m2, NEW c2, Steady(m, c, m2, c2), NEW p \in Programs, NEW f \in Frame, ~Circular(p, f[1]),
         NEW v, NEW w, NEW lo \in Nat, Holding(p, f, v, lo, m, c),
         \A k \in lo + 1 .. lo + Pushed(p, f) : w[k] = v[k]
  PROVE  Holding(p, f, w, lo, m2, c2)
<1>1. PICK g \in Globals, i \in Nat \ {0} : g = f[1] /\ i = f[2]
  BY DEF Frame
<1>2. PICK z : z = ValueEnd(p, g)
  OBVIOUS
<1>3. PICK e : e = p[g].value
  OBVIOUS
<1>4. e \in Expressions
  BY <1>3, ProgramFacts
<1>5. PICK l : l = LeftEnd(p, g)
  OBVIOUS
<1>6. /\ e.form = "sum" /\ i > l /\ i <= z => Pushed(p, f) = IF i > l + 1 THEN 2 ELSE 1
      /\ ~Typed(p, g) /\ i = z + 1 => Pushed(p, f) = 1
  BY <1>1, <1>2, <1>3, <1>5, PushedWhere
<1>7. z \in Nat /\ (e.form = "sum" => l \in Nat /\ l + 1 < z)
  BY <1>2, <1>3, <1>5, ValuePlaced
<1>8. e.form = "sum" => e.left \in SimpleExpressions /\ e.right \in SimpleExpressions
  BY <1>3, ValuePlaces DEF LastPlaces
<1>9. /\ e.form = "sum" /\ i > l /\ i <= z => Stands(v[lo + 1].is, e.left, g, m)
      /\ e.form = "sum" /\ i = z => Stands(v[lo + 2].is, e.right, g, m)
      /\ ~Typed(p, g) /\ i = z + 1 => Answers(v[lo + 1].is, e, g, m, c)
  BY <1>1, <1>2, <1>3, <1>5 DEF Holding
<1>10. ASSUME e.form = "sum", i > l, i <= z PROVE Stands(w[lo + 1].is, e.left, g, m2)
  <2>1. lo + 1 \in lo + 1 .. lo + Pushed(p, f)
    BY <1>6, <1>10
  <2>2. w[lo + 1] = v[lo + 1]
    BY <2>1
  <2>3. Stands(w[lo + 1].is, e.left, g, m)
    BY <1>9, <1>10, <2>2
  <2> QED
    BY <1>8, <1>10, <2>3, StandsStill
<1>11. ASSUME e.form = "sum", i = z PROVE Stands(w[lo + 2].is, e.right, g, m2)
  <2>1. i > l + 1 /\ i > l /\ i <= z
    BY <1>7, <1>11
  <2>2. lo + 2 \in lo + 1 .. lo + Pushed(p, f)
    BY <1>6, <1>11, <2>1
  <2>3. w[lo + 2] = v[lo + 2]
    BY <2>2
  <2>4. Stands(w[lo + 2].is, e.right, g, m)
    BY <1>9, <1>11, <2>3
  <2> QED
    BY <1>8, <1>11, <2>4, StandsStill
<1>12. ASSUME ~Typed(p, g), i = z + 1 PROVE Answers(w[lo + 1].is, e, g, m2, c2)
  <2>1. lo + 1 \in lo + 1 .. lo + Pushed(p, f)
    BY <1>6, <1>12
  <2>2. w[lo + 1] = v[lo + 1]
    BY <2>1
  <2>3. Answers(w[lo + 1].is, e, g, m, c)
    BY <1>9, <1>12, <2>2
  <2> QED
    BY <1>4, <2>3, AnswersStill
<1> QED
  BY <1>1, <1>2, <1>3, <1>5, <1>10, <1>11, <1>12 DEF Holding

\* Each frame has the values its code has pushed.
ValuesMean ==
  \A tall : Levels(prog, tall, Frames, Count, values, inits, temporaries) =>
    \A i \in 1 .. Count : Holding(prog, Frames[i], values, tall[i - 1], member, bytes)

LEMMA FramesFacts ==
  ASSUME StateKnown
  PROVE  /\ Count \in Nat /\ prog \in Programs
         /\ \A i \in 1 .. Count : Frames[i] \in Frame /\ Inside(prog, Frames[i]) /\ Frames[i][1] \in Globals
<1>1. /\ prog \in Programs /\ activations \in Seq(Frame) /\ ops \in Frame \cup {Idle}
      /\ \A i \in 1 .. Count : Inside(prog, FrameAt(i))
  BY DEF StateKnown, FramesKnown
<1>2. Count \in Nat
  BY <1>1 DEF Count
<1>3. ASSUME NEW i \in 1 .. Count PROVE Frames[i] = FrameAt(i) /\ FrameAt(i) \in Frame
  <2>1. Frames[i] = FrameAt(i)
    BY DEF Frames
  <2>2. ops # Idle
    BY <1>3 DEF Count
  <2>3. FrameAt(i) \in Frame
    BY <1>1, <2>2 DEF FrameAt
  <2> QED
    BY <2>1, <2>3
<1>4. \A f \in Frame : f[1] \in Globals
  BY DEF Frame
<1> QED
  BY <1>1, <1>2, <1>3, <1>4

\* What a step leaves of the frames below, whose values it does not touch.
LEMMA BelowKept ==
  ASSUME NEW p \in Programs, NEW a, NEW b, NEW n, NEW k, NEW v, NEW w, NEW e, NEW d, NEW t, NEW u,
         NEW tall, NEW high, Levels(p, tall, a, n, v, e, t), Levels(p, high, b, k, w, d, u),
         NEW m, NEW c, NEW m2, NEW c2, Steady(m, c, m2, c2),
         NEW z \in Nat, z <= n, z <= k,
         \A i \in 1 .. z : a[i] \in Frame /\ ~Circular(p, a[i][1]) /\ b[i] = a[i],
         \A i \in 1 .. z : Holding(p, a[i], v, tall[i - 1], m, c),
         \A j \in 1 .. tall[z] : w[j] = v[j]
  PROVE  /\ \A i \in 0 .. z : high[i] = tall[i]
         /\ \A i \in 1 .. z : Holding(p, b[i], w, high[i - 1], m2, c2)
<1>1. \A i \in 0 .. z : tall[i] = high[i]
  BY LevelsSame
<1>2. ASSUME NEW i \in 1 .. z PROVE Holding(p, b[i], w, high[i - 1], m2, c2)
  <2>1. PICK lo : lo = tall[i - 1]
    OBVIOUS
  <2>2. PICK f : f = a[i]
    OBVIOUS
  <2>3. /\ n \in Nat /\ tall \in [0 .. n -> Nat] /\ (\A x, y \in 0 .. n : x <= y => tall[x] <= tall[y])
        /\ \A x \in 1 .. n : tall[x] = tall[x - 1] + Pushed(p, a[x])
    BY DEF Levels
  <2>4. i \in 0 .. n /\ i - 1 \in 0 .. n /\ z \in 0 .. n /\ i \in 1 .. n /\ i - 1 \in 0 .. z /\ i <= z
    BY <2>3
  <2>5. lo \in Nat /\ tall[i] = lo + Pushed(p, f) /\ tall[i] \in Nat /\ tall[z] \in Nat /\ tall[i] <= tall[z]
    BY <2>1, <2>2, <2>3, <2>4
  <2>6. \A j \in lo + 1 .. lo + Pushed(p, f) : j \in 1 .. tall[z]
    BY <2>5
  <2>7. \A j \in lo + 1 .. lo + Pushed(p, f) : w[j] = v[j]
    BY <2>6
  <2>8. Holding(p, f, v, lo, m, c) /\ f \in Frame /\ ~Circular(p, f[1])
    BY <2>1, <2>2
  <2>9. Holding(p, f, w, lo, m2, c2)
    BY <2>5, <2>7, <2>8, HoldingMoved
  <2>10. b[i] = f /\ high[i - 1] = lo
    BY <1>1, <2>1, <2>2, <2>4
  <2> QED
    BY <2>9, <2>10
<1>3. \A i \in 0 .. z : high[i] = tall[i]
  BY <1>1
<1> QED
  BY <1>2, <1>3

\* The step from one state to the next, with the frames below the z-th as they
\* were, and no more than one frame above.
LEMMA MeansStep ==
  ASSUME StateKnown, Count' \in Nat, NoneCircular, ValuesKnown, ValuesMean, prog' = prog,
         Steady(member, bytes, member', bytes'),
         NEW z \in Nat, z <= Count, z <= Count', Count' <= z + 1,
         \A i \in 1 .. z : Frames'[i] = Frames[i],
         \A tall : Levels(prog, tall, Frames, Count, values, inits, temporaries) =>
            /\ \A j \in 1 .. tall[z] : values'[j] = values[j]
            /\ Count' = z + 1 => Holding(prog, Frames'[z + 1], values', tall[z], member', bytes')
  PROVE  ValuesMean'
<1>1. PICK p \in Programs : p = prog
  BY FramesFacts
<1>2. PICK a : a = Frames
  OBVIOUS
<1>3. PICK b : b = Frames'
  OBVIOUS
<1>4. PICK n : n = Count
  OBVIOUS
<1>5. PICK k : k = Count'
  OBVIOUS
<1>6. PICK v : v = values
  OBVIOUS
<1>7. PICK w : w = values'
  OBVIOUS
<1>8. PICK m : m = member
  OBVIOUS
<1>9. PICK c : c = bytes
  OBVIOUS
<1>10. PICK m2 : m2 = member'
  OBVIOUS
<1>11. PICK c2 : c2 = bytes'
  OBVIOUS
<1>12. PICK e : e = inits
  OBVIOUS
<1>13. PICK t : t = temporaries
  OBVIOUS
<1>14. PICK d : d = inits'
  OBVIOUS
<1>15. PICK u : u = temporaries'
  OBVIOUS
<1>16. PICK tall : Levels(p, tall, a, n, v, e, t)
  BY <1>1, <1>2, <1>4, <1>6, <1>12, <1>13 DEF ValuesKnown
<1>17. \A i \in 1 .. n : Holding(p, a[i], v, tall[i - 1], m, c)
  BY <1>1, <1>2, <1>4, <1>6, <1>8, <1>9, <1>12, <1>13, <1>16 DEF ValuesMean
<1>18. /\ \A j \in 1 .. tall[z] : w[j] = v[j]
       /\ k = z + 1 => Holding(p, b[z + 1], w, tall[z], m2, c2)
  BY <1>1, <1>2, <1>3, <1>4, <1>5, <1>6, <1>7, <1>10, <1>11, <1>12, <1>13, <1>16
<1>19. n \in Nat /\ k \in Nat /\ z <= n /\ z <= k /\ k <= z + 1
  <2>1. n \in Nat
    BY <1>4, FramesFacts
  <2>2. k \in Nat
    BY <1>5
  <2> QED
    BY <1>4, <1>5, <2>1, <2>2
<1>20. \A i \in 1 .. z : a[i] \in Frame /\ ~Circular(p, a[i][1]) /\ b[i] = a[i]
  <2> SUFFICES ASSUME NEW i \in 1 .. z PROVE a[i] \in Frame /\ ~Circular(p, a[i][1]) /\ b[i] = a[i]
    OBVIOUS
  <2>1. i \in 1 .. n
    BY <1>19
  <2>2. a[i] \in Frame /\ a[i][1] \in Globals
    BY <1>2, <1>4, <2>1, FramesFacts
  <2>3. ~Circular(p, a[i][1])
    BY <1>1, <2>2 DEF NoneCircular
  <2> QED
    BY <1>2, <1>3, <2>2, <2>3
<1>21. Steady(m, c, m2, c2)
  BY <1>8, <1>9, <1>10, <1>11
<1>22. ASSUME NEW high, Levels(p, high, b, k, w, d, u), NEW i \in 1 .. k
       PROVE  Holding(p, b[i], w, high[i - 1], m2, c2)
  <2>1. \A j \in 1 .. z : Holding(p, a[j], v, tall[j - 1], m, c)
    BY <1>17, <1>19
  <2>2. /\ \A j \in 0 .. z : high[j] = tall[j]
        /\ \A j \in 1 .. z : Holding(p, b[j], w, high[j - 1], m2, c2)
    BY <1>16, <1>18, <1>19, <1>20, <1>21, <1>22, <2>1, BelowKept
  <2>3. CASE i \in 1 .. z
    BY <2>2, <2>3
  <2>4. CASE i = z + 1
    <3>1. k = z + 1 /\ i - 1 = z /\ z \in 0 .. z
      BY <1>19, <2>4
    <3>2. high[z] = tall[z]
      BY <2>2, <3>1
    <3> QED
      BY <1>18, <2>4, <3>1, <3>2
  <2> QED
    BY <1>19, <2>3, <2>4
<1>23. \A high : Levels(prog', high, Frames', Count', values', inits', temporaries') =>
         \A i \in 1 .. Count' : Holding(prog', Frames'[i], values', high[i - 1], member', bytes')
  <2>1. prog' = p
    BY <1>1
  <2> QED
    BY <1>3, <1>5, <1>7, <1>10, <1>11, <1>14, <1>15, <1>22, <2>1
<1> QED
  BY <1>23 DEF ValuesMean

\* What instruction x gives, of the operands that follow lo.
Gives(x, y, v, lo, m, c) ==
  /\ x.op \in {"literal", "import"} => y = Object(x.op, x.of)
  /\ x.op \in Loads => y = At(x.of) /\ ~m[x.of].pending
  /\ x.op = "sum" => y = SumOf(ReadFrom(v[lo + 1].is, c), ReadFrom(v[lo + 2].is, c))

LEMMA LeavesStands ==
  ASSUME NEW e \in SimpleExpressions, NEW g \in Globals, NEW x, NEW y, NEW v, NEW lo, NEW m, NEW c,
         Leaves(x, e, g), Gives(x, y, v, lo, m, c)
  PROVE  Stands(y, e, g, m)
<1>1. CASE e.form \in Referring
  BY <1>1 DEF Leaves, Gives, Stands, Settled
<1>2. CASE e.form \notin Referring
  <2>1. e.form \in {"literal", "import"}
    BY <1>2, SimpleForms DEF Referring
  <2> QED
    BY <1>2, <2>1 DEF Leaves, Gives, Stands, Settled
<1> QED
  BY <1>1, <1>2

LEMMA NothingHeld ==
  ASSUME NEW p \in Programs, NEW f \in Frame, NEW v, NEW lo, NEW m, NEW c,
         f[2] <= Before(p, f[1]) + 1 \/ f[2] > ValueEnd(p, f[1]) + 1
  PROVE  Holding(p, f, v, lo, m, c)
<1>1. PICK g \in Globals, i \in Nat \ {0} : g = f[1] /\ i = f[2]
  BY DEF Frame
<1>2. PICK n : n = Before(p, g)
  OBVIOUS
<1>3. PICK z : z = ValueEnd(p, g)
  OBVIOUS
<1>4. PICK l : l = LeftEnd(p, g)
  OBVIOUS
<1>5. PICK e : e = p[g].value
  OBVIOUS
<1>6. PICK k : k = Len(ValueCode(p, g))
  OBVIOUS
<1>7. n \in Nat /\ z \in Nat /\ z = n + k /\ k \in Nat \ {0} /\ (e.form = "sum" => l \in Nat /\ n < l /\ l + 1 < z)
  BY <1>2, <1>3, <1>4, <1>5, <1>6, ValuePlaced
<1>8. i <= n + 1 \/ i > z + 1
  BY <1>1, <1>2, <1>3
<1>9. ~(e.form = "sum" /\ i > l /\ i <= z) /\ ~(e.form = "sum" /\ i = z) /\ i # z + 1
  BY <1>7, <1>8
<1> QED
  BY <1>1, <1>3, <1>4, <1>5, <1>9 DEF Holding

\* An instruction of a value's code finds its operands and leaves its value.
LEMMA HeldNext ==
  ASSUME NEW p \in Programs, NEW g \in Globals, NEW i \in Nat, ~Circular(p, g),
         i > Before(p, g), i <= ValueEnd(p, g),
         NEW v, NEW lo \in Nat, NEW m, NEW c, NEW y,
         Holding(p, <<g, i>>, v, lo, m, c), Gives(Code(p, g)[i], y, v, lo, m, c)
  PROVE  /\ i = ValueEnd(p, g) => Answers(y, p[g].value, g, m, c)
         /\ \A w : /\ i = ValueEnd(p, g) => ~Typed(p, g)
                   /\ \A j \in 1 .. lo + Pushed(p, <<g, i + 1>>) - 1 : w[j] = v[j]
                   /\ w[lo + Pushed(p, <<g, i + 1>>)].is = y
                => Holding(p, <<g, i + 1>>, w, lo, m, c)
<1>1. PICK n : n = Before(p, g)
  OBVIOUS
<1>2. PICK z : z = ValueEnd(p, g)
  OBVIOUS
<1>3. PICK l : l = LeftEnd(p, g)
  OBVIOUS
<1>4. PICK e : e = p[g].value
  OBVIOUS
<1>5. PICK s : s = ValueCode(p, g)
  OBVIOUS
<1>6. PICK k : k = Len(s)
  OBVIOUS
<1>7. n \in Nat \ {0} /\ z \in Nat /\ z = n + k /\ k \in Nat \ {0} /\ (e.form = "sum" => l \in Nat /\ n < l /\ l + 1 < z)
  BY <1>1, <1>2, <1>3, <1>4, <1>5, <1>6, ValuePlaced
<1>8. PICK x : x = Code(p, g)[i]
  OBVIOUS
<1>9. x = s[i - n] /\ i > n /\ i <= z
  <2>1. Shape(Code(p, g), p, g)
    BY CodeFacts
  <2>2. Closing(p, g) = z + 1
    BY <1>2 DEF Closing
  <2>3. i \in 1 .. Closing(p, g) + 1 /\ i \in n + 1 .. z
    BY <1>1, <1>2, <1>7, <2>2
  <2>4. Code(p, g)[i] = ValueCode(p, g)[i - n]
    BY <1>1, <1>2, <2>1, <2>3 DEF Shape
  <2> QED
    BY <1>1, <1>2, <1>5, <1>8, <2>4
<1>10. LastPlaces(s, e, g)
  BY <1>4, <1>5, ValuePlaces
<1>11. Gives(x, y, v, lo, m, c)
  BY <1>8
<1>12. PICK f : f = <<g, i>>
  OBVIOUS
<1>13. PICK h : h = <<g, i + 1>>
  OBVIOUS
<1>14. f \in Frame /\ h \in Frame /\ f[1] = g /\ f[2] = i /\ h[1] = g /\ h[2] = i + 1
  <2>1. i \in Nat \ {0} /\ i + 1 \in Nat \ {0}
    BY <1>7, <1>9
  <2> QED
    BY <1>12, <1>13, <2>1 DEF Frame
<1>15. PICK q : q = Pushed(p, h)
  OBVIOUS
<1>16. /\ e.form = "sum" /\ i + 1 > l /\ i + 1 <= z => q = IF i + 1 > l + 1 THEN 2 ELSE 1
       /\ ~Typed(p, g) /\ i + 1 = z + 1 => q = 1
  BY <1>2, <1>3, <1>4, <1>14, <1>15, PushedWhere
<1>17. /\ e.form = "sum" /\ i > l /\ i <= z => Stands(v[lo + 1].is, e.left, g, m)
       /\ e.form = "sum" /\ i = z => Stands(v[lo + 2].is, e.right, g, m)
  BY <1>2, <1>3, <1>4, <1>12, <1>14 DEF Holding
<1>18. ASSUME i = z PROVE Answers(y, e, g, m, c)
  <2>1. CASE e.form # "sum"
    <3>1. i - n = k
      BY <1>7, <1>18
    <3>2. Leaves(x, e, g) /\ e \in SimpleExpressions
      BY <1>6, <1>9, <1>10, <2>1, <3>1 DEF LastPlaces
    <3>3. Stands(y, e, g, m)
      BY <1>11, <3>2, LeavesStands
    <3> QED
      BY <2>1, <3>3 DEF Answers
  <2>2. CASE e.form = "sum"
    <3>1. i - n = k /\ i > l
      BY <1>7, <1>18, <2>2
    <3>2. /\ e.left \in SimpleExpressions /\ e.right \in SimpleExpressions
          /\ s[k].op = "sum"
      BY <1>6, <1>10, <2>2 DEF LastPlaces
    <3>3. x.op = "sum"
      BY <1>9, <3>1, <3>2
    <3>4. Stands(v[lo + 1].is, e.left, g, m) /\ Stands(v[lo + 2].is, e.right, g, m)
      BY <1>9, <1>17, <1>18, <2>2, <3>1
    <3>5. /\ ReadFrom(v[lo + 1].is, c) = Taken(e.left, g, c) /\ Settled(e.left, m)
          /\ ReadFrom(v[lo + 2].is, c) = Taken(e.right, g, c) /\ Settled(e.right, m)
      BY <3>2, <3>4, StandsRead
    <3>6. y = SumOf(Taken(e.left, g, c), Taken(e.right, g, c))
      BY <1>11, <3>3, <3>5 DEF Gives
    <3> QED
      BY <2>2, <3>5, <3>6 DEF Answers, AllSettled, Meaning
  <2> QED
    BY <2>1, <2>2
<1>19. ASSUME NEW w, i = z => ~Typed(p, g), \A j \in 1 .. lo + q - 1 : w[j] = v[j], w[lo + q].is = y
       PROVE  Holding(p, h, w, lo, m, c)
  <2>1. ASSUME e.form = "sum", i + 1 > l, i + 1 <= z PROVE Stands(w[lo + 1].is, e.left, g, m)
    <3>1. CASE i = l
      <4>1. q = 1
        BY <1>7, <1>16, <2>1, <3>1
      <4>2. PICK a \in {1, 2} : a = Len(SimpleCode(e.left, FALSE, g)) /\ Leaves(s[a], e.left, g)
        BY <1>10, <2>1 DEF LastPlaces
      <4>3. l = n + a
        BY <1>1, <1>3, <1>4, <4>2 DEF LeftEnd
      <4>4. i - n = a
        BY <1>7, <3>1, <4>3
      <4>5. Leaves(x, e.left, g) /\ e.left \in SimpleExpressions
        BY <1>9, <1>10, <2>1, <4>2, <4>4 DEF LastPlaces
      <4>6. Stands(y, e.left, g, m)
        BY <1>11, <4>5, LeavesStands
      <4> QED
        BY <1>19, <4>1, <4>6
    <3>2. CASE i # l
      <4>1. i > l /\ i <= z /\ i + 1 > l + 1
        BY <1>7, <2>1, <3>2
      <4>2. q = 2
        BY <1>16, <2>1, <4>1
      <4>3. lo + 1 \in 1 .. lo + q - 1
        BY <4>2
      <4> QED
        BY <1>17, <1>19, <2>1, <4>1, <4>3
    <3> QED
      BY <3>1, <3>2
  <2>2. ASSUME e.form = "sum", i + 1 = z PROVE Stands(w[lo + 2].is, e.right, g, m)
    <3>1. i + 1 > l + 1 /\ i + 1 > l /\ i + 1 <= z
      BY <1>7, <2>2
    <3>2. q = 2
      BY <1>16, <2>2, <3>1
    <3>3. PICK a \in {1, 2}, b \in {1, 2} : k = a + b + 1 /\ Leaves(s[a + b], e.right, g)
      BY <1>6, <1>10, <2>2 DEF LastPlaces
    <3>4. i - n = a + b
      <4>1. k = a + b + 1
        BY <3>3
      <4> QED
        BY <1>7, <2>2, <4>1
    <3>5. Leaves(x, e.right, g) /\ e.right \in SimpleExpressions
      BY <1>9, <1>10, <2>2, <3>3, <3>4 DEF LastPlaces
    <3>6. Stands(y, e.right, g, m)
      BY <1>11, <3>5, LeavesStands
    <3> QED
      BY <1>19, <3>2, <3>6
  <2>3. ASSUME ~Typed(p, g), i + 1 = z + 1 PROVE Answers(w[lo + 1].is, e, g, m, c)
    <3>1. i = z /\ q = 1
      BY <1>7, <1>16, <2>3
    <3> QED
      BY <1>18, <1>19, <3>1
  <2> QED
    BY <1>2, <1>3, <1>4, <1>14, <2>1, <2>2, <2>3 DEF Holding
<1> QED
  BY <1>2, <1>4, <1>13, <1>15, <1>18, <1>19

LEMMA PushedFew ==
  ASSUME NEW p, NEW f
  PROVE  Pushed(p, f) \in {0, 1, 2}
BY DEF Pushed, OnStack

\* What a typed definition has been given when its value's code has ended.
WrittenKnown ==
  ops # Idle /\ Typed(prog, ops[1]) /\ ops[2] = ValueEnd(prog, ops[1]) + 1 =>
    /\ AllSettled(prog[ops[1]].value, member)
    /\ bytes[ops[1]] = Meaning(prog[ops[1]].value, ops[1], bytes)

\* A step past an instruction, with the values of the code that runs.
LEMMA AdvanceMeans ==
  ASSUME StateKnown, NoneCircular, ValuesKnown, ValuesMean, Running, ops' = Next1, UNCHANGED <<prog, activations>>,
         Active(prog, ops) \/ ops[2] = 1, Steady(member, bytes, member', bytes'),
         NEW q \in Nat, q <= Pushed(prog, ops),
         \A k \in 1 .. Len(values) - q : values'[k] = values[k],
         \A tall : Levels(prog, tall, Frames, Count, values, inits, temporaries) =>
           Holding(prog, Next1, values', tall[Count - 1], member', bytes')
  PROVE  ValuesMean'
<1>1. /\ Count' = Count /\ Count \in Nat \ {0}
      /\ \A i \in 1 .. Count - 1 : Frames'[i] = Frames[i]
      /\ Frames[Count] = ops /\ Frames'[Count] = Next1
  BY AdvanceFrames
<1>2. PICK z : z = Count - 1
  OBVIOUS
<1>3. z \in Nat /\ z <= Count /\ z <= Count' /\ Count' <= z + 1 /\ Count' \in Nat /\ Count = z + 1
  BY <1>1, <1>2
<1>4. \A i \in 1 .. z : Frames'[i] = Frames[i]
  BY <1>1, <1>2
<1>5. ASSUME NEW tall, Levels(prog, tall, Frames, Count, values, inits, temporaries)
      PROVE  /\ \A j \in 1 .. tall[z] : values'[j] = values[j]
             /\ Count' = z + 1 => Holding(prog, Frames'[z + 1], values', tall[z], member', bytes')
  <2>1. /\ tall[Count] = Len(values) /\ Len(values) \in Nat /\ tall[Count - 1] \in Nat
        /\ tall[Count] = tall[Count - 1] + Pushed(prog, ops) /\ Pushed(prog, ops) \in Nat
    BY <1>5, CurrentPushed
  <2>2. PICK t : t = tall[Count - 1]
    OBVIOUS
  <2>3. tall[z] = t /\ t \in Nat /\ Len(values) = t + Pushed(prog, ops)
    BY <1>2, <2>1, <2>2
  <2>4. \A j \in 1 .. t : j \in 1 .. Len(values) - q
    <3>1. PICK l : l = Len(values)
      OBVIOUS
    <3>2. PICK r : r = Pushed(prog, ops)
      OBVIOUS
    <3>3. l = t + r /\ r \in Nat /\ q <= r
      BY <2>1, <2>3, <3>1, <3>2
    <3>4. \A j \in 1 .. t : j \in 1 .. l - q
      BY <2>3, <3>3
    <3> QED
      BY <3>1, <3>4
  <2>5. Holding(prog, Next1, values', t, member', bytes')
    BY <1>5, <2>2
  <2>6. Frames'[z + 1] = Next1
    BY <1>1, <1>3
  <2> QED
    BY <2>3, <2>4, <2>5, <2>6
<1> QED
  BY <1>3, <1>4, <1>5, MeansStep

\* What the instruction that runs gives.
Given(x) ==
  /\ Current.op \in {"literal", "import"} => x = Object(Current.op, Current.of)
  /\ Current.op \in Loads => x = At(Current.of) /\ ~member[Current.of].pending
  /\ Current.op = "sum" => x = SumOf(Read(Operand(2).is), Read(Operand(1).is))

\* The operands of the instruction that runs.
LEMMA CurrentGives ==
  ASSUME StateKnown, NoneCircular, Running, Current.op \in ExpressionOps,
         NEW tall, Levels(prog, tall, Frames, Count, values, inits, temporaries),
         NEW x, Given(x)
  PROVE  Gives(Current, x, values, tall[Count - 1], member, bytes)
<1>1. /\ tall[Count] = Len(values) /\ Len(values) \in Nat /\ tall[Count - 1] \in Nat
      /\ tall[Count] = tall[Count - 1] + Pushed(prog, ops) /\ Pushed(prog, ops) \in Nat
      /\ Pops(Current.op) <= Pushed(prog, ops)
  BY CurrentPushed
<1>2. PICK lo : lo = tall[Count - 1]
  OBVIOUS
<1>3. ASSUME Current.op = "sum"
      PROVE  x = SumOf(ReadFrom(values[lo + 1].is, bytes), ReadFrom(values[lo + 2].is, bytes))
  <2>1. Pops(Current.op) = 2
    BY <1>3 DEF Pops
  <2>2. Pushed(prog, ops) = 2
    BY <1>1, <2>1, PushedFew
  <2>3. Len(values) = lo + 2 /\ lo \in Nat
    BY <1>1, <1>2, <2>2
  <2>4. Len(values) + 1 - 2 = lo + 1 /\ Len(values) + 1 - 1 = lo + 2
    BY <2>3
  <2>5. Operand(2) = values[lo + 1] /\ Operand(1) = values[lo + 2]
    BY <2>4 DEF Operand
  <2> QED
    BY <1>3, <2>5 DEF Given, Read, ReadFrom
<1> QED
  BY <1>2, <1>3 DEF Given, Gives

LEMMA DeliverMeans ==
  ASSUME StateKnown, BytesKnown, ContextsKnown, NoneCircular, ValuesKnown, ValuesMean, Running,
         NEW x, NEW isTemporary \in BOOLEAN, Deliver(x, Pops(Current.op), isTemporary), Given(x),
         Current.op \in ExpressionOps \cup {"type_type"}, UNCHANGED <<prog, activations, member>>,
         Steady(member, bytes, member', bytes')
  PROVE  ValuesMean' /\ WrittenKnown'
<1>1. /\ ops # Idle /\ ops \in Frame /\ prog \in Programs /\ Placed(prog, ops, Current)
      /\ Current = Instruction(prog, ops)
  BY RunningFacts, CurrentFacts DEF StateKnown, FramesKnown
<1>2. PICK g \in Globals, i \in Nat \ {0} : ops = <<g, i>>
  BY <1>1 DEF Frame
<1>3. PICK p \in Programs : p = prog
  BY <1>1
<1>4. PICK e : e = p[g].value
  OBVIOUS
<1>5. PICK m : m = member
  OBVIOUS
<1>6. PICK c : c = bytes
  OBVIOUS
<1>7. PICK c2 : c2 = bytes'
  OBVIOUS
<1>8. PICK v : v = values
  OBVIOUS
<1>9. PICK w : w = values'
  OBVIOUS
<1>10. PICK z : z = ValueEnd(p, g)
  OBVIOUS
<1>11. PICK n : n = Before(p, g)
  OBVIOUS
<1>12. /\ n \in Nat \ {0} /\ z \in Nat /\ n < z /\ Closing(p, g) = z + 1 /\ ~Circular(p, g)
  <2>1. ~Circular(p, g)
    BY <1>3 DEF NoneCircular
  <2>2. n \in Nat \ {0} /\ z \in Nat /\ n < z
    <3>1. PICK k : k = Len(ValueCode(p, g))
      OBVIOUS
    <3>2. n \in Nat \ {0} /\ z = n + k /\ k \in Nat \ {0}
      BY <1>10, <1>11, <3>1, ValuePlaced
    <3> QED
      BY <3>2
  <2> QED
    BY <1>10, <2>1, <2>2 DEF Closing
<1>13. i > 1 /\ i <= z /\ i # n /\ (Current.ctx <=> Typed(p, g) /\ i = z)
  <2>1. Active(prog, ops) /\ ops[2] # Closing(prog, ops[1]) /\ ops[2] # Before(prog, ops[1])
    BY <1>1 DEF Placed
  <2>2. i > 1 /\ i <= z + 1 /\ i # z + 1 /\ i # n
    BY <1>2, <1>3, <1>11, <1>12, <2>1 DEF Active
  <2>3. Current.ctx <=> Typed(p, g) /\ i = z
    BY <1>1, <1>2, <1>3, <1>10 DEF Placed
  <2> QED
    BY <1>12, <2>2, <2>3
<1>14. Next1 = <<g, i + 1>> /\ ops' = <<g, i + 1>> /\ <<g, i + 1>> \in Frame
  BY <1>2 DEF Deliver, Next1, Frame
<1>15. PICK q : q = Pops(Current.op)
  OBVIOUS
<1>16. PICK tall : Levels(prog, tall, Frames, Count, values, inits, temporaries)
  BY DEF ValuesKnown
<1>17. PICK lo : lo = tall[Count - 1]
  OBVIOUS
<1>18. /\ Len(v) \in Nat /\ lo \in Nat /\ Len(v) = lo + Pushed(p, <<g, i>>) /\ Pushed(p, <<g, i>>) \in Nat
       /\ q \in Nat /\ q <= Pushed(p, <<g, i>>)
       /\ Pushed(p, <<g, i + 1>>) = Pushed(p, <<g, i>>) - q + Pushes(Current)
       /\ Count \in Nat \ {0} /\ Frames[Count] = <<g, i>>
  BY <1>2, <1>3, <1>8, <1>14, <1>15, <1>16, <1>17, CurrentPushed
<1>19. PICK S : v \in Seq(S)
  BY <1>8 DEF ValuesKnown
<1>20. /\ Popped(q) \in Seq(S) /\ Len(Popped(q)) = Len(v) - q
       /\ \A k \in 1 .. Len(v) - q : Popped(q)[k] = v[k]
  <2>1. q <= Len(values) /\ values \in Seq(S)
    BY <1>8, <1>18, <1>19
  <2> QED
    BY <1>8, <1>18, <2>1, PoppedFacts
<1>21. /\ \A k \in 1 .. Len(v) - q : w[k] = v[k]
       /\ ~Current.ctx => w[Len(v) - q + 1].is = x
  <2>1. CASE Current.ctx
    <3>1. w = Popped(q)
      BY <1>9, <1>15, <2>1 DEF Deliver
    <3> QED
      BY <1>20, <2>1, <3>1
  <2>2. CASE ~Current.ctx
    <3>1. PICK y : y = Value(x, IF isTemporary THEN temporaries + 1 ELSE 0)
      OBVIOUS
    <3>2. w = Append(Popped(q), y)
      BY <1>9, <1>15, <2>2, <3>1 DEF Deliver
    <3>3. PICK r : r = Popped(q)
      OBVIOUS
    <3>4. r \in Seq(S) /\ Len(r) = Len(v) - q /\ \A k \in 1 .. Len(v) - q : r[k] = v[k]
      BY <1>20, <3>3
    <3>5. /\ Append(r, y)[Len(r) + 1] = y
          /\ \A k \in 1 .. Len(r) : Append(r, y)[k] = r[k]
      BY <3>4, AppendFacts
    <3>6. y.is = x
      BY <3>1 DEF Value
    <3> QED
      BY <3>2, <3>3, <3>4, <3>5, <3>6
  <2> QED
    BY <2>1, <2>2
<1>22. Steady(m, c, m, c2) /\ member' = m
  BY <1>5, <1>6, <1>7
<1>23. Holding(p, <<g, i>>, v, lo, m, c)
  <2>1. \A j \in 1 .. Count : Holding(prog, Frames[j], values, tall[j - 1], member, bytes)
    BY <1>16 DEF ValuesMean
  <2>2. Count \in 1 .. Count
    BY <1>18
  <2>3. Holding(prog, Frames[Count], values, tall[Count - 1], member, bytes)
    BY <2>1, <2>2
  <2> QED
    BY <1>3, <1>5, <1>6, <1>8, <1>17, <1>18, <2>3
<1>24. ASSUME i > n
       PROVE  Gives(Code(p, g)[i], x, v, lo, m, c)
  <2>1. Current.op \in ExpressionOps
    <3>1. Shape(Code(p, g), p, g)
      BY CodeFacts
    <3>2. i \in 1 .. Closing(p, g) + 1 /\ i \in Before(p, g) + 1 .. ValueEnd(p, g)
      BY <1>10, <1>11, <1>12, <1>13, <1>24
    <3>3. Code(p, g)[i].op \in ExpressionOps
      BY <3>1, <3>2 DEF Shape
    <3> QED
      BY <1>1, <1>2, <1>3, <3>3 DEF Instruction
  <2>2. Gives(Current, x, values, tall[Count - 1], member, bytes)
    BY <1>16, <2>1, CurrentGives
  <2>3. Current = Code(p, g)[i]
    BY <1>1, <1>2, <1>3 DEF Instruction
  <2> QED
    BY <1>5, <1>6, <1>8, <1>17, <2>2, <2>3
<1>25. ASSUME i > n
       PROVE  /\ i = z => Answers(x, e, g, m, c)
              /\ ~Current.ctx => Holding(p, <<g, i + 1>>, w, lo, m, c)
  <2>1. /\ i = z => Answers(x, e, g, m, c)
        /\ /\ i = z => ~Typed(p, g)
           /\ \A j \in 1 .. lo + Pushed(p, <<g, i + 1>>) - 1 : w[j] = v[j]
           /\ w[lo + Pushed(p, <<g, i + 1>>)].is = x
           => Holding(p, <<g, i + 1>>, w, lo, m, c)
    BY <1>4, <1>10, <1>11, <1>12, <1>13, <1>18, <1>23, <1>24, <1>25, HeldNext
  <2>2. ASSUME ~Current.ctx PROVE Holding(p, <<g, i + 1>>, w, lo, m, c)
    <3>1. Pushes(Current) = 1
      BY <2>2 DEF Pushes
    <3>2. lo + Pushed(p, <<g, i + 1>>) = Len(v) - q + 1
      BY <1>18, <3>1
    <3>3. lo + Pushed(p, <<g, i + 1>>) - 1 = Len(v) - q
      <4>1. PICK r : r = Pushed(p, <<g, i + 1>>)
        OBVIOUS
      <4>2. PICK l : l = Len(v)
        OBVIOUS
      <4>3. r \in {0, 1, 2}
        BY <4>1, PushedFew
      <4>4. lo + r = l - q + 1 /\ lo \in Nat /\ l \in Nat /\ q \in Nat
        BY <1>18, <3>2, <4>1, <4>2
      <4>5. lo + r - 1 = l - q
        BY <4>3, <4>4
      <4> QED
        BY <4>1, <4>2, <4>5
    <3>4. i = z => ~Typed(p, g)
      BY <1>13, <2>2
    <3> QED
      BY <1>21, <2>1, <2>2, <3>2, <3>3, <3>4
  <2> QED
    BY <2>1, <2>2
<1>26. Holding(p, <<g, i + 1>>, w, lo, m, c2)
  <2>1. PICK h : h = <<g, i + 1>>
    OBVIOUS
  <2>2. h \in Frame /\ h[1] = g /\ h[2] = i + 1
    BY <1>14, <2>1
  <2>3. Holding(p, h, w, lo, m, c)
    <3>1. CASE i > n /\ ~Current.ctx
      BY <1>25, <2>1, <3>1
    <3>2. CASE ~(i > n)
      <4>1. h[2] <= Before(p, h[1]) + 1
        BY <1>11, <1>12, <2>2, <3>2
      <4> QED
        BY <2>2, <4>1, NothingHeld
    <3>3. CASE Current.ctx
      <4>1. i = z /\ Typed(p, g)
        BY <1>13, <3>3
      <4>2. ~(i + 1 <= z) /\ i + 1 # z
        BY <1>12, <4>1
      <4> QED
        BY <1>10, <2>2, <4>1, <4>2 DEF Holding
    <3> QED
      BY <3>1, <3>2, <3>3
  <2>4. ~Circular(p, h[1])
    BY <1>12, <2>2
  <2> QED
    BY <1>18, <1>22, <2>1, <2>2, <2>3, <2>4, HoldingMoved
<1>27. ValuesMean'
  <2>1. \A tl : Levels(prog, tl, Frames, Count, values, inits, temporaries) =>
           Holding(prog, Next1, values', tl[Count - 1], member', bytes')
    <3> SUFFICES ASSUME NEW tl, Levels(prog, tl, Frames, Count, values, inits, temporaries)
                 PROVE  Holding(prog, Next1, values', tl[Count - 1], member', bytes')
      OBVIOUS
    <3>1. tl[Count - 1] = lo
      <4>1. tl[Count] = Len(values) /\ tl[Count] = tl[Count - 1] + Pushed(prog, ops) /\ tl[Count - 1] \in Nat
        BY CurrentPushed
      <4>2. Len(v) = tl[Count - 1] + Pushed(p, <<g, i>>)
        BY <1>2, <1>3, <1>8, <4>1
      <4> QED
        BY <1>18, <4>1, <4>2
    <3> QED
      BY <1>3, <1>7, <1>9, <1>14, <1>22, <1>26, <3>1
  <2>2. ops' = Next1 /\ UNCHANGED <<prog, activations>>
    BY DEF Deliver
  <2>3. Active(prog, ops)
    BY <1>1 DEF Placed
  <2>4. q \in Nat /\ q <= Pushed(prog, ops) /\ \A k \in 1 .. Len(values) - q : values'[k] = values[k]
    BY <1>2, <1>3, <1>8, <1>9, <1>18, <1>21
  <2> QED
    BY <2>1, <2>2, <2>3, <2>4, AdvanceMeans
<1>28. WrittenKnown'
  <2>1. ASSUME Typed(p, g), i + 1 = z + 1
        PROVE  AllSettled(e, m) /\ c2[g] = Meaning(e, g, c2)
    <3>1. Current.ctx /\ i = z /\ i > n
      BY <1>12, <1>13, <2>1
    <3>2. Answers(x, e, g, m, c) /\ e \in Expressions
      BY <1>4, <1>25, <3>1, ProgramFacts
    <3>3. ReadFrom(x, c) = Meaning(e, g, c) /\ AllSettled(e, m)
      BY <3>2, AnswersRead
    <3>4. Meaning(e, g, c2) = Meaning(e, g, c)
      BY <1>22, <3>2, <3>3, MeaningStill
    <3>5. Last(contexts) = g
      BY <1>1, <1>2, <3>1, ContextFound
    <3>6. c2 = [c EXCEPT ![g] = Read(x)] /\ g \in DOMAIN c
      BY <1>6, <1>7, <3>1, <3>5 DEF Deliver, BytesKnown
    <3>7. Read(x) = ReadFrom(x, c)
      BY <1>6 DEF Read, ReadFrom
    <3> QED
      BY <3>3, <3>4, <3>6, <3>7
  <2>2. prog' = p /\ ops'[1] = g /\ ops'[2] = i + 1 /\ member' = m /\ bytes' = c2
    BY <1>3, <1>7, <1>14, <1>22
  <2> QED
    BY <1>4, <1>10, <2>1, <2>2 DEF WrittenKnown
<1> QED
  BY <1>27, <1>28

\* A frame at its start has no values yet.
LEMMA StartHolds ==
  ASSUME NEW p \in Programs, NEW g \in Globals, NEW v, NEW lo, NEW m, NEW c
  PROVE  Holding(p, <<g, 1>>, v, lo, m, c) /\ ValueEnd(p, g) + 1 # 1
<1>1. PICK f : f = <<g, 1>>
  OBVIOUS
<1>2. f \in Frame /\ f[1] = g /\ f[2] = 1
  BY <1>1 DEF Frame
<1>3. PICK n : n = Before(p, g)
  OBVIOUS
<1>4. PICK k : k = Len(ValueCode(p, g))
  OBVIOUS
<1>5. n \in Nat \ {0} /\ k \in Nat \ {0} /\ ValueEnd(p, g) = n + k
  BY <1>3, <1>4, ValuePlaced
<1>6. 1 <= n + 1 /\ n + k + 1 # 1
  BY <1>5
<1>7. Holding(p, f, v, lo, m, c)
  BY <1>2, <1>3, <1>6, NothingHeld
<1> QED
  BY <1>1, <1>5, <1>6, <1>7

LEMMA SuspendFrames ==
  ASSUME StateKnown, Running, NEW g \in Globals, activations' = Append(activations, ops), ops' = <<g, 1>>
  PROVE  /\ Count \in Nat \ {0} /\ Count' = Count + 1
         /\ \A i \in 1 .. Count : Frames'[i] = Frames[i]
         /\ Frames'[Count + 1] = <<g, 1>>
<1>1. PICK n : n = Count
  OBVIOUS
<1>2. PICK a : a = Frames
  OBVIOUS
<1>3. PICK b : b = Frames'
  OBVIOUS
<1>4. /\ ops # Idle /\ ops \in Frame /\ activations \in Seq(Frame) /\ n = Len(activations) + 1
      /\ n \in Nat \ {0} /\ DOMAIN activations = 1 .. n - 1
  BY <1>1, RunningFacts, CurrentFacts DEF StateKnown, FramesKnown, Count
<1>5. /\ DOMAIN activations' = 1 .. n /\ Len(activations') = n /\ activations'[n] = ops
      /\ \A i \in 1 .. n - 1 : activations'[i] = activations[i]
  BY <1>4
<1>6. Count' = n + 1
  BY <1>5 DEF Count, Idle
<1>7. PICK k : k = n + 1
  OBVIOUS
<1>8. FrameAt(k)' = ops' /\ \A i \in 1 .. n : FrameAt(i)' = FrameAt(i)
  BY <1>4, <1>5, <1>7 DEF FrameAt
<1>9. /\ \A i \in 1 .. n : a[i] = FrameAt(i)
      /\ \A i \in 1 .. n + 1 : b[i] = FrameAt(i)'
  BY <1>1, <1>2, <1>3, <1>6 DEF Frames
<1>10. k \in 1 .. n + 1 /\ \A i \in 1 .. n : i \in 1 .. n + 1
  BY <1>4, <1>7
<1>11. b[k] = <<g, 1>>
  BY <1>8, <1>9, <1>10
<1>12. ASSUME NEW i \in 1 .. n PROVE b[i] = a[i]
  <2>1. b[i] = FrameAt(i)' /\ a[i] = FrameAt(i)
    BY <1>9, <1>10
  <2> QED
    BY <1>8, <2>1
<1> QED
  BY <1>1, <1>2, <1>3, <1>4, <1>6, <1>7, <1>11, <1>12

LEMMA SuspendMeans ==
  ASSUME StateKnown, NoneCircular, ValuesKnown, ValuesMean, Running, NEW g \in Globals,
         activations' = Append(activations, ops), ops' = <<g, 1>>, UNCHANGED <<prog, values>>,
         Steady(member, bytes, member', bytes')
  PROVE  ValuesMean' /\ WrittenKnown'
<1>1. /\ Count \in Nat \ {0} /\ Count' = Count + 1
      /\ \A i \in 1 .. Count : Frames'[i] = Frames[i]
      /\ Frames'[Count + 1] = <<g, 1>>
  BY SuspendFrames
<1>2. PICK z : z = Count
  OBVIOUS
<1>3. z \in Nat /\ z <= Count /\ z <= Count' /\ Count' <= z + 1 /\ Count' \in Nat
  BY <1>1, <1>2
<1>4. Frames'[z + 1] = <<g, 1>> /\ \A i \in 1 .. z : Frames'[i] = Frames[i]
  BY <1>1, <1>2
<1>5. ASSUME NEW tall
      PROVE  /\ \A j \in 1 .. tall[z] : values'[j] = values[j]
             /\ Count' = z + 1 => Holding(prog, Frames'[z + 1], values', tall[z], member', bytes')
  BY <1>4, FramesFacts, StartHolds
<1>6. ValuesMean'
  BY <1>3, <1>4, <1>5, MeansStep
<1>7. WrittenKnown'
  <2>1. ops'[1] = g /\ ops'[2] = 1 /\ prog' = prog /\ prog \in Programs
    BY FramesFacts
  <2>2. ValueEnd(prog', ops'[1]) + 1 # ops'[2]
    BY <2>1, StartHolds
  <2> QED
    BY <2>2 DEF WrittenKnown
<1> QED
  BY <1>6, <1>7

LEMMA StartMeans ==
  ASSUME StateKnown, NoneCircular, ValuesKnown, ValuesMean, NEW g \in Globals, Evaluate(g)
  PROVE  ValuesMean' /\ WrittenKnown'
<1>1. /\ ops = Idle /\ activations = <<>> /\ ops' = <<g, 1>>
      /\ UNCHANGED <<prog, activations, values, member, bytes>>
  BY DEF Evaluate, StateKnown, FramesKnown, stacks
<1>2. Count = 0 /\ Count' = 1
  BY <1>1 DEF Count, Idle
<1>3. FrameAt(1)' = <<g, 1>>
  BY <1>1 DEF FrameAt
<1>4. Frames'[0 + 1] = <<g, 1>>
  BY <1>2, <1>3 DEF Frames
<1>5. 0 \in Nat /\ 0 <= Count /\ 0 <= Count' /\ Count' <= 0 + 1 /\ Count' \in Nat
  BY <1>2
<1>6. \A i \in 1 .. 0 : Frames'[i] = Frames[i]
  OBVIOUS
<1>7. Steady(member, bytes, member', bytes')
  BY <1>1 DEF Steady
<1>8. ASSUME NEW tall
      PROVE  /\ \A j \in 1 .. tall[0] : values'[j] = values[j]
             /\ Count' = 0 + 1 => Holding(prog, Frames'[0 + 1], values', tall[0], member', bytes')
  BY <1>1, <1>4, FramesFacts, StartHolds
<1>9. ValuesMean'
  BY <1>1, <1>5, <1>6, <1>7, <1>8, MeansStep
<1>10. WrittenKnown'
  <2>1. ops'[1] = g /\ ops'[2] = 1 /\ prog' = prog /\ prog \in Programs
    BY <1>1, FramesFacts
  <2>2. ValueEnd(prog', ops'[1]) + 1 # ops'[2]
    BY <2>1, StartHolds
  <2> QED
    BY <2>2 DEF WrittenKnown
<1> QED
  BY <1>9, <1>10

\* A frame that waits, waits in the code of its type or its value.
LEMMA WaitsInside ==
  ASSUME StateKnown, NoneCircular, NEW f \in Frame, Inside(prog, f), Instruction(prog, f).op \in Loads
  PROVE  f[2] # ValueEnd(prog, f[1]) + 1
<1>1. prog \in Programs /\ f[1] \in Globals
  BY FramesFacts DEF Frame
<1>2. Placed(prog, f, Instruction(prog, f))
  BY <1>1, PlaceFacts
<1>3. Instruction(prog, f).op \in ExpressionOps \cup {"type_type"}
  BY DEF ExpressionOps
<1>4. f[2] # Closing(prog, f[1])
  BY <1>2, <1>3 DEF Placed
<1>5. ~Circular(prog, f[1])
  BY <1>1 DEF NoneCircular
<1> QED
  BY <1>4, <1>5 DEF Closing

LEMMA EndMeans ==
  ASSUME StateKnown, NoneCircular, ValuesKnown, ValuesMean, EndCode
  PROVE  ValuesMean' /\ WrittenKnown'
<1>1. /\ Count \in Nat \ {0} /\ Count' = Count - 1 /\ ops # Idle
      /\ \A i \in 1 .. Count - 1 : Frames'[i] = Frames[i]
  BY EndFrames DEF Running
<1>2. UNCHANGED <<prog, values, member, bytes>>
  BY DEF EndCode
<1>3. PICK z : z = Count - 1
  OBVIOUS
<1>4. z \in Nat /\ z <= Count /\ z <= Count' /\ Count' <= z + 1 /\ Count' \in Nat /\ Count' # z + 1
  BY <1>1, <1>3
<1>5. \A i \in 1 .. z : Frames'[i] = Frames[i]
  BY <1>1, <1>3
<1>6. Steady(member, bytes, member', bytes')
  BY <1>2 DEF Steady
<1>7. ASSUME NEW tall
      PROVE  /\ \A j \in 1 .. tall[z] : values'[j] = values[j]
             /\ Count' = z + 1 => Holding(prog, Frames'[z + 1], values', tall[z], member', bytes')
  BY <1>2, <1>4
<1>8. ValuesMean'
  BY <1>2, <1>4, <1>5, <1>6, <1>7, MeansStep
<1>9. WrittenKnown'
  <2>1. CASE activations = <<>>
    BY <2>1 DEF EndCode, WrittenKnown
  <2>2. CASE activations # <<>>
    <3>1. PICK k : k = Len(activations)
      OBVIOUS
    <3>2. activations \in Seq(Frame) /\ k \in Nat \ {0} /\ DOMAIN activations = 1 .. k /\ Count = k + 1
      BY <1>1, <2>2, <3>1 DEF StateKnown, FramesKnown, Count
    <3>3. PICK f : f = activations[k]
      OBVIOUS
    <3>4. f \in Frame /\ k \in DOMAIN activations /\ k \in 1 .. Count /\ FrameAt(k) = f
      BY <3>2, <3>3 DEF FrameAt
    <3>5. Inside(prog, f) /\ Instruction(prog, f).op \in Loads
      BY <3>3, <3>4 DEF StateKnown, FramesKnown
    <3>6. ops' = f
      BY <2>2, <3>1, <3>3 DEF EndCode, Last
    <3>7. ops'[2] # ValueEnd(prog', ops'[1]) + 1
      BY <1>2, <3>4, <3>5, <3>6, WaitsInside
    <3> QED
      BY <3>7 DEF WrittenKnown
  <2> QED
    BY <2>1, <2>2
<1> QED
  BY <1>8, <1>9

\* An instruction of a definition that only takes its operands.
LEMMA TakeMeans ==
  ASSUME StateKnown, NoneCircular, ValuesKnown, ValuesMean, Running, ops' = Next1, UNCHANGED <<prog, activations>>,
         Current.op \in {"prepare", "alloc_typed", "alloc_untyped", "complete"},
         \A k \in 1 .. Len(values) - Pops(Current.op) : values'[k] = values[k],
         Steady(member, bytes, member', bytes')
  PROVE  ValuesMean' /\ WrittenKnown'
<1>1. ops # Idle /\ ops \in Frame /\ prog \in Programs /\ Placed(prog, ops, Current)
  BY RunningFacts, CurrentFacts DEF StateKnown, FramesKnown
<1>2. PICK g \in Globals, i \in Nat \ {0} : ops = <<g, i>>
  BY <1>1 DEF Frame
<1>3. PICK p \in Programs : p = prog
  BY <1>1
<1>4. PICK n : n = Before(p, g)
  OBVIOUS
<1>5. PICK k : k = Len(ValueCode(p, g))
  OBVIOUS
<1>6. PICK z : z = ValueEnd(p, g)
  OBVIOUS
<1>7. n \in Nat \ {0} /\ k \in Nat \ {0} /\ z = n + k
  BY <1>4, <1>5, <1>6, ValuePlaced
<1>8. Closing(p, g) = z + 1
  <2>1. ~Circular(p, g)
    BY <1>3 DEF NoneCircular
  <2> QED
    BY <1>6, <2>1 DEF Closing
<1>9. /\ i = 1 \/ i = n \/ i = z + 1
      /\ Active(prog, ops) \/ ops[2] = 1
  <2>1. CASE Current.op = "prepare"
    <3>1. ops[2] = 1
      BY <1>1, <2>1 DEF Placed
    <3> QED
      BY <1>2, <3>1
  <2>2. CASE Current.op = "alloc_typed"
    <3>1. ops[2] = Before(prog, ops[1]) /\ Active(prog, ops)
      BY <1>1, <2>2 DEF Placed
    <3> QED
      BY <1>2, <1>3, <1>4, <3>1
  <2>3. CASE Current.op \in {"alloc_untyped", "complete"}
    <3>1. ops[2] = Closing(prog, ops[1]) /\ Active(prog, ops)
      BY <1>1, <2>3 DEF Placed
    <3> QED
      BY <1>2, <1>3, <1>8, <3>1
  <2> QED
    BY <2>1, <2>2, <2>3
<1>10. (i + 1 <= n + 1 \/ i + 1 > z + 1) /\ i + 1 # z + 1
  BY <1>7, <1>9
<1>11. PICK h : h = <<g, i + 1>>
  OBVIOUS
<1>12. h \in Frame /\ h[1] = g /\ h[2] = i + 1 /\ Next1 = h
  BY <1>2, <1>11 DEF Frame, Next1
<1>13. \A v, lo, m, c : Holding(p, h, v, lo, m, c)
  BY <1>4, <1>6, <1>10, <1>12, NothingHeld
<1>14. Pops(Current.op) \in Nat /\ Pops(Current.op) <= Pushed(prog, ops)
  <2>1. PICK tall : Levels(prog, tall, Frames, Count, values, inits, temporaries)
    BY DEF ValuesKnown
  <2> QED
    BY <2>1, CurrentPushed
<1>15. PICK q : q = Pops(Current.op)
  OBVIOUS
<1>16. q \in Nat /\ q <= Pushed(prog, ops) /\ \A j \in 1 .. Len(values) - q : values'[j] = values[j]
  BY <1>14, <1>15
<1>17. \A tall : Holding(prog, Next1, values', tall[Count - 1], member', bytes')
  BY <1>3, <1>12, <1>13
<1>18. ValuesMean'
  BY <1>9, <1>16, <1>17, AdvanceMeans
<1>19. WrittenKnown'
  <2>1. ops'[1] = g /\ ops'[2] = i + 1 /\ prog' = p
    BY <1>3, <1>12
  <2>2. ops'[2] # ValueEnd(prog', ops'[1]) + 1
    BY <1>6, <1>10, <2>1
  <2> QED
    BY <2>2 DEF WrittenKnown
<1> QED
  BY <1>18, <1>19

LEMMA StillMeans ==
  ASSUME ValuesMean, WrittenKnown, UNCHANGED <<prog, ops, activations, values, inits, temporaries, member, bytes>>
  PROVE  ValuesMean' /\ WrittenKnown'
<1>1. Count' = Count /\ Frames' = Frames
  BY DEF Count, Frames, FrameAt
<1>2. ValuesMean'
  BY <1>1 DEF ValuesMean
<1>3. WrittenKnown'
  BY DEF WrittenKnown
<1> QED
  BY <1>2, <1>3

LEMMA NoneAtAll ==
  ASSUME NoneRefersToItself, StateKnown
  PROVE  NoneCircular
BY DEF NoneRefersToItself, NoneCircular, StateKnown, FramesKnown

LEMMA StepSteady ==
  ASSUME NoneRefersToItself, StateKnown, ContextsKnown, BytesKnown, [Next]_vars
  PROVE  Steady(member, bytes, member', bytes')
<1> SUFFICES ASSUME NEW h \in Globals, ~member[h].pending
             PROVE  ~member'[h].pending /\ bytes'[h] = bytes[h]
  BY DEF Steady
<1>1. ~Circular(prog, h)
  BY NoneAtAll DEF NoneCircular
<1>2. ~InProgress(h)
  BY <1>1 DEF StateKnown, FlagsKnown, TypeOK
<1>3. Kept(h)
  BY <1>2, NextKeepsCompleted
<1> QED
  BY <1>3 DEF Kept

\* No definition is loaded through an indirection type.
Direct == \A g \in Globals : member[g].value # "indirection"

LEMMA NextKeepsDirect ==
  ASSUME StateKnown, NoneCircular, Direct, [Next]_vars
  PROVE  Direct'
<1>1. ASSUME \/ member' = member
             \/ \E h : member' = [member EXCEPT ![h].value = "bytes"]
             \/ \E h : member' = [member EXCEPT ![h].initializing = TRUE]
             \/ \E h : member' = [member EXCEPT ![h] = Completed("bytes")]
             \/ \E h \in Globals : member' = [member EXCEPT ![h] = Completed(@.value)]
      PROVE  Direct'
  <2> SUFFICES ASSUME NEW g \in Globals PROVE member'[g].value # "indirection"
    BY DEF Direct
  <2>1. member \in [Globals -> Flags] /\ member[g].value # "indirection"
    BY DEF StateKnown, FlagsKnown, Direct
  <2>2. member[g] \in Flags
    BY <2>1
  <2>3. CASE member' = member
    BY <2>1, <2>3
  <2>4. ASSUME NEW h, member' = [member EXCEPT ![h].value = "bytes"] PROVE member'[g].value # "indirection"
    BY <2>1, <2>2, <2>4 DEF Flags
  <2>5. ASSUME NEW h, member' = [member EXCEPT ![h].initializing = TRUE] PROVE member'[g].value # "indirection"
    BY <2>1, <2>2, <2>5 DEF Flags
  <2>6. ASSUME NEW h, member' = [member EXCEPT ![h] = Completed("bytes")] PROVE member'[g].value # "indirection"
    BY <2>1, <2>6 DEF Completed
  <2>7. ASSUME NEW h \in Globals, member' = [member EXCEPT ![h] = Completed(@.value)]
        PROVE  member'[g].value # "indirection"
    BY <2>1, <2>7 DEF Completed
  <2> QED
    BY <1>1, <2>3, <2>4, <2>5, <2>6, <2>7
<1>2. CASE Prepare
  BY <1>1, <1>2 DEF Prepare
<1>3. CASE AllocTyped
  <2>1. Running /\ Current.op = "alloc_typed"
    BY <1>3 DEF AllocTyped, Executes
  <2>2. ~Circular(prog, Current.of)
    BY <2>1, RunningFacts DEF NoneCircular
  <2> QED
    BY <1>1, <1>3, <2>2 DEF AllocTyped
<1>4. CASE AllocUntyped
  BY <1>1, <1>4 DEF AllocUntyped
<1>5. CASE Complete
  <2>1. Running /\ Current.op = "complete" /\ ops # Idle
    BY <1>5 DEF Complete, Executes, Running
  <2>2. Active(prog, ops) /\ ops[1] \in Globals
    BY <2>1, RunningFacts, CurrentFacts DEF Placed, StateKnown
  <2>3. Last(inits).of = ops[1]
    BY <2>1, <2>2, LastEntry DEF StateKnown
  <2>4. member' = member \/ member' = [member EXCEPT ![ops[1]] = Completed(@.value)]
    BY <1>5, <2>3 DEF Complete
  <2> QED
    BY <1>1, <2>2, <2>4
<1>6. CASE member' = member
  BY <1>1, <1>6
<1> QED
  BY <1>2, <1>3, <1>4, <1>5, <1>6 DEF Next, vars, stacks, Simple, Add, LoadGlobal, LoadMember, CompleteCircular,
    EndCode, Fail, Evaluate, Return

LEMMA LoadMeans ==
  ASSUME StateKnown, BytesKnown, ContextsKnown, NoneCircular, ValuesKnown, ValuesMean, Direct,
         LoadGlobal \/ LoadMember, Steady(member, bytes, member', bytes')
  PROVE  ValuesMean' /\ WrittenKnown'
<1>1. Running /\ Current.op \in Loads /\ UNCHANGED <<prog, member, inits>>
  BY DEF LoadGlobal, LoadMember, Executes, Loads
<1>2. PICK g \in Globals : g = Current.of
  BY <1>1, RunningFacts
<1>3. CASE member[g].pending
  <2>1. Suspend(g) /\ UNCHANGED <<prog, values>>
    BY <1>2, <1>3 DEF LoadGlobal, LoadMember
  <2> QED
    BY <1>1, <2>1, SuspendMeans DEF Suspend
<1>4. CASE ~member[g].pending
  <2>1. UNCHANGED <<prog, activations, member>> /\ Deliver(Location(g), Pops(Current.op), FALSE)
    <3>1. CASE LoadGlobal
      <4>1. Current.op = "load_global" /\ Deliver(Location(g), 0, FALSE) /\ UNCHANGED activations
        BY <1>2, <1>4, <3>1 DEF LoadGlobal, Executes
      <4>2. Pops(Current.op) = 0
        BY <4>1 DEF Pops
      <4> QED
        BY <1>1, <4>1, <4>2
    <3>2. CASE LoadMember
      <4>1. Current.op = "load_member" /\ Deliver(Location(g), 1, FALSE) /\ UNCHANGED activations
        BY <1>2, <1>4, <3>2 DEF LoadMember, Executes
      <4>2. Pops(Current.op) = 1
        BY <4>1 DEF Pops
      <4> QED
        BY <1>1, <4>1, <4>2
    <3> QED
      BY <3>1, <3>2
  <2>2. Location(g) = At(g)
    BY DEF Direct, Location
  <2>3. Given(At(g))
    BY <1>1, <1>2, <1>4 DEF Given, Loads
  <2>4. Current.op \in ExpressionOps \cup {"type_type"}
    BY <1>1 DEF ExpressionOps
  <2> QED
    BY <1>1, <2>1, <2>2, <2>3, <2>4, DeliverMeans
<1> QED
  BY <1>3, <1>4

LEMMA NextKeepsMeans ==
  ASSUME StateKnown, BytesKnown, ContextsKnown, NoneCircular, ValuesKnown, ValuesMean, WrittenKnown, Direct, [Next]_vars,
         Steady(member, bytes, member', bytes')
  PROVE  ValuesMean' /\ WrittenKnown'
<1>1. CASE Simple
  <2>1. /\ Running /\ Deliver(Object(Current.op, Current.of), 0, TRUE) /\ UNCHANGED <<prog, activations, member>>
        /\ Current.op \in {"literal", "import", "type_type"}
    BY <1>1 DEF Simple
  <2>2. Pops(Current.op) = 0 /\ Current.op \in ExpressionOps \cup {"type_type"}
    BY <2>1 DEF Pops, ExpressionOps
  <2>3. Given(Object(Current.op, Current.of))
    BY <2>1 DEF Given, Loads
  <2>4. Deliver(Object(Current.op, Current.of), Pops(Current.op), TRUE)
    BY <2>1, <2>2
  <2> QED
    BY <2>1, <2>2, <2>3, <2>4, DeliverMeans
<1>2. CASE Add
  <2>1. /\ Running /\ Deliver(SumOf(Read(Operand(2).is), Read(Operand(1).is)), 2, TRUE)
        /\ UNCHANGED <<prog, activations, member>> /\ Current.op = "sum"
    BY <1>2 DEF Add, Executes
  <2>2. Pops(Current.op) = 2 /\ Current.op \in ExpressionOps \cup {"type_type"}
    BY <2>1 DEF Pops, ExpressionOps
  <2>3. Given(SumOf(Read(Operand(2).is), Read(Operand(1).is)))
    BY <2>1 DEF Given, Loads
  <2>4. Deliver(SumOf(Read(Operand(2).is), Read(Operand(1).is)), Pops(Current.op), TRUE)
    BY <2>1, <2>2
  <2> QED
    BY <2>1, <2>2, <2>3, <2>4, DeliverMeans
<1>3. CASE LoadGlobal \/ LoadMember
  BY <1>3, LoadMeans
<1>4. CASE Prepare
  <2>1. CASE member[Current.of].initializing
    <3>1. UNCHANGED <<prog, ops, activations, values, inits, temporaries, member, bytes>>
      BY <1>4, <2>1 DEF Prepare
    <3> QED
      BY <3>1, StillMeans
  <2>2. CASE ~member[Current.of].initializing
    <3>1. Running /\ Current.op = "prepare" /\ ops' = Next1 /\ UNCHANGED <<prog, activations, values>>
      BY <1>4, <2>2 DEF Prepare, Executes
    <3> QED
      BY <3>1, TakeMeans
  <2> QED
    BY <2>1, <2>2
<1>5. CASE AllocTyped \/ AllocUntyped
  <2>1. /\ Running /\ Current.op \in {"alloc_typed", "alloc_untyped"} /\ ops' = Next1
        /\ UNCHANGED <<prog, activations>>
    BY <1>5 DEF AllocTyped, AllocUntyped, Executes
  <2>2. Pops(Current.op) = 1
    BY <2>1 DEF Pops
  <2>3. values' = Popped(1)
    <3>1. CASE AllocTyped
      <4>1. ~Circular(prog, Current.of)
        BY <2>1, RunningFacts DEF NoneCircular
      <4> QED
        BY <3>1, <4>1 DEF AllocTyped
    <3>2. CASE AllocUntyped
      BY <3>2 DEF AllocUntyped
    <3> QED
      BY <1>5, <3>1, <3>2
  <2>4. PICK S : values \in Seq(S)
    BY DEF ValuesKnown
  <2>5. Len(values) - 1 \in Nat /\ Len(values) \in Nat
    <3>1. PICK tall : Levels(prog, tall, Frames, Count, values, inits, temporaries)
      BY DEF ValuesKnown
    <3> QED
      BY <2>1, <2>2, <3>1, CurrentPushed
  <2>6. \A k \in 1 .. Len(values) - 1 : values'[k] = values[k]
    <3>1. 1 \in Nat /\ 1 <= Len(values)
      BY <2>5
    <3> QED
      BY <2>3, <2>4, <3>1, PoppedFacts
  <2> QED
    BY <2>1, <2>2, <2>6, TakeMeans
<1>6. CASE CompleteCircular
  <2>1. Running /\ Current.op = "complete_circular"
    BY <1>6 DEF CompleteCircular, Executes
  <2>2. Circular(prog, ops[1]) /\ ops[1] \in Globals
    BY <2>1, RunningFacts, CurrentFacts DEF Placed, StateKnown
  <2> QED
    BY <2>2 DEF NoneCircular
<1>7. CASE Complete
  <2>1. Running /\ Current.op = "complete" /\ ops' = Next1 /\ UNCHANGED <<prog, activations, values>>
    BY <1>7 DEF Complete, Executes
  <2> QED
    BY <2>1, TakeMeans
<1>8. CASE EndCode
  BY <1>8, EndMeans
<1>9. CASE \E g \in Globals : Evaluate(g)
  BY <1>9, StartMeans
<1>10. CASE Fail \/ Return \/ UNCHANGED vars
  <2>1. UNCHANGED <<prog, ops, activations, values, inits, temporaries, member, bytes>>
    BY <1>10 DEF Fail, Return, vars, stacks
  <2> QED
    BY <2>1, StillMeans
<1> QED
  BY <1>1, <1>2, <1>3, <1>4, <1>5, <1>6, <1>7, <1>8, <1>9, <1>10 DEF Next

\* The values of the definitions when those they mention are of.
Unfolded(p, of) == [g \in Globals |-> Meaning(p[g].value, g, of)]

Unfolds(p, u, n) ==
  /\ u[0] = [g \in Globals |-> Unwritten(g)]
  /\ \A i \in 1 .. n : u[i] = Unfolded(p, u[i - 1])

LEMMA UnfoldingExists ==
  ASSUME NEW p, NEW n \in Nat
  PROVE  \E u : Unfolds(p, u, n)
<1> DEFINE Known(j) == \E u : Unfolds(p, u, j)
           S == {j \in 0 .. n : Known(j)}
<1>1. Known(0)
  <2>1. PICK f : f = [g \in Globals |-> Unwritten(g)]
    OBVIOUS
  <2>2. PICK u : u = [i \in 0 .. 0 |-> f]
    OBVIOUS
  <2>3. u[0] = f /\ 1 .. 0 = {}
    BY <2>2
  <2>4. Unfolds(p, u, 0)
    BY <2>1, <2>3 DEF Unfolds
  <2> QED
    BY <2>3, <2>4
<1>2. ASSUME NEW j \in 1 .. n, Known(j - 1) PROVE Known(j)
  <2>1. PICK k : k = j - 1
    OBVIOUS
  <2>2. PICK u : Unfolds(p, u, k)
    BY <1>2, <2>1
  <2>3. PICK f : f = Unfolded(p, u[k])
    OBVIOUS
  <2>4. PICK w : w = [i \in 0 .. j |-> IF i = j THEN f ELSE u[i]]
    OBVIOUS
  <2>5. k \in Nat /\ j = k + 1
    BY <2>1
  <2>6. w[j] = f /\ \A i \in 0 .. k : w[i] = u[i]
    BY <2>4, <2>5
  <2>7. w[0] = [g \in Globals |-> Unwritten(g)]
    <3>1. 0 \in 0 .. k
      BY <2>5
    <3>2. w[0] = u[0]
      BY <2>6, <3>1
    <3> QED
      BY <2>2, <3>2 DEF Unfolds
  <2>8. ASSUME NEW i \in 1 .. j PROVE w[i] = Unfolded(p, w[i - 1])
    <3>1. PICK h : h = i - 1
      OBVIOUS
    <3>2. h \in 0 .. k
      BY <2>5, <3>1
    <3>3. w[h] = u[h]
      BY <2>6, <3>2
    <3>4. CASE i = j
      <4>1. h = k
        BY <2>5, <3>1, <3>4
      <4> QED
        BY <2>3, <2>6, <3>1, <3>3, <3>4, <4>1
    <3>5. CASE i # j
      <4>1. i \in 1 .. k /\ i \in 0 .. k
        BY <2>5, <3>5
      <4>2. u[i] = Unfolded(p, u[i - 1])
        BY <2>2, <4>1 DEF Unfolds
      <4> QED
        BY <2>6, <3>1, <3>3, <4>1, <4>2
    <3> QED
      BY <3>4, <3>5
  <2>9. Unfolds(p, w, j)
    BY <2>7, <2>8 DEF Unfolds
  <2> QED
    BY <2>6, <2>9
<1> HIDE DEF Known
<1>3. 0 \in S /\ S \in SUBSET Nat
  BY <1>1
<1>4. \A j \in 1 .. n : j - 1 \in S => j \in S
  BY <1>2
<1>5. 0 .. n \subseteq S
  <2> HIDE DEF S
  <2> QED
    BY <1>3, <1>4, Increasing
<1>6. Known(n)
  BY <1>5
<1> QED
  BY <1>6 DEF Known

\* The meanings of a program that has no circular definition are its
\* unfolding.
LEMMA MeaningsUnfold ==
  ASSUME IsFiniteSet(Globals), NoneCircular, prog \in Programs
  PROVE  \E u : Unfolds(prog, u, Cardinality(Globals)) /\ Meanings = u[Cardinality(Globals)]
<1>1. PICK n \in Nat : n = Cardinality(Globals)
  BY FS_CardinalityType
<1>2. PICK p \in Programs : p = prog
  OBVIOUS
<1> DEFINE Step(of) ==
             [g \in Globals |->
               LET v == prog[g].value
               IN  IF v.form = "sum"
                     THEN SumOf(SimpleMeaning(v.left, g, of), SimpleMeaning(v.right, g, of))
                     ELSE SimpleMeaning(v, g, of)]
<1>3. ASSUME NEW of PROVE Step(of) = Unfolded(p, of)
  <2> SUFFICES ASSUME NEW g \in Globals
               PROVE  (LET v == prog[g].value
                       IN  IF v.form = "sum"
                             THEN SumOf(SimpleMeaning(v.left, g, of), SimpleMeaning(v.right, g, of))
                             ELSE SimpleMeaning(v, g, of))
                      = Meaning(p[g].value, g, of)
    BY DEF Unfolded
  <2>1. PICK e : e = p[g].value
    OBVIOUS
  <2>2. ASSUME NEW s \in SimpleExpressions PROVE SimpleMeaning(s, g, of) = Taken(s, g, of)
    <3>1. s.form \in Referring => s.of \in Globals
      BY SimpleForms DEF Referring
    <3>2. s.form \in Referring => ~Circular(prog, s.of)
      BY <3>1 DEF NoneCircular
    <3> QED
      BY <3>2 DEF SimpleMeaning, Taken, Referring
  <2>3. LastPlaces(ValueCode(p, g), e, g)
    BY <2>1, ValuePlaces
  <2>4. CASE e.form = "sum"
    <3>1. e.left \in SimpleExpressions /\ e.right \in SimpleExpressions
      BY <2>3, <2>4 DEF LastPlaces
    <3>2. SimpleMeaning(e.left, g, of) = Taken(e.left, g, of) /\ SimpleMeaning(e.right, g, of) = Taken(e.right, g, of)
      BY <2>2, <3>1
    <3> QED
      BY <1>2, <2>1, <2>4, <3>2 DEF Meaning
  <2>5. CASE e.form # "sum"
    <3>1. e \in SimpleExpressions
      BY <2>3, <2>5 DEF LastPlaces
    <3>2. SimpleMeaning(e, g, of) = Taken(e, g, of)
      BY <2>2, <3>1
    <3> QED
      BY <1>2, <2>1, <2>5, <3>2 DEF Meaning
  <2> QED
    BY <2>4, <2>5
<1>4. PICK u : Unfolds(p, u, n)
  BY UnfoldingExists
<1> DEFINE Is(w) == w = [i \in 0 .. n |-> IF i = 0 THEN [g \in Globals |-> Unwritten(g)] ELSE Step(w[i - 1])]
<1>5. \E w : Is(w)
  <2>1. PICK w : w = [i \in 0 .. n |-> u[i]]
    OBVIOUS
  <2>2. ASSUME NEW i \in 0 .. n
        PROVE  u[i] = IF i = 0 THEN [g \in Globals |-> Unwritten(g)] ELSE Step(w[i - 1])
    <3>1. CASE i = 0
      BY <1>4, <3>1 DEF Unfolds
    <3>2. CASE i # 0
      <4>1. i \in 1 .. n /\ i - 1 \in 0 .. n
        BY <3>2
      <4>2. u[i] = Unfolded(p, u[i - 1])
        BY <1>4, <4>1 DEF Unfolds
      <4>3. w[i - 1] = u[i - 1]
        BY <2>1, <4>1
      <4>4. Step(w[i - 1]) = Unfolded(p, w[i - 1])
        BY <1>3
      <4> HIDE DEF Step
      <4> QED
        BY <3>2, <4>2, <4>3, <4>4
    <3> QED
      BY <3>1, <3>2
  <2> HIDE DEF Step
  <2>3. Is(w)
    BY <2>1, <2>2
  <2> HIDE DEF Is
  <2> QED
    BY <2>3
<1>6. PICK w : w = CHOOSE x : Is(x)
  OBVIOUS
<1>7. Is(w)
  <2> HIDE DEF Is
  <2> QED
    BY <1>5, <1>6
<1>8. Meanings = w[n]
  BY <1>1, <1>6 DEF Meanings
<1>9. Unfolds(p, w, n)
  <2>1. w[0] = [g \in Globals |-> Unwritten(g)]
    BY <1>7
  <2>2. ASSUME NEW i \in 1 .. n PROVE w[i] = Unfolded(p, w[i - 1])
    <3>1. i \in 0 .. n /\ i # 0
      OBVIOUS
    <3>2. w[i] = Step(w[i - 1])
      <4> HIDE DEF Step
      <4> QED
        BY <1>7, <3>1
    <3> QED
      BY <1>3, <3>2
  <2> QED
    BY <2>1, <2>2 DEF Unfolds
<1> QED
  BY <1>1, <1>2, <1>8, <1>9

\* The definitions that are complete, by the flags m.
Finished(m) == {h \in Globals : ~m[h].pending}

\* What is complete has the value that an unfolding u has had since as many
\* steps as there are complete definitions.
Agree(u, m, c) ==
  \A k \in Cardinality(Finished(m)) .. Cardinality(Globals) : \A h \in Finished(m) : u[k][h] = c[h]

Ranked == \A u : Unfolds(prog, u, Cardinality(Globals)) => Agree(u, member, bytes)

LEMMA AgreeStill ==
  ASSUME NEW u, NEW m, NEW c, NEW m2, NEW c2, Steady(m, c, m2, c2), Agree(u, m, c), Finished(m2) \subseteq Finished(m)
  PROVE  Agree(u, m2, c2)
<1>1. Finished(m2) = Finished(m)
  BY DEF Finished, Steady
<1>2. \A h \in Finished(m) : c2[h] = c[h]
  BY DEF Finished, Steady
<1> QED
  BY <1>1, <1>2 DEF Agree

\* One definition more is complete, with the value that its definition gives
\* it of what was.
LEMMA AgreeNext ==
  ASSUME IsFiniteSet(Globals), NEW p \in Programs, NEW u, Unfolds(p, u, Cardinality(Globals)),
         NEW m, NEW c, NEW m2, NEW c2, Steady(m, c, m2, c2), Agree(u, m, c), NEW g \in Globals,
         Finished(m2) \subseteq Finished(m) \cup {g},
         AllSettled(p[g].value, m), c2[g] = Meaning(p[g].value, g, c)
  PROVE  Agree(u, m2, c2)
<1>1. CASE Finished(m2) \subseteq Finished(m)
  BY <1>1, AgreeStill
<1>2. CASE ~(Finished(m2) \subseteq Finished(m))
  <2>1. PICK C : C = Finished(m)
    OBVIOUS
  <2>2. PICK D : D = Finished(m2)
    OBVIOUS
  <2>3. C \subseteq Globals /\ C \subseteq D /\ g \notin C /\ D = C \cup {g}
    BY <1>2, <2>1, <2>2 DEF Finished, Steady
  <2>4. IsFiniteSet(C)
    BY <2>3, FS_Subset
  <2>5. PICK n \in Nat : n = Cardinality(Globals)
    BY FS_CardinalityType
  <2>6. PICK j \in Nat : j = Cardinality(C)
    BY <2>4, FS_CardinalityType
  <2>7. Cardinality(D) = j + 1
    BY <2>3, <2>4, <2>6, FS_AddElement
  <2>8. \A k \in j .. n : \A h \in C : u[k][h] = c[h]
    BY <2>1, <2>5, <2>6 DEF Agree
  <2>9. ASSUME NEW k \in j + 1 .. n, NEW h \in D PROVE u[k][h] = c2[h]
    <3>1. CASE h \in C
      <4>1. k \in j .. n
        OBVIOUS
      <4>2. c2[h] = c[h]
        BY <2>1, <3>1 DEF Finished, Steady
      <4> QED
        BY <2>8, <3>1, <4>1, <4>2
    <3>2. CASE h \notin C
      <4>1. h = g
        BY <2>3, <3>2
      <4>2. PICK of : of = u[k - 1]
        OBVIOUS
      <4>3. k \in 1 .. n /\ k - 1 \in j .. n
        OBVIOUS
      <4>4. u[k] = Unfolded(p, of)
        BY <2>5, <4>2, <4>3 DEF Unfolds
      <4>5. u[k][g] = Meaning(p[g].value, g, of)
        BY <4>4 DEF Unfolded
      <4>6. Steady(m, c, m, of)
        <5>1. \A x \in C : of[x] = c[x]
          BY <2>8, <4>2, <4>3
        <5> QED
          BY <2>1, <5>1 DEF Steady, Finished
      <4>7. p[g].value \in Expressions
        BY ProgramFacts
      <4>8. Meaning(p[g].value, g, of) = Meaning(p[g].value, g, c)
        BY <4>6, <4>7, MeaningStill
      <4> QED
        BY <4>1, <4>5, <4>8
    <3> QED
      BY <3>1, <3>2
  <2> QED
    BY <2>2, <2>5, <2>7, <2>9 DEF Agree
<1> QED
  BY <1>1, <1>2

\* The value that alloc_untyped takes is that of the definition.
LEMMA UntypedMeans ==
  ASSUME StateKnown, NoneCircular, ValuesKnown, ValuesMean, Running, Current.op = "alloc_untyped"
  PROVE  LET g == ops[1]
         IN  AllSettled(prog[g].value, member) /\ Read(Operand(1).is) = Meaning(prog[g].value, g, bytes)
<1>1. ops # Idle /\ ops \in Frame /\ prog \in Programs /\ Placed(prog, ops, Current)
  BY RunningFacts, CurrentFacts DEF StateKnown, FramesKnown
<1>2. PICK g \in Globals, i \in Nat \ {0} : ops = <<g, i>>
  BY <1>1 DEF Frame
<1>3. ~Circular(prog, g)
  BY DEF NoneCircular
<1>4. ~Typed(prog, g) /\ i = ValueEnd(prog, g) + 1
  BY <1>1, <1>2, <1>3 DEF Placed, Closing
<1>5. PICK tall : Levels(prog, tall, Frames, Count, values, inits, temporaries)
  BY DEF ValuesKnown
<1>6. PICK lo : lo = tall[Count - 1]
  OBVIOUS
<1>7. /\ Count \in Nat \ {0} /\ Frames[Count] = ops /\ lo \in Nat
      /\ Len(values) = lo + Pushed(prog, ops)
  BY <1>5, <1>6, CurrentPushed
<1>8. Pushed(prog, ops) = 1
  BY <1>1, <1>2, <1>3, <1>4, PushedWhere
<1>9. Operand(1) = values[lo + 1]
  <2>1. Len(values) + 1 - 1 = lo + 1
    BY <1>7, <1>8
  <2> QED
    BY <2>1 DEF Operand
<1>10. Holding(prog, ops, values, lo, member, bytes)
  <2>1. Count \in 1 .. Count
    BY <1>7
  <2> QED
    BY <1>5, <1>6, <1>7, <2>1 DEF ValuesMean
<1>11. Answers(values[lo + 1].is, prog[g].value, g, member, bytes)
  BY <1>2, <1>4, <1>10 DEF Holding
<1>12. PICK x : x = values[lo + 1].is
  OBVIOUS
<1>13. prog[g].value \in Expressions
  BY <1>1, ProgramFacts
<1>14. /\ ReadFrom(x, bytes) = Meaning(prog[g].value, g, bytes)
       /\ AllSettled(prog[g].value, member)
  BY <1>11, <1>12, <1>13, AnswersRead
<1> QED
  BY <1>2, <1>9, <1>12, <1>14 DEF Read, ReadFrom

LEMMA NextKeepsRanked ==
  ASSUME IsFiniteSet(Globals), StateKnown, BytesKnown, NoneCircular, ValuesKnown, ValuesMean, WrittenKnown, Ranked,
         [Next]_vars, Steady(member, bytes, member', bytes')
  PROVE  Ranked'
<1>1. PICK p \in Programs : p = prog
  BY FramesFacts
<1>2. PICK m : m = member
  OBVIOUS
<1>3. PICK c : c = bytes
  OBVIOUS
<1>4. PICK m2 : m2 = member'
  OBVIOUS
<1>5. PICK c2 : c2 = bytes'
  OBVIOUS
<1>6. Steady(m, c, m2, c2)
  BY <1>2, <1>3, <1>4, <1>5
<1>7. m \in [Globals -> Flags]
  BY <1>2 DEF StateKnown, FlagsKnown
<1>8. Finished(m2) \subseteq Finished(m)
      \/ \E g \in Globals : /\ Finished(m2) \subseteq Finished(m) \cup {g}
                            /\ AllSettled(p[g].value, m) /\ c2[g] = Meaning(p[g].value, g, c)
  <2>1. CASE AllocUntyped
    <3>1. Running /\ Current.op = "alloc_untyped"
      BY <2>1 DEF AllocUntyped, Executes
    <3>2. Active(prog, ops) /\ ops # Idle /\ ops[1] \in Globals
      BY <3>1, RunningFacts, CurrentFacts DEF Placed, StateKnown
    <3>3. PICK g \in Globals : g = ops[1]
      BY <3>2
    <3>4. Last(inits).of = g
      BY <3>2, <3>3, LastEntry DEF StateKnown
    <3>5. bytes' = [bytes EXCEPT ![g] = Read(Operand(1).is)] /\ member' = [member EXCEPT ![g] = Completed("bytes")]
      BY <2>1, <3>4 DEF AllocUntyped
    <3>6. AllSettled(p[g].value, m) /\ Read(Operand(1).is) = Meaning(p[g].value, g, c)
      BY <1>1, <1>2, <1>3, <3>1, <3>3, UntypedMeans
    <3>7. c2[g] = Meaning(p[g].value, g, c)
      BY <1>5, <3>5, <3>6 DEF BytesKnown
    <3>8. Finished(m2) \subseteq Finished(m) \cup {g}
      BY <1>2, <1>4, <1>7, <3>5 DEF Finished
    <3> QED
      BY <3>6, <3>7, <3>8
  <2>2. CASE Complete
    <3>1. Running /\ Current.op = "complete" /\ UNCHANGED bytes
      BY <2>2 DEF Complete, Executes
    <3>2. ops # Idle /\ Active(prog, ops) /\ ops[2] = Closing(prog, ops[1]) /\ Typed(prog, ops[1]) /\ ops[1] \in Globals
      BY <3>1, RunningFacts, CurrentFacts DEF Placed, StateKnown
    <3>3. PICK g \in Globals : g = ops[1]
      BY <3>2
    <3>4. Last(inits).of = g
      BY <3>2, <3>3, LastEntry DEF StateKnown
    <3>5. ops[2] = ValueEnd(prog, g) + 1
      BY <3>2, <3>3 DEF Closing, NoneCircular
    <3>6. AllSettled(p[g].value, m) /\ c[g] = Meaning(p[g].value, g, c)
      BY <1>1, <1>2, <1>3, <3>2, <3>3, <3>5 DEF WrittenKnown
    <3>7. member' = member \/ member' = [member EXCEPT ![g] = Completed(@.value)]
      BY <2>2, <3>4 DEF Complete
    <3>8. Finished(m2) \subseteq Finished(m) \cup {g}
      BY <1>2, <1>4, <1>7, <3>7 DEF Finished
    <3> QED
      BY <1>3, <1>5, <3>1, <3>6, <3>8
  <2>3. ASSUME \/ member' = member
               \/ \E h : member' = [member EXCEPT ![h].value = "bytes"]
               \/ \E h : member' = [member EXCEPT ![h].initializing = TRUE]
        PROVE  Finished(m2) \subseteq Finished(m)
    <3> SUFFICES ASSUME NEW g \in Globals, ~member'[g].pending PROVE ~member[g].pending
      BY <1>2, <1>4 DEF Finished
    <3>1. member \in [Globals -> Flags] /\ member[g] \in Flags
      BY <1>2, <1>7
    <3> QED
      BY <2>3, <3>1 DEF Flags
  <2>4. CASE Prepare
    BY <2>3, <2>4 DEF Prepare
  <2>5. CASE AllocTyped
    <3>1. Running /\ Current.op = "alloc_typed"
      BY <2>5 DEF AllocTyped, Executes
    <3>2. ~Circular(prog, Current.of)
      BY <3>1, RunningFacts DEF NoneCircular
    <3> QED
      BY <2>3, <2>5, <3>2 DEF AllocTyped
  <2> QED
    BY <2>1, <2>2, <2>3, <2>4, <2>5 DEF Next, vars, stacks, Simple, Add, LoadGlobal, LoadMember, CompleteCircular,
      EndCode, Fail, Evaluate, Return
<1>9. ASSUME NEW u, Unfolds(p, u, Cardinality(Globals)) PROVE Agree(u, m2, c2)
  <2>1. Agree(u, m, c)
    BY <1>1, <1>2, <1>3, <1>9 DEF Ranked
  <2> QED
    BY <1>6, <1>8, <1>9, <2>1, AgreeStill, AgreeNext
<1>10. prog' = p
  BY <1>1, ProgramKept
<1> QED
  BY <1>4, <1>5, <1>9, <1>10 DEF Ranked

MeaningKnown == Direct /\ ValuesMean /\ WrittenKnown /\ Ranked

LEMMA InitMeans ==
  ASSUME Init
  PROVE  MeaningKnown
<1>1. Count = 0 /\ ops = Idle /\ member = [g \in Globals |-> [pending |-> TRUE, initializing |-> FALSE, value |-> "none"]]
  BY DEF Init, Count
<1>2. Direct
  BY <1>1 DEF Direct
<1>3. ValuesMean
  BY <1>1 DEF ValuesMean
<1>4. WrittenKnown
  BY <1>1 DEF WrittenKnown
<1>5. Finished(member) = {}
  BY <1>1 DEF Finished
<1>6. Ranked
  BY <1>5 DEF Ranked, Agree
<1> QED
  BY <1>2, <1>3, <1>4, <1>6 DEF MeaningKnown

LEMMA KnownMeans ==
  ASSUME IsFiniteSet(Globals), StateKnown, NoneCircular, MeaningKnown
  PROVE  MeansItsDefinition
<1> SUFFICES ASSUME NEW g \in Globals, ~member[g].pending
             PROVE  /\ ~Circular(prog, g)
                    /\ member[g].value = "bytes" /\ bytes[g] = Meanings[g]
  BY DEF MeansItsDefinition
<1>1. ~Circular(prog, g)
  BY DEF NoneCircular
<1>2. member[g].value = "bytes"
  <2>1. member[g] \in Flags /\ member[g].value # "none" /\ member[g].value # "indirection"
    BY DEF StateKnown, FlagsKnown, TypeOK, MeaningKnown, Direct
  <2> QED
    BY <2>1 DEF Flags
<1>3. PICK n \in Nat : n = Cardinality(Globals)
  BY FS_CardinalityType
<1>4. PICK u : Unfolds(prog, u, n) /\ Meanings = u[n]
  BY <1>3, MeaningsUnfold, FramesFacts
<1>5. PICK C : C = Finished(member)
  OBVIOUS
<1>6. C \in SUBSET Globals /\ g \in C
  BY <1>5 DEF Finished
<1>7. IsFiniteSet(C) /\ Cardinality(C) <= n
  BY <1>3, <1>6, FS_Subset
<1>8. PICK j \in Nat : j = Cardinality(C)
  BY <1>7, FS_CardinalityType
<1>9. n \in j .. n
  BY <1>7, <1>8
<1>10. u[n][g] = bytes[g]
  BY <1>3, <1>4, <1>5, <1>6, <1>8, <1>9 DEF MeaningKnown, Ranked, Agree
<1> QED
  BY <1>1, <1>2, <1>4, <1>10

\* A definition that is complete holds what its definition means, whatever
\* suspended its code and in whatever order its dependencies were initialized,
\* for every finite set of definitions and every program in which no definition
\* refers to itself and none with a type has a member of a file as its value.
THEOREM SpecMeansItsDefinition ==
  ASSUME IsFiniteSet(Globals), NoMemberIntoContext, NoneRefersToItself
  PROVE  Spec => []MeansItsDefinition
<1> DEFINE Known == ContextsKnown /\ BytesKnown /\ ValuesKnown /\ MeaningKnown
<1>1. Init => Known
  BY InitContexts, InitValues, InitMeans DEF Init, BytesKnown
<1>2. StateKnown /\ Known /\ [Next]_vars => Known'
  <2> SUFFICES ASSUME StateKnown, ContextsKnown, BytesKnown, ValuesKnown, MeaningKnown, [Next]_vars
               PROVE  ContextsKnown' /\ BytesKnown' /\ ValuesKnown' /\ MeaningKnown'
    OBVIOUS
  <2>1. NoneCircular
    BY NoneAtAll
  <2>2. Steady(member, bytes, member', bytes')
    BY StepSteady
  <2>3. ContextsKnown' /\ BytesKnown' /\ ValuesKnown'
    BY <2>1, NextKeepsContexts, NextKeepsBytes, NextKeepsValues
  <2>4. Direct /\ ValuesMean /\ WrittenKnown /\ Ranked
    BY DEF MeaningKnown
  <2>5. Direct'
    BY <2>1, <2>4, NextKeepsDirect
  <2>6. ValuesMean' /\ WrittenKnown'
    BY <2>1, <2>2, <2>4, NextKeepsMeans
  <2>7. Ranked'
    BY <2>1, <2>2, <2>4, NextKeepsRanked
  <2> QED
    BY <2>3, <2>5, <2>6, <2>7 DEF MeaningKnown
<1>3. StateKnown /\ Known => MeansItsDefinition
  BY NoneAtAll, KnownMeans
<1> HIDE DEF Known
<1> QED
  BY <1>1, <1>2, <1>3, SpecStateKnown, PTL DEF Spec
=============================================================================
