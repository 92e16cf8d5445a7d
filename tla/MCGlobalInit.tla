---------------------------- MODULE MCGlobalInit ----------------------------
(***************************************************************************)
(* All programs of three definitions in which x and y are defined by any   *)
(* expression over the three, with or without a type, and z is an import   *)
(* of the file itself, a literal, or refers back to x or y.                *)
(***************************************************************************)
EXTENDS GlobalInit

CONSTANTS x, y, z

MCGlobals == {x, y, z}

Names == {Global(g) : g \in MCGlobals}

Sums == {Sum(Global(x), Literal), Sum(Literal, Global(x)), Sum(Global(x), Global(y)),
         Sum(Global(y), Global(x)), Sum(Global(y), Global(z)), Sum(Literal, Global(z))}

Members == {Member(z, x), Member(z, y)}

MCExpressions == {Literal} \cup Names \cup Sums \cup Members

\* No definition refers to itself from its own type.
DefinitionsOf(g) ==
  {d \in {Definition(t, v) : t \in {NoType, Literal, Global(y)}, v \in MCExpressions} :
     d.type # NoType => g \notin Mentions(d.type)}

Third == {Definition(NoType, v) : v \in {Import, Literal, Global(x), Sum(Literal, Global(y))}}

AllPrograms ==
  {[g \in MCGlobals |-> CASE g = x -> dx [] g = y -> dy [] g = z -> dz] :
     dx \in DefinitionsOf(x), dy \in DefinitionsOf(y), dz \in Third}

SelfReferring(p, g) == g \in Mentions(p[g].value)

\* A typed definition whose value is a member of a file.
MemberIntoContext(p) ==
  \E g \in MCGlobals : p[g].value.form = "member" /\ (p[g].type # NoType \/ SelfReferring(p, g))

\* A self-referring definition that may be initialized while operands of other
\* code are on the value stack.
CircularUnderOperands(p) ==
  LET reached(h) == LET m == Mentions(p[h].value) \ {h}
                    IN  m \cup UNION {Mentions(p[k].value) : k \in m}
  IN  \E g, h \in MCGlobals :
        /\ g # h /\ SelfReferring(p, g) /\ g \in reached(h)
        /\ SelfReferring(p, h) \/ p[h].value.form = "sum"

MCPrograms == {p \in AllPrograms : ~MemberIntoContext(p) /\ ~CircularUnderOperands(p)}

MemberPrograms == {p \in AllPrograms : MemberIntoContext(p) /\ \A g \in MCGlobals : ~SelfReferring(p, g)}

CircularPrograms == {p \in AllPrograms : ~MemberIntoContext(p) /\ \E g \in MCGlobals : SelfReferring(p, g)}
=============================================================================
