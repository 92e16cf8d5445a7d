------------------------------- MODULE Evaluator -------------------------------
(***************************************************************************)
(* What an expression means, by structural recursion: names are looked up  *)
(* in an environment, a function takes copies of all that it can see with  *)
(* it, and there are no scopes, write contexts, or stacks.  This is the    *)
(* reference that compiled code is compared with.  It models no code: it   *)
(* says what README.md promises, and the order of evaluation is the order  *)
(* of the source.                                                          *)
(***************************************************************************)
EXTENDS EvalSyntax, FiniteSets, FiniteSetsExt

\* A result: a value, the variables' contents, and whether evaluation goes on,
\* failed, or is on its way out of the function.
Goes(v, store) == [is |-> v, store |-> store, stop |-> "no"]
Fails(store) == [is |-> Void, store |-> store, stop |-> "fail"]

\* A variable, its place in the store and whether it may be set.
Bind(env, x, at, mut) == (x :> [at |-> at, mut |-> mut]) @@ env

NewVariable(store) == Len(store) + 1

RECURSIVE Eval(_, _, _)

\* Then(v, store) unless r has stopped.
Then(r, Use(_, _)) == IF r.stop # "no" THEN r ELSE Use(r.is, r.store)

\* The values of several nodes.
EvalEach(nodes, env, store) ==
  FoldLeft(LAMBDA acc, n :
             Then(acc, LAMBDA vs, s : LET r == Eval(n, env, s)
                                      IN  Then(r, LAMBDA v, s2 : Goes(Append(vs, v), s2))),
           Goes(<<>>, store), nodes)

Fitting(v, type, store) ==
  IF type.tag = "type" /\ Fits(v, type.is) THEN Goes(v, store) ELSE Fails(store)

\* The environment after a definition is the result.
Define_(d, env, store) ==
  Then(EvalEach(d.kids, env, store), LAMBDA vs, s :
    IF d.typed /\ Fitting(Last(vs), vs[1], s).stop # "no" THEN Fails(s)
    ELSE Goes(Bind(env, d.name, NewVariable(s), d.mut), Append(s, Last(vs))))

DefineEach(ds, env, store) ==
  FoldLeft(LAMBDA acc, d : Then(acc, LAMBDA inner, s : Define_(d, inner, s)), Goes(env, store), ds)

\* Where a name or an element of a named array is kept; element 0 is all of it.
EvalPlace(n, env, store) ==
  IF n.form = "identifier"
    THEN Goes([at |-> env[n.name].at, element |-> 0, mut |-> env[n.name].mut], store)
    ELSE LET array == env[n.kids[1].name]
         IN  Then(Eval(n.kids[2], env, store), LAMBDA i, s :
               IF s[array.at].tag = "array" /\ i.tag = "int" /\ i.is + 1 \in DOMAIN s[array.at].is
                 THEN Goes([at |-> array.at, element |-> i.is + 1, mut |-> array.mut], s)
                 ELSE Fails(s))

ContentOf(place, s) ==
  IF place.element = 0 THEN s[place.at] ELSE s[place.at].is[place.element]

Assign(place, v, s) ==
  IF ~place.mut \/ TypeOfValue(ContentOf(place, s)) # TypeOfValue(v) THEN Fails(s)
  ELSE Goes(Void, IF place.element = 0 THEN [s EXCEPT ![place.at] = v]
                                       ELSE [s EXCEPT ![place.at].is[place.element] = v])

Sum(l, r, s) ==
  IF l.tag = "int" /\ r.tag = "int" THEN Goes(Number(l.is + r.is), s) ELSE Fails(s)

EvalSet(n, env, store) ==
  Then(EvalPlace(n.kids[1], env, store), LAMBDA place, s :
    Then(Eval(n.kids[2], env, s), LAMBDA v, s2 :
      IF n.form = "set" THEN Assign(place, v, s2)
      ELSE Then(Sum(ContentOf(place, s2), v, s2), LAMBDA sum, s3 : Assign(place, sum, s3))))

\* A sequence of items: all but the last are void.
EvalBlock(items, env, store) ==
  LET Item(acc, i) ==
        Then(acc, LAMBDA st, s :
          IF items[i].form = "definition"
            THEN Then(Define_(items[i], st.env, s), LAMBDA inner, s2 : Goes([env |-> inner, is |-> Void], s2))
            ELSE Then(Eval(items[i], st.env, s), LAMBDA v, s2 :
                   IF i < Len(items) /\ v # Void THEN Fails(s2)
                   ELSE Goes([env |-> st.env, is |-> v], s2)))
      all == FoldLeft(Item, Goes([env |-> env, is |-> Void], store), [i \in DOMAIN items |-> i])
  IN  Then(all, LAMBDA st, s : Goes(st.is, s))

\* Without an alternative, an if is void, and so must the consequent be.
EvalIf(n, env, store) ==
  Then(DefineEach(n.where, env, store), LAMBDA inner, s :
    Then(Eval(n.kids[1], inner, s), LAMBDA c, s2 :
      IF c.tag # "bool" THEN Fails(s2)
      ELSE IF c.is THEN Then(Eval(n.kids[2], inner, s2), LAMBDA v, s3 :
                          IF Len(n.kids) = 2 /\ v # Void THEN Fails(s3) ELSE Goes(v, s3))
      ELSE IF Len(n.kids) = 3 THEN Eval(n.kids[3], inner, s2) ELSE Goes(Void, s2)))

RECURSIVE EvalLoop(_, _, _)
EvalLoop(n, env, store) ==
  Then(Eval(n.kids[1], env, store), LAMBDA c, s :
    IF c.tag # "bool" THEN Fails(s)
    ELSE IF ~c.is THEN Goes(Void, s)
    ELSE Then(EvalEach(<<n.kids[3], n.kids[2]>>, env, s), LAMBDA vs, s2 :
           IF vs # <<Void, Void>> THEN Fails(s2) ELSE EvalLoop(n, env, s2)))

\* A function and the values it saw where it was written, which it cannot change.
EvalFunc(n, env, store) ==
  LET params == Front(n.kids[1].kids)
      Typed_(acc, p) ==
        Then(acc, LAMBDA ps, s : Then(EvalEach(p.kids, env, s), LAMBDA vs, s2 :
          Goes(Append(ps, [name |-> p.name, mut |-> p.mut,
                           type |-> IF p.typed THEN vs[1] ELSE TypeValue(TypeOfValue(vs[1])),
                           default |-> IF p.default THEN <<Last(vs)>> ELSE <<>>]), s2)))
  IN  Then(FoldLeft(Typed_, Goes(<<>>, store), params), LAMBDA ps, s :
        Then(Eval(Last(n.kids[1].kids), env, s), LAMBDA ret, s2 :
          IF ret.tag # "type" \/ \E i \in DOMAIN ps : ps[i].type.tag # "type" THEN Fails(s2)
          ELSE Goes([tag |-> "func", params |-> ps, ret |-> ret, body |-> n.kids[2],
                     sees |-> [x \in DOMAIN env |-> s2[env[x].at]]], s2)))

\* The argument for each parameter: a positional argument goes after the one
\* before it.  None, if an argument has no parameter, or two have the same.
ArgumentFor(params, names) ==
  LET Rank(x) == {p \in DOMAIN params : params[p].name = x}
      place[i \in 0..Len(names)] ==
        CASE i = 0 -> 0
          [] i > 0 /\ names[i] = Positional -> place[i - 1] + 1
          [] OTHER -> IF Rank(names[i]) = {} THEN 0 ELSE Min(Rank(names[i]))
      given == {place[i] : i \in DOMAIN names}
  IN  IF ~(given \subseteq DOMAIN params) \/ Cardinality(given) < Len(names) THEN <<>>
      ELSE <<[p \in DOMAIN params |-> {i \in DOMAIN names : place[i] = p}]>>

Argument(p, from, args, env, store) ==
  IF from # {} THEN Then(Eval(args[Min(from)], env, store), LAMBDA v, s : Fitting(v, p.type, s))
  ELSE IF p.default # <<>> THEN Goes(p.default[1], store) ELSE Fails(store)

\* The variables of a call: what the function saw, then its parameters.
Entered(f, vs, store) ==
  LET seen == SetToSeq(DOMAIN f.sees)
      at == [x \in DOMAIN f.sees |-> [at |-> Len(store) + Min({k \in DOMAIN seen : seen[k] = x}),
                                     mut |-> FALSE]]
      base == Len(store) + Len(seen)
      Param(env, i) == Bind(env, f.params[i].name, base + i, f.params[i].mut)
  IN  [env |-> FoldLeft(Param, at, [i \in DOMAIN vs |-> i]),
       store |-> store \o [k \in DOMAIN seen |-> f.sees[seen[k]]] \o vs]

EvalCall(n, env, store) ==
  Then(Eval(n.kids[1], env, store), LAMBDA f, s :
    IF f.tag # "func" \/ ArgumentFor(f.params, n.names) = <<>> THEN Fails(s)
    ELSE LET from == ArgumentFor(f.params, n.names)[1]
             Passed(acc, i) ==
               Then(acc, LAMBDA vs, s2 :
                 Then(Argument(f.params[i], from[i], Tail(n.kids), env, s2), LAMBDA v, s3 :
                   Goes(Append(vs, v), s3)))
         IN  Then(FoldLeft(Passed, Goes(<<>>, s), [i \in DOMAIN f.params |-> i]), LAMBDA vs, s2 :
               LET called == Entered(f, vs, s2)
                   r == Eval(f.body, called.env, called.store)
               IN  IF r.stop = "fail" THEN r ELSE Fitting(r.is, f.ret, r.store)))

EvalBinary(n, env, store) ==
  Then(EvalEach(n.kids, env, store), LAMBDA vs, s :
    CASE n.form = "add" -> Sum(vs[1], vs[2], s)
      [] n.form = "less" -> IF vs[1].tag = "int" /\ vs[2].tag = "int"
                              THEN Goes(Truth(vs[1].is < vs[2].is), s) ELSE Fails(s)
      [] n.form = "index" -> IF vs[1].tag = "array" /\ vs[2].tag = "int"
                                  /\ vs[2].is + 1 \in DOMAIN vs[1].is
                               THEN Goes(vs[1].is[vs[2].is + 1], s) ELSE Fails(s))

EvalArray(n, env, store) ==
  Then(EvalEach(n.kids, env, store), LAMBDA vs, s :
    IF \A i \in DOMAIN vs : vs[i].tag = vs[1].tag THEN Goes(ArrayValue(vs), s) ELSE Fails(s))

Eval(n, env, store) ==
  CASE n.form = "integer" -> Goes(Number(n.value), store)
    [] n.form = "type" -> Goes(TypeValue(n.type), store)
    [] n.form = "identifier" -> IF n.name \in DOMAIN env THEN Goes(store[env[n.name].at], store)
                                                         ELSE Fails(store)
    [] n.form \in {"add", "less", "index"} -> EvalBinary(n, env, store)
    [] n.form = "array" -> EvalArray(n, env, store)
    [] n.form \in {"set", "set_add"} -> EvalSet(n, env, store)
    [] n.form = "block" -> EvalBlock(n.kids, env, store)
    [] n.form = "if" -> EvalIf(n, env, store)
    [] n.form = "for" -> Then(DefineEach(n.where, env, store), LAMBDA inner, s : EvalLoop(n, inner, s))
    [] n.form = "func" -> EvalFunc(n, env, store)
    [] n.form = "call" -> EvalCall(n, env, store)
    [] n.form = "return" -> Then(Eval(n.kids[1], env, store), LAMBDA v, s :
                              [is |-> v, store |-> s, stop |-> "return"])

\* The value of a file member of a type, if one is given.
Meaning(type, value) ==
  Then(EvalEach(Append(type, value), <<>>, <<>>), LAMBDA vs, s :
    IF type = NoList THEN Goes(vs[1], s) ELSE Fitting(vs[2], vs[1], s))
=============================================================================
