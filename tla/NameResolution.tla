---------------------------- MODULE NameResolution ----------------------------
(***************************************************************************)
(* lexical_analyser.cpp: every identifier is bound to a place relative to  *)
(* its own, either a member of a scope some scopes further out, or a       *)
(* member of the closure of the function it is in; every function gets the *)
(* list of places its closure is filled from where it is constructed.      *)
(*                                                                         *)
(* Globals, traits, impls, and parameters whose type depends on an earlier *)
(* parameter are not modelled, and no definition refers to itself.         *)
(***************************************************************************)
EXTENDS EvalSyntax, FiniteSets, FiniteSetsExt

Scoped(out, rank) == [kind |-> "scoped", out |-> out, rank |-> rank]
Closed(rank) == [kind |-> "closed", rank |-> rank]

\* Ranks count from 1: a name's rank is its place in names, a closed-over
\* name's its place in closure.
EmptyScope == [names |-> <<>>, closes |-> FALSE, closure |-> <<>>]

EmptyLex == [scopes |-> <<>>, error |-> FALSE]

Top(lex) == Len(lex.scopes)

PushScope(lex, scope) == [lex EXCEPT !.scopes = Append(@, scope)]

PopScope(lex) == [lex EXCEPT !.scopes = Front(@)]

Mistake(lex) == [lex EXCEPT !.error = TRUE]

\* scope_map_add, as called for a definition or a parameter.
Define(lex, name) ==
  IF Contains(lex.scopes[Top(lex)].names, name)
    THEN Mistake(lex)
    ELSE [lex EXCEPT !.scopes[Top(lex)].names = Append(@, name)]

\* Mutant: every closure is filled from the scope that defines the name.
CloseAlwaysFromScope(lex, name, rank, scopeIndex, closeInInnermost) ==
  LET Step(acc, i) ==
        LET closure == acc.lex.scopes[i].closure
            known == {k \in DOMAIN closure : closure[k].name = name}
            entry == [name |-> name, rank |-> rank, out |-> i - scopeIndex, closed |-> FALSE]
        IN  IF ~acc.lex.scopes[i].closes THEN acc
            ELSE IF known # {} THEN [acc EXCEPT !.rank = Min(known)]
            ELSE [lex |-> [acc.lex EXCEPT !.scopes[i].closure = Append(@, entry)],
                  rank |-> Len(closure) + 1, source |-> i, closed |-> TRUE]
  IN  FoldLeft(Step, [lex |-> lex, rank |-> rank, source |-> scopeIndex, closed |-> FALSE],
               [k \in 1..(Top(lex) - scopeIndex) |-> scopeIndex + k])

\* add_name_to_closures.  The name goes into every closure from the outermost
\* to the innermost; each is filled from the one before.
AddNameToClosures(lex, name, rank, scopeIndex, closeInInnermost) ==
  LET first == IF closeInInnermost THEN scopeIndex + 1 ELSE scopeIndex
      Step(acc, i) ==
        LET closure == acc.lex.scopes[i].closure
            known == {k \in DOMAIN closure : closure[k].name = name}
            entry == [name |-> name, rank |-> acc.rank, out |-> i - acc.source,
                      closed |-> acc.closed]
        IN  IF ~acc.lex.scopes[i].closes THEN acc
            ELSE [lex |-> IF known # {} THEN acc.lex
                            ELSE [acc.lex EXCEPT !.scopes[i].closure = Append(@, entry)],
                  rank |-> IF known # {} THEN Min(known) ELSE Len(closure) + 1,
                  source |-> i, closed |-> TRUE]
  IN  FoldLeft(Step, [lex |-> lex, rank |-> rank, source |-> scopeIndex, closed |-> FALSE],
               [k \in 1..(Top(lex) - first + 1) |-> first + k - 1])

\* set_closure_list.  The closure is constructed outside the signature's scope.
ClosureList(closure) == [k \in DOMAIN closure |-> [closure[k] EXCEPT !.out = @ - 1]]

Resolved(lex, node) == [lex |-> lex, node |-> node]

ResolveIdentifier(lex, node, closeInInnermost) ==
  LET found == {i \in 1..Top(lex) : Contains(lex.scopes[i].names, node.name)}
      i == Max(found)
      rank == CHOOSE r \in DOMAIN lex.scopes[i].names : lex.scopes[i].names[r] = node.name
      closed == AddNameToClosures(lex, node.name, rank, i, closeInInnermost)
  IN  IF found = {} THEN Resolved(Mistake(lex), node)
      ELSE IF \E j \in (i + 1)..Top(lex) : lex.scopes[j].closes
        THEN Resolved(closed.lex, [node EXCEPT !.binding = Closed(closed.rank)])
        ELSE Resolved(lex, [node EXCEPT !.binding = Scoped(Top(lex) - i, rank)])

RECURSIVE Resolve(_, _, _)

\* Nothing of the result is used after an error.
RECURSIVE ResolveEach(_, _, _)
ResolveEach(lex, nodes, closeInInnermost) ==
  IF lex.error \/ nodes = <<>> THEN [lex |-> lex, nodes |-> nodes]
  ELSE LET first == Resolve(lex, Head(nodes), closeInInnermost)
           others == ResolveEach(first.lex, Tail(nodes), closeInInnermost)
       IN  [lex |-> others.lex, nodes |-> <<first.node>> \o others.nodes]

\* Signature and Func in resolve_names_rec.  No parameter depends on another,
\* so that none of their names are closed over by the signature itself; the
\* signature's scope stays for the body, with a closure of its own.
ResolveFunc(lex, node, closeInInnermost) ==
  LET signature == ResolveEach(PushScope(lex, [EmptyScope EXCEPT !.closes = TRUE]),
                               node.kids[1].kids, FALSE)
      top == Top(signature.lex)
      body == Resolve([signature.lex EXCEPT !.scopes[top].closure = <<>>],
                      node.kids[2], closeInInnermost)
  IN  Resolved(PopScope(body.lex),
               [node EXCEPT !.kids = <<[@[1] EXCEPT !.kids = signature.nodes], body.node>>,
                            !.closure = ClosureList(body.lex.scopes[top].closure)])

\* push_scope_for_node.
HasWhere(node) == node.form \in {"if", "for"} /\ node.where # NoList

ResolveOther(lex, node, closeInInnermost) ==
  LET scoped == node.form = "block" \/ HasWhere(node)
      inner == IF scoped THEN PushScope(lex, EmptyScope) ELSE lex
      where == ResolveEach(inner, IF HasWhere(node) THEN node.where ELSE <<>>, closeInInnermost)
      defined == IF node.form \in {"definition", "parameter"}
                   THEN Define(where.lex, node.name) ELSE where.lex
      kids == ResolveEach(defined, node.kids, closeInInnermost)
      resolved == [node EXCEPT !.kids = kids.nodes]
  IN  Resolved(IF scoped THEN PopScope(kids.lex) ELSE kids.lex,
               IF HasWhere(node) THEN [resolved EXCEPT !.where = where.nodes] ELSE resolved)

Resolve(lex, node, closeInInnermost) ==
  CASE node.form = "identifier" -> ResolveIdentifier(lex, node, closeInInnermost)
    [] node.form = "func" -> ResolveFunc(lex, node, closeInInnermost)
    [] OTHER -> ResolveOther(lex, node, closeInInnermost)

\* resolve_names, for one expression.
ResolveNames(node) == Resolve(EmptyLex, node, TRUE)
=============================================================================
