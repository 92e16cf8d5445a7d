------------------------------- MODULE AstPool -------------------------------
(***************************************************************************)
(* The pool of syntax trees, src/core/ast_pool.cpp.  The parser pushes     *)
(* nodes in postorder, each naming only its first child; completing a tree *)
(* derives the sibling flags, threads a list through the nodes in preorder *)
(* and copies them along it, after which a node stores the distance to the *)
(* node that follows its subtree.  A position counts nodes, where the code *)
(* counts 64-bit words.                                                    *)
(***************************************************************************)
EXTENDS Integers, Sequences, FiniteSets, SequencesExt

\* MAX_AST_DEPTH
CONSTANT MaxAstDepth

ASSUME MaxAstDepth \in Nat \ {0}

\* The first child of a node that has none (AstBuilderToken::NO_CHILDREN).
NoChildren == 0

\* A node as the builder holds it.  "link" is next_sibling_offset, which the
\* code reuses: the first child, then the next node in preorder, and at last
\* the distance to the node behind the subtree.
AstNode(first, tag, name, flags) ==
  [tag |-> tag, name |-> name, flags |-> flags, link |-> first,
   leaf |-> first = NoChildren, firstSibling |-> FALSE, lastSibling |-> FALSE]

\* push_node; the token returned is the node's position, Len of the result.
PushNode(builder, first, tag, name, flags) ==
  Append(builder, AstNode(first, tag, name, flags))

-----------------------------------------------------------------------------
(* complete_ast *)

\* A node with children marks its first child through the link and its last
\* through its predecessor; the root is marked as an only child.
SetFlags(builder) ==
  LET root == Len(builder)
  IN  [i \in 1 .. root |->
        [builder[i] EXCEPT
          !.firstSibling = i = root \/ \E j \in 1 .. root : builder[j].link = i,
          !.lastSibling = i = root \/ ~builder[i + 1].leaf]]

\* A loop over 1 .. n that ends when it is done; in halves, so that the
\* recursion stays shallow however long the tree is.
Through(Round(_, _), Done(_), init, n) ==
  LET RECURSIVE go(_, _, _)
      go(acc, i, j) ==
        IF Done(acc) \/ i > j THEN acc
        ELSE IF i = j THEN Round(acc, i)
        ELSE go(go(acc, i, (i + j) \div 2), ((i + j) \div 2) + 1, j)
  IN  go(init, 1, n)

\* One round of build_traversal_list at node i.  "open" holds, per level with
\* siblings to come, the node that will precede the next sibling in preorder;
\* "last" is the last leaf of the subtree completed most recently.
Thread(acc, i) ==
  LET node  == acc.nodes[i]
      nodes == IF node.firstSibling THEN acc.nodes
               ELSE [acc.nodes EXCEPT ![Last(acc.open)].link = i]
      above == IF node.firstSibling THEN acc.open ELSE Front(acc.open)
      end   == IF node.leaf THEN i ELSE acc.last
  IN  IF node.lastSibling
      THEN [acc EXCEPT !.nodes = nodes, !.open = above, !.last = end]
      ELSE [acc EXCEPT !.nodes = nodes, !.open = Append(above, end),
                       !.panic = @ \/ Len(above) + 1 > MaxAstDepth]

BuildTraversalList(nodes) ==
  Through(Thread, LAMBDA acc : acc.panic,
          [nodes |-> nodes, open |-> <<>>, last |-> 0, panic |-> FALSE], Len(nodes))

\* The nodes whose subtree ends where a next sibling is copied: the entries of
\* the stack from the top down to the first that is not a last sibling.
Closed(ast, open) ==
  LET keep == {k \in DOMAIN open : ~ast[open[k]].lastSibling}
      top  == CHOOSE k \in keep : \A l \in keep : l <= k
  IN  top .. Len(open)

\* One round of copy_postorder_to_preorder: copy the node the list has come to
\* and, if it is a later sibling, tell the subtrees it follows where they end.
\* What is left on the stack are the nodes above it, for which there is an
\* assertion, while build_traversal_list counts only levels with siblings.
Copy(acc, dst) ==
  LET node   == acc.src[acc.at]
      closed == IF node.firstSibling THEN {} ELSE Closed(acc.ast, acc.open)
      ends   == {acc.open[k] : k \in closed}
      ast    == [i \in 1 .. Len(acc.ast) |->
                  IF i \in ends THEN [acc.ast[i] EXCEPT !.link = dst - i] ELSE acc.ast[i]]
      below  == SubSeq(acc.open, 1, Len(acc.open) - Cardinality(closed))
  IN  [acc EXCEPT !.ast = Append(ast, node), !.at = node.link,
                  !.open = Append(below, dst), !.failed = Len(below) >= MaxAstDepth]

Unfinished(ending) == [ast |-> <<>>, ending |-> ending]

\* The copy ends with the subtrees still open ending at the end of the tree.
CopyToPreorder(nodes) ==
  LET n   == Len(nodes)
      acc == Through(Copy, LAMBDA a : Len(a.ast) = n \/ a.failed,
                     [src |-> nodes, at |-> n, ast |-> <<>>, open |-> <<>>, failed |-> FALSE], n)
      ends == {acc.open[k] : k \in DOMAIN acc.open}
      ast  == [i \in 1 .. n |-> IF i \in ends THEN [acc.ast[i] EXCEPT !.link = n + 1 - i]
                                ELSE acc.ast[i]]
  IN  IF acc.failed THEN Unfinished("assertion") ELSE [ast |-> ast, ending |-> "complete"]

CompleteAst(builder) ==
  LET list == BuildTraversalList(SetFlags(builder))
  IN  IF list.panic THEN Unfinished("panic") ELSE CopyToPreorder(list.nodes)

-----------------------------------------------------------------------------
(* Reading a tree.  A node is its position in the completed sequence. *)

HasFlag(ast, node, flag) == flag \in ast[node].flags

NextSiblingOf(ast, node) == node + ast[node].link

FirstChildOf(node) == node + 1

\* The positions AstDirectChildIterator yields.
DirectChildrenOf(ast, node) ==
  LET from[c \in 1 .. Len(ast)] ==
        IF ast[c].lastSibling THEN <<c>> ELSE <<c>> \o from[NextSiblingOf(ast, c)]
  IN  IF ast[node].leaf THEN <<>> ELSE from[FirstChildOf(node)]

\* What an iteration leads to: the nodes yielded, and whether an assertion failed.
Visited(it) == [seen |-> it.seen, failed |-> it.failed]

\* Mutant: the depth to return to is kept below a first sibling only.
PreorderStepFirst(ast, it) ==
  LET node == ast[it.curr]
      seen == [it EXCEPT !.seen = Append(@, <<it.curr, it.depth>>), !.curr = @ + 1]
  IN  IF ~node.leaf
      THEN [seen EXCEPT !.depth = @ + 1,
                        !.depths = IF ~node.firstSibling THEN @ ELSE Append(@, it.depth)]
      ELSE IF ~node.lastSibling THEN seen
      ELSE IF it.depths = <<>> THEN [seen EXCEPT !.curr = 0]
      ELSE [seen EXCEPT !.depth = Last(it.depths), !.depths = Front(@)]

\* next(AstPreorderIterator*): the following node is the next in memory; the
\* stack keeps the depth to return to after a subtree with siblings to come.
\* Both it and the depth are asserted to be within bounds.
PreorderStep(ast, it) ==
  LET node == ast[it.curr]
      seen == [it EXCEPT !.seen = Append(@, <<it.curr, it.depth>>), !.curr = @ + 1]
      high == ~node.lastSibling /\ Len(it.depths) >= MaxAstDepth
  IN  IF ~node.leaf
      THEN [seen EXCEPT !.depth = @ + 1,
                        !.depths = IF node.lastSibling THEN @ ELSE Append(@, it.depth),
                        !.failed = high \/ it.depth + 1 >= MaxAstDepth]
      ELSE IF ~node.lastSibling THEN seen
      ELSE IF it.depths = <<>> THEN [seen EXCEPT !.curr = 0]
      ELSE [seen EXCEPT !.depth = Last(it.depths), !.depths = Front(@)]

\* The nodes below "node" with their depths, as preorder_ancestors_of and its
\* iterator yield them.
PreorderOf(ast, node) ==
  LET first == [curr |-> IF ast[node].leaf THEN 0 ELSE FirstChildOf(node),
                depth |-> 0, depths |-> <<>>, seen |-> <<>>, failed |-> FALSE]
  IN  Visited(Through(LAMBDA it, i : PreorderStep(ast, it),
                      LAMBDA it : it.failed \/ it.curr \notin DOMAIN ast, first, Len(ast)))

\* The chain of first children below a node, which the postorder iterator
\* pushes before it yields the innermost.
Descent(ast, node) ==
  LET down[n \in 1 .. Len(ast)] ==
        IF ast[n].leaf THEN <<n>> ELSE <<n>> \o down[FirstChildOf(n)]
  IN  down[node]

\* next(AstPostorderIterator*): yield the top, then go on to the leftmost leaf
\* of its next sibling, or up to the parent.  The depth is asserted to be
\* within bounds whenever a child is pushed.
PostorderStep(ast, it) ==
  LET top  == Last(it.stack)
      down == Descent(ast, NextSiblingOf(ast, top))
      open == Front(it.stack) \o down
      seen == [it EXCEPT !.seen = Append(@, <<top, Len(it.stack) - 1>>)]
  IN  IF ast[top].lastSibling THEN [seen EXCEPT !.stack = Front(@)]
      ELSE [seen EXCEPT !.stack = open, !.failed = Len(down) > 1 /\ Len(open) > MaxAstDepth]

\* postorder_ancestors_of asserts the bound before it pushes, for one level less.
PostorderOf(ast, node) ==
  LET stack == Tail(Descent(ast, node))
      first == [stack |-> stack, seen |-> <<>>, failed |-> Len(stack) - 2 >= MaxAstDepth]
  IN  Visited(Through(LAMBDA it, i : PostorderStep(ast, it),
                      LAMBDA it : it.failed \/ it.stack = <<>>, first, Len(ast)))

\* flat_ancestors_of: every position up to the end of the subtree.
FlatOf(ast, node) == [i \in 1 .. ast[node].link |-> node + i - 1]

-----------------------------------------------------------------------------
(* The accessors of nodes with several roles: which child plays which. *)

\* Walk the children in order, giving one to each role that is present.
Roles(ast, node, names, present) ==
  LET kids == DirectChildrenOf(ast, node)
      rank(k) == Len(SelectSeq(SubSeq(names, 1, k), LAMBDA r : r \in present))
  IN  [r \in ToSet(names) |->
        LET k == CHOOSE k \in DOMAIN names : names[k] = r
        IN  IF r \in present THEN <<kids[rank(k)]>> ELSE <<>>]

\* get_definition_info: the type flag says which of the two a child is.
DefinitionInfo(ast, node) ==
  LET kids == DirectChildrenOf(ast, node)
  IN  IF HasFlag(ast, node, "type")
      THEN [type |-> <<Head(kids)>>, value |-> Tail(kids)]
      ELSE [type |-> <<>>, value |-> IF kids = <<>> THEN <<>> ELSE <<Head(kids)>>]

\* get_if_info
IfInfo(ast, node) ==
  Roles(ast, node, <<"condition", "where", "consequent", "alternative">>,
        {"condition", "consequent"}
          \cup {r \in {"where", "alternative"} : HasFlag(ast, node, r)})

\* get_for_info
ForInfo(ast, node) ==
  Roles(ast, node, <<"condition", "step", "where", "body", "finally">>,
        {"condition", "body"} \cup {r \in {"step", "where", "finally"} : HasFlag(ast, node, r)})

\* get_foreach_info
ForEachInfo(ast, node) ==
  Roles(ast, node, <<"element", "index", "iterated", "where", "body", "finally">>,
        {"element", "iterated", "body"}
          \cup {r \in {"index", "where", "finally"} : HasFlag(ast, node, r)})

\* get_signature_info
SignatureInfo(ast, node) ==
  Roles(ast, node, <<"parameters", "return_type", "expects", "ensures">>,
        {"parameters", "return_type"}
          \cup {r \in {"expects", "ensures"} : HasFlag(ast, node, r)})

\* get_op_slice_of_info
OpSliceOfInfo(ast, node) ==
  Roles(ast, node, <<"sliced", "begin", "end">>,
        {"sliced"} \cup {r \in {"begin", "end"} : HasFlag(ast, node, r)})

=============================================================================
