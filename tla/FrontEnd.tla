------------------------------ MODULE FrontEnd ------------------------------
(***************************************************************************)
(* Parser and syntax tree pool together: a source is parsed into the       *)
(* builder and, unless an error was reported, its tree is completed, after *)
(* which the rest of the compiler reads it with iterators and accessors.   *)
(* A source is the printed form of a tree, or tokens in any order.         *)
(***************************************************************************)
EXTENDS Parser

CONSTANTS
  Programs,   \* trees of files whose printed form is parsed
  Strings     \* sequences of tokens that are parsed as the value of a definition

VARIABLES
  goal,       \* the tree that was printed, if any
  tokens,     \* the source
  result,     \* the parser when it is done, or NotParsed
  tree        \* the completed tree, or NotParsed

vars == <<goal, tokens, result, tree>>

-----------------------------------------------------------------------------
(* The language the parser is for, written the other way round: the trees  *)
(* of a program and the tokens each is printed as, with parentheses where  *)
(* the levels of the operators ask for them.  A tree's children are in     *)
(* sequences named by their role, empty where the role is not filled.      *)

Tree(tag, name, flags, of) == [tag |-> tag, name |-> name, flags |-> flags, of |-> of]

Node(tag, name, kids) == Tree(tag, name, {}, [kids |-> kids])

Defined(tag, flags, name, type, value) ==
  Tree(tag, name, flags, [type |-> type, value |-> value])

\* The flags of a node that are not implied by the roles it fills.
OwnFlags == {"mut", "pub", "eval", "proc"}

\* The tree below a node of a completed syntax tree, read with the accessors.
RECURSIVE Read(_, _)
Read(ast, node) ==
  LET tag == ast[node].tag
      roles == CASE tag \in {"Definition", "Parameter"} -> DefinitionInfo(ast, node)
                 [] tag = "If" -> IfInfo(ast, node)
                 [] tag = "For" -> ForInfo(ast, node)
                 [] tag = "ForEach" -> ForEachInfo(ast, node)
                 [] tag = "Signature" -> SignatureInfo(ast, node)
                 [] tag = "OpSliceOf" -> OpSliceOfInfo(ast, node)
                 [] OTHER -> [kids |-> DirectChildrenOf(ast, node)]
  IN  Tree(tag, ast[node].name, ast[node].flags \cap OwnFlags,
           [r \in DOMAIN roles |-> [i \in DOMAIN roles[r] |-> Read(ast, roles[r][i])]])

-----------------------------------------------------------------------------
(* Writing *)

\* How loosely a tree holds together: 0 for what is bracketed or a single
\* token, 10 for what swallows everything that follows it.
LooseLevel(t) ==
  CASE t.tag \in {"Postfix", "Call", "Member", "OpArrayIndex", "OpSliceOf"} -> 1
    [] t.tag = "Prefix" -> PrefixOp(t.name).level
    [] t.tag = "Binary" -> IF t.name = "[n]" THEN 2 ELSE LevelOf[t.name]
    [] t.tag \in {"If", "For", "ForEach", "Func", "Signature", "Catch", "Impl"} -> 10
    [] OTHER -> 0

Modifier(t, bare) ==
  (IF "eval" \in t.flags THEN <<"eval">> ELSE <<>>)
  \o (IF "pub" \in t.flags THEN <<"pub">> ELSE <<>>)
  \o (IF "mut" \in t.flags THEN <<"mut">> ELSE <<>>)
  \o (IF bare \/ t.flags \cap {"pub", "mut"} # {} THEN <<>> ELSE <<"let">>)

RECURSIVE Write(_), Separated(_, _)

\* An operand that may hold together as loosely as "level" without parentheses.
Within(t, level) ==
  IF LooseLevel(t) > level THEN <<"(">> \o Write(t) \o <<")">> ELSE Write(t)

\* A right operand: a prefix operator needs no parentheses in front of it.
RightOperand(t, level) ==
  IF LooseLevel(t) = 2 /\ (t.tag = "Prefix" \/ t.name = "[n]") THEN Write(t) ELSE Within(t, level)

\* A role that may be empty, behind its keyword.
Optional(keyword, role) == IF role = <<>> THEN <<>> ELSE keyword \o Within(Head(role), 9)

WriteDefinition(t, bare) ==
  Modifier(t, bare) \o <<t.name>> \o Optional(<<":">>, t.of.type) \o Optional(<<"=">>, t.of.value)

\* Items with commas between; definitions in some lists have no keyword.
Separated(items, bare) ==
  LET one == IF Head(items).tag \in {"Definition", "Parameter"}
             THEN WriteDefinition(Head(items), bare) ELSE Within(Head(items), 9)
  IN  IF items = <<>> THEN <<>>
      ELSE IF Len(items) = 1 THEN one ELSE one \o <<",">> \o Separated(Tail(items), bare)

RECURSIVE Juxtaposed(_)
Juxtaposed(items) == IF items = <<>> THEN <<>> ELSE Write(Head(items)) \o Juxtaposed(Tail(items))

WriteBinary(t) ==
  LET left  == t.of.kids[1]
      right == t.of.kids[2]
      level == LooseLevel(t)
  IN  IF t.name = "[n]" THEN <<"[">> \o Write(left) \o <<"]">> \o RightOperand(right, 1)
      ELSE IF level = 9 THEN Within(left, 8) \o <<t.name>> \o Within(right, 9)
      ELSE Within(left, level) \o <<t.name>> \o RightOperand(right, level - 1)

\* Postfix operators in a row pop none of each other, so that the first is
\* applied last: ".&" behind ".*" needs parentheses for its operand.
Reordered(t, operand) == operand.tag = "Postfix" /\ operand.name # t.name

\* Statements of a block: one behind another, without separators.
WriteKids(t) ==
  LET kids == t.of.kids
      last == kids[Len(kids)]
  IN  CASE t.tag \in {"Identifier", "Literal", "Leaf"} -> <<t.name>>
        [] t.tag = "ImpliedMember" -> <<".", t.name>>
        [] t.tag = "Prefix" -> <<t.name>>
             \o (IF "mut" \in t.flags THEN <<"mut">> ELSE <<>>)
             \o RightOperand(Head(kids), IF t.name \in KeywordPrefixes THEN 8 ELSE 1)
        [] t.tag = "Postfix" -> Within(Head(kids), IF Reordered(t, Head(kids)) THEN 0 ELSE 1)
                                \o <<t.name>>
        [] t.tag = "Member" -> Within(Head(kids), 1) \o <<".", t.name>>
        [] t.tag = "Binary" -> WriteBinary(t)
        [] t.tag = "Call" -> Within(Head(kids), 1) \o <<"(">> \o Separated(Tail(kids), FALSE)
                               \o <<")">>
        [] t.tag = "OpArrayIndex" -> Within(Head(kids), 1) \o <<"[">> \o Write(last) \o <<"]">>
        [] t.tag = "Catch" -> Within(Head(kids), 1) \o <<"catch">> \o
             (IF Len(kids) = 3 THEN WriteDefinition(kids[2], TRUE) \o <<"->">> ELSE <<>>)
             \o Write(last)
        [] t.tag = "Impl" -> Within(kids[1], 8) \o <<"impl">> \o Within(kids[2], 8)
             \o <<"{">> \o Juxtaposed(SubSeq(kids, 3, Len(kids))) \o <<"}">>
        [] t.tag = "Block" -> <<"{">> \o Juxtaposed(kids) \o <<"}">>
        [] t.tag = "CompositeInitializer" -> <<".{">> \o Separated(kids, FALSE) \o <<"}">>
        [] t.tag = "ArrayInitializer" -> <<".[">> \o Separated(kids, FALSE) \o <<"]">>
        [] t.tag \in {"Return", "Yield"} ->
             <<IF t.tag = "Return" THEN "return" ELSE "yield">> \o Write(Head(kids))
        [] t.tag = "Leave" -> <<"leave">>
        [] t.tag = "Func" -> Write(kids[1]) \o <<"=>">> \o Write(kids[2])
        [] t.tag \in {"Where", "Expects", "Ensures", "ParameterList", "TraitParameterList"} ->
             Separated(kids, TRUE)
        [] t.tag = "Trait" -> <<"trait", "(">> \o Write(kids[1]) \o <<")", "{">>
             \o Juxtaposed(Tail(kids)) \o <<"}">>
        [] t.tag = "File" -> Juxtaposed(kids)

LoopTail(of) ==
  Optional(<<"where">>, of.where) \o <<"do">> \o Write(Head(of.body))
  \o Optional(<<"finally">>, of.finally)

\* The consequent of an if with an alternative must not take the "else".
WriteRoles(t) ==
  LET of == t.of
  IN  CASE t.tag = "If" ->
             <<"if">> \o Write(Head(of.condition)) \o Optional(<<"where">>, of.where) \o <<"then">>
             \o Within(Head(of.consequent), IF of.alternative = <<>> THEN 10 ELSE 9)
             \o Optional(<<"else">>, of.alternative)
        [] t.tag = "For" ->
             <<"for">> \o Write(Head(of.condition)) \o Optional(<<",">>, of.step) \o LoopTail(of)
        [] t.tag = "ForEach" ->
             <<"for">> \o WriteDefinition(Head(of.element), TRUE)
             \o (IF of.index = <<>> THEN <<>>
                 ELSE <<",">> \o WriteDefinition(Head(of.index), TRUE))
             \o <<"<-">> \o Write(Head(of.iterated)) \o LoopTail(of)
        [] t.tag = "Signature" ->
             <<IF "proc" \in t.flags THEN "proc" ELSE "func", "(">> \o Write(Head(of.parameters))
             \o <<")", "->">> \o Write(Head(of.return_type))
             \o Optional(<<"expects">>, of.expects) \o Optional(<<"ensures">>, of.ensures)
        [] t.tag = "OpSliceOf" ->
             Within(Head(of.sliced), 1) \o <<"[">> \o Optional(<<>>, of.begin) \o <<"..">>
             \o Optional(<<>>, of.end) \o <<"]">>

Write(t) ==
  IF t.tag \in {"Definition", "Parameter"} THEN WriteDefinition(t, FALSE)
  ELSE IF "kids" \in DOMAIN t.of THEN WriteKids(t) ELSE WriteRoles(t)

-----------------------------------------------------------------------------
(* Parsing. *)

NotParsed == [stopped |-> FALSE, has_errors |-> TRUE, ast |-> <<>>]

Init ==
  /\ result = NotParsed /\ tree = NotParsed
  /\ \/ \E p \in Programs : goal = <<p>> /\ tokens = Write(p)
     \/ \E s \in Strings : goal = <<>> /\ tokens = <<"let", "a", "=">> \o s

\* What is left of the parser when it is done.
Left(s) == [stopped |-> s.stopped, has_errors |-> s.has_errors, builder |-> s.builder]

\* parse, up to where parse_file returns
DoParse ==
  /\ result = NotParsed
  /\ result' = Left(Parse(tokens))
  /\ UNCHANGED <<goal, tokens, tree>>

\* The rest of parse: a tree is completed only when there were no errors.
DoComplete ==
  /\ result # NotParsed /\ ~result.has_errors /\ tree = NotParsed
  /\ tree' = CompleteAst(result.builder)
  /\ UNCHANGED <<goal, tokens, result>>

Next == DoParse \/ DoComplete

Spec == Init /\ [][Next]_vars

-----------------------------------------------------------------------------
(* Properties *)

Complete == tree # NotParsed /\ tree.ending = "complete"

RECURSIVE Levels(_)
Levels(t) == 1 + Max({0} \cup UNION {{Levels(kid) : kid \in ToSet(t.of[role])} : role \in DOMAIN t.of})

\* The printed form of a tree is parsed without an error, and the tree read
\* from the pool, every role through its accessor, is the one printed:
\* operators group by level and associativity, clauses and children keep their
\* order and their roles, through the parser's stacks, the builder's links and
\* the copy to preorder.  Only a tree of too many levels does not get there.
ParsesBack ==
  goal # <<>> =>
    /\ result = NotParsed \/ ~result.has_errors
    /\ tree # NotParsed => (Complete <=> Levels(Head(goal)) <= MaxAstDepth)
    /\ Complete => Read(tree.ast, 1) = Head(goal)

\* A keyword operator in the right operand of one that binds tighter makes the
\* parser complete the tighter one with the operands it finds.
KeywordInside(s) ==
  \E i \in DOMAIN s : \E j \in 1 .. i - 1 :
     /\ s[i] \in KeywordPrefixes
     /\ s[j] \in (DOMAIN LevelOf \cup PrefixTokens) \ (AssignTokens \cup KeywordPrefixes \cup {"("})

Parenless(s) == SelectSeq(s, LAMBDA tok : tok \notin {"(", ")"})

\* No accepted source loses, adds or reorders a token, whatever its tokens are:
\* the tree prints as the source up to its parentheses, and exactly as the
\* source when that has none and no catch, which is always written with them.
TokensKept ==
  (Complete /\ goal = <<>> /\ ~KeywordInside(tokens)) =>
    LET printed == Write(Read(tree.ast, 1))
    IN  /\ Parenless(printed) = Parenless(tokens)
        /\ {"(", ")", "catch"} \cap ToSet(tokens) = {} => printed = tokens

\* The nodes below a node with their depths, in the two orders, as the
\* children lists define them.
RECURSIVE Below(_, _, _, _)
Below(ast, node, depth, post) ==
  LET kids == DirectChildrenOf(ast, node)
      each == [i \in DOMAIN kids |->
                LET inner == Below(ast, kids[i], depth + 1, post)
                IN  IF post THEN Append(inner, <<kids[i], depth>>) ELSE <<<<kids[i], depth>>>> \o inner]
  IN  FlattenSeq(each)

\* The iterators of the pool, which keep a stack of depths or of offsets and
\* no parents, visit every node of a tree that was completed once, in their
\* order and with its depth, and none of their assertions about depth fails.
Traversals ==
  Complete =>
    /\ PreorderOf(tree.ast, 1) = [seen |-> Below(tree.ast, 1, 0, FALSE), failed |-> FALSE]
    /\ PostorderOf(tree.ast, 1) = [seen |-> Below(tree.ast, 1, 0, TRUE), failed |-> FALSE]
    /\ \A n \in DOMAIN tree.ast :
         Len(FlatOf(tree.ast, n)) = 1 + Len(Below(tree.ast, n, 0, FALSE))
=============================================================================
