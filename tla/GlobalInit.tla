------------------------------ MODULE GlobalInit ------------------------------
(***************************************************************************)
(* Initialization of global definitions on first use: the code that        *)
(* opcode_pool.cpp emits for a definition of a file, run by the stack      *)
(* machine of interpreter.cpp on the member flags of type_pool.cpp.        *)
(*                                                                         *)
(* A global that is loaded before it is complete suspends the loading      *)
(* instruction, runs the global's own code on the same stacks, and then    *)
(* repeats the load.  Types are not modelled: wherever the code checks     *)
(* one, the step may also fail.                                            *)
(***************************************************************************)
EXTENDS Integers, Sequences, FiniteSets, SequencesExt

CONSTANTS
  Globals,    \* the definitions of all files
  Programs,   \* each a function from Globals to definitions
  Depth       \* entries that interp.activations has memory for

ASSUME DepthAssumption == Depth \in Nat

-----------------------------------------------------------------------------
(* Definitions: let <global> : <type> = <value>.  The expressions are      *)
(* those that matter to initialization: a literal, an imported file, a     *)
(* global by name, a global as a member of an imported file, and a binary  *)
(* operation.                                                              *)

Literal == [form |-> "literal"]
Import == [form |-> "import"]
Global(g) == [form |-> "global", of |-> g]
Member(f, g) == [form |-> "member", via |-> f, of |-> g]
Sum(l, r) == [form |-> "sum", left |-> l, right |-> r]

NoType == [form |-> "none"]

Definition(t, v) == [type |-> t, value |-> v]

SimpleMentions(e) == CASE e.form = "global" -> {e.of}
                       [] e.form = "member" -> {e.via, e.of}
                       [] OTHER -> {}

Mentions(e) == IF e.form = "sum"
                 THEN SimpleMentions(e.left) \cup SimpleMentions(e.right)
                 ELSE SimpleMentions(e)

Mentioned(p, g) == Mentions(p[g].type) \cup Mentions(p[g].value)

\* Definition_HasSelfReference.  The front end refuses a reference to the
\* definition from its own type.
Circular(p, g) == g \in Mentions(p[g].value)

Typed(p, g) == p[g].type # NoType \/ Circular(p, g)

SimpleExpressions ==
  {Literal, Import} \cup {Global(g) : g \in Globals} \cup {Member(f, g) : f, g \in Globals}

Expressions ==
  SimpleExpressions \cup {Sum(l, r) : l, r \in SimpleExpressions}

ASSUME ProgramsAssumption ==
  Programs \subseteq [Globals -> {Definition(t, v) : t \in {NoType} \cup Expressions, v \in Expressions}]

VARIABLES
  prog,          \* the program being compiled
  todo,          \* the definitions the caller asked to evaluate
  member,        \* flags and value of each file member
  bytes,         \* contents of the heap allocation of each global
  target,        \* what the indirection type of a circular global stands for
  values,        \* interp.values
  contexts,      \* interp.write_ctxs: the globals written to
  inits,         \* interp.global_initializations
  activations,   \* interp.activations
  temporaries,   \* interp.temporary_data: number of objects in it
  ops,           \* the next instruction, or Idle
  outcome        \* what run_compilation returns, "running" until it does

stacks == <<values, contexts, inits, activations, temporaries>>
vars == <<prog, todo, member, bytes, target, stacks, ops, outcome>>


-----------------------------------------------------------------------------
(* Emission. *)

Instr(op, ctx, g) == [op |-> op, ctx |-> ctx, of |-> g]

\* A literal and an import push a new object, named by the global in whose
\* code they are.
SimpleCode(e, ctx, g) ==
  CASE e.form = "global" -> <<Instr("load_global", ctx, e.of)>>
    [] e.form = "member" -> <<Instr("load_global", FALSE, e.via),
                              Instr("load_member", ctx, e.of)>>
    [] OTHER -> <<Instr(e.form, ctx, g)>>

ExprCode(e, ctx, g) ==
  IF e.form = "sum"
    THEN SimpleCode(e.left, FALSE, g) \o SimpleCode(e.right, FALSE, g)
           \o <<Instr("sum", ctx, g)>>
    ELSE SimpleCode(e, ctx, g)

\* The code before a definition's value: of its type, for one that has a type.
TypeCode(p, g) == IF p[g].type # NoType THEN ExprCode(p[g].type, FALSE, g)
                                        ELSE <<Instr("type_type", FALSE, g)>>

\* opcodes_from_file_member_ast.
Code(p, g) ==
  LET Plain(op) == <<Instr(op, FALSE, g)>>
  IN  Plain("prepare")
        \o (IF Typed(p, g) THEN TypeCode(p, g) \o Plain("alloc_typed") ELSE <<>>)
        \o ExprCode(p[g].value, Typed(p, g), g)
        \o (IF Circular(p, g) THEN Plain("complete_circular") ELSE <<>>)
        \o (IF Typed(p, g) THEN Plain("complete") ELSE Plain("alloc_untyped"))
        \o Plain("end_code")

-----------------------------------------------------------------------------
(* Values.  What a value is: an object, named by its origin, or the        *)
(* location of a global's bytes, read when the value is consumed.          *)

Idle == <<>>

Unwritten(g) == <<"unwritten", g>>
Object(form, g) == <<form, g>>
At(g) == <<"at", g>>
Indirection(g) == <<"indirection", g>>
SumOf(x, y) == <<"sum", x, y>>

Read(x) == IF x[1] = "at" THEN bytes[x[2]] ELSE x

\* An entry of the value stack: what it is, and for an object in the
\* temporary storage its place there.
Value(x, temp) == [is |-> x, temp |-> temp]

Operand(i) == values[Len(values) + 1 - i]

Popped(n) == SubSeq(values, 1, Len(values) - n)

Init ==
  /\ prog \in Programs
  /\ todo \in {Globals} \cup {{g} : g \in Globals}
  /\ member = [g \in Globals |-> [pending |-> TRUE, initializing |-> FALSE, value |-> "none"]]
  /\ bytes = [g \in Globals |-> Unwritten(g)]
  /\ target = [g \in Globals |-> Unwritten(g)]
  /\ values = <<>> /\ contexts = <<>> /\ inits = <<>> /\ activations = <<>>
  /\ temporaries = 0
  /\ ops = Idle
  /\ outcome = "running"

-----------------------------------------------------------------------------
(* Instructions. *)

Current == Code(prog, ops[1])[ops[2]]

\* What follows when an instruction needs a write context and there is none is
\* undefined: no step is.
Running ==
  /\ outcome = "running" /\ ops # Idle
  /\ Current.ctx => contexts # <<>>

Executes(op) == Running /\ Current.op = op

Next1 == <<ops[1], ops[2] + 1>>

ContextsLeft == IF Current.ctx THEN Front(contexts) ELSE contexts

\* push_location_value, push_temporary_value and their poppush_ forms: the
\* result goes to the write context, or onto the value stack.
Deliver(x, operands, isTemporary) ==
  /\ contexts' = ContextsLeft
  /\ IF Current.ctx
       THEN /\ bytes' = [bytes EXCEPT ![Last(contexts)] = Read(x)]
            /\ values' = Popped(operands)
            /\ UNCHANGED temporaries
       ELSE /\ temporaries' = IF isTemporary THEN temporaries + 1 ELSE temporaries
            /\ values' = Append(Popped(operands),
                                Value(x, IF isTemporary THEN temporaries + 1 ELSE 0))
            /\ UNCHANGED bytes
  /\ ops' = Next1

\* push_activation: a panic ends the process when there is no room, and is no
\* step here.
Suspend(g) ==
  /\ Len(activations) < Depth
  /\ activations' = Append(activations, ops)
  /\ ops' = <<g, 1>>

\* Mutant: a circular global is not redirected to its indirection type.
LocationDirect(g) == At(g)

\* What a load of a complete global finds at value_or_default.
Location(g) == IF member[g].value = "indirection" THEN Indirection(g) ELSE At(g)

Simple ==
  /\ Running /\ Current.op \in {"literal", "import", "type_type"}
  /\ Deliver(Object(Current.op, Current.of), 0, TRUE)
  /\ UNCHANGED <<prog, todo, member, target, inits, activations, outcome>>

Add ==
  /\ Executes("sum")
  /\ Deliver(SumOf(Read(Operand(2).is), Read(Operand(1).is)), 2, TRUE)
  /\ UNCHANGED <<prog, todo, member, target, inits, activations, outcome>>

\* Mutant: the write context is not pushed back.
LoadGlobalDropsContext ==
  /\ Executes("load_global")
  /\ LET g == Current.of
     IN  IF member[g].pending
           THEN /\ Suspend(g)
                /\ contexts' = ContextsLeft
                /\ UNCHANGED <<bytes, values, temporaries>>
           ELSE Deliver(Location(g), 0, FALSE) /\ UNCHANGED activations
  /\ UNCHANGED <<prog, todo, member, target, inits, outcome>>

\* With a write context the popped context is pushed back before the load is
\* suspended, so the stack is as it was.
LoadGlobal ==
  /\ Executes("load_global")
  /\ LET g == Current.of
     IN  IF member[g].pending
           THEN Suspend(g) /\ UNCHANGED <<bytes, values, contexts, temporaries>>
           ELSE Deliver(Location(g), 0, FALSE) /\ UNCHANGED activations
  /\ UNCHANGED <<prog, todo, member, target, inits, outcome>>

\* handle_load_member where the operand is a type: the file an import
\* returned.  Here the context is not pushed back.
LoadMember ==
  /\ Executes("load_member")
  /\ Read(Operand(1).is)[1] = "import"
  /\ LET g == Current.of
     IN  IF member[g].pending
           THEN /\ Suspend(g)
                /\ contexts' = ContextsLeft
                /\ UNCHANGED <<bytes, values, temporaries>>
           ELSE Deliver(Location(g), 1, FALSE) /\ UNCHANGED activations
  /\ UNCHANGED <<prog, todo, member, target, inits, outcome>>

\* Mutant: whether the member is being initialized is not checked.
PrepareUnchecked ==
  /\ Executes("prepare")
  /\ member' = [member EXCEPT ![Current.of].initializing = TRUE]
  /\ inits' = Append(inits, [of |-> Current.of, temporaries |-> temporaries])
  /\ ops' = Next1
  /\ UNCHANGED <<prog, todo, bytes, target, values, contexts, activations, temporaries, outcome>>

\* Mutant: the extent of the temporary storage is not recorded.
PrepareFromZero ==
  /\ Executes("prepare")
  /\ LET g == Current.of
     IN  IF member[g].initializing
           THEN outcome' = "circular" /\ UNCHANGED <<member, inits, ops>>
           ELSE /\ member' = [member EXCEPT ![g].initializing = TRUE]
                /\ inits' = Append(inits, [of |-> g, temporaries |-> 0])
                /\ ops' = Next1
                /\ UNCHANGED outcome
  /\ UNCHANGED <<prog, todo, bytes, target, values, contexts, activations, temporaries>>

\* handle_file_member_alloc_prepare and
\* type_member_begin_initialization_by_rank.
Prepare ==
  /\ Executes("prepare")
  /\ LET g == Current.of
     IN  IF member[g].initializing
           THEN outcome' = "circular" /\ UNCHANGED <<member, inits, ops>>
           ELSE /\ member' = [member EXCEPT ![g].initializing = TRUE]
                /\ inits' = Append(inits, [of |-> g, temporaries |-> temporaries])
                /\ ops' = Next1
                /\ UNCHANGED outcome
  /\ UNCHANGED <<prog, todo, bytes, target, values, contexts, activations, temporaries>>

\* Mutant: the flag of the initialization is not reset.
CompletedInitializing(value) == [pending |-> FALSE, initializing |-> TRUE, value |-> value]

\* type_member_complete and type_member_end_initialization.
Completed(value) == [pending |-> FALSE, initializing |-> FALSE, value |-> value]

\* handle_file_member_alloc_typed.  A circular definition is complete at
\* once: loads of it find an indirection type.
AllocTyped ==
  /\ Executes("alloc_typed")
  /\ LET g == Last(inits).of
     IN  /\ bytes' = [bytes EXCEPT ![g] = Unwritten(g)]
         /\ contexts' = Append(contexts, g)
         /\ IF Circular(prog, Current.of)
              THEN /\ temporaries' = temporaries + 1
                   /\ values' = Popped(1) \o <<Value(Indirection(g), temporaries + 1),
                                              Value(At(g), 0)>>
                   /\ member' = [member EXCEPT ![g] = Completed("indirection")]
              ELSE /\ values' = Popped(1)
                   /\ member' = [member EXCEPT ![g].value = "bytes"]
                   /\ UNCHANGED temporaries
  /\ ops' = Next1
  /\ UNCHANGED <<prog, todo, target, inits, activations, outcome>>

\* handle_file_member_alloc_untyped.
AllocUntyped ==
  /\ Executes("alloc_untyped")
  /\ LET g == Last(inits).of
     IN  /\ bytes' = [bytes EXCEPT ![g] = Read(Operand(1).is)]
         /\ member' = [member EXCEPT ![g] = Completed("bytes")]
  /\ inits' = Front(inits)
  /\ values' = Popped(1)
  /\ ops' = Next1
  /\ UNCHANGED <<prog, todo, target, contexts, activations, temporaries, outcome>>

\* handle_complete_circular_definition.  Its two operands stay on the stack.
CompleteCircular ==
  /\ Executes("complete_circular")
  /\ target' = [target EXCEPT ![Operand(2).is[2]] = Read(Operand(1).is)]
  /\ ops' = Next1
  /\ UNCHANGED <<prog, todo, member, bytes, stacks, outcome>>

\* Mutant: the test for a circular definition is reversed.
CompleteReversed ==
  /\ Executes("complete")
  /\ LET init == Last(inits)
     IN  /\ member' = IF Circular(prog, Current.of)
                        THEN [member EXCEPT ![init.of] = Completed(@.value)]
                        ELSE member
         /\ temporaries' = init.temporaries
  /\ inits' = Front(inits)
  /\ ops' = Next1
  /\ UNCHANGED <<prog, todo, bytes, target, values, contexts, activations, outcome>>

\* handle_file_member_alloc_complete.
Complete ==
  /\ Executes("complete")
  /\ LET init == Last(inits)
     IN  /\ member' = IF Circular(prog, Current.of)
                        THEN member
                        ELSE [member EXCEPT ![init.of] = Completed(@.value)]
         /\ temporaries' = init.temporaries
  /\ inits' = Front(inits)
  /\ ops' = Next1
  /\ UNCHANGED <<prog, todo, bytes, target, values, contexts, activations, outcome>>

\* handle_end_code, and the end of the loop in interpret_opcodes.
EndCode ==
  /\ Executes("end_code")
  /\ IF activations = <<>>
       THEN ops' = Idle /\ UNCHANGED activations
       ELSE ops' = Last(activations) /\ activations' = Front(activations)
  /\ UNCHANGED <<prog, todo, member, bytes, target, values, contexts, inits, temporaries, outcome>>

\* The handlers that check a type, and convert_into.
CanFail ==
  LET op == Current.op
  IN  CASE op = "load_global" -> ~member[Current.of].pending
        [] op = "load_member" -> \/ ~member[Current.of].pending
                                 \/ Read(Operand(1).is)[1] # "import"
        [] OTHER -> op \in {"sum", "alloc_typed"} \/ Current.ctx

\* record_interpreter_error.  Nothing runs afterwards: what the handler had
\* already popped makes no difference.
Fail ==
  /\ Running /\ CanFail
  /\ outcome' = "error"
  /\ UNCHANGED <<prog, todo, member, bytes, target, stacks, ops>>

\* Mutant: complete definitions are evaluated too.
EvaluateAgain(g) ==
  /\ outcome = "running" /\ ops = Idle
  /\ g \in todo
  /\ ops' = <<g, 1>>
  /\ UNCHANGED <<prog, todo, member, bytes, target, stacks, outcome>>

\* evaluate_all_file_definitions and evaluate_file_definition_by_name.
Evaluate(g) ==
  /\ outcome = "running" /\ ops = Idle
  /\ g \in todo /\ member[g].pending
  /\ ops' = <<g, 1>>
  /\ UNCHANGED <<prog, todo, member, bytes, target, stacks, outcome>>

Return ==
  /\ outcome = "running" /\ ops = Idle
  /\ \A g \in todo : ~member[g].pending
  /\ outcome' = "ok"
  /\ UNCHANGED <<prog, todo, member, bytes, target, stacks, ops>>

Next ==
  \/ Simple \/ Add \/ LoadGlobal \/ LoadMember
  \/ Prepare \/ AllocTyped \/ AllocUntyped \/ CompleteCircular \/ Complete
  \/ EndCode \/ Fail
  \/ \E g \in Globals : Evaluate(g)
  \/ Return

\* One thread interprets; it is not suspended while it has an instruction.
Spec == Init /\ [][Next]_vars /\ WF_vars(Next)

-----------------------------------------------------------------------------
(* Properties. *)

InProgress(g) == \E i \in DOMAIN inits : inits[i].of = g

\* TypeOK: the flags of a member and the stack of initializations agree.  A
\* global has an entry, and only one, from the preparation of its code to the
\* end of it, and is flagged as initializing in between, except that a
\* circular global is already complete there.
TypeOK ==
  /\ contexts \in Seq(Globals)
  /\ \A i, j \in DOMAIN inits : inits[i].of = inits[j].of => i = j
  /\ \A g \in Globals :
       /\ member[g].initializing => member[g].pending
       /\ member[g].pending => (member[g].initializing <=> InProgress(g))
       /\ ~member[g].pending => member[g].value # "none"
       /\ ~member[g].pending /\ InProgress(g) => Circular(prog, g)
  /\ outcome \in {"running", "ok", "error", "circular"}

\* OwnContext: an instruction that takes a write context finds that of its own
\* definition, however many initializers ran since the context was pushed:
\* handle_load_global pushes it back "so it's still there on the next go
\* around".
OwnContext ==
  outcome = "running" /\ ops # Idle /\ Current.ctx
    => contexts # <<>> /\ Last(contexts) = ops[1]

\* RealCycle: a definition is reported as circular only if it depends on
\* itself through the initializations that are in progress, each of which
\* mentions the next.
RealCycle ==
  outcome = "circular" =>
    \E k \in DOMAIN inits :
      /\ inits[k].of = ops[1]
      /\ \A j \in k .. Len(inits) - 1 : inits[j + 1].of \in Mentioned(prog, inits[j].of)
      /\ ops[1] \in Mentioned(prog, Last(inits).of)

\* What a definition means, without a machine: by unfolding, deep enough for
\* every program without a cycle.
SimpleMeaning(e, g, of) ==
  CASE e.form \in {"global", "member"} -> IF Circular(prog, e.of) THEN Indirection(e.of) ELSE of[e.of]
    [] OTHER -> Object(e.form, g)

Meanings ==
  LET unfold[n \in 0 .. Cardinality(Globals)] ==
        IF n = 0 THEN [g \in Globals |-> Unwritten(g)]
        ELSE [g \in Globals |->
               LET v == prog[g].value
               IN  IF v.form = "sum"
                     THEN SumOf(SimpleMeaning(v.left, g, unfold[n - 1]),
                                SimpleMeaning(v.right, g, unfold[n - 1]))
                     ELSE SimpleMeaning(v, g, unfold[n - 1])]
  IN  unfold[Cardinality(Globals)]

\* MeansItsDefinition: a complete global holds the value of its definition,
\* whatever suspended its code; a circular one, an indirection type that
\* stands for that value once its code has ended.
MeansItsDefinition ==
  \A g \in Globals : ~member[g].pending /\ ~InProgress(g) =>
    IF Circular(prog, g) THEN member[g].value = "indirection" /\ target[g] = Meanings[g]
                   ELSE member[g].value = "bytes" /\ bytes[g] = Meanings[g]

\* InitializedOnce: once its code has ended, no step touches a global again.
InitializedOnce ==
  [][\A g \in Globals : ~member[g].pending /\ ~InProgress(g) =>
       member'[g] = member[g] /\ bytes'[g] = bytes[g] /\ target'[g] = target[g]]_vars

NoneCircular == \A g \in Globals : ~Circular(prog, g)

\* Balanced: when interpret_opcodes returns, every stack is as it was, as the
\* assertion at the end of opcodes_from_file_member_ast says of the code.
Balanced ==
  outcome \in {"running", "ok"} /\ ops = Idle
    => values = <<>> /\ contexts = <<>> /\ inits = <<>> /\ activations = <<>>

\* StacksKept: without circular definitions, nothing is left on a stack when
\* interpret_opcodes returns, and meanwhile no value on the stack is a
\* temporary that the end of a nested initialization has discarded.
StacksKept ==
  NoneCircular => Balanced /\ \A i \in DOMAIN values : values[i].temp <= temporaries

\* Terminates: every compilation returns, also where definitions depend on
\* each other in a cycle, and needs no more activations than there are globals.
Terminates == <>(outcome # "running")
=============================================================================
