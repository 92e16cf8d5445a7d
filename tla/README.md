# A TLA+ specification of the `eval` compiler

The repository compiles a small language, `eval`, in which anything that can
happen at run time can happen at compile time. The program is a front end
followed by a stack machine that interprets the code of definitions on demand.
This directory models the parts of it that keep state over many calls, checks
them with TLC and proves with TLAPS what a loop or an array can be reasoned about: the
memory manager, the tables, the source reader, numbers and the initialization of
globals. (What is recursive over syntax trees or types is checked only.)

    tlc -config MCCompHeap.cfg MCCompHeap      # check one run
    tlapm CompHeapProofs.tla                   # check the proofs

## 1. The system

`main.cpp` reads a configuration (`config.cpp` over `toml.cpp` and
`tree_schema.cpp`), builds one `CoreData` whose components live in one reserved
range of memory (`core.cpp: create_core_data`), and calls `run_compilation`:

    run_compilation                                   core.cpp
      import_prelude, import_file                     interpreter.cpp
        read_source_file      -> source ids           source_reader.cpp
        parse                 -> AST                  parse.cpp, ast_pool.cpp
        resolve_names         -> bindings, closures   lexical_analyser.cpp
        type_create_file ...  -> file type            type_pool.cpp
        opcodes_from_file_member_ast                  opcode_pool.cpp
      evaluate_all_file_definitions |
      evaluate_file_definition_by_name                interpreter.cpp
        interpret_opcodes     -> handlers             interpreter.cpp

There is one thread. What makes the program hard is not parallelism but the
reentrancy of the interpreter (an instruction that needs a global suspends
itself and runs that global's initializer on the same stacks), memory that is
managed by hand, and code that must leave fifteen stacks as it found them.

| Component | State | Operations | Talks to | Hard about it | What makes it correct |
|---|---|---|---|---|---|
| compile-time heap `comp_heap.cpp` | used, commit, 14 free lists, three bitmaps | alloc, alloc_global_member, dealloc, leak, find_header; gc_begin/mark/end, next_leak (no callers) | interpreter (globals, arrays, strings), type pool and shadow store (tables) | splitting and reuse in any order, alignment padding, headers found by bitmap search, exhaustion | objects are disjoint, aligned and in range; nothing is lost; a global is leaked whole |
| interning map `id_map.hpp` | lookup table, load counter, allocator | id_from, value_from, try_*, remove, try_remove | identifier pool, source reader, type pool, shadow store | displacement, backward shift, wrap-around, exhausted probes, ids that are reused | a key keeps its id, no two keys share one, every entry can be found |
| interpreter, initialization | member flags; stacks of values, write contexts, initializations, activations | file_member_alloc_*, load_global, load_member, complete_circular_definition | opcode pool (code), type pool (flags), heap (storage) | suspension and repetition of loads, cycles, self-reference | initialized once, in dependency order, cycles are reported, stacks balanced |
| interpreter, calls and control flow | the same and scopes, closures, argument packs and callbacks, loops | scope_*, exec_args, call, return, if, loop | opcode pool | unwinding by return and break, partial calls, defaults | every path leaves the stacks as the emitter computed |
| interpreter, traits and impls | selfs; types of impls and their bodies, with the flags of members | trait, impl_make_self, impl_body, complete_impl_body, impl_member_alloc_*, load_self, load_trait_argument, calls of traits | type pool (selfs, bodies), opcode pool (sorted members, fixups) | an impl is made before its arguments, may be an argument of itself, is then found to have been made before; its members are completed by code that makes further impls | each member is evaluated with the self, the arguments and the captured values of its own impl; equal impls are one |
| opcode pool `opcode_pool.cpp` | code, fixups, static stack depths | emit_*, complete_fixups, opcodes_from_* | parser's AST, interpreter | forward references, write contexts, early exits | static and actual effect of every instruction agree |
| shadow store `shadow_store.cpp` | layouts, address map | shadow_set/get/copy/remove | heap, interning map | overlapping copies, rehashing | a value's shadow is that of its last write |
| type pool `type_pool.cpp` | types, composites under construction, lookup | type_create_*, add members, seal, is_equal, is_assignable | interpreter, heap, interning map | open composites, recursive types, closing frees memory | structural equality, members keep their rank |
| name resolution `lexical_analyser.cpp` | scope stacks, closures in the making | resolve_names | AST | closures over several scopes, self-reference | each name bound to its innermost definition |
| parser, lexer `parse.cpp`, `ast_pool.cpp` | operator and operand stacks, node buffer | parse, ast_push_node, iterators | identifier pool, source reader | precedence of postfix, prefix and ambiguous operators; sibling offsets | the tree has the structure of the grammar |
| identifier pool | interning map of names | id_from_identifier, identifier_name_from_id | lexer, everyone | | as the interning map |
| source reader, error sink | files with id ranges, recorded errors | read_source_file, source_location_from_source_id, record_error, print_errors | everyone | position search at range boundaries, attributes of merged errors | a source id maps back to its file, line and column |
| numeric values `comp_values.cpp` | none (tagged words) | integer and float arithmetic, conversions | interpreter | overflow of the tagged range, sign, shifts at the width | results are exact or reported |
| sorting `inplace_sort.hpp` | none | inplace_sort | core, opcode pool | insertion sort up to 8 elements, heap sort above | a sorted permutation |
| configuration | schema, parsed tree | config_from_toml_file | core, all inits | | |
| foreign function interface | prepared calls | ffi_call_* | interpreter | calling conventions | |
| operating system layer `minos_*` | handles | memory, files, threads, events, processes | all | | |
| printing, diagnostics | none | print, diag | | | |
| temporary stack | one byte vector | push, mark, release | front end | | |

The hazards that follow from this, each at its line, are listed in
`PROJECT.json`; section 4 says which property answers which.

## 2. Modules

| Module | What it is |
|---|---|
| `HeapContract` | What the heap promises its callers: an object is aligned, in range and disjoint from the others |
| `CompHeap` | `comp_heap.cpp` |
| `MCCompHeap` | Its instance for TLC; configurations `MCCompHeap`, `HeapLeak` |
| `CompHeapProofs` | Its proofs |
| `NumberFacts` | Lemmas about numbers that the proofs share |
| `InternMap` | What an interning map promises |
| `IdMap` | `id_map.hpp` with the allocator of `shadow_store.cpp` |
| `MCIdMap` | Its instances; configurations `MCIdMap`, `IdMapFull` |
| `IdMapProofs` | Its proofs |
| `GlobalInit` | Initialization of globals: the emitter for file members in `opcode_pool.cpp`, the handlers in `interpreter.cpp`, the flags in `type_pool.cpp` |
| `MCGlobalInit` | Its instances; configurations `MCGlobalInit`, `GlobalMember` |
| `GlobalInitProofs` | Its proofs |
| `EvalSyntax` | Syntax trees, types and values shared by the modules below |
| `NameResolution` | `lexical_analyser.cpp`: binds names, fills closure lists |
| `Emission` | `opcode_pool.cpp`: code, fixups, static stack depths |
| `Evaluator` | What an expression means: environments and a store, no stacks (a reference, not a model of code) |
| `StackMachine` | The handlers of `interpreter.cpp`, one action each, running what `Emission` emitted for what `NameResolution` resolved |
| `MCStackMachine` | Its programs; configuration `MCStackMachine` |
| `ImplCode` | Syntax of traits and impls, the names bound in them (`lexical_analyser.cpp`) and the code emitted for them (`opcode_pool.cpp`) |
| `Impls` | The handlers of `interpreter.cpp` that run this code, with the selfs and impl bodies of `type_pool.cpp`, and what a file means |
| `MCImpls` | Its files; configurations `MCImpls`, `ImplMembers` |
| `TokenStream` | What the parser may rely on: a file is the sequence of its longest lexemes |
| `Lexer` | The scanner of `parse.cpp`, with `next`, `peek` and `peek_n` |
| `MCLexer` | Its texts, and the refinement; configurations `MCLexer`, `LexerEnd` |
| `AstPool` | `ast_pool.cpp`: builder, copy to preorder, accessors, iterators |
| `Parser` | `parse.cpp` from the tokens on |
| `FrontEnd` | Parser and pool together; the trees of the language and the tokens each is written as (a reference) |
| `MCParser` | Its programs and token sequences; configuration `MCParser` |
| `TypePool` | `type_pool.cpp`: structures, hashes, interning, equality, open composites |
| `MCTypePool` | Its instances; configurations `MCTypePool`, `TypeNames`, `TypeRoom` |
| `ShadowStore` | `shadow_store.cpp` and the handlers that use it |
| `MCShadowStore` | Its instances; configurations `MCShadowStore`, `ShadowTogether` |
| `ShadowStoreProofs` | Its proofs |
| `Sources` | `source_reader.cpp`, `error_sink.cpp` and the imports that join them |
| `MCSources` | Its instance |
| `SourcesProofs` | Its proofs |
| `CompValues` | `comp_values.cpp` and the numeric handlers of `interpreter.cpp` |
| `MCCompValues` | Its instance |
| `CompValuesProofs` | Its proofs |

A definition whose comment starts with *Mutant* (or ends in *mutant: ...*) belongs to no specification: it
is a plausible bug in the definition below it, kept to show that the properties
notice it.

### CompHeap

Addresses are byte offsets into the heap, bitmaps the sets of their marked
slots. `used`, `commit`, `lists`, `begin`, `header` and `leak` are the fields of
the same names in `structure.hpp`; `blocks` is what the callers hold, and
`reply` is the result of the last call.

| Action | Code |
|---|---|
| `AllocReuse`, `AllocBump`, `AllocFail` | `comp_heap_alloc_internal` with `comp_heap_ensure_commit`, as called by `comp_heap_alloc` and `comp_heap_alloc_global_member`: from a free list, from the end, refused |
| `Dealloc` | `comp_heap_dealloc` |
| `LeakObject` | `comp_heap_leak` of any slice, as `handle_slice` and its neighbours call it |

A failed assertion is the reply `assert`, after which nothing happens. The link
between the entries of a free list is kept by the code in the entry itself; the
model keeps a sequence, which is the same thing exactly as long as nothing
overlaps an entry, and that is what `NoOverlap` says. The sizes are constants:
16 byte slots, 14 lists and the reuse limit of 18 bytes scale to 4 bytes, 3
lists and 5. The reuse limit keeps the code's relation to the slot size (between
one and two slots), which is an assumption of the module: it makes the branch
that splits a larger entry unreachable, in the model as in the code.

### IdMap

`table` is `m_lookups`, `values` and `freed` are the allocator, in which an id
is an index. An insertion is a run of probe steps (`IdFromStep`), a rehash a run
of reinsertions; `id_from` calls itself when a probe is exhausted, so that a call
of it is a run of activations (`Activation`). Each call is one action. What the
code does after an exhausted probe that has placed its key is to return, with the
entry in hand added by the rehash. Fingerprints are kept because a
colliding fingerprint is one of the interesting cases. `used` is the load
counter, of which the code only ever decrements: `Wrap` is its width.

### GlobalInit

`Code(p, g)` is the code emitted for a definition of the program `p`, one action is one instruction.
`values`, `contexts`, `inits` and `activations` are the interpreter's stacks of
the corresponding names, `temporaries` the extent of its temporary storage,
`member` the flags and value of the file's members. Types are left out, so any
handler that checks a type may also fail (`Fail`). A value is named by where it
came from, so that two values are equal only if they are the same computation.

Where an instruction needs a write context and there is none, the code reads
below the stack: there is no step, and `OwnContext` reports the state before it.

### NameResolution, Emission, StackMachine, Evaluator

The initial state of `StackMachine` picks a file member and compiles it: the
names are resolved (`ResolveNames`), then `EmitMember` emits its code as
`opcodes_from_file_member_ast` does, opcode after opcode, completing the fixups
last. An entry of `code` is an opcode and the depths (`at`) the emitter had
computed when it emitted it. The emitter's asserts are kept: one that fails makes
the outcome `assert`, and a compile error makes it `error`.

The record `m` is the `Interpreter`:

| Field | Stack in `structure.hpp` |
|---|---|
| `values`, `ctxs` | `values`, `write_ctxs`: places, with the type of a context |
| `scopes`, `members`, `temps` | `scopes`, `scope_members`, the extent of `temporary_data` |
| `memory` | the bytes of `temporary_data` and `scope_data`, closures on the compile-time heap, the global being computed, and complete globals; one cell per value |
| `closures` | `active_closures` |
| `packs`, `callbacks` | `argument_packs`, `argument_callbacks` |
| `acts`, `calls` | `activations`, `call_activation_indices` |
| `pc`, `outcome` | the local `ops` of `interpret_opcodes` and what it returns |
| `base` | none: the depths below the code now running, for `Depths` |

Storage that is popped keeps its content until it is overwritten, as in the
code, so that a dangling place is readable and wrong. `base` is bookkeeping that
no guard reads. Opcodes which differ only in the operation (the arithmetic
operators, the comparisons) are represented by one of them.

`Evaluator` gives an expression its meaning without any of this: by recursion on
the tree, names looked up in an environment, functions as pairs of code and the
values of their free variables, loops by unfolding.

### ImplCode, Impls

The initial state picks a file, compiles its definitions and asks for all of
them, as `evaluate_all_file_definitions` does, or for one. `ImplCode` binds names
(`Binding`, `Closed`) and emits code (`Code`, `MemberCode`); a fixup is the code
it leads to, so that an opcode carries the code of the functions and members it
refers to. One action of `Impls` is one handler; the record `m` is again the
`Interpreter`, with `selfs` (a self, or the count of complete members below an
impl in the making), `inits` (`global_initializations`) and `types`, the selfs
with their bodies. Every value has a cell of its own: what becomes of storage
that is given back is the subject of `StackMachine`. `Structural` is
`type_is_equal` with the `compare` of captured values: an impl is known by where
it is written, what it extends, its arguments and its captures; functions and
traits are equal to nothing, not even to themselves, as `closure_equal` has it.
`Eval` and its neighbours say what a file means without stacks, selfs or order:
an impl is a value, its members are evaluated in the environment it was written
in when they are asked for.

### Lexer, TokenStream

A character is a string of length one or one of four stand-ins for the units of
longer characters. `Scan` is the whole dispatch with every scan function; each
call of the parser is an action, `TakePeeked`, `TakeScanned` or `Peek(n)`, in any
order. `TokenStream` gives lexemes by a grammar and takes the longest; `MCLexer`
states that the scanner implements it. The value of a number is its spelling. A
file is read into a buffer with a zero byte behind it; `beyond` is what memory
holds behind that buffer, and `At` reads on into it as the code would.

### AstPool, Parser, FrontEnd

`Parser` is a function from tokens to the nodes pushed: each production of the
code is an operator on the record of the parser's state, and the loop over
operators is `ParseExpr`, with the two stacks it keeps. `AstPool` holds the
builder's nodes, with the one link they have, and what completing them makes of
it; its loops end early, through `Through`. Completing a tree ends in the tree, in
the panic for too many levels, or in a failed assertion about them; an iteration
ends in the nodes seen, or in one of its assertions. The two are run by `FrontEnd`
in two steps, for a source that is either the printed form of a tree or any
sequence of tokens. Recovery (skipping to the next
definition after an error) is not modelled: what is parsed after an error is
thrown away.

### TypePool

One action per operation that a caller can make; a caller holds ids. Hashes are
the sequences of what is mixed into them, so that two are equal only where the
code makes them so; the seen-sets of `type_is_equal_noloop` are sequences.
Structures that are freed are taken from the attachment and handed out again.
`AddMember` is the whole of `type_add_user_composite_member`: a composite without
room is reallocated first, the assertion about the room made comes next and sets
`stopped` if it fails, and only then is the name looked up. `Capacity` is the room
`type_create_user_composite` asks for, four in the code.

### ShadowStore

Memory is a line of cells of four bytes. `layouts`, `entries` and `blocks` are
the store's, `variables` those of the running code, `stored` the record of what
was last stored in each member, which nothing reads but the property. Padding
that allocation leaves between variables is kept, because the code copies the
entry at the address behind a range: `used` is where free memory begins, which a
scope's end sets back to the begin of its first variable. The loops over offsets,
addresses and members are functions of the number of rounds.

### Sources

A text is a sequence of characters, ids are numbers as in the code, and files
are edited at any time. `ReadFile` is `read_source_file` with the parse behind
it, whose errors are any; `PrintNext` is the printing of one record, which reads
the file again. A place is found by the rounds of a binary search (`Narrow`)
over the entries' first ids. What is a link on disk is a second path with the same file.

### CompValues

A value is the number its bytes spell, with its type; an operator takes the top
of the stack and any other value. The module assumes of the sizes that a byte has
two bits or more, of the fixed types that none is wider than a word, and of the
operands that they are values of these types; a base to the power of a number is
a recursive function (`TwoTo`). Bytes of three bits and words of four bytes
keep all four widths (one, two, four bytes and the word) apart and the values of
the smallest type few enough to try all.

## 3. Runs

| Run | Shows | Result |
|---|---|---|
| `heap` | Allocations with and without header and alignment, deallocations and leaks, in every order, until the reservation is exhausted | holds |
| `id_map` | Five keys interned, looked up and removed by key and by value in every order | holds |
| `global_init` | Every program of three definitions, every entry point | holds |
| `machine` | 3475 definitions are resolved, compiled and run | holds |
| `parser` | Over 70,000 token sequences, every construct inside every other and trees too deep for the pool, parsed and read back | holds |
| `lexer` | Over 30,000 texts, read with any look-ahead, whatever lies behind them in memory | holds |
| `type_pool` | Composites made, filled, sealed and compared in every order, pointing to each other while open | holds |
| `shadow` | Variables of composite types defined, copied, assigned and popped over the same memory | holds |
| `sources` | Files imported under several paths, edited meanwhile, and errors in them printed | holds |
| `values` | Every operator on every pair of values of every integer type | holds |
| `impls` | Files with traits and impls, in two orders, whole and one definition at a time | holds |
| `impl_members` | `Means`, for an impl that gives two members of its trait | violated |

Seven configurations are kept beside them for programs and properties that the
code is known not to satisfy; section 5 says what each one shows. All are
violated.

| Configuration | Module | Property |
|---|---|---|
| `HeapLeak` | `MCCompHeap` | `LeakAcceptsContained`: a slice inside a global can be leaked |
| `IdMapFull` | `MCIdMap` | `Consistent`, for two keys of one fingerprint and home in a full table |
| `GlobalMember` | `MCGlobalInit` | `OwnContext`, where a typed definition is a member of an imported file |
| `LexerEnd` | `MCLexer` | `WithinFile`: no lexeme lies behind the file, for one that ends with an opening quote |
| `TypeNames` | `MCTypePool` | `NamesTell`: composites with different names of members are distinct |
| `TypeRoom` | `MCTypePool` | `RoomMade`: a composite that has no room for a member is given some |
| `ShadowTogether` | `MCShadowStore` | `ReadsBack`, for a shadow and a datum at one address |

**Bounds.** *heap*: ten slots. Requests are no bytes at all, one slot, eight
slots (more than the largest entry), with the alignments below, at and above the
slot, and two global members, one of which fits the reuse limit. What is freed is
one slot or eight, so that a range is either an entry or several of the largest
class; splitting one over the entries of several classes is what the theorems
`SpecNoOverlap` and `SpecNothingLost` are about. Slices that are
leaked begin and end at every second byte. The reservation ends in the middle of
a commit increment's worth of requests. *id_map*: tables of 8 and 16 slots and
probes of at most three. Three keys share a home in both tables (two of them
with the same fingerprint), the others collide with them up to the growth, so
that clusters wrap around, a probe is exhausted before and after the new key has
found its place, and a further growth panics. *global_init*: the value of `x`
and `y` is any of a literal, a name, a member of `z` and a binary operation over
them, with no type, a literal type or a type that is itself a global; `z` is an
import, a literal or refers back. Three activations are enough for every chain
of three definitions; `Terminates` would fail if they were not, as a program
that needs more stops without an outcome. *machine*: the programs are five
families. *Expressions* puts each of eight ways to combine two integers
(operators, indexing, blocks, branches with and without a where clause, calls
with positional and named arguments) inside each other to depth two, as the
member's value and as an operand. *Procedures* are all pairs of an assignment,
branch, loop or block with another that contains one. *Functions* are eight
bodies that see the variables of one, two or three functions around them, called
in five ways: in arguments of calls, below a variable of the same name, in
conditions, in a loop. *Failing* are 27 kinds of mistakes in four surroundings,
typed and untyped. *Assorted* are void values, typed arrays, given defaults,
values captured before they change. Depth two is enough for what the properties
are about, the interaction of a form with the one it is in: the state of an
outer form is, for an inner one, only what is below it on the stacks, and
*Functions* has that three deep. `Stale` is what the never written
`return_adjust` of a fixup holds; only return expressions read it.

*parser*: all sequences of up to five tokens of two alphabets of eight. One has
what decides how a minus sign, a star, an assignment and a parenthesis are read,
the other the tokens that open a bracket or continue an expression. Five tokens
hold an operator, one on each side of it and a bracket. The programs put a
representative of every construct into every place of every other, with each
optional clause present and absent, and chains of first, of last and of only
children some levels to both sides of `MaxAstDepth`, which is 11 here, as many as
the deepest other program has, and 128 in the code. *lexer*: all texts of three
to six characters over eighteen alphabets of characters that mean something else next
to each other, each alphabet long enough for its longest token and one character
more; two lexemes of look-ahead are the most the parser asks for. Behind a text
with a quote, a backslash or a slash, memory holds zeros or what would end a
literal, a string or a comment that was cut off. Left out are escapes inside
strings, `||`, binary numbers, exponents without digits, and files that end with
the quote opening a character literal (`LexerEnd`), which the code does not read
as it should (section 5). *type_pool*: two composites with room for two members
each; a third stops the program (`TypeRoom`), and the second may be given the
name of the first and is then refused. The names are the same for all composites
(`TypeNames`). One integer, pointers and arrays of one length of what is there,
one definition site, seven structures. Two open composites that point to each
other are the smallest case in which positions on the two stacks of a comparison
differ. *shadow*: three
variables of two composites over nine addresses, five blocks: a variable, the
one it is copied to and the next one at an address used before. No datum of a
composite starts or ends where a shadow lies (`ShadowTogether` shows why).
*sources*: two files that import each other, a link and an empty file; 14
characters in all, with `MaxSource` just above. With 13, 14 and 16 `Attributed`
fails, because the counter of ids wraps to zero when the test against it still
passes (`source_reader.cpp:491-497`); no set of source files is that large.
*values*: all values of the one-byte types, and of the others those around zero,
the bounds and the middle. *impls*: files of a trait of one or two parameters
and one or two members, one or two impls of it, a function that makes impls, and
definitions that use them. Their families are: which members are required, have
a default and are given, with values that use the self, another member or a
global (*Matched*); mutability and stated types (*Stated*); two parameters, the
self in either place, two impls to choose from (*Parameters*); impls made twice
by a function, with equal and different captures, with members that are types,
functions, inner impls and members of the impl itself (*Produced*); impls that
depend on each other (*Chained*); wrong callees, argument counts and types, and
defaults that are functions (*Remaining*). Each file is also taken with its
definitions in the opposite order, and asked for whole or one definition at a
time: asked whole, 200 files are evaluated, 532 refused and 16 circular. `Fuel`
bounds the reference evaluation; a definition that needs itself exhausts it.

Left out of `machine` are programs that the code is known not to handle:

- explicit returns (with `Sources <- WithReturn` in `MCStackMachine.cfg`,
  `Depths` and `Balanced` fail);
- parameter types and defaults that name outer variables (with
  `Sources <- WithOuterDefault`, `BoundByName` fails);
- array literals of several elements in a typed context;
- calls that omit an argument with a default: the number of arguments given, not
  of parameters, ends `ExecArgs`, so that the default is not converted;
- a block or where clause that is an operand and whose value is one of its own
  variables: its place outlives the scope, and two such blocks under one operator
  read the same cell (`{let a = 1; a} + {let b = 2; b}` is 4);
- blocks that are evaluated while a context or an operand of the surrounding
  code is pending and that have no value or are initializers of typed locals or
  on the right of an assignment: the test at the end of a block compares with
  zero (`opcode_pool.cpp:1535`);
- an assignment without braces as a branch of an if that has an alternative:
  the emitter asserts that the branch leaves a value;
- assignments to elements of immutable arrays, which are carried out
  (`handle_index` gives every element as mutable);
- definitions that refer to themselves.

Left out of `impls` are, likewise:

- impls that give two or more members (`impl_members`);
- members of an impl in the making that are used before they are complete:
  `handle_load_member` runs their code without pushing a self for it, which the
  code then takes off (`interpreter.cpp:2620`), and without putting the write
  context of the load back; where it has a value of the type rather than the
  type, it names the wrong one (`interpreter.cpp:2562`);
- a member of a trait or an impl that names another member directly: its
  name is bound like a global's, to the file's definition of that rank
  (`lexical_analyser.cpp:896-926`);
- self and trait arguments inside the arguments of a call of a function that is
  bound to a self: that self is pushed before the arguments are evaluated
  (`handle_prepare_args`);
- defaults of a trait whose functions name the trait's parameters: their code is
  emitted without a self (`opcode_pool.cpp:751`);
- traits that capture variables, a TODO of the code;
- calls of a trait with an impl of a trait of another number of parameters,
  which fail an assertion (`type_pool.cpp:2718`);
- parameters with types or defaults, explicit returns, and definitions that
  mention themselves.

The operands of one operator have no side effects on each other: operands are
places and are read when the operator runs, the evaluator's when they are
evaluated.

**Deadlock** is not checked, except by the liveness properties: every model has
states in which nothing is left to do. A heap and a table are exhausted, a
program is computed, a text is read, the errors are printed, or the bound on
types or blocks is reached. That none of the interpreters stops earlier is
`Terminates`.

**Fairness.** `GlobalInit`, `StackMachine` and `Impls` assume weak fairness of
the whole next-state relation, which says that the one thread that interprets
goes on as long as it has an instruction: the loop of `interpret_opcodes` has no
other exit than an error or an end of code that leaves nothing to run. Nothing
else assumes any.

## 4. Properties

*CompHeap.* `NoOverlap` (no two live blocks or free entries share a byte),
`NothingLost` (every slot below the end belongs to one of them), `HeaderFound`
(the bitmap search from any address inside a block finds that block and the
header it has), `LeakWhole` (a global is leaked whole, and nothing else ever
is), and `ContractSpec`: the heap implements `HeapContract`. The first and
last answer for the splitting, padding and end-of-heap hazards, the others for
the bitmaps.

*IdMap.* `Consistent` joins `RobinHood`, the ordering that lets a search stop
early, with `Findable`, that every interned value is found, once, by both
searches; `InternSpec` says that the table implements `InternMap`, in which a key
keeps its id for as long as it is in the map.

*GlobalInit.* `OwnContext`: an instruction writes to its own definition however
many initializers ran in between. `RealCycle`: a cycle is reported only for
definitions that really depend on themselves. `MeansItsDefinition`: what is
complete holds the value that unfolding the program gives it. `InitializedOnce`:
it never changes again. `StacksKept`: stacks and temporary storage, in programs
without self-reference. `Terminates`: the
compilation returns, cycle or not.

*StackMachine.* `Depths`: at every opcode the four stacks the emitter keeps
track of are as deep as it computed, in whatever order branches, bodies and
arguments were emitted and run. `NoDangling`: what the stacks refer to is there,
and no value or write context lies in storage that a scope's end has given back.
`BoundByName`: the positions computed by name resolution reach the variable of
that name, in scopes that may be half built and in closures of closures.
`Balanced`: a definition that has been computed leaves every stack empty.
`Means`: what is stored is what the evaluator gives, and the machine fails
exactly where the evaluator does. `Terminates`: no assertion of the emitter fails
and no opcode is without its operands.

*Impls.* `Means`: a file is evaluated exactly if all that is asked for has a
meaning, and every definition that is complete has the value it means, wherever
and whenever the code of the members it needed was run, and whichever impl a
trait had to find. `SelfsAccounted`: the selfs and counts on the stack, and the
flags of the members they stand for, are at every step those of the impls in the
making; an impl that is found again leaves the same as one that is made.
`OneBodyPerImpl`: a complete member is not touched again and no second impl with
a body is equal to an earlier one. `Terminates` as above.

*Parser.* `ParsesBack`: the printed form of a tree is read as that tree, through
the operator stack, the builder's links and the accessors. `TokensKept`: whatever
the tokens, what is accepted prints as it was written, up to parentheses.
A tree is completed exactly if it has no more than `MaxAstDepth` levels, and
`Traversals` says that the iterators, which keep stacks of depths and offsets and
no parents, then visit what the children lists define, without one of their
assertions failing.

*Lexer.* `HandsOutLexemes`: whatever the parser peeks at and whatever lies behind
the file, it is handed the longest lexemes in their order, each once, and a file is
refused only where there is none.

*TypePool.* `NeverConfused` and `AlwaysFound`: equality is structural, in both
directions, whatever was sealed, hashed, compared and interned first; types that
contain themselves are compared with the greatest bisimulation. Of these,
`AlwaysFound` asks only that those are found equal that the same calls built and
that have all their pointers and arrays in members (section 5). `TypeOK` says that
no id dangles.

*ShadowStore.* `ReadsBack`: a member reads what was last stored in it. `OneOwner`:
no two addresses share a block.

*Sources.* `Attributed`: an id leads back to the file it was given out for.
`OneTypePerFile`: one type per file, whatever the path. `ShownWhereFound`: an
error is shown under its file, line and column although the file is read again.

*CompValues.* `ArithmeticExact`, `OrderExact`, `BitsKept`: results are those of the
integers or are refused. The corners excepted are named in the properties and
below.

## 5. Where the code disagrees with what it says

Each item names the run or configuration that shows it, where there is one.

*Heap.*
- `comp_heap_leak` is meant to refuse ranges not contained in the object, but
  the second comparison (`comp_heap.cpp:393`) is the wrong way round: what is
  refused is a slice that ends before the object does (`HeapLeak`), and memory
  that reaches past the object is accepted, and the object leaked.
- The padding in front of an over-aligned global member goes to a free list
  together with the member's own header (`comp_heap.cpp:178`; `NoOverlap` fails with
  `Requests <- WideRequests`).
  Everything about the heap is therefore proved for the requests that satisfy
  `NarrowHeaders`.

*Interning map.*
- `id_from` compares the entry in its hand with every entry it meets although,
  once the new key has its place, that entry is another key's
  (`id_map.hpp:305`). In a table without an empty slot, a displaced entry that
  goes all the way round and has the fingerprint and home of the new key is
  taken for it and is lost: the value stays, and no search finds it again
  (`IdMapFull`). Nothing keeps a table from filling up, as no call raises
  `m_lookup_used` (`id_map.hpp:274`).

*Initialization and calls.*
- `handle_load_member` suspends itself for a member of a file without pushing
  its write context back (`interpreter.cpp:2620`, `GlobalMember`).
- `handle_complete_circular_definition` leaves its two operands on the stack
  (`interpreter.cpp:6306`; `Balanced` fails with `Programs <- CircularPrograms`): with one definition they stay
  there; with one inside another, or under operands, later instructions use them
  in place of their own. `MCPrograms` of `MCGlobalInit` excludes the programs of
  these two, and nothing else.
- The `Return` of a return expression pops the scopes of the body and not the one
  `handle_call` pushed for the arguments (`opcode_pool.cpp:2059`; `Balanced` fails
  with `Sources <- WithReturn`); every such call leaves a scope behind.
- `add_name_to_closures` skips the wrong end of the closures when asked to leave
  out the innermost (`lexical_analyser.cpp:431`; `BoundByName` fails with
  `Sources <- WithOuterDefault`).
- `handle_array_preinit` pushes the contexts of the elements in the order in which
  the stack gives them back reversed (`interpreter.cpp:3745`).

*Impls.*
- The loop that puts the members of an impl in their places never increments
  `ast_index` (`opcode_pool.cpp:1897`; the same loop for a trait does, at 1770):
  every member goes to the place of the first one, with the name of the last and
  the code of the first, and the other places are not written. Every impl that
  gives two members is refused as if it lacked one of them (`impl_members`),
  although `README.md:561-575` writes one with three. The model takes an
  unwritten place to name no member.

*Front end.*
- `||` is read as `&&` (`parse.cpp:1215`; the list of tokens has it at 84).
- `finally` is parsed where its own keyword still stands (`parse.cpp:1955`), and a
  loop without a condition is refused, unlike `README.md:148-154` and `168-172`.
- An escape inside a string is measured and copied from the wrong place
  (`parse.cpp:902`), the digits of a binary number are scaled by ten
  (`parse.cpp:597`), and an exponent needs no digits.
- Behind a quote at the end of a file the terminating zero byte is taken for the
  character of a literal, and the byte behind the buffer for its end
  (`parse.cpp:664-672`, `890`); if that happens to be a quote, scanning goes on
  there (`LexerEnd`), although `source_reader.cpp:495-496` gives a file one id more
  than it has characters, for the token at its end.
- A tree that is too deep ends in the assertion of the copy (`ast_pool.cpp:221`)
  instead of the message at `ast_pool.cpp:113-114`, unless it has siblings to come
  on that many levels: only those are counted there. Without assertions the copy
  writes behind its array.
- A prefix such as `eval` in the right operand of an operator that binds tighter
  makes the parser complete that operator too early; `TokensKept` excepts it.

*Types.*
- The names of members are no part of a composite's hash or equality
  (`type_pool.cpp:1067`, `1426`), although composites with different names are
  distinct by `README.md:449` (`TypeNames`).
- Types that contain themselves are found equal when the same calls built them,
  as `type_pool_tests.cpp:433-537` and `611-690` have it. They are not when a
  pointer to the first was interned before the second was complete, when one
  refers to a composite by its own id and the other by its indirection, or when
  one is an unrolling of the other, although they mean the same.
- `composite_realloc` makes room for one member more and then copies the old
  header over the new one, capacity included (`type_pool.cpp:419`), so that the
  assertion at `2395` fails at the fifth member of a composite (`TypeRoom`). Without
  assertions the name of that member is written where the types begin.

*Shadow store.*
- `shadow_copy` takes the entry at the address behind its range along
  (`shadow_store.cpp:581`): where a datum ends at a shadow, or begins at one, as
  in the test `shadow-and-normal-member.evl`, assigning the datum copies the
  shadow too (`ShadowTogether`). Where a variable ends at the next one, assigning
  the first replaces the shadows at the begin of the second; `Touching` of
  `MCShadowStore`, given as `Composites` in the same configuration, is the
  smallest case. In the model there are no others (section 6).

*Numbers.* Corners that the properties except:
- `comp_integer_compare` compares unsigned words (`comp_values.cpp:901-912`);
  `compare` inverts the order of two negatives (`interpreter.cpp:1148-1174`).
- `bits_from_comp_integer` ignores the sign bit (`comp_values.cpp:680-686`);
  `comp_integer_from_s64` stops at every negative (`642-651`).
- `sub_checked_s64` misses zero less the least (`513-526`), division misses the
  least by minus one, and the negation of the least wraps.
- `handle_bit_not` negates types of four and eight bytes (`interpreter.cpp:5253-5270`).
- Wrapping operators are refused where they leave a type narrower than a word
  (`interpreter.cpp:4782-4831`).
- Shifts of eight and more leave low bytes unwritten or carry into the wrong
  place, and lose the sign (`comp_values.cpp:241`, `298-312`, `832-867`); a
  compile-time integer shifted to the right takes its amount for a compile-time
  integer whatever its type (`interpreter.cpp:5088`), one shifted by a fixed type
  narrower than a word fails an assertion (`491`, from `5080`), and a negative amount is reported as too large
  (`1459-1465`).

## 6. Proofs

`NumberFacts` holds what the others share: division and remainders, sums and
distances on a ring, and induction over numbers. Induction is by least
counterexample (`LeastNumber`, from the well-foundedness of the naturals), from
which follow `Increasing`, that a set with zero and closed under successor holds
all numbers up to a bound, and `IterateExists`, that a sequence of states given
by its steps exists. Remainders of negative numbers and powers of two are here too. With them the loops of the code, which the models write as
functions over the number of rounds, can be reasoned about.

**CompHeapProofs**, for every slot size, number of lists, reservation and set of
requests allowed by the assumptions of `CompHeap`, and under the hypothesis
`NarrowHeaders` (a global member is aligned to at most a slot; section 5 says
what happens otherwise):

- `SpecTypeOK`: `Spec => []TypeOK`
- `SpecNoOverlap`: `Spec => []NoOverlap`
- `SpecContract`: `Spec => ContractSpec`, the refinement
- `SpecNothingLost`, `SpecHeaderFound`, `SpecLeakWhole`: `Spec => []NothingLost`,
  and so on.

The inductive invariant of the first three is `IInv == TypeOK /\ NoOverlap`.
Neither part is inductive alone: that a reused entry is inside the heap and apart
from every block is `NoOverlap`; that it is large enough for the request served
from it is the part of `TypeOK` that bounds an entry from below by its list's
class. The bulk of the work is `AddToFreelist`: `SmallFresh`, `LargeFresh` and
`NewApart` show, from facts about division by powers of two (`SplitBelow`), that
the pieces it splits a range into are disjoint and inside it; `AddKeeps` that
adding them keeps the lists apart. One lemma per action then shows that `IInv` is
kept (`AllocReuseInv`, `AllocBumpInv`, ...), and one that it is a step of the
contract.

The other three need more: `KInv == IInv /\ Exact /\ Bits /\ NothingLost /\
LeakWhole`. An entry that is reused would lose its tail if it were larger than
the request, which `Exact` rules out for every list but the last (its entries
have exactly their class's size) and the assumption on the reuse limit for that.
The pieces of a freed range cover it, by the same division as above. `Bits` ties
both bitmaps to the live blocks, and with `NoOverlap` the search backwards from an
address cannot stop at another block.

**SourcesProofs**, for every set of paths, links, files, edits and imports and
every bound:

- `SpecReaderInv`: `Spec => []ReaderInv`
- `SpecOneTypePerFile`: `Spec => []OneTypePerFile`
- `SpecAttributed`: `Spec /\ []Unwrapped => []Attributed`
- `SpecShownWhereFound`: `Spec /\ []Unwrapped => ShownWhereFound`
- `SpecRoomy`: both, without `Unwrapped`, where the files are few and short enough
  for the counter of ids (`Roomy`)

`OneTypePerFile` is not inductive: nothing in it says which entry a path may
lead to, or that an import under way has not been answered yet. `ReaderInv` adds
that a path leads to an entry with its file (`PathsLead`), that a type is that of
its own entry (`OwnTypes`), that only the last entry is being read (`ReadingLast`)
and that what was given to importers is still what the entries hold
(`GivenKept`). `ReadingLast` is what makes the others last: the read that sets a
type then replaces none that was given out.

`Attributed` is about a binary search, whose rounds keep the entry of the id in
the span that is left and make it shorter (`NarrowKeeps`, `SearchFinds`). It
relies on `IdsKept`: first ids ascend, and each file has ids for all its
characters and one more. `Unwrapped` says that the counter is not zero, which is
false exactly in the corner described above under *Bounds*. For `ShownWhereFound`,
`ErrorsInv` adds that the records are the first errors that were found, each with
the id its place was given (`Leads`), and `LocationShows` that
`build_source_location` finds the line and column of any offset of any text. The
code's constants satisfy its assumption that fewer characters are shown before
the column than in all.

**IdMapProofs**, for every set of keys, hash, `MAX_PSL`, first and largest size of
the table and width of the load counter:

- `SpecConsistent`: `Spec => []Consistent`
- `SpecInterns`: `Spec => InternSpec`, the refinement, for finitely many keys.

Both have the hypothesis `Distinguishable`: there are fewer keys than slots in
the smallest table, so that one is always empty, or no two keys have the same
fingerprint. One of the two is needed: without them `id_from` loses an entry
(`IdMapFull`, section 5). The inductive invariant is that the table is `Good`
(each entry knows its distance from home, an entry is at most one further from
its home than the one before it, no id occurs twice) and that its ids are those
of the live values. The order makes a search that stops early correct
(`SearchReaches`). It is broken in the middle of a probe, of a rehash and of a
shift; `ProbeStep`, `ReaddKept` and `ShiftKept` say what holds there instead.
A probe that is exhausted after its key was placed leaves one entry in hand,
which the rehash behind it adds again because it works from the values
(`ActivationKept`).

**ShadowStoreProofs**, for every set of composites, metrics and values and any
number of variables and blocks:

- `SpecOneOwner`: `Spec => []OneOwner`
- `SpecReadsBack`: `Spec /\ []Separate => []ReadsBack`, under `ShadowsApart`
- `SpecSeparate`: `Spec => []Separate`, under `Padded`
- `SpecPadded`: `Spec => []ReadsBack`, under both

`OneOwner` follows from `StoreInv`: entries refer to blocks and layouts that
exist (`Whole`), the places of a sealed composite to ranks of interned layouts
(`Placed`), and a place that is held to a block that exists. One lemma says what
each loop of the code makes of the store (`InternAllFacts`, `CopyRangeFacts`,
`LookUpAllFacts`, `InitializeAllFacts`), and one per action that `StoreInv` is
kept.

`ReadsBack` adds to it that variables lie one behind the other in used memory
(`Spaced`) and that the block that is held is still that of its address
(`Located`), which is why `shadow_copy` must not replace an entry that has the
right layout. `ReadsKept`, `ReadsCopied`, `ReadsWritten` and `ReadsBeside` are
the four ways in which a step meets a variable. Shadows at one address have bytes
of their own (`BytesFacts`, `RankFacts`), shadows at others blocks of their own
(`OneOwner`).

The hypotheses exclude the two cases in which the code fails (section 5). `ShadowsApart`: no datum begins, ends or lies where a shadow
of its composite does. `Separate`: no variable ends where a later one begins.
`Padded` is a condition on sizes that implies it: any two composites are
aligned to a number that does not divide the first one's size. The composites of
`MCShadowStore` fulfil both; `ShadowTogether` and `Touching` each violate one, and
`ReadsBack` with it.

**GlobalInitProofs**, for every set of globals, every program over the module's
expressions (a literal, an import, a name, a member of a file, or a binary
operation on two of these), every entry point and any room for activations:

- `SpecTypeOK`: `Spec => []TypeOK`
- `SpecRealCycle`: `Spec => []RealCycle`
- `SpecOwnContext`: `Spec => []OwnContext`, under `NoMemberIntoContext`
- `SpecStacksKept`: `Spec => []StacksKept`, under `NoMemberIntoContext`
- `SpecInitializedOnce`: `Spec => InitializedOnce`, under `NoMemberIntoContext`
  and `NoneRefersToItself`
- `SpecMeansItsDefinition`: `Spec => []MeansItsDefinition`, under the same two,
  for finitely many globals

First comes the code of a definition: where each instruction stands in it
(`Before`, `ValueEnd`), which instructions take a context, what they mention.
The invariant `StateKnown` then says that the running code and the suspended
ones are inside the code of a definition each, every suspended one at a load of
the next (`FramesKnown`); that those that are past `prepare` have an entry on
the stack of initializations, in the same order (`InitsKnown`); and that the
flags say so (`FlagsKnown`, which contains `TypeOK`). With the first two, a
definition that is prepared while it is being initialized is one of the
suspended ones, and the loads from there on are the cycle that `RealCycle` asks
for.

The contexts are those of the definitions that are between the allocation and the
end of their value, in the order of the activations (`ContextsKnown`). A load
that is suspended must leave its context where it is, but `handle_load_member`
drops it: `NoMemberIntoContext` excludes exactly the definitions whose code loads
a member into a context (`GlobalMember` shows what happens then). With
`ContextsKnown` every write goes to the definition that is being initialized, whence `InitializedOnce`. For a
self-referring definition the two operands left on the stack may be taken for
those of another (section 5), so `NoneRefersToItself` excludes it there, as
`StacksKept` does itself.

`ValuesKnown` gives each activation the values its own code has pushed so far
(`Pushed`, by the place in the code), above those of the ones it suspended, and
bounds the temporaries among the latter by the extent recorded when the
activation began, which is what `complete` restores.

`MeansItsDefinition` needs to know what each of these values is. `ValuesMean`
says it for every activation, suspended or not, by the place in its code: once
the left operand has been pushed, it stands for the left expression, and so on
(`Holding`), where a value stands for a literal, an import, or the location of a
global that is complete (`Stands`). Such a value keeps its meaning through
whatever runs until it is read, because what is complete is not written again
(`Steady`, from `InitializedOnce`); `HeldNext` is the step past one instruction,
`MeansStep` that of a whole state. So a definition is completed with the value
that its expression has over what was complete already (`UntypedMeans`,
`WrittenKnown`). To relate this to the reference, which unfolds all definitions
at once and as often as there are globals, `Ranked` counts: a complete global has
had its value in the unfolding since as many rounds as there are complete
globals. One more is complete after the next completion, and one more round gives
its value from those before it (`AgreeNext`). The order of completions, which the
program does not show, is thereby never mentioned. The hypotheses exclude the
definitions for which the code fails (section 5); of those that refer to
themselves, TLC checks the others.

**CompValuesProofs**, for every width of a byte from two bits, every size of a
word, every set of fixed types no wider than a word, every set of operands:

- `SpecArithmeticExact`: `Spec => []ArithmeticExact`
- `SpecOrderExact`: `Spec => []OrderExact`
- `SpecBitsKept`: `Spec => []BitsKept`

The invariant, `Recorded`, is that the last outcome is the one `Apply` gives for
operands of the operator's types; the rest is arithmetic on what the bytes spell.
`FixedValue` and `FixedBack`, `CompIs` and `CompBack` relate the bytes to the
value, for fixed types and for compile-time integers, which have a bit less than
a word. Then each check of the code for overflow is shown to be exact, or to fail
in precisely the corner that the property names: `InWordFacts` and
`SubCheckedFacts` for sums and differences of words, `QuotientFacts` and
`DivisionInWord` for division. The powers of two, a recursive function, exist by
`IterateExists` (`PowersExist`).

Only model-checked:

- Liveness (`Terminates` of three modules), which is out of the prover's reach,
  as is that the probes of `IdMap` end within `Steps` and its activations within
  `Capacity`: a call that did not would be a panic in the model.
- `StackMachine`, `Impls`, `Parser` and `TypePool` altogether: they are recursive
  over syntax trees or types, and the prover does not see through `RECURSIVE`
  operators. So are `Lexer` and `TokenStream`, whose reference is a grammar.
- What the hypotheses of the theorems exclude, in particular circular
  definitions.

## 7. Not modelled

- The collector's `gc_begin`, `gc_mark`, `gc_end` and `comp_heap_next_leak` have
  no callers yet.
- Of the interpreter, the handlers of pointers and slices, templated and variadic
  parameters, composite initializers, loops with `finally` and builtins; of the
  type pool, conversions and the iteration of members.
- Floats, and integers whose width is not a power of two (a TODO of the code).
- Sorting is two loops over one array. Its heap sort, for more than eight
  elements, is given two arguments in the wrong order (`inplace_sort.hpp:60`),
  which a unit test reaches; where the models sort, there are fewer.
- The foreign function interface and the operating system layer are machine
  level; of the latter, the heap needs only that a commit may be refused and the
  source reader files, which their models have.
- Configuration, printing and diagnostics turn text into structures or back and
  keep nothing. The wording of errors is left out everywhere, and their position
  except in `Sources`.

## 8. Plan

The order was: the heap (everything else allocates from it) with its proofs, the
interning map, initialization of globals, compilation and execution of
expressions against an evaluator; then the front end from characters to trees,
types, shadows, sources and numbers; then traits and impls. What is left, in this
order:

1. The machine: omitted defaults, composite initializers, loops with `finally`.
2. Conversions between types, and the seen-sets of recursive types as sets.
3. Proofs: with recursive functions in place of
   `RECURSIVE` operators, `TypeOK` of `TypePool` and the depths of the machine.
4. The collector, once it is called.
