# Vanta in TLA+

Vanta is a small language whose functions come in *variants* chosen by
attributes (`@debug fn log`, `@release fn log`) and carry *contracts*
(`@requires`, `@ensures`, `old()`, struct `@invariant`s) that attributes switch
on and off. `vanta run --attr ...` lexes, parses, analyses, lowers and
interprets a file in one process and one thread. This directory holds TLA+
modules of that program, the TLC runs that check them and TLAPS proofs.

Nothing runs concurrently and nothing is persisted. What is hard is the
agreement of passes that read the same attribute lists in different ways,
pointers that one pass leaves for another, nesting and recursion of calls with
contracts, evaluation order around assignments, and capacity limits.

## Inventory

| Component | State | Operations | Interacts with | Correct when |
|---|---|---|---|---|
| driver (`main.c`) | active attributes, exit code | `main`, `cmd_run`, `cmd_check`, `cmd_variants`, `cmd_parse`, `cmd_lex`, `parse_attr_args` | calls every pass in turn | a pass runs only if the one before accepted; the exit status tells which failed |
| lexer (`lexer.c`) | position, line, column | `lexer_next`, `skip_trivia`, `lex_*` | hands a token vector to the parser | tokens tile the text, each is the longest there is; it ends and never reads behind the terminator |
| parser (`parser.c`) | position, error flag, `no_struct_lit` | one function per construct, `dup_ident`, `dup_string_lit` | copies text into the arena, hands a `Module` to sema | ends on every input; operators group by the table; attributes end up on the declaration they precede |
| sema: variants (`sema.c`) | buckets with growing arrays, error flag | `collect_top_level`, `fns_bucket`, `bucket_push`, `decl_required_attrs`, `select_variant`, `check_call` | leaves `resolved_fn` on calls for the interpreter, variants for lowering | every call of an accepted program points to the one most specific variant; the verdict is exact |
| sema: types (`sema.c`, `type.c`) | scopes, struct and alias tables, loop depth | `check_*`, `resolve_type`, `resolve_named`, `type_equals`, `scope_*` | sets `resolved` types the interpreter uses | what is accepted keeps to its types at run time; name lookup agrees with the interpreter's; resolution ends |
| lowering (`lower.c`) | gates remembered in a walk, kept conditions | `lower`, `collect_olds`, `lower_find`, `lower_find_struct` | reads the lists sema read; read by the interpreter through addresses | exactly the active conditions are kept |
| interpreter: calls (`interp.c`) | C stack of `call_fn`, frames, abort jump | `eval_call`, `lookup_active_variant`, `call_fn`, `interp_run`, `die` | follows sema's pointers, finds contracts by address | one implementation per function; contracts checked at entry and return, on the right state |
| interpreter: memory (`interp.c`) | heap values, frames, bindings | `eval`, `eval_lref`, `eval_assign`, `bind`, `find`, `default_value`, `alloc*`, operators | runs struct invariants after field writes | values have the types sema gave; invariants hold after mutations; pointers stay valid |
| interpreter: statements (`interp.c`) | flow code | `exec_stmt`, `exec_block` | | break, continue and return reach their target |
| arena, vectors (`arena.c`, `vec.h`) | block list, capacities | `arena_alloc`, `arena_strndup`, `vec_push` | used by all passes | allocations do not overlap; growth keeps contents |
| AST and printer (`ast.c`) | none | constructors, `print_expr`, `print_sub` | `vanta parse` prints what the parser built | a printed expression reads as the tree it was printed from |
| file input (`io.c`) | none | `read_file` | the driver | pure I/O |

`PROJECT.json` lists the hazards of this code with the lines where they bite.

## Modules

| Module | Models | Lines |
|---|---|---|
| `Lexer` | `lexer_lex_all`, one iteration of one of its loops at a time | `lexer.c` 23-252; `vec.h` |
| `Arena` | blocks, allocation, what is written where | `arena.c` |
| `Reading` | composes both: the parser copies names and strings out of the text into the arena, some at once and some later, between the nodes of the tree | `parser.c` 54-106; the late copies of 265, 580, 612 |
| `Parser` | every parse function, on token kinds, with the error recovery it has | `parser.c` 27-52, 108-182, 210-675 |
| `Printer` | how expressions are printed; composed with `Parser`, which reads them back | `ast.c` 81-178 |
| `Attributes` | what an attribute list means to sema and to lowering | `sema.c` 20-43, 277-304; `lower.c` 29-32 |
| `Variants` | sema's pre-pass and check of all bodies, down to the iterations of `select_variant` | `sema.c` 256-275, 348-385, 561-592, 818-880 |
| `Resolution` | `resolve_type` and `resolve_named`: written types become types, through aliases | `sema.c` 160-221, 310-346 |
| `Types` | `type_equals` and `check_expr` with all it calls | `type.c`; `sema.c` 388-711 |
| `Values` | tagged values, blocks of cells, frames, operators, places | `interp.c` 18-131, 146-320 |
| `Evaluation` | `eval`, `eval_lref`, `eval_assign`, `eval_call` with the builtins | `interp.c` 263-337, 393-590, 699-744 |
| `TypedRun` | composes the four: each statement is checked and, if accepted, executed | `sema.c` 713-766, 818-858; `interp.c` 600-620 |
| `Bodies` | one function body, checked by sema's walk with its scopes and then executed with frames and flow codes | `sema.c` 223-250, 713-829; `interp.c` 93-124, 600-693 |
| `Lowering` | the walk of `lower` over every variant and struct | `lower.c` 34-103 |
| `Dispatch` | what follows the analysis: `Variants` composed with the interpreter's calls | `main.c` 177-204; `interp.c` 136-144, 375-392, 451-463, 699-770; `lower.c` 105-113 |
| `Driver` | one invocation of `vanta`, from its arguments to its exit status; extends `Dispatch` | `main.c`; `interp.c` 136-144, 745-770 |
| `OneImplementation` | abstract: each function stands for one variant, fixed before the run | IMPL.md 20 |
| `Contracts` | `call_fn`: requires, old, body, result, ensures, on real values | `interp.c` 107-124, 578-587, 699-744; `lower.c` 7-27 |
| `BareCalls` | abstract: nested calls without contracts, which act in their bodies and where `Active` says that a condition acts | README of the repository |
| `StructInv` | assignments, aliasing, and the recheck of struct invariants | `interp.c` 263-371, 560-577 |
| `Driver_proofs`, `Lowering_proofs`, `Contracts_proofs`, `StructInv_proofs`, `Bodies_proofs`, `Parser_proofs`, `Reading_proofs` | proofs about the module named and, in `Driver_proofs`, about `Variants` and `Dispatch`; in `Reading_proofs`, about `Lexer` and `Arena` | |
| `Grouping_proofs` | proofs about `Parser`, on top of `Parser_proofs`: how operators are grouped | |
| `MC*` | the instances TLC checks | |

How state corresponds to code:

* `Lexer`: `cur` is the `Lexer` struct, `mode` the loop it is in, `first` the
  start of the token being made, `toks` the vector with its capacity `cap`. A
  text is a sequence of characters and ends with the terminator behind it; one
  inside a text is the character `NUL`. What a number is worth is left out.
* `Arena` and `Reading`: `blocks` is the block list, head last; `mem` maps a
  block and an offset to the character written there; `kept` is what the tree
  points to. The parser asks for most texts in the order of the tokens; the name
  of a parameter or field waits in `due` until the type or the value behind its
  `:` or `=` has been read, in which other names are copied or wait in turn.
  `Reading` knows no grammar, so any name in front of such a sign may wait, and
  the value may end anywhere. How many nodes are allocated in between is open, up
  to `MaxNodes`.
* `Parser`: `todo` is the C stack: calls and rests of calls that are still to do,
  the next one in front, so that `parse_fn` with its loops is a handful of tasks
  such as `params` and `more_params`. A token is its kind, with one kind for
  each precedence level and one for all literals but integers; `old` is the
  identifier of that name. A node remembers the first token, the operator and
  the last token, which is all that grouping is about. A declaration is filed
  at its keyword and not at its end; its attributes are known by then.
  `InCondition` and `OpensLiteral` read off the text, without a parser, which
  braces belong to a struct literal. A literal that is an argument or an index
  inside a condition counts as one only in parentheses of its own, as in the
  code.
* `Printer`: an expression is a tree of constructs; `print_expr` gives the kinds
  of the tokens in the output and `Spans` the nodes that tree would have there.
  Two ampersands without a space between them are the token `&&`.
* `Variants`: `bucket[f]` is a `VariantBucket`. Its items are declaration
  numbers; the array they live in has a name (`block`), so that a `FnVariant *`
  is a pair of array and index and can go stale when `bucket_push` moves to a
  larger array. `cur` is the position of the three nested loops (bucket,
  variant, call), `sel` holds the locals of `select_variant`, `resolved` is
  `resolved_fn` of every call expression. A declaration carries the calls its
  body makes and `typed`, the outcome of all other type rules.
* `Resolution`: a type is the sequence of its constructors down to a name, such
  as `<<"ptr", "slice", "int">>`. `types` grows by the types that were written,
  in the order the analysis meets them, `walk` is the one being resolved.
* `Types`: a check returns the type and, besides, whether it reported an error,
  whether any part got the type `error`, and the holes (below).
* `Values`: `heap` is all memory, a sequence of blocks of cells of four kinds:
  bindings of a frame, items of an array, fields of a struct, and single cells.
  A pointer is a block and an index. `frames` names the cells of the innermost
  call. A frame's block moves when it grows, or it does not: `coin`. `out` says
  how the run stands: `ok`, `died` (a run-time error that programs may run
  into), `stuck` (the interpreter stops on something the types should exclude),
  `confused` (a result was made from a payload read under a tag that is not its
  own) or `wild` (undefined in C, overflow of signed arithmetic included). Each
  reader says which tags it takes (`From`): an integer for `~`, `&`, `|`, `^`,
  shifts, lengths and indexes, a number for the arithmetic and the four
  operators that order their operands. `bin_cmp` computes `values_lt` for `==` and
  `!=` too, on operands of any kind, and drops the answer: that read decides
  nothing and is no confusion.
* `TypedRun`: `scopes` and `machine` are sema's scopes and the interpreter at
  the same point of the body. The program checks all of it first; since an
  accepted part of a body is a program, the two can be taken in step.
* `Bodies`: a body is the flat sequence of its statements, a block an opening
  entry up to its "close"; `pos` is the place in it, for the check and then for
  the run. `scopes` and `frames` hold the positions of declarations, so that a
  lookup in one can be compared with a lookup in the other; `meaning` is what
  sema found. Parameters are lets in front: they share scope and frame with the
  top-level lets. An `if` is a `match` with two arms: the frame the code makes
  for a missing `else` has nothing in it and is left out.
* `Lowering`: `n`, `src` and `k` are the loop counters of `lower`, `gates` the
  local array, `kept` the pushed conditions as positions in the list. Functions
  and structs are walked by the same two loops in the code, and by the same
  actions here.
* `Dispatch`: `stage` is where `cmd_run` is, `look` holds the locals of
  `lookup_active_variant`, `stack` the nested `call_fn`s. Control flow in a body
  is left open: it makes any of its calls, in any order, any number of times.
  What sema never looked at calls by name (`CalledByName`): the kept conditions
  and the `old()` values around a body (`CondCalls`), and the invariants of
  structs, which are evaluated wherever a field may be written (`InvCalls`). A run
  may die in any of them.
* `Driver`: `call` is the invocation with what the file holds, `at` the pass
  that has it, `rc` the exit status. `active` comes from `parse_attr_args`.
* `Contracts`: `stack` again, now with frames as sequences of bindings searched
  from the front. The single `cell` stands for all memory that activations
  share. A condition is `l >= r + d` over the operands that matter: the
  parameter, the cell, `result`, `old()` of the first two, and `open`. Sema never
  looks at a condition, so one may call and assign. An operand `open`, in a
  condition or in `old()`, stands for such an expression: while it is being
  evaluated (`Working`) the activation acts as it does in its body, calls, assigns
  to the cell and to what is bound in its frame, or dies, and then the condition
  comes out either way and a snapshot as any value. That covers every order in
  which operands are read and written. A condition without a call or an
  assignment has no effect in the code, so the other operands only read. `entry`
  and `start` are ghosts: the state a call found, and the state its preconditions
  left. What `Lowering` kept is the constant `Contract`. An activation assigns to
  variables of its own only: nobody in the model holds the address of another's.
* `StructInv`: a struct value is a reference to an array of fields, since
  copying a `Value` shares it; `at` says where a base expression leads;
  `pending` is the stack of `eval_assign`s in progress. `last` is a ghost.

Definitions with a suffix, such as `Consider_last` next to `Consider`, are
deliberately wrong forms, preceded by the comment "Mutant". No specification
uses them; each is listed in `PROJECT.json` with the property that notices it
when it replaces the right form.

### The holes of `Sound`

`Sound` says that what the type checker accepts the interpreter keeps to: every
variable holds a value of its type, through fields and pointers; no result is made
from a payload read under a wrong tag; no signed arithmetic overflows; nothing
the types exclude stops the run. It is false of
the code as it stands, so each way it fails has a name and is a ghost in
`holes`; `Sound` is about the runs that met none. TLC finds a counterexample as
soon as one of them is left out, so the list is exactly as long as the instance
needs.

| Hole | Where | What is accepted or happens |
|---|---|---|
| voidptr | `type.c` 31-33 | a `*void` that is not `null` becomes any pointer |
| compound | `sema.c` 401-411 | `p += q` on operands that are no numbers |
| float % | `sema.c` 413-430; `interp.c` 170-193 | `%` on floats, which stops the run |
| no cell | `sema.c` 393-399 | an address or assignment of `null` or of what is no place |
| field of a value | `interp.c` 293 | a field of anything but a variable |
| field twice | `sema.c` 333-345, 641 | a struct declared twice with a field of one name and two types |
| element type | `sema.c` 501-521 | `alloc_array` of an expression instead of a type |
| range | `interp.c` 552 | a range used as a number |
| no value | `interp.c` 607 | a `let` without initializer binds a void value |
| no return | `interp.c` 727 | a function that ends without `return` yields void |
| u8 | `interp.c` 59 | the default of `u8` is a void value |
| array cell | `interp.c` 253-261, 311-315 | `*p` or a field of a pointer to an array takes the array for its first item |
| order | `sema.c` 428-431; `interp.c` 229-251 | `<`, `>`, `<=`, `>=` on pointers, bools, structs or voids, which compares integer payloads they do not have |
| print | `interp.c` 436 | an array is printed as bytes whatever its items are |
| offset | `interp.c` 282, 405 | an index beyond one cell; an item of an array of negative length |
| stale | `interp.c` 107-114 | a pointer into a frame that grew or ended |
| overflow | `interp.c` 185-189, 502 | `+`, `-`, `*`, negation or division out of the range of an integer |

The last three are behaviour that IMPL.md 17 names as undefined; several of the
others are recorded as findings. So `Sound` does not say that pointers stay valid
in frames that grow: it says that nothing else goes wrong.

## Runs

| Run | Shows | Bounds |
|---|---|---|
| `dispatch` | calls are bound to the best variant through valid pointers, the verdict is exact, accepted programs are fully bound; refinement of `OneImplementation`; every activation finds its contract; the exit status tells which pass refused; the passes end | up to 5 declarations, 3 variants of `f`, 2 of `main`, 8 attribute lists over two gates, 4 active sets through arguments, every command on odd argument lists and unreadable or malformed files, 3 nested calls |
| `dispatch_two_mains` | **violated**: a tie on `main` is not an error | two declarations |
| `lowering` | a condition is kept if and only if all gates before it are active; the first condition of a selected variant depends on its own gate only | all lists up to 3 of 6 names, pairs of declarations, one list with 17 gates, `GateCap` = 16 as in the code |
| `lowering_dev_prod` | **violated**: a condition with its own gate active can still be dropped | one declaration |
| `contracts` | preconditions hold on entry and when the body begins, postconditions on return, as far as conditions that act let them; refinement of `BareCalls` | 5 functions, with conditions and `old()` operands that act before, between and behind others that do not; values 0 and 1, 2 nested calls, 1 local each |
| `contracts_result` | **violated**: a local named `result` hides the return value from the postcondition | one function |
| `struct_invariants` | a struct last written through a field satisfies its invariants | 2 places, 2 objects, 2 nested assignments, values 0 and 1 |
| `struct_invariants_raw` | **violated**: a write through a pointer is not followed by a check | same |
| `bodies` | a name means the same declaration to sema and at run time; frames follow the blocks; jumps arrive | two blocks of each of 4 kinds nested, with every choice of declarations, uses and jumps around them; three nested blocks with jumps; 2 names |
| `types` | accepted statements keep to their types at run time, but for the holes; scopes and frames correspond; the type `error` never gets into an accepted program; resolution ends unless aliases lead round | bodies of four statements in nested blocks: two that set the scene (23 and 14 choices), any operation on what they declare (over 700), and a look at the outcome; 4 modules of aliases and structs; `W` = 4 bits, frames with room for 2 |
| `reading` | tokens tile the text and are the longest possible; positions are right; every name, string and node in the arena stays as written; reading ends | all texts up to 5 characters over the characters that each loop of the lexer tells apart, with terminators inside; names and strings of 1 to 5 characters around blocks of 4 bytes |
| `parser` | modules of the language are accepted, no error token or unpaired bracket is, operators span what the precedences say, attributes reach their declaration, what is printed is read back as what it was, parsing ends | 7 modules that use every construct, each also with one token taken out, replaced or put in at every place; expressions of two operators over all levels and of three; printed: every construct around every other on each side, some on both, as a statement and as a condition |

Why the bounds are enough. A bucket's array moves when the third variant
arrives, so three variants with a call between them meet every pointer hazard.
Selection compares scores of two candidates at a time and remembers one bit, so
three candidates reach every case. A lowering decision depends on the gates in
front of one condition and the state carried over from the item before: lists of
three and pairs of items. A jump and a lookup go through any number of blocks
one at a time, and two nested blocks of all kinds show each one met from inside
and from the side. The lexer looks two characters ahead and its loops remember
nothing but where they began, so five characters see each loop entered, turned
and left at the end of the file and in front of any other; an arena block is
full, just fits or is too small with sizes up to one more than its own. The
parser looks three tokens ahead and its only memory is the stack and one
counter, so one damaged token at every place of every construct meets every
recovery; two or three neighbouring operators decide every question of grouping.
A type rule and its evaluation look at one construct and the values of its
parts; the scene statements give those parts every kind of value and of memory
behind it. A frame with room for two grows at the third binding. Four bits have
a smallest integer, carries and shifts beyond the width. Nesting of two is
enough for one activation or assignment to disturb another of the same function
or struct, and three for a call from a condition inside a call. `MaxDepth`,
`MaxLocals`, `MaxObjects`, `MaxPending`, `MaxNodes`, `Depth` and `Bound` are
bounds of the models; `GateCap` is one of the code; `W`, `FrameFirst`,
`VecFirst`, `Align`, `BlockSize` and `Statuses` are the code's 64, 8, 8, 8, 64k
and 256 made small.

`CHECK_DEADLOCK FALSE` is set where the program ends.

The violated runs are disagreements between the code and its own documents;
each is recorded as a finding, together with those that no run checks and that
were met while modelling. The ones a program can show were reproduced with it.

Fairness. The assumption is weak fairness of the next-state relation: one thread
runs everything, and a loop that can take its next step does. It is used for
`PassesEnd`, `ReadingEnds`, `JumpsEnd` and `Ends`. In `TypedRun` it is assumed
of the resolution of types only, for `ResolveEnds`. Nothing is assumed about
which step a program takes, and no run of an interpreted program is claimed to
end: it may recurse for ever.

## Proofs

`PROJECT.json` lists the theorems. Each proof module states an inductive
invariant in named parts, one lemma for every action that the invariant
survives it, and derives the properties. What each part is needed for:

* `Lowering_proofs`, for all programs, active sets and any `GateCap`. The
  invariant says what the walk knows in the middle of a list (`InWalk`), of
  the search for the declaration (`InScan`), and that nothing was kept for items
  not begun (`NotBegun`). The gates fit by cardinality: `GatesNext` shows that
  each gate passed adds one to the set of gates passed.
* `Driver_proofs` begins with the analysis, for all function names, programs
  and active sets. `BoundToBest` is not inductive: `IInv` adds that once all declarations are
  read each one is in its function's bucket (`BucketsFiled`), that the pre-pass
  binds nothing, so that no pointer exists while arrays still move
  (`UnboundInPrePass`), and that the registers of `select_variant` describe the
  candidates passed so far (`LoopInvariant`). For the verdict, `VInv` says what
  the part of the program behind the cursor has contributed: the error flag is
  set exactly if something there is wrong (`ErrorSoFar`), every call there is
  bound (`BoundSoFar`), and the one bit `tied` is exact (`TiedRegister`). A
  position of the cursor is a triple in lexicographic order.
  For all invocations, `DInv` carries the two invariants of
  the analysis on into the run and adds the registers of
  `lookup_active_variant` (`LookRegisters`), what is known at each stage
  (`Stages`, `Ends`), and that every activation runs the best variant of its
  function through a live pointer (`StackSettled`). That is what the refinement
  of `OneImplementation` rests on: the two ways of choosing a variant, through
  sema's pointer and by name at run time, give the same one, and it does not
  depend on the call. The theorem that `DispatchSpec` implements the abstract
  specification maps every step to a step or a stutter. `CInv` adds what is
  known of the file in each pass (`Places`); `ExitTells` then says which pass
  refused. The loop of `parse_attr_args` is a recursive function, so its type is
  shown by induction on the arguments that are left.
* `Contracts_proofs`, for all functions, values and contracts, conditions that
  act included. Such a condition may undo what was checked before it, so each
  property says how far it reaches. `EntryChecked`: the state a call found met
  every precondition up to the first that acts. `BodyChecked`: the state a body
  begins in meets every precondition behind the last that acts, if no `old()`
  operand does. `ExitChecked`: the state a call returns in meets every
  postcondition from the last that acts on (`Binds`), where `old()` is the state
  on entry, or what acting preconditions left of it. A postcondition on `old()`
  is excepted when an `old()` operand acts, and one on `result` when a
  postcondition before it does or the body has a local of that name.
  They need, of every activation on the stack (`Good`), that its frame begins
  with the parameter and holds the snapshots that `old()` reads (`Framed`,
  `Captured`), that memory is as it was on entry until something acts
  (`Entering`), and which conditions are met, of the state on entry up to the first
  that acts and of the state now since the last (`Required`, `Ensured`); and that
  all but the top one are where they may act (`Sound`), so that what an inner call
  does to memory cannot come between a quiet condition and the check of it.
  `ChecksTransparent` proves that `Contracts` implements `BareCalls` under the map
  that forgets everything but function, parameter and phase: cell and parameter
  change in bodies and in phases where a condition of the function acts, which the
  abstract specification is told in `Active`, and nowhere else, and calls nest.
* `StructInv_proofs`, for any number of places, objects and assignments.
  `CheckedSoFar` says that the invariants looked at so far hold of the object
  being checked, which is still true when the next one is looked at because only
  the innermost assignment can be past its right-hand side (`Nested`).
* `Bodies_proofs`, for every set of bodies in which blocks are closed
  (`Balanced`, which is what a parser can build). The invariant describes both
  walks by the text alone: `Level` says which block is the i-th around a place,
  `Decl` what it has declared by then. Sema's scopes list exactly those
  (`Listed`), what was checked so far means the first declaration of the
  innermost block that has one (`Checked`), the frames at run time are the outer
  levels of the place (`Framed`) and all of them unless a jump is on its way,
  which has not yet passed the loop it is for (`Moving`, `Jumping`). That scopes
  and frames agree after any jumps follows from both describing the same place.
* `Parser_proofs`, for all texts. `Core` says what the calls that are still to
  do will have done in the end: they leave every condition that has been
  entered and, as long as nothing is wrong, close every bracket that has been
  opened. Each task is seen in two ways (`Step`), as what it does to the open
  brackets and to the counter of conditions, and `Path` strings tasks together;
  every action trades its task for tasks, and perhaps tokens (`Reads`), that come
  to the same (`Move`, `MoveIn`). Without the first half the type of
  `no_struct_lit` is not inductive. `Bottom` says that the last task is the list
  of declarations, so that a parser with nothing to do is at the end of the
  text. `Sound` then is a fact about texts: what is read with a stack that
  starts and ends empty has its brackets in pairs (`Closed`, `WasOpen`).
  For `AttributesKept`, `Attribs` splits the tasks into some that never touch an
  attribute or a declaration and one of nine lists that do (`Stage`), and says
  for each what is filed of the text read so far (`Filed`): which attributes wait
  in `attrs` for a declaration, which for the end of a list inside a struct, and
  that all the others are on the declaration they belong to. What is inside a
  struct is known from the bracket the tasks still close (`ReadIn`, `ReadOut`).
* `Grouping_proofs`, for all texts, builds on what `Parser_proofs` says of
  brackets. For `Grouping` the text alone says where an operand has ended
  (`EndsOperand`), whether a place is in the condition of a statement
  (`Conditional`), where an expression may start (`Fence`) and how far it goes
  (`Span`). Each call then gets a contract in these words: where it may be made
  (`Starts`) and where it may return (`Yields`), without a word of the calls it
  makes in turn. `Groups` says that the tasks still to do are safe, each made
  where it may be wherever the one in front of it returns (`Through`); an action
  is right if its call has a contract at least as wide as the tasks it is traded
  for (`Goes`). Whether a brace opens a literal is where text and parser could
  disagree: the parser counts conditions and parentheses, the text looks back to
  the token that began the condition. An operator just put into the tree may end
  in front of a token that does not bar it and that only a call for an operand
  would read (`Unread`); `Groups` remembers that no such call comes next, so the
  text, if accepted, has nothing of the kind there.
* `Reading_proofs`, for all texts, alignments and block sizes. `LInv` says what
  each loop of the lexer knows (`Here`): where the text begins that no token
  covers yet, that nothing but trivia lies between, and in a comment that it has
  not ended; and, with every position of the cursor, its line and column
  (`Placed`). `QInv` says that the cursor is never behind a backslash that
  escapes it, so that a string ends with a quote that is not escaped
  (`InnerClosed`); only then is the last character that `dup_string_lit` looks
  at not half of an escape. `DecodedMeans` proves that its loop yields the
  meaning of the text, which is defined without a loop, by ranks of the
  characters that stand; the proof goes down from the end of the string.
  `MInv`, for `MaximalMunch`, says what the text that each loop has read so far
  looks like (`Said`), and `Good` that where the loop stops no longer lexeme
  ends. Lexemes are described by places in the text (`NumberLooks`,
  `OtherLooks`), so that two candidates are compared character by character.
  `RdInv` says that everything the tree points to lies below what its block
  gives out next (`Stays`), so that a later copy or node cannot touch it
  (`Stores`), which with the lexer's part gives `NamesKept`; and that what waits
  in `due` are names behind the parser, whose tokens still say what is copied then.

Induction over numbers and least elements are derived, in the modules that need
them, from the library's theorem on well-founded relations, stated with sets
instead of operators (`LeastNat`, `SetInduction`; in `Contracts_proofs` also
`RecursionUp`, recursion along a sequence); that is how the proofs reach
functions that are recursive in a sequence. The assumptions used are the ones named in the modules. They give
the inputs their types; beyond that, `BodiesAssumption` says that blocks are
closed, and `StringAssumption` that the literals of the model are strings, which the provers
do not know.

Only model-checked:

* liveness (`PassesEnd`, `ReadingEnds`, `JumpsEnd`, `Ends`, `ResolveEnds`),
  which the prover does not do. `PassesEnd` takes the resolution of types as one
  step: that it may not end is what `ResolveEnds` is about;
* `Complete` of `Parser`, which is about the modules of the language; the model
  has them as a set, of which nothing else is known;
* `Printer`, `Types`, `Values`, `Evaluation` and `TypedRun`: they are written
  with operators that are recursive in the trees of expressions, and `Values`
  with bitwise operators, which the prover does not take.

## Plan

Everything the plan named is modelled, and every safety property that is not
about recursive operators or a given set of modules is proved.

## Not modelled

What a number token is worth and the values of floats (only whether one is
zero); the sizes and offsets sema computes, which nothing reads; running out of
memory, which aborts the process; what is written to the terminal, except for
expressions, and the wording of errors; `ExitTells` speaks of refused and dead
runs only, since a run that returned may have any status; `read_file` beyond whether it succeeds;
the lines in which the printer puts statements and declarations, and the
constructors of the tree. The operands in `Printer` are names and
integers: how float, string and boolean literals are printed (`ast.c` 126-128) is
left out. Array lengths are one constructor. Control flow is in
`Bodies` and not repeated in `TypedRun`, so a variable is never read in a branch
other than the one it was checked in.
