# Formal model of the Vif compiler

`vifc` compiles a Vif program with a pool of rayon workers: files are parsed in
parallel, declarations and functions are analysed on demand by jobs that wait
for one another, types and values are interned in maps that all workers share,
and the main thread lowers finished functions while the jobs still run. Inside a
job the work is sequential: text becomes tokens, tokens an AST, the AST an untyped
instruction list (VUIR), and that a typed one (VTIR) from which LLVM code is
generated. The modules here model both: the shared containers, the jobs and the
type-info registry as concurrent systems, and the scanner, the parser, the
lowering, the analysis of function bodies and the control flow of generated code
as the machines they are. Paths below are relative to the crate's `src/`.

## Inventory

| Part | State | Operations | Hard behaviour | What makes it correct |
| --- | --- | --- | --- | --- |
| Virtual-memory arena (`common/containers/virtual_dyn_array.rs`, `common/os/alloc/*`) | `len`, `initialized`, `committed_elements`, the mapped pages, the slots | `push`, `get`, `len`, `replace` | lock-free pushes from every worker; two loads and a store of `committed_elements` around a system call | a page is committed before it is written; what `push` returned is readable, private and never changes; no pusher spins for ever; no panic below the capacity |
| Sharded interning map (`common/containers/sharded_index_map.rs`, `sharded_index_map/entry.rs`) | per shard a mutex-protected table and an arena; 32-bit packed indices | `find`, `entry`, `insert`, `or_insert_with`, `key`, `kv` | concurrent interning of equal keys; readers without the lock; bit packing | one index per key, different keys have different indices, an index reads its key back |
| Module loader (`compile_unit.rs`, `compile_unit/module.rs`) | `modules`, `module_path_to_id`, `failed_modules`, `source`/`vuir` of a module | `job_parse_module`, import resolution | imports of one path from several files at once, import cycles, missing and malformed files, an import that is no UTF-8 | one module per path, parsed once; every module is settled when the scope ends |
| Analysis jobs (`compile_unit.rs`) | `sema_jobs`, `analysis_state` of declarations, `sema_state` of modules, `sema_errors`, `codegen_tasks`, the `Arc` count | `get_or_analyze_decl_value`, `get_or_analyze_module_sync`, `analyze_sema_unit_if_needed`, `job_sema_analyze_unit`, `job_analyze_module`, the last loop of `compile` | waits that run other jobs on the same stack; failures; termination decided by two reads | a unit is analysed once, an outcome is final, every demand is answered, `compile` returns after all jobs, an emitted object is complete |
| Lexer (`frontend/lexer.rs`) | offset, state, scratch pad of strings | `next` | unchecked reads that rely on the NUL; shared prefixes; recovery inside strings | no read past the end, tokens spell the text, every scan ends |
| Parser (`frontend/parser.rs`) | offset, diagnostics | one `parse_*` per construct, recovery | errors that are recorded and skipped; loops that must make progress; binding powers | every parse ends, an accepted file was read whole, operators bind by their table |
| VUIR lowering (`ir/vuir/from_ast.rs`) | scope stack, flat instruction list, captures | one `lower_*` per construct | one list for all nested bodies; `defer`, `break` and captures found by walking scopes; result locations | bodies hold what belongs to them, jumps leave what encloses them, defers run, variables are stored |
| Semantic analysis (`compile_unit/sema.rs`, `sema/call.rs`) | blocks, the VUIR-to-VTIR map, linear slots | one handler per VUIR opcode | what is known at compile time changes what is analysed; errors used as control flow; linear values over branches | what was lowered can be analysed, no linear value is moved twice, what is decided at compile time is what the source says |
| Type-info registry (`sema.rs` 4527-5188, `codegen/llvm.rs`) | `type_to_type_info_id`, `type_info_entries` | `analyze_type_info`, lookups of the code generator, emission of the table | the same type registered by several workers; placeholder entries; a closure under a shard's mutex | ids and entries agree for everyone, the table is complete |
| LLVM code generator (`codegen/llvm.rs`) | LLVM module, break lists, the builder's block | `lower_body_inst`, `finish` | terminators depend on what was lowered last; reads shared maps while jobs run | every basic block ends in its only terminator, phis and switch cases agree with the blocks, and the code does what the source says |
| Value store (`value.rs`, `int.rs`) | interned keys and their values | `intern*`, layouts, big-integer arithmetic | widths, recursive types | interning modelled, the rest not |
| VTIR, ABI, diagnostics, plain containers, command line | - | printing, classification, formatting, I/O | - | not modelled: no state of their own to go wrong |

How the parts interact. `compile` opens a rayon scope for the loader; only when
the scope has ended does analysis start, so loader and jobs never overlap. A job
calls back into the job system when it meets a use of a declaration (waits), an
`@import` (analyses the module in place) or a call of a function (queues it).
Jobs intern types and values; the ids they get are compared instead of the keys.
Within a job, `Lexer` feeds `Parser` (which sees token kinds only), the AST feeds
`AstLowering`, and `FnCodegen` extends `SemaBody`, which extends `AstLowering`: the
run `fn_pipeline` takes a function through all three and compares the result with
the source by `FnMeaning`, which extends `FnCodegen`.
A finished function goes to `codegen_tasks`, which the main thread drains; it
stops when it holds the only reference to the compilation unit and the queue is
empty.

## Modules

`VirtArena` has one action for each shared-memory access of `push` and
`ensure_committed_for_index`: `Claim` (`fetch_add` and the capacity assertion),
`CheckCommitted` and `LoadCommitted` (the two loads), `Commit`/`CommitPanic`
(the subtraction and `virtmem_commit`), `StoreCommitted`, `Write`, `Publish`
(the successful compare-and-exchange). Builds differ in whether arithmetic is
checked and in the operating system: on unix an empty, wrapped or unaligned range
panics, on Windows the result of `VirtualAlloc` is ignored. Atomics are
sequentially consistent in the model. Every hand-over the properties rely on is a
release store or release exchange, but `get` and `get_unchecked` load
`initialized` with relaxed ordering: whether another thread may read an element
is settled by how the index reached it, which the model does not represent.

`ShardedMap` models an entry that keeps the shard's mutex from `Lock` to the end
of the call: `Occupied`, or `Push` then `InsertUnique`; `Find` is one step under
the mutex. A push is one step here because only the owner of the mutex pushes;
`VirtArena` has its interior. `Index::new` truncates the shard number as the
shift does, and its debug assertion is an abort. `returned` remembers what calls
gave their callers. `InternMap` is the abstract specification: a set of entries
to which a fresh key and index are added and in which only values are replaced.

`ModuleLoader` models `job_parse_module` in the steps other jobs can see: the
failed read, the failed parse, the parsed file, each import (lookup and creation
under the lock of `module_path_to_id`) and the final `vuir.set`. An import path is
the value of a string literal, which an escape can make invalid UTF-8 (`NotUtf8`):
the `unwrap` of line 860 then panics in the job (`PanicImport`), which neither sets
the module's VUIR nor records a failure, while the scope waits for the other jobs.
A file that is not UTF-8 is one that cannot be read (`read_to_string`). File
contents, path normalisation and import lists are constants.

`SemaJobs` models the pool as one stack and one queue per worker. The analysis of
a body is abstracted to the sequence of requests it makes and to its verdict
(`ok`, `error`, `silent` for an error without a diagnostic, `runtime` for a global
whose value is not comptime-known); the program is chosen from a set. A request is
answered (`DeclReady`, `ModuleReady`), spawns (`DemandDecl`, `CallFn`,
`SpawnTask`), starts a module in place (`ClaimModule`), fails (`Propagate`, or the
abort of `ModuleUnwraps`) or waits, and a waiting worker runs another job on top
of its stack (`Yield`). The last loop of `compile` has its two reads apart
(`CheckCount`, `CheckEmpty`). The queue discipline and stealing are rayon's and
are modelled from how the code uses them. The parameters of a function instance
take their types from its interned function type (`sema.rs` 2186-2191) and so make
no request; the `unwrap` around them (line 1167) is not modelled.

`Lexer` is `Lexer::next` with one action per state of its loop, over texts of
abstract characters; a word of the keyword table is one character, and an operator
state is the spelling read so far. Offsets count these characters, and the NUL at
the end is one of them, so a span is exact up to the width of a character. Doc comments are skipped, as the code does.

`Parser` gives each `parse_*` function as a sequence of small instructions on the
token stream (expect, eat if, match, call, give back, record an error, build a
node) and one action per kind of instruction. Nodes are recorded by kind in the
order they are built, which is enough to tell trees apart. `MaxDepth`, `MaxErrors`
and `MaxNodes` bound the stack, the count of diagnostics and the record.

`AstLowering` gives each `lower_*` function as an operator on the lowering state
(they call one another through `LowerTree`, which picks the operator by tag):
the instructions, the flat list, the scope stack, captures, imports, errors. A
module is lowered in one step; the intermediate states of a sequential function
are not observable. An instruction keeps its opcode, the instruction it refers to,
its operand and its bodies. The operator of an expression, names given to types,
and the arms that are `todo!()` (many-pointers, nullable and function types, null
and character literals, ranges) are left out.

`SemaBody` continues with one function of the lowered module. The `Sema` is a
record, `analyze_*` functions are operators on it, and an error on its way up
(`AnalysisFailed`, `ComptimeBreak`) is a field. A value is known at compile time or
the VTIR instruction that computes it, with its type; this is what decides which
arm of a branch is analysed, whether a variable disappears and where a break ends.
A Block or Loop has the type of its first break, and the other breaks must have it
too. Of `coerce` only this check is kept: types are the same or the function is
rejected. Enums are declared with their tag type and values (`Enums`): a variant
without a value has its position, a value that is there twice or does not fit is
refused, and a tagged union has the values of its tag (`TagTy`).
`check_switch_exhaustive` collects the tag values of the patterns and looks for the
value of each variant among them, as the code does. Other declarations of types and
functions are given; arithmetic, aggregates, payload captures, generic and inlined
calls are left out.

`FnCodegen` turns the VTIR of an accepted function into basic blocks with their
calls, loads and stores, phis, and terminators; constants of an enum are the bits
of their tag value. The builder's current block and the break lists are kept because
they decide where a terminator goes and what a phi has.

`FnMeaning` runs a function twice on every choice of arguments: from its syntax tree,
by the meaning the language gives to its constructs, and from the basic blocks. What
is compared are the calls made, in order and with their arguments, and how the run
ends (`BehavesAsSource`). Beyond the record of calls the two share only the value of
a tag (an argument is handed over as its bits) and the rule that the n-th call gives
the n-th result. A run is cut when its loops have taken
`Turns` turns together, on both sides at the same place.

`TypeInfoRegistry` models `analyze_type_info` by several workers in the steps other
threads can see: the lookup, the walk through the types the information refers to
(each a nested call), the entry under the shard's mutex, the push of an empty
entry, its replacement, and the insertion that gives the mutex back. The code
generator reads ids of functions that are analysed (`LowerAny`) and writes the
table (`Finish`). The map and the arena are one step each here: `ShardedMap` and
`VirtArena` have their interior.

Operators whose name or comment starts with "Variant" are deliberately wrong forms
of the definition that follows them. They are not part of any specification; each one
shows that a property notices that mistake.

## Runs

| Run | Configuration | Shows |
| --- | --- | --- |
| `arena` | 3 threads, capacity 3 in two granules, one claim more than fits, all four builds | pages are committed before they are written, what `push` returned is readable, private and stable, and pushes return |
| `arena_no_panic` | 2 threads, unix release | two threads in one granule: the second one commits an empty range and panics (a violation) |
| `map` | 2 threads, 5 keys over 3 of 4 shards, 2 shard numbers fit, capacity 2, debug build | one index per key, read-back without the lock, refinement of `InternMap`; reaches the full arena and the failed assertion |
| `jobs` | 3 workers, six programs: nested and shared declarations, failure, a non-comptime global, an unparsed module, a cycle, a failing file-level type | units run once, outcomes are final, `compile` returns after everything, objects are complete |
| `jobs_live` | 3 workers, four programs whose declarations ask for no declaration | every demand is answered and `compile` returns |
| `jobs_nested` | 2 workers, two functions that share a declaration initialised from another | a hang without any cyclic dependency (a violation) |
| `loader` | 3 threads, 6 files: cycle, diamond, two spellings of a path, missing file, malformed file, an import that is no UTF-8 | modules are unique, parsed once and settled (but for the one whose job panicked); imports resolve; the scope ends |
| `lexer` | every text of up to 3 or 4 characters over alphabets of operators, numbers, names, strings and lines, and longer ones | reads stay in bounds; tokens and the blanks, comments and reported errors between them are the text, with the longest operator each time; a string holds its own value; scans end |
| `parser` | a program per construct, each with every token left out or replaced once; infix expressions of up to three operators | reads stay in bounds, parses end, accepted files are whole, operators make the tree of the reference |
| `lowering` | 2 646 modules: jumps and defers nested two deep, bindings, generic parameters, captures through three types, repeated names | bodies hold what belongs to them, jumps leave what encloses them, defers run innermost first, variables are stored once, captures reach their local, generic parameters are exactly those that read an earlier one |
| `fn_pipeline` | 6 544 functions: jumps, calls that do not return and moves of linear values in compound statements two deep, defers, conditions known or not, switches over enums with and without tag values, `bool`, tagged and plain unions with every choice of up to three cases, variables of each kind initialised from every kind of expression | lowered functions can be analysed, no path moves a linear value twice, generated blocks are well formed (one terminator, at the end; a phi entry per predecessor; switch cases apart; a value returned where one is due), and the blocks do what the source says on all arguments |
| `type_info` | 3 workers, 7 types in 2 shards that share what they refer to | every entry that can be looked up is complete and names the ids everyone has; the table is written |

`TokensSpellText` has five parts: kinds are ones the token list has (`KindsListed`),
what lies between tokens is blank or a comment (`GapsBlank`), an operator is the
longest that the text starts with (`LongestOperator`), an invalid token has one
diagnostic (`InvalidReported`), and recovery stops at the end of a line
(`RecoversOnLine`). `OperatorTree` compares the parser with a reference that splits
an expression at its loosest operator; `MovedOnce` enumerates the paths of the
generated VTIR, where the code only looks at the order of instructions. `Analysed`
says that no `expect` or assertion of the analysis fails and that the stack of blocks
ends as it began.

Bounds. Two threads are enough for each of the pairwise races; a third is there
to interleave with both. Two granules are needed for `committed_elements` to go
backwards, three keys of one shard to fill it, and shard numbers on both sides of
the index's range. The analysis programs have three functions and three
declarations: the smallest with a shared and a nested declaration and a function
called from two places. `MaxClaims` bounds the pushes; it is above the capacity so
that the panic of a full arena happens. No state of the scanner depends on more
than the four characters an operator or an escape can have. Parsing errors are
single: one token left out or replaced reaches every error path of the construct.
Statements two deep put every jump inside and outside every construct. Three turns
(`Turns`) see a loop entered, repeated and left, and a nested one entered again. An
enum of three variants with values out of order tells values from positions. Types of two
levels below the requested one make a worker's walk overlap with another's.
Deadlock checking is off where the system may stop: a pool with no work, an aborted
process, a compilation that returned, a function that was generated.

Fairness. `FairSpec` of the arena and of the loader is weak fairness of each
thread inside an operation: the operating system schedules every pool thread, and
no push is ever required to start. `FairSpec` of the jobs is weak fairness of each
worker and of the loop of `compile`: rayon's workers keep looking for work, and no
step of one job has a lock that another could starve on. The registry has weak
fairness of each worker and of the main thread's lowering and finish; a step that
takes a shard's mutex is enabled again and again at most as often as there are
registrations left, which are finite, so strong fairness is not needed. The scanner
and the parser are sequential: weak fairness of their next step. The liveness of
nested declarations is not claimed: `jobs_nested` refutes it. `jobs_live` therefore
restricts the programs, and this is a restriction of what holds, not of the code.

## Where the code disagrees with its own text

The two violation runs are about a comment and a doc of the repository, quoted in
`PROJECT.json`: the panic in a commit race and the nested wait.

The passing runs leave out the inputs below, on which a property does not hold. The
sets are in the MC modules; giving one to the constant in a configuration that
checks the named property reproduces the case.

| Where | What happens | How to see it |
| --- | --- | --- |
| `virtual_dyn_array.rs` 209 | `committed_elements` goes backwards when a slow thread stores last; the test `committed_elements_never_decreases` (468) has a single granule. `MappedBeforeWrite` shows that it is harmless by itself | reachable in `arena` |
| `virtual_dyn_array.rs` 207 | an element size that does not divide the page: the second commit starts inside a page and `mprotect` refuses | `ElemSize = 3`, page and granule of 4, one thread, `NoPanicWithinCapacity` |
| `sharded_index_map.rs` 62 | more shards than six bits name, release build: keys of different shards share an index | `map` without debug assertions, `OneIndexPerKey` |
| `compile_unit.rs` 1115 | a global that is not comptime-known is never marked `Failed`, its waiters wait for ever | `RuntimePrograms`, `DemandAnswered` |
| `sema.rs` 1289 | a packed struct fails without a diagnostic and the object lacks what depends on it | `SilentPrograms`, `ObjectComplete` |
| `lexer.rs` 933 | `*=` is scanned as `*` and `=` although the token list has it | `StarTexts`, `LongestOperator` |
| `lexer.rs` 1928 | a comment on a last line without a newline is scanned as code | `LastLineTexts`, `GapsBlank` |
| `lexer.rs` 1939 | a carriage return without a line feed in a comment is found again for ever | `LoneCrTexts`, `Terminates` |
| `parser.rs` 2639 | a file that ends after an expression inside a block: the token given back was not taken, and the statement is parsed for ever. A block left open whose last statement is a block is accepted: its `}` is read twice | `OpenFiles`, `Terminates` and `AcceptsWhole` |
| `parser.rs` `parse_init_expr` | `.` before neither a name nor `{` calls the function on itself | drop `NoEndlessDot` |
| `from_ast.rs` 1501 | `const v: T = &p` is lowered to an allocation that nothing stores to; a captured identifier drops its result location the same way | `MCAddress`, `InitStored` |
| `sema.rs` 2760, 2897 | a comptime initialiser with a block or loop that is left by `break`, or a switch without `else`: the `ComptimeBreak` of 1972 leaves the handler of the block with its child stacked, `analyze_comptime_block` swallows it, and the assertion of `unstack_block` (485) fails, as in `comptime const y = l: { break :l A };` | `ComptimeJumps`, `Analysed` |
| `sema.rs` 2490 | a comptime variable assigned in an arm of an `if` on a runtime value has the new value whichever arm is taken | `ComptimeStores`, `BehavesAsSource` |
| `sema.rs` 3046-3083, `from_ast.rs` 1722 | a switch on a constant without `else`: the arm's own Break is followed by the one for a missing `else`, two terminators in one block; when no case matches, the `expect` panics | `ConstantNoElse`, `WellFormed` and `Analysed` |
| `sema.rs` 5454, `llvm.rs` 1630 | a pattern that is there twice is not reported, and the LLVM switch has the case twice | `RepeatedPatterns`, `WellFormed` |
| `sema.rs` 1562 | the position of a variant without a value is interned in the named tag type without a check that it fits; the constants then agree in their bits | `NarrowTags`, `WellFormed` |
| `llvm.rs` 1728 | a block left with a value on one way and run to its end on another: the phi has no entry for the second | `OneWayValues`, `WellFormed` |
| `sema.rs` 2725 | `return` without a value is accepted in a function that gives one | `BareReturns`, `WellFormed` |

Met while reading, and modelled as the code has them unless said otherwise:

- parser: a file of invalid tokens only is accepted as an empty module by the
  parser; `((a) + b)` is rejected; `[n: 0]T` is read as a label;
- lowering: `break` and `continue` do not run defers, so `DefersRun` is about
  returns and block ends; a label is found through the boundary of a function; the
  label of a switch is not visible in its cases; `return` in the initialiser of a
  declaration panics (left out);
- analysis: a linear value moved in one arm of a branch counts as moved on both, so
  a path may drop it although the note at `sema.rs` 614 says it cannot, and moving
  it in both arms is rejected; a move inside a loop is accepted; storing or
  returning a linear parameter does not move it. `MovedOnce` is what is left of
  linearity on the paths that go through a loop at most once. A switch
  without `else` never gives a value: the void Break for its missing `else`
  (`from_ast.rs` 1722) does not coerce to the type of the arms and the function is
  rejected. A call that does not return used as an
  argument or in a `defer` leaves instructions behind `Unreachable` (left out
  of the programs); `if c { return } else { return }` at the end of a function with
  a result is rejected; errors that stand for a jump (`InlineReturn`,
  `ComptimeBreak`) are swallowed by branches of inlined calls (not modelled);
- type information: a type that refers to itself through a pointer is looked up
  again before it is registered, and the walk does not end. The types of the run
  are acyclic.

## Proofs

`VirtArenaProofs` proves, for every set of threads, capacity, element size,
granularity, page size and build, that the arena is safe (`ArenaSafe`) and
published elements are stable (`ArenaStable`). The inductive invariant adds to the
properties: every element below `committed` is mapped, a thread that loaded
`current` knows that everything below it is mapped (and, before its store,
everything below its target), claimed indices in flight are distinct and not below
`initialized`, and a thread about to publish has written its slot. The middle part
is what makes a counter that may decrease safe. The arithmetic of the commit
target is the lemma `CommitTargetCovers`.

`ShardedMapProofs` proves, for every set of threads, keys and values, every hash
function and every geometry with `IndexFits` (debug assertions on, or no more
shards than the index can name), that returned indices identify keys and read back
(`MapSafe`) and that every step is a step of `InternMap` or changes nothing
visible (`MapImplements`). The invariant says that table entries are initialized,
slots of a shard hold distinct keys of that shard, a call in progress holds its
shard's mutex, a slot that is pushed and not yet named belongs to the call that
pushed it, and returned indices are those of named slots. `EncodeInverse` and
`EncodeInjective` carry the bit packing. The hypothesis `IndexFits`
cannot be dropped: see the third row of the table above.

`ModuleLoaderProofs` proves the four safety properties of the parse phase for every
set of threads and files and every import graph. None of them is inductive alone.
The invariant adds: a path that has an id is the path of that module (`PathNamed`),
a job that was spawned and not yet taken has done nothing: no import passed, no VUIR
(`PendingFresh`), failures name distinct modules (`FailedOnce`), every module is
waiting, being parsed, parsed, failed or given up by a panic (`Accounted`, from which
`Settled` follows when nothing waits or runs; `PanickedOut` keeps the last apart from
the others), and the imports a job has passed resolve
(`PassedResolve`, from which `ImportsResolve` follows when it has passed all).

`TypeInfoRegistryProofs` proves `TypeInfoFollows` for any workers, types and
requests. The frames of a worker are nested calls, so the invariant describes the
whole stack (`WorkersOK`): below the top each frame waits for the type of the frame
above it, a frame has the ids of the types it has walked past, and a worker that
registers holds the mutex of the type's shard. A reserved id belongs to one worker
and to no type yet (`ReservedAlone`), every entry is registered or about to be by
some worker (`Covered`), the entry of a registered type is complete (`Registered`),
and so is what the program was given and what is in the object (`Returned`). The argument is that an id is published only
after the entry is replaced, and ids never change.

`SemaJobsProofs` proves the safety properties of the job system for any number of
workers, any units and any programs. `IInv` says where units are (`Placed`: none is
in two places, a closure holds a clone of the Arc exactly while it is on a stack or
in a queue, a module being analysed is on one stack, `compile` is at the bottom of
the main thread's stack and a closure at the bottom of every other), that the
entries of `sema_jobs` that are queued are those with a live clone (`Counted`), that
a spawn that was passed cannot happen again (`SpawnPassed`), that a declaration
whose job has not started is unanalysed and a final outcome comes with the end of
its analysis (`OutcomeOnce`), and what the loop of `compile` knows at each of its
loads (`LoopOK`: once it has seen a strong count of 1 no clone is left, so nobody
can push a task; this is what makes two loads at different moments enough). `ObjectComplete` needs a second
invariant, `CleanInv`: while no error is recorded, no unit has failed, requests that
were passed are answered, and functions that ended are handed over or lowered.
`JobsObject` has the hypothesis `NoSilentFailure`, that no unit of the program fails
without a diagnostic; the packed struct in the table above is why.
`JobsOutcome` is an action property, from the same invariant.

`LexerProofs` proves, for every set of texts, that the scanner never reads past the
NUL (`InBounds`), that tokens are not empty, in order and disjoint
(`TokensInOrder`), that diagnostics and invalid tokens correspond one to one
(`ReportedOnce`, from which `InvalidReported`), and that an invalid token stays on
its line (`RecoversOnLine`).
Each action is shown to be one of five motions (start a token, read on, return a
token, return a single character, skip a comment); each motion preserves the
invariant, which also has that the token in hand is not empty (two characters
before `..` gives a dot back), and that it holds no line end. That loops stop in
the buffer rests on NUL being in no class they skip (`Classes`, `SkipStops`), that
`memchr` finds the first hit on the least element of a set of naturals (`Least`).

`LexerTokensProofs` goes on to what the tokens are: `TokensSpellText` and
`StringValue` for every set of texts. Its first invariant (`TextInv`) says what each
state tells about the characters from the token's start to the offset (in the state
`Op` they are a state of the operator table, in `LineComment` two slashes), what the
tokens returned so far are, and that only blanks and whole comments lie between the
last token and the offset. That a token is of the list is then a fact about the
table, and so is that no operator is cut in two: `ListContinues` says that the table
has an arm wherever an operator of the list goes on, and `LongestHere` carries it to
the text. The theorems have two hypotheses on the text, because the code does
otherwise there (rows `lexer.rs` 1928 and 933 above): every comment has a line end
(`CommentsEnd`, for `GapsBlank`) and there is no `*=` (`NoStarAssign`, for
`LongestOperator`). Without them `LexerKindsListed`, `LexerReports` and
`LexerRecovers` still hold. `StringValue` needs a second invariant (`StrInv`): outside
of strings the scratch pad is empty, and inside, wherever the string will end, its
units are those of the scratch pad and the ones written from the offset on
(`StringAt`). The reference `Decode` is a recursive function over the positions of a
text. That the recursion has a solution (`UnitsExist`) and what it gives for a run of
plain characters (`RunUnits`) is shown by way of a least counterexample; one lemma
per form of escape shows that what the scanner pushes is the unit `Decode` reads
there, wherever the string ends.

`ParserProofs` proves, for every set of token streams, that the parser never leaves
the tokens (`ParserInBounds`) and that a file is accepted only when `parse_module`
has come to the `Eof` (`ParserReadsToEnd`, the first part of `AcceptsWhole`). A state
holds the instructions that are left of the calls under way, and these are not
bounded, so the invariant says of them that they are safe: safe on any token
(`Code`), safe before the `Eof` (`CodeOn`), or safe where the next token is before the
`Eof` too (`CodeTwo`). Safe code is code over a pair of sets of instructions that no
step leaves (`Closed`), which takes the place of an induction over the code. One
lemma per `parse_*` function shows that it is code of its strength, so the proof
finds for each unchecked `bump` the test that its callers made. The rest of the
invariant says that the bottom of the stack is `parse_module`, which is left at the
`Eof` only, and that the tokens end in their only `Eof`.

Each inductive invariant was checked by TLC on the instance of its run before it was
proved. Two parts need help or are out of TLC's reach: `StringAt` also decodes texts
that are cut inside an escape, whose value TLA+ leaves open, and was checked with a
decoder that gives them one; that there are sets of instructions that make the rest
of the parser's code safe is no question TLC can answer, and the `parser` run checks
what follows from it (`InBounds`, `ReadsToEnd`).

Assumptions are those of the modules, and TLC evaluates them in every run:
`ArenaAssumption`, `UnsetAssumption`, `MapAssumption`, `NoneAssumption` (positive
sizes, placeholders that are not threads, keys or values, a shard capacity below the
local index range, 8192 against 2^26 in the code), `LoaderAssumption` (the initial
modules are distinct paths, every file has a list of imports that resolve to paths,
and a kind of content; names that are not UTF-8 are names), `RegistryAssumption` (what a type
of each kind refers to is a type), `TextsAssumption` (texts are finite),
`FilesAssumption` (the tokens of a file hold no `Eof`; the scanner puts one behind
them), `JobsAssumption` (units of different kinds are different) and
`StartAssumption`: the closures of `std_rt` and of `main` are spawned once each, the first by `compile`
and the second by the analysis of `std_rt` (`compile_unit.rs` 590-602, 1001 and
1028), which is how the code starts every program.

Only model-checked:

- all liveness: the prover does not handle fairness;
- the bracket counts of `AcceptsWhole`: they do not hold of every file (row
  `parser.rs` 2639), and what tells the files apart is the grammar itself;
- `OperatorTree`: it compares with a recursive reference over trees;
- `AstLowering`, `SemaBody`, `FnCodegen` and `FnMeaning`: recursion over trees, which
  the prover does not handle.

## Plan

Done: all modules above, and the proofs of every safety property of the concurrent
components (`VirtArena`, `ShardedMap`, `ModuleLoader`, `SemaJobs`,
`TypeInfoRegistry`), of the scanner, and of the bounds of the parser. Left, in this
order:

1. Nominal types: a struct that is analysed again is interned with no value first,
   while others hold its type (`sema.rs` 1192), and the dropped error of a
   parameter's type (`sema.rs` 1822).
2. A composition of `ModuleLoader` and `SemaJobs` through the end of the scope.

## Not modelled

- Comptime integers (`int.rs`), type layouts, packed fields and the ABI
  classification: pure arithmetic over wide integers. A model would repeat the code
  line by line, and TLC could only sample it.
- Coercions that change a value, arithmetic, aggregates, generic and inlined calls,
  builtins of `sema.rs`: a large case analysis over types without shared state.
- Instruction selection, debug information and types of the code generator: calls
  into LLVM.
- Printing of the IRs and of diagnostics, argument parsing and the linker call:
  text and I/O. The standard library and the UI tests: inputs.
- Memory orderings weaker than sequential consistency.
