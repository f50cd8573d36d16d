# dacelo: TLA+ models and proofs

dacelo is an ML-like language with six implementations, each built with an
earlier one: a Rust interpreter (`gen0-interp-rs`), an interpreter in dacelo
(`gen1-interp-dc`), a Rust compiler with a conservative collector
(`gen2-dcc-rs`), a compiler in dacelo (`gen3-dcc-dc`), that compiler with type
inference (`gen4-infer-dc`), and the current system `gen5`: row-polymorphic
inference with holes and error recovery, modules, a query tool, an ownership
pass and a reference counting back end with its C runtime `rt5.c`.

This directory holds TLA+ models of the parts, the instances on which TLC checks
them, and proofs that TLAPS checks for every instance. The first subject is gen5,
because it is what ships and because it has the hard memory invariants; the
second is the pair that everything else was bootstrapped from, the gen0
interpreter and the gen2 compiler, which share lexer, parser and inference and
must agree on every program.

Contents: [inventory](#inventory), [modules and code](#modules-and-code),
[runs](#runs), [findings](#findings), [proofs](#proofs),
[not modelled](#not-modelled), [plan](#plan).

## Inventory

| Part | State | Operations | Talks to |
|---|---|---|---|
| RC runtime (`rt5.c`) | block headers (20-bit count, size, tag), worklist `wl` (a growable array of dead blocks), global table, `n_live` | dup, drop, drop for reuse, reuse or allocate, fill, gset/gget, shutdown check | generated code, allocator |
| Allocator (`rt5.c`) | exact-size lists, size classes with occupancy bits, current chunk | alloc, free, carve, first fit, new chunk | runtime, malloc |
| Ownership pass (`g5_oir.dc`, `g5_own.dc`) | the tree, signatures of parameters (owned or borrowed), fresh names | ANF conversion, borrow inference to a fixpoint, dup/drop insertion, reuse pairing | parser, code generator |
| RC code generator (`g5_cg.dc`, `g5_cgdriver.dc`) | frame slots, labels | one instruction sequence per IR form, curried levels, thunks | runtime |
| Loader, check driver (`g5_driver.dc`) | stack of visits, loaded files, export tables, verdict | visit, check a file, build its table | inference, file system |
| Compile driver (`g5cc_driver.dc`) | merged file list | gate on the verdict, duplicate names, lower, emit, assemble, link | check driver, code generator, `cc` |
| Inference (`g5_infer.dc`) | substitutions for types and rows, counters, hole variables, holes with candidates, declared types, traces, failed names, status | unify, generalise, instantiate, snapshot and rollback, contract check, hole candidates, item boundary, item loop | check driver |
| Query (`g5_query.dc`) | none beyond the checker's result | types, focus, why, holes, interface, interface diff | check driver |
| Front end (`g5_front.dc`) | token list | lex, parse, format | check driver |
| Record lowering (`g5_lower.dc`) | none | records to association lists and helper calls | compile driver |
| Gen2 runtime (`rt/rt.c`) | chunks, free list, mark bits, global table, arities; roots on the stack | alloc, mark, sweep, partial applications, comparison, builtins | generated code |
| Gen2 code generator, encoder (`codegen.rs`, `encoder.rs`) | code buffer, labels and fixups, slots and scope of the function, deferred functions, data, externs | one instruction sequence per form, constants, branches, addresses | Gen2 runtime, object writer |
| Gen2 object writer, driver (`macho.rs`, `main.rs`) | symbols, relocations; the files written so far | lay out, read, check, generate, write, link, run | C compiler, file system |
| Gen0 lexer, parser (`lexer.rs`, `parser.rs`) | position | lex, parse | everything in gen0 and gen2 |
| Gen0 inference (`infer.rs`) | links of the type variables, environment, constructors, declared types | unify, generalise, instantiate, infer a group, check a type | interpreter, gen2 driver |
| Gen0 evaluator (`eval.rs`) | environments, output | run items, evaluate, match, apply | - |
| Gen1, Gen3, Gen4 | as Gen0's evaluator, Gen2's code generator, Gen0's inference | | |

What makes each part correct, and what is hard about it:

- **RC runtime.** Counts equal the owned references at every instant, also in the
  middle of a release; nothing is queued twice; reuse of a block in place is
  invisible to the program; counts stick when their 20 bits are exhausted. A
  violation needs a long sequence of calls and shows as a crash much later.
- **Allocator.** Live blocks, free lists and the chunk partition memory; the
  occupancy bits agree with the lists; memory grows only when it has to. Six
  places update the same bits.
- **Ownership pass.** The code it emits computes what the source computes,
  consumes what it owns and nothing else, and keeps no dead block. A defect
  shows only on particular combinations of branches, aliases and closures.
- **Loader and drivers.** Any import graph is handled; a verdict depends on a
  file and its imports only; what the back end links is what was checked,
  although it resolves names again in one flat namespace.
- **Inference.** Items are independent: an error in one neither hides nor spoils
  others; rollback really undoes; unification yields most general types; a
  contract is accepted exactly if it is an instance; an offered name fits; what is
  accepted runs. Two substitutions of different lifetimes (types are forgotten at
  every item boundary, rows are kept) and trials that are undone in the middle of
  an inference are what makes it hard.
- **Gen2 collector.** What is reachable survives unchanged although any word of
  the stack may pass for an address; what is not reachable is reused; headers lead
  from block to block whatever was split, freed or never handed out. A wrong
  header shows only when a later walk arrives at it.
- **Gen0 front end.** What is parsed is what was written; an accepted program does
  not go wrong. Variables are shared cells, and environments outlive what they
  belong to.
- **Gen2 compiler.** The compiled program does what the interpreter does with the
  same source. Slots, scopes, labels, frame sizes, relocations and symbol numbers
  are each kept in one place and used in another, and a test sees only the output
  of the few programs that somebody wrote.

There are no threads that share state (the C runtime starts one thread with a
large stack and joins it), no network and nothing persistent but output files.
The hazards are therefore long call sequences, order of steps inside a call,
stale state, partial failure, boundaries and termination; `PROJECT.json` lists
them with their lines and the properties that would catch each one.

## Modules and code

`PROJECT.json` ("map") gives the source lines of every definition. Definitions
named like a neighbour with a suffix and introduced by a comment "Mutant:" are
deliberately wrong variants; each shows that a property can fail.

### Rt5Rc: reference counts (`rt5.c`)

State: header fields `tag`, `size`, `rc` and payload `word` of each block; `reg`
and `toks`, the references and reuse tokens that the running code holds; `glob`,
the global table; `wl`, `blk`, `idx`, `keep`, the worklist and the local
variables of release_children, wl_drain and dc_drop_reuse; `pc`. The loops over
child words take one step per word, so states between two header writes are
states of the model. One action per call: `Dup`, `Drop`, `DropReuse`, `Gset`,
`Alloc`, `Reuse`, `ReuseMiss`; fills are word by word (`FillMove` moves an
owned value, `FillDup` is what dc_ctor_step and dc_builtin_step do, `FillSelf` is
the uncounted self reference of a local recursive closure).

The client is the most general program that keeps the ownership contract stated
at the head of rt5.c; that compiled code is such a program is what G5Run checks.
A dup at RcImmortal - 1 saturates (dc_gget is a dup of a global); a dup or drop of a
freed block or of a zero count leads to `use_after_free` or `underflow`, the
states in which the C code aborts. `Rt5RcProofs` and `Rt5GarbageProofs` hold the
proofs.

### HeapSpec, Rt5Alloc: the allocator (`rt5.c`)

`HeapSpec` is what the runtime needs from an allocator: blocks handed out are
disjoint and inside memory. `Rt5Alloc` models push_free, pop_big, first_fit,
carve, bump_alloc, new chunks and the class bits, with the code's constants
(64, 256, 8 sub-classes, 16, 2^20) as parameters, and implements HeapSpec
(property `Implements`). The intrusive list pointers are sequences.
`Rt5AllocProofs` holds the proofs.

### G5Anf, G5Own, G5Run: from source to executed code

`G5Anf` is the ANF conversion (g5o_cv_*): from surface trees to ownership IR,
renaming each binder. `G5Own` is borrow inference, insertion of dups and drops,
and reuse pairing. `G5Run` performs the inference pass by pass (`Infer`), then
picks an entry of the compiled program - a direct entry, a lambda body, a curried
level, a value thunk - with every assignment of small values to its parameters,
and executes it on a counted heap as g5_cg.dc's code does, one action per IR
form. Beside the counted environment it keeps the values that the source program
computes (`tree`), which is the specification that `Faithful` compares with.
Calls are by contract: the callee consumes its owned arguments and returns an
owned value; since every entry of every program is run, each callee is checked
against the same contract.

The source tree is that of gen3's parser, whose output gen5's back end reads.

### G5Items, G5Loader: files, items, programs

`G5Items` is the item loop of the checker (g5_run_items): which items are
inferred, skipped, continued after, or excused by a hole, and the verdict of a
file. Types are abstracted: an item says whether its body is wrong, whether the
message about it is one of those that g5_is_tentative accepts, and whether it
contains a hole; which names it binds and uses is kept in full, so unbound
names, shadowing, failure dependencies and duplicate types are real.
`G5Loader` is the program around it: g5_visit's depth-first load with its stack
and list of files, g5_check_loaded's program-wide checks, the check of each file
against the export tables of its own imports, and g5cc_main's merge into one
namespace. A file system is a function from names to files in one directory; a
file that is imported and missing cannot be read. `SameMeaning` compares the
binding that the checker recorded for a use with the one that the flat program
gives it (g5o_resolve, g5o_ctor_arity).

What the loader and the item loop are measured by says nothing of an order of
events: `From` is the least set that contains some files and what they import,
`Good` the one set of items that can pass by means of each other (`CanPass`), and
`Independent` those that, besides, mention nothing that an earlier item takes down
with it (`Clear`). Item i looks at earlier items only, so there is only one
such set; that there is one is `FixedPoint` in G5CheckProofs. `G5LoaderProofs`,
`G5CheckProofs` and `G5LinkProofs` hold the proofs.

### G5Types, G5Infer, G5Eval, G5Typing: types

`G5Types` is the solver: types, the two substitutions of TIS5 as sequences (a
snapshot is a triple of lengths, a rollback cuts them, the counters keep
running), chase, both occurs checks, unification of record types with fresh
common rows, instantiation, generalisation. `G5Infer` is the inference over it:
every form of expression and pattern, annotations (fresh flexible variables),
contracts (variables become constants, rows negative numbers), type declarations,
groups of definitions, holes with the names that fit them - each tried by a
unification that is undone - and the item boundary. Record fields are functions
from labels, since nothing in the solver depends on their order; base types,
functions, tuples and declared types are one constructor with arguments; a
failure carries no text. `G5Eval` is what an accepted program does: records as
association lists in the order they are written (g5_lower.dc), the rest as
gen0's eval.rs evaluates it; a fault is a value, and a program in a state that
only ill-typed ones reach is `stuck`.

`G5Typing` makes a state machine of them: one step per call that g5_run_items
makes on an item (`CheckType`, `InferDefs`, then `CheckContract` for every sig of
the group, then `Commit`), then `RunItem` per item and `RunMain`. `eqs` inside
`st`, `verdict` and `filled` are histories. A program with one hole is continued
by `Fill`: the user takes an offered name and checks again. Programs that start
with an equation drive the solver itself as probe_row_unify.dc does; `TryEquation`
is a trial that is undone. A program that fails stops here as `rejected`; what
the checker does with the other items, and when an error beside a hole is
forgiven, is G5Items' subject. `G5TypingProps` holds the properties and their
reference, one-way matching against choices of closed types.

### Rt2Gc: the conservative collector (`rt.c`)

Memory is a function from addresses to words, as in the code: a header is
`size * 256 + tag` with the mark in bit 7, the free list runs through the second
words of free blocks, and a walk goes from header to header by their sizes. Each
turn of a loop is a step: a look at one block of the free list (`Skip`,
`TakeFree`), the bump region (`TakeBump`), a new chunk (`AddChunk`), the start of a
collection (`Collect`), then one block of the walk that clears marks
(`ClearBlock`), all roots (`ScanRoots`), one block to scan (`NextBlock`) and one of
its words (`ScanField`), one block of the sweep (`Sweep`), and back to the search
(`Collected`). Which block of `todo` is scanned next is left open, so the result
does not depend on the order of the code's stack. A program that asks for blocks of
given shapes, reads fields, forgets and sets globals is the rest of `Next`.

Three variables are history: `objs`, what the program wrote into each block;
`blocks`, where a header stands; `listed`, the blocks on the free list. The code
has none of them; they let the properties and the proof say which words of memory
are headers, without a walk. Chunks are where the constant `ChunkAt` says, in any
order. The roots are the global, the words that the program uses and, in each
collection, the words of the stack in `Leftover`, each of which may be the address
of anything that was ever written.

rt.c:120 explains why hdr_plausible has to look before a word is marked; it
cannot exclude a word of the program's that happens to look like a header, as the
number 128 k or a pointer to a block at an address that is a multiple of 256 do.
If a word that is scanned points there, the mark changes that word, or the scan goes
astray and beyond the memory there is; such a run ends as `struck` and is not
judged. A word inside a free block may be marked: that does no harm, and the proof
covers it. The instance has numbers and addresses of this kind, so that the case is
met. `Spec` is the collector, `FairSpec` adds that it goes on.

### G0Ast, G0Lex, G0Parse, G0Infer, G0Run: the gen0 interpreter

`G0Lex` lexes texts whose characters are strings of one character, except that a
run of letters or digits is one unit (`Numbers`, `Uppers`, `Lowers` say which
there are); spaces, comments, the two-character symbols, escapes and every error
are as in the code. `G0Parse` is the recursive descent, one operator per
function. `G0Print` is not part of the program: it writes a tree as a text with
the fewest parentheses and spaces, and with comments, so that `ReadsBack` can
compare. `G0Infer` keeps the links of the variables in a function where the code
has shared cells; generalisation, instantiation, annotations, the placeholders of
a group and what a let leaves in the environment are the code's. `G0Run` runs
what was read, with `G5Eval` as the evaluator; its expected output, exit code
and final environment are what the compiler is measured by.

### G2Encoder, G2Codegen, G2Macho, G2Machine, G2Runtime, G2Dcc: the gen2 compiler

`G2Encoder` is the code buffer: an instruction is a record, a label a number, and
`FinishCode` turns labels into distances and checks what finish() asserts.
`G2Codegen` generates the code of every form, closures level by level,
thunks, dc_init and dc_user_main, and the data. `G2Macho` orders symbols and
relocations and computes the offsets that the headers state and those where the
parts are written. `G2Machine` is the outside: a linker that resolves the
symbols, and a processor with the registers that the code uses. `G2Runtime` has
one action per entry of rt.c that compiled code calls; between two of them the
processor runs, so a step of the program is a call of the runtime with the code up
to the next one. The collector is `Collecting`: in an eager run every allocation
first forgets whatever the stack, the globals and the arguments of the call do
not reach (arguments that only C code holds, as in dc_ctor_step and
dc_bi_str_concat, count as found), in the other run nothing is ever collected.
`G2Dcc` is main.rs: the arguments, the phases - each failing where it can - and
the program that is run, an old one of the same name included. A call also says
whether DACELO_KEEP_O is set and which objects cannot be removed, which main.rs
does not notice: after a successful call exactly these may be left.

## Runs

All runs but typing, ctor_rows, rt2_gc and gc_never check deadlock, too: a program
of G5Typing stops when it is rejected or has run, one of Rt2Gc when there is no
memory left or a word of its own was struck. States are distinct states.

| Run | Instance | What it shows | States |
|---|---|---|---|
| rc_exact | 3 blocks of two shapes (tuple of two fields, closure of two captures), 2 registers, 1 global, 1 token, no saturation | counts exact at every step, no abort, no garbage and an exact live count, reuse invisible | 23,267 (up to symmetry) |
| rc_saturate | 2 blocks and a static one, 3 registers, all heap tags, RcImmortal = 3 | saturation sticks; GInv, the invariant of the proofs; exact shutdown report; every drop returns and shutdown ends (`CallsReturn`) | 54,202 |
| alloc | 13 words, chunks of 6, requests of 2, 3, 6, 7 words, 2 classes per power | partition of memory, class bits, nothing lost (`Accounted`), growth only when needed, refinement of HeapSpec | 99,619 |
| ownership | 10 programs by hand (4 of them probe_own.dc) and all 402 of a small grammar | faithful, balanced, garbage-free code, fitting tokens, least signatures and the output that oracle/probe_own.expected records (`ModesRight`) | 103,797 |
| loader | 4913 import graphs, 23,572 projects of three files, 20,577 files of three items, 4 projects with a file of six | cycles and load order (`LoadedRight`), verdicts of files and programs (`VerdictRight`), visibility, linked meaning, initialisation order, termination | 518,304 |
| typing | 51 programs of every construct, 102 calls of record functions, 274 contracts, 30 programs with a hole, 658 chains of record equations | most general unification with trials in between, exact contracts, offered names fit, accepted programs run to values of their types | 6,401 |
| dcc | 21 programs of every construct, 50 of a small family, 5 nested expressions, 21 to refuse, 20 scraps of text, 27 other calls of dcc | read as written, accepted programs do not go wrong, objects link, compiled programs end as interpreted ones, the stack is kept, only what was built is run and no other object left, every call ends | 4,521 |
| rt2_gc | 2 chunks of 7 words, three shapes, one local word, one left-over word and one global | reachable blocks keep their contents, blocks tile the chunks, collections are exact up to the left-over word, requests end | 481,397 |
| flat_capture, ctor_rows, scope_leak, gc_never | instances of loader, typing, dcc, rt2_gc | one finding each, below | up to 100 |

**Bounds.** Three blocks let a release queue two children of one parent, or a
shared child twice; a token, a parent that is kept and a child can be in flight
at once. The count width matters only at its limit, so 3 stands for 2^20 - 1
and 9 for "never reached" (more than the references that three blocks can hold).
In `alloc` the four lengths are one small size, two sizes of neighbouring
classes and one that only splits a chunk; 13 words are two chunks and a bit, so
that tails, carved remainders of one word and exhaustion all occur. The
`ownership` grammar combines each form with each other once over two list
parameters (a constructor, a call with one owned and one borrowed parameter, a
conditional, a match, a let of each), the hand-written programs add closures,
nested patterns, mutual recursion and more than MaxDirect parameters (8 in the
code, 2 here). Import graphs of three files have self loops, two-cycles,
three-cycles and diamonds; two modules and an entry are what a clash of names
needs; three items are an error, an item that depends on it and one that
depends on that. Files of six items let an error cascade: an item that is skipped
is not recorded as failed, so what uses it is an error of its own, takes down
further names, and so on (`Cascades`; this is what `GoodItemsChecked` has to
say exactly). In `typing` a body over one record parameter meets every record
argument and every contract that one can write with two labels, one row and two
variables; the equations take every pair of seven field lists and four tails
(closed, two rows, a rigid one), with a trial and a second equation behind, which
reaches every branch of g5_unify_tails and a row that is bound while the common
fields are unified. `MostGeneral` compares with all choices of three closed types
and five rows. Two kinds of input are left out: annotations or equations in which
one row stands beside different labels (below), and a hole under a
generalised local definition, whose candidates are filtered against a type that
later uses instantiate anew.

Two chunks of 7 words hold blocks of 3, 4 and 5 words: a chunk with an unused
tail, splits with a remainder of two words, remainders of one word that must not
be split off, blocks that lead to one another across chunks and cycles through
the global. `FirstGc` is 32 bytes there, so that collections happen; with the
bytes of a chunk, which is what the source has, none ever does (gc_never).

Words of the compiled programs have 20 bits where the code has 64: numbers are
built from one or two 16-bit moves, of either sign, and no computation of the
programs leaves 17 bits, where both the tagged 62 and the interpreter's 64 bits
would agree. The programs use every form of expression and pattern, every entry
of the runtime, currying, captures, local recursion, mutual groups, thunks that
fail, division by zero, failing matches and comparisons of functions; the family
puts every use of a local name after every way to define it, sound or not, so that
`AcceptedRunsWell` meets programs that must be refused. What is not among them is
listed under [findings](#findings).

**Fairness.** rc_saturate: weak fairness of the runtime's own steps (`Release`,
`Shutdown`), because the runtime runs on one thread and a call goes on until it
returns; nothing is assumed of the program. ownership: weak fairness of `Infer`.
loader: weak fairness of `Next`: both are sequential batch programs. rt2_gc: weak
fairness of the loop in dacelo_alloc (`AllocStep`), again one thread; dcc: weak
fairness of `Next`, a batch program that waits for nothing but its own child
processes, which end or fail. In dcc the condition is written without ENABLED
(`GoesOn`), because what enables a step is plain and evaluating ENABLED would run
the step.
Where deadlock is checked, final states stutter explicitly.

`GoodItemsChecked` and `RunsAsCheckedKept` state what the code guarantees; the
stronger forms that the documents promise fail, see below. GoodItemsChecked
speaks of the items that mention no name of an item that is not itself in that
set. Excluding only the names of items that fail in their own bodies is not
enough: the attempt to prove that form led to the file of six items in `Cascades`
whose last, correct item is skipped.

## Findings

Each is a run that expects a violation and a property that quotes the code's own
words.

- **flat_capture** (`RunsAsChecked`): g5_driver.dc:140 says that sibling exports
  never leak. The back end looks names up in one table of all definitions before
  it considers builtins, and no check refuses a definition called like a builtin:
  a module that uses `show` runs with the `show` of a module that it does not
  import and that does not expose it. The same table makes a user's `Nil` or
  `Cons`, or a constructor declared with two sizes in two modules, mean something
  else than what was checked (projects of the loader run that `NamesKept`
  excludes).
- **ctor_rows** (`FieldsPresent`): test.sh:238 expects that a missing field is
  rejected. g5_ctor_schemes quantifies the rows that a constructor's fields
  mention although the declared type does not, so with
  `type C = C { x : Int | r }` the checker accepts `case C { x = 1 } of | C r -> r.y`,
  which then fails in g5_rec_get.
- **scope_leak** (`RunsAsInterpreted`): gen2-dcc-rs/test.sh:19 wants the output of
  the interpreter. Expr::Let never takes its name out of the function's scope:
  `let f x = (let x = x + 1 in x) + x` compiled adds the local x twice.
- **gc_never** (`CollectsInTime`): rt.c:60 calls next_gc the bytes before the first
  collection, but the bytes in use are counted only by the collection itself, so
  for ordinary programs there is none and memory only grows. (After a first one
  the next is due only when a single request exceeds what has doubled by then.)

Met on the way, without a run of their own.

In gen5: a block whose count once saturated is never freed but still counted in
n_live, so a program that dropped everything is reported as leaking
(rt5.c:825; 812 says that exit status 3 means leaked blocks). g5_driver.dc:145
says that the first import wins a conflict; the fold of g5_table_binds makes the
last one win (266). RESUME.md:122 says that dependent parts are marked as lacking,
but the names of a skipped item are not added to the failed names, so the second
dependent in a chain is reported as an error of its own (g5_infer.dc:2204). A
failed type declaration adds the types of its fields to the failed names
(g5_infer.dc:2105), so after a wrong `type T = K Int ...` every item annotated
with Int is skipped; that is why `GoodItemsChecked` excludes what depends on such
names. Two top-level definitions of one name in one file pass the checker and are
refused by the assembler (`LabelTwice`). g5_unify_recs takes the labels of both
sides apart before it unifies the common ones: an equation in which one row stands
beside different labels, as the annotation `{ a : { b : Int | r } | r }` does, may
be refused although it has a solution. Records are lists in the order they are
written, so `==` on records of one type that were written in different orders is
false, where gen5-examples/README.md:37 promises "order-independent identity". A
name may stand twice in one pattern: the checker gives it the type of its first
place (g5_binds_env, g5_infer.dc:1053), evaluation and g5_own.dc:94 the value of
its last, so `fun (x, x) -> x + 1` is accepted for (1, True) and then adds 1 to True.
The typing run has such patterns with both places of one type, or rejected.

In gen0 and gen2 the programs of the dcc run avoid the following, on each of which
interpreter, compiler and types do not agree:

- a let inside an expression followed by a use of its name: infer.rs keeps the name
  as codegen.rs does, so `(let x = 1 in x) + x` is accepted, runs when compiled
  and is an unbound variable in the interpreter;
- a definition repeated at the top level: closures compiled later see the last one;
- parameters that are tuples or constructors and captured by a later parameter's
  function: emit_fn_levels passes on plain names only;
- a string literal as a parameter pattern that fails: the argument is read from a
  register that the comparison used;
- a local recursive let of a name that is in scope, or of something that is not a
  function: the generator panics;
- `f == f`: true when compiled, an error when interpreted; a `main` that is no
  function: skipped by the interpreter, applied by the compiled program;
- `str_concat` by name (README.md:32, DESIGN.md:74): inference and compiler know
  it, the interpreter does not;
- a definition whose value is a constructor, a builtin or another function:
  define_rec_group gives every closure that a right-hand side evaluates to a new
  group, so `let g = f` for a recursive f breaks calls of g (eval.rs:224), although
  DESIGN.md:54 makes recursion explicit;
- constructors of one name in two types, which leave gaps between tags; numbers
  between 62 and 64 bits; `f -1`, which is a subtraction; negative patterns, which
  there are none of.

A request of more than a chunk is tried again with new chunks until malloc fails
(rt.c:247). The encoder's assertion admits a conditional branch of exactly 2^20
bytes, which the instruction cannot hold. When linking fails the object files
stay. `-o out --run` looks for the program in the path (main.rs:131).

## Proofs

TLAPS proves the following for every value of the constants that satisfies the
assumptions below; the runs show the same properties on instances. No proof uses
a bound of a run.

| Module | Theorem | Property |
|---|---|---|
| Rt5RcProofs | Invariant | the inductive invariant IInv |
| | TypeCorrect | TypeOK |
| | CountsExact | RcExact: a count below RcImmortal is the number of owned references |
| | NeverAborts | NoAbort: the use-after-free and underflow checks never fire |
| | DyingBlocksUnowned | DyingUnowned: queued, released and token blocks have one owner and are queued once |
| | CountsSaturate | Saturation: a count that saturated never changes |
| | ReuseInvisible | NoVisibleMutation: no step writes a block that the program can name before and after it |
| Rt5GarbageProofs | GarbageInvariant | GInv, IInv strengthened for the two below |
| | Precise | NoGarbage: a live block is a token or reachable from the roots or a saturated block, whenever the program runs |
| | LeakCheckExact | ShutdownExact: `ok` only when no block lives, `leak` only when a saturated one does |
| Rt5AllocProofs | AccountedHolds | Accounted: live blocks, lists and bump region are disjoint and with the abandoned words make up what malloc gave; lists and bits agree |
| | GrowsOnlyWhenNeededHolds | GrowsOnlyWhenNeeded: a new chunk only if no listed block and no unused space serves the request |
| | ImplementsHolds | Implements: every behaviour of Rt5Alloc is one of HeapSpec |
| G5CheckProofs | CheckInvariant | CheckInv, the inductive invariant of loading, checking and linking |
| | LoadedRightHolds | LoadedRight: the files that the entry reaches, once, after their imports; cycles called so exactly when there are any |
| | VerdictRightHolds | VerdictRight: verdicts are those that the texts deserve |
| | GoodItemsCheckedHolds | GoodItemsChecked: what has nothing to do with an error is checked |
| G5LinkProofs | RunsAsCheckedHolds | RunsAsCheckedKept: linked code means what was checked |
| | InitOrderHolds | InitOrder: what a definition reads has been initialised |
| Rt2GcProofs | GcInvariant | IInv, the inductive invariant of allocator and collector |
| | ReachableIntactHolds | ReachableIntact: what the program can get at is as it wrote it |
| | BlocksTileHolds | BlocksTile: headers lead through every chunk; the free list has blocks, each once, and none that the program can get at |

`NatLemmas` has what the library states only with an operator as a parameter, in
a form that can be cited: least and greatest elements of sets of numbers,
induction stated for a set of numbers (`SetInduction`), powers of two, division.
`G5LoaderProofs` has the part of CheckInv about loading.

**Assumptions.** Rt5Rc: blocks and registers are finite, Imm is no block, a count
reaches at least 2, shapes have at least two words, at most MaxSize, and room for
the words before their first child (`BlockAssumption`, `SizeAssumption`,
`ShapeAssumption`). Rt5Alloc: SMALL_MAX is at least 2 and big enough for the
class arithmetic (`SmallMax + 1 >= 2 ^ SubBits`, 65 and 8 in the code), a chunk
has two words or more, requests have two or more (`AllocAssumption`). G5Loader:
the entry exists; items are as the parser builds them; values and constructors
have different names, because the lexer tells them apart by their first letter
(`ProjectsAssumption`; g5_front.dc:81-90). Rt2Gc: chunks are aligned, apart, not at
0 and no longer than the largest size that hdr_plausible admits; a block has a
header and at least one more word; numbers are not negative, as words are not
(`GcAssumption`). TLC evaluates each of them in the runs. One more is part of the
model, of run rt2_gc as of the proofs: a new chunk is zero (`AddChunk`). The code
takes it from a plain malloc (rt.c:80), and clearing and sweeping stop at a word
without a size (rt.c:175, 203), so the word behind the last block must be zero. Eight
megabytes usually come as new pages from the system, which are zero; C does not
promise it, and a large buffer that the runtime has freed (rt.c:450, 654) may come
back with what it held.

**Counts.** RcExact is not inductive alone: a release walks the words of a
block whose count is 1 and gives each word's reference away; that no other owner
of the block exists, that it is not queued again and that the fields of a token
own nothing has to be part of the invariant (`DyingUnowned`), as has which of the
runtime's variables are in use at which control point (`Control`) and that only
free blocks have a count of 0 (`Headers`). The number of owners is a sum of
cardinalities over registers, globals, words and the runtime's variables.
`OccursUpdate` says how such a cardinality changes when a function is updated at
one place; `RegUpdate`, `GlobUpdate` and `WordUpdate` lift it to Owners; every
action then has a lemma that shows which summands change. The drop of a count is
done once, in `DcDropInv`, and cited by `Drop`, `DropReuse`, `Gset`, `ShutdownDrop`
and the release loop.

**No garbage.** Exact counts do not exclude a cycle of owned words that keeps
itself alive, so GInv adds that there is none: every set of blocks that is not
empty has one that no word of the set owns (`Acyclic`). Only a fill adds an owned
word; what it puts into the new block is another block, and nothing owns the new
block yet (`EdgesKept` is the lemma for all other steps). The proof of NoGarbage
takes the blocks that are live and not reached: by exact counts each has an
owner, the owner is again such a block, and that contradicts Acyclic. For
ShutdownExact GInv says that `n_live` is the number of live blocks, and what the
shutdown loop has cleared so far (`Closing`).

**Allocator.** The proof has three layers: what an operation does to the lists
(which blocks it takes and adds, and that the bits follow), how blocks, bump
region and abandoned words make up memory (`Layout`, moved by lemmas that take a
block out, cut one in two or open a chunk), and the operations as such moves. IInv
joins `Sorted` of the lists and `Layout`. That a request is served from a list
whenever one can serve it needs that a class's first block is big enough if its
class lies above that of the request: `BigClass` is monotonic and blocks of higher
classes are longer (`BigClassForm`). The refinement takes each operation to
HeapSpec's allocation or release of the same block.

**Loader and checker.** LoadInv says that the stack is a path of imports from the
entry, that what was loaded has its imports loaded before, and that every import
of a file on the stack is either loaded or still to visit; a cycle is then a path
back into the stack, and without one the loaded files are closed under import and
reached, which is `From`. CheckInv adds, for the file that is being checked and the
items before `at`: what they have bound and where each use was found (`BindsRight`),
which types are declared (`TypesRight`), that no item independent of errors
was given up (`RecoveryRight`), and that the status is "checked" exactly if all
were good (`StatusRight`); for files that are done, what their results and tables
say; and that the queue is the rest of the loaded files, dependencies first
(`QueueRight`). That sets like `Good` and `Independent` exist, so that CHOOSE picks
one, is shown by induction over the items (`FixedPoint`, `SetInduction`). For a
linked program no name is defined in two files or twice in one, so the definition
the flat table gives is the one that the binding of CheckInv names, and it stands
before its use.

**Collector.** Neither property is inductive, because each step trusts the
headers and links that earlier steps left in memory. IInv says what they rest on,
as long as no run was struck: `Tiled` (the blocks of a chunk are apart, each begins
where the chunk or another block begins or ends, and bump is behind the last of its
chunk) together with "what is in no block is zero", so that a walk stops where the
blocks end and a marked word in a free block does no harm; `RunsThrough` (the free
list enters the set `listed` once and has no cycle); `Holds` (every block of the
program's, reachable or not, is as written); and, per phase, what the loops have
done. While marks are made, a marked block is still to be scanned or all it names
is marked or about to be (`Traced`); when nothing is left to scan, the marked
blocks are closed under naming and hold the roots, so they hold all that is
reachable (`AllMarked`), which is all the program has while it waits
(`RequestRight`). While the sweep goes on, what it has passed has no mark, what it
has not passed is marked if it is the program's, and the list has only what it has
passed (`SweepRight`, `IsDone`): so no block is listed twice, and none of the
program's. Lists and tilings are first reasoned about as such (`ListCut`,
`ListInsert`, `TileSplit`, `TileExtend`, `TileChunk`, `OneBlock`: a walk meets
exactly one block or the end), then every action is one of those changes. TLC
checked IInv on the instance of rt2_gc before it was proved.

**Only model-checked.**

- Liveness (`CallsReturn`, `LoadEnds`, `RequestsEnd`, `InferenceEnds`,
  `DriverEnds`): the prover has neither fairness nor ENABLED.
- The ownership pass and the code it makes (G5Anf, G5Own, G5Run), inference
  (G5Typing), the gen0 interpreter and the gen2 compiler: their operators are
  recursive over trees, and what a recursive definition computes for every tree
  needs induction over data, which the prover does not have. What these modules
  promise each other is proved on the runtime's side: G5Run checks that compiled
  code keeps the contract that Rt5Rc's client keeps.
- How exact the gen2 collector is (`CollectsGarbage`): that each left-over word
  keeps at most one block and what it leads to is so for the instance, but not for all values of the constants. A stale number inside garbage
  may look like the header of a block with several words, each of which then keeps
  a block of its own. What is proved is that this does no harm to what is reachable.

## Not modelled

Pure formatting and I/O: g5o_pp, the formatter, the query commands' output, the
types and trees that gen0 prints, file, process and text builtins, the assembler
text, the bits of an instruction and of the Mach-O headers. gen5's `dc_val_eq`
and `dc_show`: recursive functions over data. `--backend-only`, which skips the
check by design. Imports in other directories (paths are compared as text). Frame
slots and register allocation of g5_cg.dc. The C stack's depth and the frames of
the runtime's own functions: an argument that only C code holds is taken to be
found by the stack scan. For the rest see the plan.

## Plan

Done so far, in this order: Rt5Rc with its proofs, allocator, ownership pass,
loader and item loop, inference with an evaluator, the gen2 collector, the gen0
front end, the gen2 compiler against the gen0 interpreter, and the collector's
proofs, for which its loops were taken apart into steps.

1. **Interface comparison** (g5_query.dc): the diff's classification against
   substitutability of the old interface.
2. **The other generations**: gen4's infer.dc (a substitution without rows) and
   G0Infer against G5Infer on the programs without records; gen1's interp.dc
   against G5Eval; gen3's generator, with the machine of G2Machine.
3. **Gen5's instructions**: frame slots and tagged arithmetic of g5_cg.dc on that
   machine.
4. **Proofs**: that a collection frees whatever is neither reachable nor led to by
   a word that was scanned, without the bound on what left-over words keep; then
   the runtime of the compiled program (G2Runtime) as a client of Rt2Gc.
