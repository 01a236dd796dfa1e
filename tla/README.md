# A TLA+ development for the Mesa language

Mesa is a small compiled language: a compiler in Python (`src/`) that emits C, a C runtime
(`runtime/`), and a standard library written in Mesa (`std/`). This directory models the
parts of it whose correctness depends on the order in which things happen or on an algorithm that
can be checked against an independent definition, checks them with TLC, and proves the collector,
the allocators, the writer, the cleanup code and the package loader with TLAPS. Paths below are
relative to the repository's root; the map's have the `src/` directory that holds it in front.

## 1. The system

| Component | State | Operations | What is hard | What must hold |
|---|---|---|---|---|
| **Garbage collector** `runtime/mesa_gc_runtime.c` | object list, byte count, stack of root frames, mark bits | push/pop a frame, allocate, collect (mark, sweep) | it runs in the middle of an allocation and must find every live object through registered roots and descriptors only | no reachable object is freed, garbage is, the count is exact, it terminates |
| **Allocator contexts** (same file) | `_mesa_alloc_stack` of 256 entries | push, pop, escape target | pushes and pops are emitted by the compiler on different paths | balanced on every path |
| **Cleanup code generation** `src/ccodegen.py` | `_cleanup_frames`, `_loop_stack`, `_try_targets`, `_block_depth` while compiling; roots, contexts and cleanups when the program runs | blocks, loops, `defer`, `!defer`, `with`, `break`, `return`, `try`, `handle` | cleanups are duplicated on every way out, at compile time | each cleanup once, last first, on every exit of its scope and of no other |
| **Lowering** `src/ccodegen.py` | the lines written so far, temporaries, handler targets | one `_xxx_expr` or `_emit_xxx` per construct | an expression becomes lines before the statement and text inside it | the C makes the calls of the source, in order, each as often |
| **Arena and buffers** `std/mem` | base, capacity, cursor | alloc, realloc, reset, free | padding, growth that moves the buffer | blocks disjoint, aligned, inside the capacity |
| **Pool** `std/mem/pool.mesa` | free list threaded through the slots | alloc, realloc, free_bytes, reset, free | the list lives in memory the program writes | no slot twice, list exact |
| **io.Writer** `std/io.mesa` | buffer, end | writeByte, write, writeAll, flush | short drains, drains that fail halfway, writes larger than the buffer | stream exact, buffer never overrun |
| **Tokenizer, parser** `src/tokenizer.py`, `src/parser.py` | position in the tokens | recursive descent, operator precedence, line breaks that become separators | a line break ends a statement or not by the nesting and the tokens around it | text is cut and grouped as the language says |
| **Error sets** `src/checker.py` | return types found so far, types noted on handles | quiet check, fixed point, final check | functions that call each other, handlers that fail, notes made before the sets are known | the set a caller sees has every error that can come |
| **Regions** `src/checker.py` | regions and their parents, a region per variable, marks on the tree | with, assignment, let, return, results | passes that leave numbers for the next pass, values whose region is lost | nothing allocated under a cleanup is used after it |
| **Flow analyses** `src/analysis.py` | sets of variables, covered variants | definite assignment, return paths, exhaustiveness | joins of branches and loops | sound for every run of the function |
| **Package loader** `src/frontend.py` | visiting, loaded, order | depth-first visit of the imports, names and places of packages | cycles, diamonds, errors at any depth | a cycle is reported only when there is one; imports before importers |
| **Build system** `src/buildsys.py`, `src/mesa.py`, `src/stdlib.py` | build program, handles, plan | interpret, render, init, pkg add, collect dependencies | the compiler rewrites a program it has read | the plan survives being written back |
| **Debug allocator, environment, rest of checker and generator, meta** | counters; scopes; trees | | | (not modelled, §6) |

How they interact. The driver loads the build file and with it the package graph; each source file
is tokenized and parsed; the declarations are put together in the loader's order and checked: the
quiet pass, the error-set fixed point, then the pass that reports, which marks regions, then the
flow analyses. `ccodegen` walks the annotated tree and emits C that calls the runtime: a `let` of a
pointer type becomes an allocation and a `mesa_gc_push`, the end of its block a `mesa_gc_pop`; a
`with` over an allocator becomes a push and pop of a context and a call of its `.reset` or `.free`.
The standard library is compiled the same way: arenas take memory from buffers, pools from an
allocator, writers drain into a sink through an interface. Everything is single-threaded, nothing is
persistent but the build file: what is hard is the order of calls, error exits, partial results,
state one pass leaves for the next, and memory that is reused.

## 2. The modules

| Module | Models | Relation |
|---|---|---|
| `HeapGraph` | reachability without recursion | extended by the next two |
| `TracedHeap` | the promise of a heap: what is reachable stays; a collection is one step | abstract |
| `MesaGC` | the collector, one step per frame, pointer and object | implements `TracedHeap` |
| `Selection` | choosing the elements of a sequence that are in a set, without recursive operators | extended by the next two, `PackageLoader` and `BuildPlan` |
| `LexicalCleanup` | the promise of `defer`, `with` and roots | abstract |
| `Cleanup` | the cleanup code `ccodegen` emits, along an execution | implements `LexicalCleanup` |
| `Arena` | `ArenaAllocator` over `PageBuffer`, `CBuffer`, `FixedBuffer` | |
| `SlotPool` | the promise of a pool | abstract |
| `Pool` | `PoolAllocator` and its threaded free list | implements `SlotPool` |
| `Writer` | `io.Writer` over a `Sink` | |
| `SourceTokens`, `Parser`, `Declarations` | the tokenizer's line-break pass and the recursive descent, as operators | each extends the one before |
| `Syntax` | text typed phrase by phrase, and what the parser makes of it | extends `Declarations` |
| `ErrorSets` | the error-set inference, the check and what the emitted code does with errors | |
| `Regions` | the region pass and a run of the function it judged | |
| `Lowering` | expressions to C lines and text, and an evaluator of both | |
| `FlowAnalysis` | three passes of `analysis.py` beside the runs of the function | |
| `PackagePaths` | names and places of packages | extended by `PackageLoader` |
| `ImportOrder` | the promise of loading a package graph | abstract |
| `PackageLoader` | `visit`, one step per import | implements `ImportOrder` |
| `BuildPlan` | the build program, its plan, and the project commands | |
| `MesaGCProofs`, `StdProofs`, `CleanupProofs`, `PackageLoaderProofs`, `BuildProofs`, `FlowProofs`, `ErrorProofs` | the theorems | extend the module they are about and `TLAPS`; pool, arena and writer are proved about as `MCStd` runs them (`StdProofs`), the build program as `MCProject` does (`BuildProofs`) |
| `DataFacts` | lemmas about numbers, sets, sequences, choosing and sums | extended by the proofs |
| `MCStd`, `MCProject`, `MCCompiler` | several of these in one specification, one of which runs | §3 |
| other `MC...` | the programs, files and sizes for TLC | extend the module they name |

Operators named "Mutant" are single plausible bugs. No specification uses them; each is substituted
for the definition it precedes to see that the property it is paired with notices.

### MesaGC

`heap` is `_mesa_gc_head` as a sequence, `stack` the frames innermost first, `mark`, `size`, `desc`,
`fields` the header and payload at each address, `locals` the variables the registered addresses
point at (`frame->roots[i]` is an address, so a collection reads the value the variable has *then*).
`mesa_gc_alloc` is a sequence of steps: `Alloc` (the threshold test), `ScanFrame`, `MarkPtr`,
`BeginSweep`, `SweepFree`/`SweepKeep`, `EndSweep`, `Malloc` or `OutOfMemory`. The recursion of
`mesa_gc_mark` is the sequence `pending` of pointers still to visit, in the order the C code visits
them. `Malloc` may return any free block, one freed a moment ago included. The program is the most
general one: it may store into any rooted variable or reachable field any word it holds (null, a
foreign pointer, the pointer allocated last, a root, or a field of a rooted object).

### Cleanup

One behaviour is one execution of one function, the program being chosen as it goes: `scopes` is the
place in the program, `frames` is `_cleanup_frames` at that place, `gc`, `ctx` and `ran` are the
runtime's. An exit executes the code emitted for it at that place (`CleanupsForExit`, as
`_emit_cleanups_for_exit` computes it from `frames`) and moves control; the compiler then still goes
through the rest of the scopes the jump left (`Close`), which changes `frames` but executes nothing.
So the compile-time list and the run-time stacks are in one state and can be compared. `features`
says which of four constructs the program uses, those for which the promise is refuted (§4); it is one
of `FeatureSets` and never changes. `FramesOfScopes`, about the compiler's list, is for all programs,
the refinement and the caller's allocator for those with `features = {}`.

### Lowering

Mesa and C are trees of one language, so that one evaluator (`Eval`) gives meaning to both. `_expr`
is `Expr`: from an expression and the number of temporaries used to the lines written before it and its
text, one operator per construct (`IfExpr`, `MatchExpr`, `TryExpr`, `CatchExpr`, `OrElseText`, `Loop`,
...). `Then` puts the lines of an operand before what follows, `Given` keeps them for a block of its
own: which of the two the code does is what the module is about. What is compared is the sequence of
calls and the result, for every way the calls may answer (`Answer`: after `FirstTrue`
of its calls a function answers otherwise). Neither language fixes the order of the operands of a
call, so the C may make its calls in any order the source may.

### Syntax, Parser

The parser is a set of recursive operators with the names of its methods, each from a position to a
node and a position. A text holds its tokens and what is read of them as each nonterminal at each
position (`Declarations!Text`): that is how the methods call each other (`Parse`). Tokens are kinds:
the parser reads spellings only where the kind differs.
`Syntax` types text phrase by phrase from a vocabulary and goes on only where the parser may still
accept, so that every accepted text of the bound is reached without the many that are refused at
their second token. The reference for operators is `Split`, the definition of grouping by strength
and side, which does not look at the algorithm.

### ErrorSets

A program is a function from names to small trees: statements and a tail, with blocks in `if`, `while`
and `with`. Trees are built by how deep their blocks are in blocks (`Blocks`, up to `Nesting`), and what
the code does by recursion over a tree is a recursive function from each level to its blocks: what
`_collect_block_errors` finds (`Tried` by a `try`, `Returned` as a value: two parts of one traversal, of
which only the second depends on the scopes), what the checker complains of (`Diags`) and what the C code
does (`Outcomes`). Each is defined on an expression, a statement and a block from what it is on the
blocks within.

`phase` goes from the declarations (`Write`) through the quiet check (`Quiet`, whose types of handle
bindings stay in `annotated`), the rounds of the fixed point function by function (`Infer`, `EndRound`),
the final check (`Check`) and the runs (`Run`). A run takes what the calls of each function can give
(`returned`) and goes through the bodies for what they can give then, once more until nothing is new;
`strays` are the errors that did not end as a result. They follow the jumps that `_emit_try_expr` and
the handlers of functions and `with`s make: the reference the inferred sets are compared with. Payloads
are integers, and a block gives no value to the block around it; the checker's messages are a set of codes, of which only
emptiness matters.

### Regions

A path names a node; `marks` are the attributes `_lifetime_region` that a pass
leaves on the tree for the next pass, numbered as that pass opened its regions. The run of the function
gives each value the `with` whose cleanup takes its memory, and records what is used after it.

### FlowAnalysis

The body is chosen as it is walked. The passes keep what their recursive calls hold for each open
construct; beside them `live` is the set of stores an execution may have at this place. So every
program of the bound is covered, and the reference is the set of its runs.

### PackageLoader, BuildPlan

`PackageLoader` is `_load_package_graph`'s `visit` with its call stack, and then the program that
`build_frontend_state_for_path` puts together. Which files exist is chosen first, what a file says
when it is opened. `BuildPlan`'s `file` is the build program as a sequence of calls; `Evaluated` is
`interpret_build_program`, `Render` is `render_build_plan`, and the commands read the file, change
the plan and write it back. A call is written by hand one at a time.

### Arena, Pool, Writer

`Arena` keeps for each block its region, extent and alignment. A region is numbered when it is
obtained; a buffer that grows gets the next number. `Pool` keeps the first word of each slot: while a
slot is free it is a link, while the program has it the program may write any word there (`Write`),
also one that reads as a slot's address. `Writer` numbers the bytes written; `pc` and `cont` are the
loop running and the caller of `flush`, so that a drain may be short or fail at any point of any call.

## 3. What the runs show

| Run | Question and bounds |
|---|---|
| `gc` (`MCMesaGC.cfg`) | 3 blocks, 2 variables rooted one by one or together, objects with 0 or 1 pointer word, a threshold of two bytes: chains, sharing, cycles, reuse of freed blocks, exhaustion. Safety, the inductive invariant (types included) and the refinement of `TracedHeap`. Blocks are symmetric. |
| `cleanup` (`MCCleanup.cfg`) | programs with none and with all of the four constructs, nested up to 4 scopes with up to 2 declarations on the path, any exit at any place: types and the compiler's list; refinement of `LexicalCleanup`, and the caller's allocator, for those with none. Enough for two cleanups in one scope or in two, a loop inside a `with` inside a block, and an exit across several scopes; larger programs are the theorem's. |
| `std` (`MCStd.cfg`) | one of four machines. The pool: 4 slots, any contents written, so the list at none, one and more free slots. The arena: pages of 3 bytes, capacity 3, blocks of 0, 1, 3 and 8 bytes, alignments 1 and 4, 3 blocks, 11 bytes: growth by doubling and by need, padding, reset, panic. The writer: a buffer of 2 bytes, 6 bytes written in any calls: buffered, exactly full and bypassing writes, short drains, failures and retries; liveness. The collector: 2 blocks, one variable, objects with two pointer words, foreign pointers, two sizes; the byte count, and that every allocation returns or aborts. |
| `flow` (`MCFlow.cfg`) | every body of at most 5 statements, nested 2 deep, over one variable and a union of two variants: a branch beside a loop with a jump, a match in a branch, a match whose arms differ. |
| `project` (`MCProject.cfg`) | one of two machines. The loader: two sets of files (facades, sibling files and a library root; one with and one without a same-named `util`), at most two imports a file and 4 in all, seven import paths that canonicalisation and lookup treat differently, files that do not parse, do not name their package or export what is not there: diamonds, cycles of one to three files, errors below a half-done import. The build program: 4 calls by hand and 2 commands, four kinds of target, labels that clash once their spelling is normalised. |
| `compiler` (`MCCompiler.cfg`) | one of four passes over a set of programs. Text: seven vocabularies, up to 4 phrases (5 operands with every strength and side). Error sets: two functions that call each other and a third, over two errors, with `try` and `catch` of calls, a name, `if`, `while`, handles of functions and of `with`s, blocks nested 2 deep (`Nesting`): enough for an error to go round the calls, and for a `try` in a handle. Regions: a `with` around one statement, which may be another `with` of the same or another allocator, with blocks, ifs, calls, loops and results; and straight-line functions that assign three variables over and over from inside one or two `with`s, or return there. Lowering: every construct over every kind of operand (pure, a call, one that can fail, an `if`, a block), with the calls answering in every way. |

Runs that combine several machines have a variable that says which of them runs, so each is explored
as it would be alone, with the others at their first state; there is no interaction between them in
the code either (they share no state).

Deadlock is not checked, as everywhere the program may stop: a panic or abort, a function that
returned, a freed arena, a pass that is over; the bounds `MaxScopes`, `MaxDecls`, `MaxNodes`,
`MaxDepth`, `MaxBlocks`, `MaxUsed`, `MaxImports`, `MaxCalls`, `MaxCommands`, `Turns` (of a loop) and,
in `Writer`, `MaxBytes` cut the rest. `MaxDrained` bounds what a failing drain may cause to be sent
again.

Fairness. `MesaGC!FairSpec` and `MCStd!StdSpec` are weakly fair on the steps of a call of the
collector or of the writer that is in progress and on nothing the program chooses: there is one
thread, and a function that has been entered goes on. `Writer` assumes that a drain which succeeds
takes at least one byte, `Sink`'s convention (`design/io_writer_redesign.md`); without it the loop of
`flush` need not end. A drain may always fail while at most `MaxDrained` bytes were sent; after that
it succeeds.

What limits some properties:

* `ImportsBound` is about programs whose packages are named as they are imported and in which no two
  files have one package name: otherwise `build_frontend_state_for_path` drops the second file.
* `ContextRestored` and `ImplementsLexical` are about programs without a `with` that has a handle or is
  over `any Allocator`, a `break` in a match arm and a closure (§4).
* `LexicalKept` is about functions without joins, calls and loops that lose a region, and in which no value
  assigned assigns in turn (§4). `RejectedEscapes` is about those of them that are `Direct` (no `with` is
  visited twice, no inner `with` or block gives memory) and have `NoDeadCode`; what it says of a
  rejected one is that its run puts a value where it may outlive its memory (`misplaced`), which the function may
  undo before the cleanup: the checker looks at each assignment and not at what comes after it.
* `FaithfulAsWritten` is about functions in which no construct writes lines before a condition that
  comes first and nothing that calls is written twice (§4); `AsWritten` is the same without that.
* `RaisedDeclared` leaves out the errors of a `try` in a `with`'s handle (§4).
* `LineEnds` leaves out `return` and `break` (§4).

## 4. Where code and documents disagree

Six runs each check one statement of the documents and TLC finds an execution of the code that
breaks it. Those about handles, tries and branches were also seen in compiled programs, or in what the
compiler accepts.

| Run | Statement | What happens |
|---|---|---|
| `cleanup_twice` | a `defer` runs when leaving *its* block (`design/mesa_design.md:364`) | a `try` caught by the handle of a `with` runs the cleanups of all enclosing scopes, which run again later (`src/ccodegen.py:3508`) |
| `cleanup_after_handle` | a `with` with a cleanup runs it after the handle that catches a `try` in it has finished (`design/mesa_design.md:314`, `:330`) | so it does for the handle of the `with`; when the function's handle catches, the cleanups of all scopes left are emitted before the `goto` to it (`src/ccodegen.py:3508`) |
| `arena_moves` | memory stays until `arena.free()`, in one `malloc` of fixed size (`design/mesa_design.md:511`, `:500`) | page and C buffers grow: `reserve` moves them to a new region and gives the old one back, with the blocks in it, and `realloc` copies from there (`std/mem/page_buffer.mesa:33`, `std/mem/arena.mesa:50`). `design/std.mem.md:58` speaks of growth. |
| `else_if` | the form of an else-if chain (`design/mesa_design.md:89`), and the comment at `src/ccodegen.py:4216` | used for its effects, the inner `if` runs before the outer condition is asked, and again in its branch (`:4211`) |
| `error_lost` | without a handle, `try` needs a function that returns `E!T` (`design/mesa_design.md:333`) | a `try` inside the handle of a `with` is accepted anywhere, and the code goes on without the payload (`src/checker.py:1690`) |
| `region_joined` | values of a region may not escape it (`design/mesa_design.md:565`) | an `if` with branches of two regions has none and may go anywhere (`src/checker.py:1034`) |

Others have no run, but their statements are definitions of the modules: added to a configuration
that has the construct, TLC refutes them too.

| Definition | Statement | What happens |
|---|---|---|
| `Cleanup!ContextRestored` | after both exits, only the GC (`design/mesa_design.md:477`, `:484`) | a `with` with a handle and no cleanup skips the pop on the success path (`src/ccodegen.py:4531`); one over `any Allocator` pops what it did not push (`:4475`) |
| `Cleanup!CleanupOnce`, with `breakInMatch` or `closure` | `:364` | `break` in a match arm leaves the C `switch` after running the loop's cleanups (`:2415`); a closure's `return` runs the enclosing function's cleanups (`:4803`) |
| `Writer!Unbuffered`, capacity 0 | every write hits `drain` (`design/io_writer_redesign.md:279`) | `writeByte` stores the byte and returns (`std/io.mesa:81`) |
| `PackageLoader!CyclesDetected` | import cycles are detected (`design/compiler_pipeline_walkthrough.md:319`) | not one through the root's own package, whose imports are skipped (`src/frontend.py:654`) |
| `BuildPlan!Attached` | `mesa pkg add` attaches the package to the default executable (`design/build.md:114`) | not a package that was there, and a reserved name makes a file that does not load (`src/buildsys.py:540`) |
| `Syntax!NewlineTerminates` | newlines terminate statements (`design/mesa_design.md:57`) | `return` and `break` read their value on the next line (`src/parser.py:1204`, `:1211`); `std/io.mesa:93` does not parse for that reason |

And what the models show without a statement to refute: `with` expressions that are a function's tail
are visited twice and then wrongly refused (`src/checker.py:1354-1368`, `:1455`), and so are blocks in an
assigned value, where the second visit starts from what the first left in the variables: with `x` from
outside a `with` of an arena, `y` allocated in it and `n` equal to `x`,
`q = { { n = y; y = x; vec[7] } }; x = n` is accepted, although `x` then has the arena's memory (the same
statements without the blocks are refused); regions are lost through calls and round loops; the type of a handle's binding stays as the quiet check left it where no
later pass notes it again (`:3672`); a `try` inside a function's own handle jumps back to that handle
(`src/ccodegen.py:3499`); with one context active, `mesa_allocctx_escape_target` names the region being
left, where `design/mesa_design.md:679` says the next outer one.

## 5. What is proved

**The collector** (`MesaGCProofs`), for every set of addresses, variables, frames, descriptors, sizes
and every threshold (the assumptions `AddrsAssumption`, `ShapesAssumption`, `SizesAssumption`: null
and foreign words are no addresses, descriptors list slots, frames list variables and are not empty,
sizes are natural numbers): `Invariance` (`Spec => []IInv`), `NoReachableFreed`
(`Spec => []ReachableAllocated`), `NoDoubleFree` (`Spec => []ListDistinct`), `SweepLeavesReachable`
(`Spec => SweepExact`) and `Refinement` (`Spec => ImplementsTracedHeap`).

`ReachableAllocated` is not inductive: a sweep that frees an object keeps it only because of what
marking established. `IInv` adds, by phase: outside a sweep every word on the list points into the
list (`ListClosed`); while marking, marked objects and pending pointers are reachable and whatever a
marked object or scanned frame points to is marked or pending (`Traversal`), the tricolour invariant;
so when nothing is pending and all frames are scanned the marked set is closed, contains the roots and
is inside the reachable set, that is, it equals it (`BeginSweepStep`, from `ReachableLeast` and
`ReachableClosed`); during the sweep the objects it will spare are exactly the
reachable ones (`SparesReach`), with all marks before the cursor cleared (`MarksClear`). Reachability
is defined without recursion, as the intersection of the closed sets, which is what lets the prover
reason about it. The refinement maps the abstract heap to the list, and to the survivors during a
sweep: the abstract collection happens when marking ends. `RequestedStep` carries that the descriptor
of a pending request is one of `Descs`.

**The pool** (`StdProofs`), for any number of slots (`CapacityAssumption`) and whatever bytes the
program writes: `Invariance`, `TypeCorrect` and `Refinement` (`Spec => ImplementsSlotPool`). The
invariant the code relies on is that the free list is a chain: there is a function from
`0..available-1` onto the free slots, one to one, that starts at `free_head` and follows the links
(`IsChain`). It says nothing of the last free slot's link, which is never written. Taking the head drops
the chain's first element (`TakeFirst`), giving a slot back puts one before it (`GiveFirst`), a write
to a slot that is out cannot touch it (`WriteAside`), and linking all slots makes the identity
(`LinkedAll`). So the head is free when `available > 0`, and `available = 0` only when no slot is free:
what the promise asks of `Take` and `Refuse`. `ChainLength` gives the count.

**The package loader** (`PackageLoaderProofs`), whatever files there are, wherever they are looked
for and whatever they import (`FilesAssumption`: the root file and the absence of a file are no
files an import can lead to; `ImportsAssumption`: import lists are sequences; `ContentsAssumption`:
no other error is called a cycle; `BoundAssumption`: the bound lets one list through): `Invariance` and `Refinement` (`Spec => ImplementsImportOrder`).
That a package is listed after those it imports is not inductive: it depends on what the calls of
`visit` on the stack have done. The invariant says that each call was made by the import its caller
is at (`Called`), that all imports before that are done with (`Passed`), that the files on the stack
are those in `visiting`, each once (`Visits`), that every opened file is the root, visited or loaded
(`Opened`), and that a loaded file imports only loaded ones (`Closed`). From `Passed` at the end of a
list comes `Closed` for the file returned from (`TopDone`); from `Called`, that the files above the
one found in `visiting` import each other in a circle (`CycleIsReal`); and from `Opened` with an empty
`visiting`, that the list is complete in the end.
The list itself has an invariant of its own (`ListInvariance`): each file done with is in it once (`Lists`),
which must hold also while the calls return on an error (`UnwindStep`), with the name of its package
(`Named`) and after the files it imports (`After`). From it follow `EveryImportBound` (`[]ImportsBound`: if the
names are right and different then nothing is left out, `AllTaken`, and every import finds its file before it) and
`LoaderTypes` (`PackageLoader!TypeOK`).

**The build program** (`BuildProofs`), for any packages, labels, names and bounds
(`CommandsAssumption`: the bound on commands is a number): `BuildInvariance`, `DeclaredFirst`
(`[]DeclaredBefore`) and `ProjectTypes` (`[]ProjectTypeOK`). `DeclaredBefore` speaks of the plan; what keeps
it is in the environment as well: every handle stands for an entry that is there (`EnvOK`), so a target
declared with handles refers to what precedes it (`LibraryCallOK`), and every call keeps that, whatever its
arguments (`EvalOK`). It holds for a file of any length, by induction over its calls (`EvaluatedOK`), and
a plan that is rendered is such a file (`RenderOK`). For the collection of a target's dependencies,
the library targets being visited all come after the one to be visited next
(`AddingClean`, by induction on the index), so it meets none of them again (`NoCycle`): the error about a
cycle cannot be raised for a build program, and `mesa build` never answers it. The
recursion of the collection is over the targets not being visited, of which there are no more than
the plan has.

**Arena and buffers** (`StdProofs`), for any page size but 0, capacity, sizes and alignments
(`ArenaAssumption`): `ArenaInvariance` and `BlocksNeverOverlap` (`[]BlocksPlaced`). `ArenaInv` is `BlocksPlaced` and the types, and that the cursor is never past
the capacity. It rests on what `alignForward`, `roundUpToPage` and
`growCapacity` return (`ForwardAligned`, `RoundedUp`, `Grown`).

**The writer** (`StdProofs`), for any capacity, any sizes of writes, and a sink that drains short or
fails at any byte (`WriterAssumption`): `WriterInvariance`, `NeverPastTheBuffer` (`[]WithinBuffer`),
`StreamIsExact` (`[]StreamExact`), `FirstsInOrder` (`[]FirstInOrder`). `WithinBuffer` has the
hypothesis `Cap > 0`: a writer over an empty buffer stores the byte of `writeByte` past its end (§4).
`WriterInv` keeps the accounts of the bytes: those sent, those on their way (`Queue`, of which `flush` has
drained the first `pos`), those given up. Each action drains from the queue, forgets what is drained,
adds to its end or cuts it, with one lemma for each. After a failure the sink meets bytes again; the
invariant that covers this is `Follows`: bytes ahead of one that was sent were sent before it.
`StdTypesKept` (`[]StdTypeOK`) puts pool, arena and writer together.

**Cleanup** (`CleanupProofs`), for programs of any depth and any number of declarations
(`MaxScopes` and `MaxDecls` are any numbers). With every construct: `CleanupInvariance`,
`CleanupTypes` (`[]TypeOK`) and `FramesFollowScopes` (`[]FramesOfScopes`). That the list has the right
declarations is not inductive, since the compiler removes by block number and chooses by loop depth;
`InOrder` says that it has the right frames, each with the number of its scope and the loops around it.
Then what a block's end removes is the list's end (`LastGone`), and what an exit chooses is the frames of the innermost scopes
(`Split`, `ExitRuns`). For programs without the four constructs (`features = {}` is part of both
properties, as the promise is known to fail with them, §4): `CleanupRefines`
(`ImplementsLexical`) and `CallerContextRestored` (`[]ContextRestored`). `LexInv` adds to `InOrder` that the two
run-time stacks hold the caller's entries followed by those of the open scopes (`Stacks`), so that
an exit's pops, of which the code only knows the number, take away its own.

**The flow analyses** (`FlowProofs`), for bodies of any size and nesting, any names, parameters and
variants (`NamesAssumption`: parameters are names): `FlowInvariance`, `FlowTypes` (`[]TypeOK`),
`UsesAssigned` (`[]AssignedBeforeUse`), `EndsReturned` (`[]PathsReturn`) and `AcceptedMatchesTotal`
(`[]AcceptedMatchTotal`). All three say what the passes conclude when a construct is over; the invariants say
what that means for each construct that is still open. For assignment (`AssignedInv`): what every branch so
far assigns has a value in every store that left one (`Joined`), what was assigned before a construct
still is in every store of it (`Within`), and what is assigned here has a value here (`Covered`). For
returns (`ReturnsInv`): nothing executes after what returns, and nothing leaves branches that all return
(`Done`). Each is claimed while the passes have found nothing and the program has none of the
exceptions that the property names itself (`Trusted`, `Returning`), since the passes are wrong with them (§4).
A step changes the end of the list of open constructs only (`Ends`; a jump also what one loop was
broken out of with, `JumpLoop`), so there is one lemma for each action about the construct that is then
last, and one for each invariant about what the last has to satisfy (`CoveredEnds`, `DoneEnds`). That
errors and exceptions stay (`Stay`) is needed for both.

**Error sets** (`ErrorProofs`), for any functions, in any order and calling each other in any way, any
errors and names, and blocks nested to any depth (`ProgramsAssumption`: the order of the file names each
function once, the bound on nesting is a number, bodies are trees): `ErrorInvariance`, `InferenceConverges`
(`[]Converged`), `OnlyDeclaredRaised` (`[]RaisedDeclared`), `BindingsTyped` (`[]BindingsHold`),
`InferenceOnlyAdds` and `ErrorTypes`. Two arguments. *The fixed point*: the code allows itself four rounds for each function and
does not say why that is enough. What it finds for a function grows with the sets it reads (`FoundUp`), as the
types of the handles' bindings, which it also reads, are those of the quiet check and stay; so nothing is in a set
that would not be found again (`Backed`). Errors are followed one at a time (`Spread`): one that is not yet everywhere it
belongs has come to one more function in each round before this one, and in this one too or to none of
those gone over. When a round brings it nowhere it is everywhere, so there are at most as many rounds as
functions, and one. *Soundness of what is accepted*: `ExprSound`, `BlockSound` and `LevelsSound` go through the
levels of nesting with one statement (`LevelSound`) about four recursions at once: in a block without
diagnostics, whose names have values of the types the checker gives them and whose calls return what
their types say, every way out is a result the function's type allows or a jump, to the handle the tries are for, with an
error those tries note. `FunSound` puts body and handle together, with `Builds` for the tries that leave
the function, and a run keeps it because calls return what runs before it returned. That no error is lost is not
among this: `NothingLost` fails (§4).

**Data.** `DataFacts` has the induction these proofs need. The library's induction theorems take an
operator, which none of the provers can instantiate; over a *set* of the values that have the property
the same principle is a first-order fact, and is proved here for numbers (`Induct`), finite sets
(`BySize`) and sequences (`ByLast`). With it, what recursive functions and folds compute can be proved:
the sum that is the byte count (`BytesAreExact`, `[]BytesExact`), the walk down the pool's free list
(`FreeListFollowed`, `[]FreeListExact`), `FlattenSeq` and `Chosen`, and what the loader of build programs does. `SelectSeq` is opaque to the
provers, so `Cleanup`, `PackageLoader` and `BuildPlan` use `Chosen` of `Selection` for it, the same function of a set.

Only model-checked, and why: liveness (`AllocReturns`, `CallsReturn`) and what speaks of `ENABLED`, out
of the prover's reach; `WrittenBackTheSame` and `AddedToRoots`, which depend on the bindings invented for a
plan being different, that is on the characters of `base_2`, which the provers know nothing of; and
everything about the modules with recursive operators, which the provers cannot load (`Parser`,
`Declarations`, `Syntax`, `Regions`, `Lowering`, so the run `compiler` but for its error sets, and its
`CompilerTypeOK`, of which `ErrorTypes` is one part): their recursion is over trees and over positions in a text. What made the
error sets provable was to bound the nesting of trees by a constant and recurse over the levels; the
parser recurses over places in a text that it itself moves, and the other two over trees with paths and fresh names.

## 6. Not modelled, and assumptions

* The rest of `src/checker.py`, `src/types.py` and `src/meta.py`: unification, generics, interfaces,
  derives, hooks, units. They are traversals over an open set of types whose results only their own
  rules define: there is no independent statement to check them against. `src/env.py`, the scopes they
  use, is dictionaries with parents.
* The rest of `src/ccodegen.py`: type definitions, helpers, formatting, name mangling, and GC
  descriptors. The GC model takes a descriptor as the truth about an object's pointers; the compiler's
  list only pointer fields at the top level of a struct, and a fresh object is not rooted while its
  initialiser runs: both are hazards without a property.
* `std/mem/debug.mesa`: four counters; a property would restate their updates.
* Alignment of a GC payload, the header's layout, and running out of C stack while marking.
* In `Cleanup`, values (so that a returned expression is evaluated after the cleanups is not seen),
  defers that leave by `return` or `break`, `try` inside closures.
* In `Regions`, `esc`, handles, fields of structs, method calls. In `ErrorSets`, arms of `catch` and
  the fields of error objects. In `FlowAnalysis`, the fourth pass (field layout) and its warnings.
* In `Parser`, the characters of tokens, spans, comments and what a literal holds. `src/parser_backup.py`
  is an unused copy; `mesa.py` at the root and the script are older drivers.
* In `PackageLoader`, the exports of a facade and the files of its own package (they may fail, which
  is the error "export"), read errors, the editor's cache.
* In `BuildPlan`, invoking the C compiler, messages, `mesa test`.
* An `Arena` after `free`; addresses that come back from `mmap` or `malloc`; a pool's inner allocator,
  and programs that give back a slot twice; `File`, the standard handles and `print` in `std/io.mesa`.

## 7. Plan

What is left, in this order: GC descriptors from types,
composed with `MesaGC`, and the rooting of fresh objects (`_emit_let`); the arena after `free` with
addresses that come back.
