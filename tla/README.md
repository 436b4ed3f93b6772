# A TLA+ development of Toka's compiler, runtime and build engine

Toka is a systems language: a compiler in C++ (`src/src`, `src/include`), a
runtime and standard library written in Toka itself (`src/lib`), and tools
written in Toka (`src/tools`), of which `forge`, a parallel incremental build
engine, is the largest concurrent client of the library. This directory holds
TLA+ models of the parts with the hardest state:

* in the runtime, the channel and the locks below it, and the collections that
  reuse memory;
* in the tools, the build engine;
* in the compiler, the driver with its module loader, the whole of the lexer and
  the parser, the borrow checker of function bodies with the code generation of
  ownership, and the steps that hand on text (types, templates, interface files);

the TLC configurations that check them on small instances, and theorems about
them that TLAPS checks for every value of the constants. `PROJECT.json` maps
every definition to the lines it models and lists components, runs, mutants,
hazards, findings and theorems.

## 1. Inventory

**Channel** (`lib/std/channel.tk`). *State:* one heap cell `AsyncChannel` shared
by reference count: a mutex over `WaitQueue` (queue, capacity or -1, closed,
numbers of senders and receivers) and two condition variables. *Operations:*
`send`, `recv`, `try_recv`, `Sender::clone`, both `drop`s. *Hard:* threads
interleave at every lock and wait; a signal wakes one thread, which must
compete for the mutex again; wakeups may be spurious; `closed` may be set while a
thread waits. *Correct when:* messages come out once and in order, the bound
holds, no wakeup is lost, closing releases everybody, and end of stream is
reported only when nothing is left to come.

**Mutex, CondVar, RwMutex, Once, WaitGroup** (`lib/std/sync.tk`,
`lib/sys/sync.tk`). Thin layers on pthreads; `Once` and `WaitGroup` add state of
their own. *Correct when:* exclusion, no lost wakeup, `f` of `Once` runs once
and its effects are seen by whoever returns from `call_once`.

**RingCore, VecDeque** (`lib/std/ring.tk`, `deque.tk`). *State:* buffer, capacity
(a power of two), head, len. *Operations:* push, pop at both ends, get, clear,
growth. *Hard:* wrapping by mask, unrolling on growth, ownership of slots that
hold moved values. *Correct when:* it is a double-ended queue and owns exactly
the slots of its window. The channel's queue is one.

**Slab** (`lib/std/slab.tk`). *State:* entries with generations, a free list
threaded through them, a length. *Operations:* insert, get, get_mut, remove,
clear. *Hard:* slots are used again while old ids are still around. *Correct
when:* an id finds its own element or nothing. Forge's graph nodes live in one.

**forge** (`tools/forge/src`). Three parts in one process. The *graph*
(`graph.tk`) keeps a node per source file: state, number of unbuilt imports,
dependents. The *pool* (`scheduler.tk`) keeps worker threads between two
unbounded channels. The *cache* (`cache.tk`) is an append-only log of what was
built from what. `main.tk` registers the entry file and recursively its imports,
resolves the clean nodes, then alternates submitting what is ready with waiting
for one result. *Hard:* results in any order, failure with workers busy, import
cycles, memory handed to threads by address, a log that a crash can tear.
*Correct when:* each file is compiled at most once and after its imports, nothing
stale is skipped, and the build ends.

**HashMap, HashSet** (`lib/std/hashmap.tk`, `hashset.tk`). *State:* three parallel
arrays (state, key, value of a slot), capacity, length. *Operations:* insert with
resize, get, remove, clear, clone, iteration. *Hard:* tombstones; probes that wrap;
writes through an unchecked slot number. *Correct when:* it is a finite map.

**Driver and module loader** (`src/src/main.cpp`, `Basic/SourceManager.cpp`,
`Basic/DiagnosticEngine.cpp`). *State:* the options; `recursionStack` and the set
of visited names; the address space in which every loaded file has a range; the
list of parsed modules; the number of errors; what was written so far
(interfaces, temporary object, product). *Operations:* one recursive
`parseSource` per name, then analysis, interface files, code generation, object
and link. *Hard:* one file has several names; early returns in a recursion that
keeps its own stack; a location is turned back into a file by searching ranges;
twelve places leave `main`. *Correct when:* modules come after their imports, a
cycle is reported only where there is one, loading ends, each module has the text
of its own file, and exit code 0 means the product is there.

**Lexer and parser** (`src/src/Lexer`, `src/src/Parser`). *State:* the position in
the text; in the tokens, the position, panic mode, and whether the last expression
had parentheses. *Operations:* about eighty mutually recursive productions with
look-ahead and recovery. *Hard:* statements are told apart by their lines;
recovery skips to a synchronising token; loops over members and arms go on until a
bracket closes. *Correct when:* no line of an accepted source is lost, and the
parser comes back, or has at least said what is wrong.

**Moves, borrows and scopes** (`src/src/Sema`: `PAL_Checker.cpp`, `Sema_Stmt.cpp`,
parts of `Sema_Expr*.cpp`). *State:* scopes with their symbols (moved, borrowed
from), and the ledger PAL: one map from path to kind of borrow per scope and a
list of the statement's transient borrows. *Operations:* every statement of a
function body. *Hard:* flags are merged over branches that jump or do not; a
transient borrow is committed, or erased at the end of the statement, by the form of
the reference; entries must go with the scope of the reference. **Code generation of ownership**
(`src/src/CodeGen`): where releases and drops are put, at compile time, and which
handles are set to null. *Hard:* an assignment to a handle releases the old object or
only overwrites it, by a `#` on its left. *Correct when:* an accepted body frees every
object once, and neither reads an emptied pointer nor uses a freed object.

**Types, templates and interface files** (`src/src/Type.cpp`,
`Sema/Sema_Type.cpp`, `Sema/Sema_Template.cpp`, `AST/TKIExporter.cpp`,
`include/toka/AST.h`). *State:* trees and types; the passes hand types on as text.
*Operations:* print and read a type, resolve aliases, decide what may flow into
what, name and fill in instances, copy a generic impl, export a module.
*Hard:* each side of a text is written by hand. *Correct when:* what was printed is
read as the same thing, an instance is the template with the parameter replaced,
two instances share a name only if they are the same, and no flow gains a right.

**Async tasks** (`lib/std/task.tk`, `lib/core/task.tk`) and the **reactor**
(`lib/sys/{linux,macos}/net.tk`). Timer heap, run queue, list of detached
coroutines, one readiness registration per descriptor; `block_on` drives them.
**Contexts** (`lib/std/context.tk`): a tree of cancellable contexts made of
channels and one polling coroutine per child. **Package manager**
(`tools/toka/src/pkg_manager.tk`): fetch, verify, unpack. These are in the plan
below.

**Not to be modelled.** The rest of semantic analysis and of code generation
(expression typing, overloads, layout, debug information, emission of LLVM):
sequential passes over unbounded trees with no definition of the language to check
them against. `Rc` counts and atomics: the question is one of memory
ordering, which an interleaving model cannot ask. Threads' closure boxes, I/O
wrappers, the arena, other collections, formatter, language server, editors and
web pages: no state machine of their own, pure input and output, or covered by
direct tests.

How they meet: `forge` main and its workers communicate only through the two
channels; each channel is a mutex, two condition variables and a ring; graph
nodes are named by slab ids; contexts are built from channels and coroutines;
coroutines wait in the timer heap or in the reactor. `forge` runs the compiler as
a process and sees its exit code, which is why `SuccessHasProduct` matters to it;
the compiler's loader calls the lexer and the parser for each file, the analysis
reads the interfaces other runs exported, and code generation takes the moves it
leaves out of the releases from the text the borrow checker accepted.

## 2. Modules

| module | models | lines of the source |
|---|---|---|
| `ChannelSpec` | what the channel promises, one action per linearization point | `channel.tk` |
| `Channel` | the channel as threads execute it, with mutex and condition variables | `channel.tk`, `sync.tk` |
| `ForgeBuild`, `ForgeProofs` | one run of forge: scan, skip, submit, compile, collect; its theorems | `graph.tk`, `main.tk`, `scheduler.tk` |
| `DequeSpec` | a double-ended queue | `ring.tk` |
| `Ring` | the ring buffer | `ring.tk`, `deque.tk` |
| `Slab` | the generational slab | `slab.tk` |
| `MapSpec` | a finite map whose insertions may be dropped | `hashmap.tk` |
| `OpenTable`, `OpenTableProofs` | the hash table; its theorems | `hashmap.tk`, `hashset.tk` |
| `Lexer` | characters to tokens | `Lexer.cpp` |
| `TokenStream` | the parser's hold on its tokens: looking ahead, errors, recovery, types and lists | `Parser.cpp` |
| `Expressions` | patterns, expressions, statements | `Parser_Expr.cpp`, `Parser_Stmt.cpp` |
| `Parser` | declarations, modules | `Parser_Decl.cpp` |
| `Loader` | `parseSource`: names, paths, the address space, cycles | `main.cpp`, `SourceManager.cpp`, `DiagnosticEngine.cpp` |
| `Driver` | `main`, from the arguments to the exit code | `main.cpp` |
| `Ledger` | PAL, the ledger of borrows | `PAL_Checker.cpp` |
| `BorrowCheck` | moves, borrows and scopes of one body | `Sema_Stmt.cpp`, `Sema_Expr.cpp`, `Sema.h` |
| `Ownership`, `OwnershipProofs`, `FilledProofs` | the code made from an accepted body, and its run; theorems on pointers; on values | `CodeGen_*.cpp` |
| `Types` | types and their texts | `Type.h`, `Type.cpp` |
| `Compatible` | aliases resolved; which type flows into which | `Sema_Type.cpp` |
| `Syntax` | the tree, and copies of it | `AST.h` |
| `Instantiation` | templates and their instances | `Sema_Template.cpp`, `Sema_Type.cpp` |
| `Interface` | the exporter | `TKIExporter.cpp` |
| `Passes` | these steps, one input at a time | |
| `MCChannel`, `MCRing`, `MCSlab`, `MCOpenTable` | symmetry, and one fact about `&`, for TLC | |
| `MCDriver`, `MCPasses`, `MCFrontend`, `MCOwnership` | the small inputs of the compiler's runs | |
| `ChannelProofs`, `RingProofs`, `SlabProofs`, `BorrowProofs` | theorems | |

Composition: `Channel` implements `ChannelSpec` (`Implements`, checked and
proved); `ForgeBuild` uses two instances of `ChannelSpec`, so what it assumes of
its channels is what `Channel` was shown to give. `Ring` implements `DequeSpec`,
which is what `queue` as a sequence in `Channel` stands on. The compiler's modules
extend each other in the order of its passes: `Lexer` to `Parser`, then `Loader`,
which parses each file with them, then `Driver`; `Ledger`, `BorrowCheck`, then
`Ownership`, which compiles and runs exactly the texts that `BorrowCheck` accepts.
`Passes` reads with `Parser` what `Interface` printed.

A definition marked *Faulty* stands before the definition it is a bug of. It is
no part of the model: put in the place of that definition it must make some
property fail, and `PROJECT.json` says which. They show that a property can fail.

### Channel

A thread's `pc` is one of the points where another thread can run in between:
before the lock, after it (`enter`, and `loop`, the head of the wait loop),
inside `wait_cond`, back from it (`recheck`), and before the guard is dropped.
All code between two such points runs under the mutex and is one action: for
example `SendPush` is the exit of the loop at line 102, `push_back`, the
notification and the result. `wait_cond` releases the mutex and joins the wait
set in one step, as POSIX promises. `notify_one` takes some thread out of the set
if there is one; `notify_all` empties it. `SpuriousWakeup` takes any thread out
at any time. A thread out of the set has to win the mutex (`Relock`) before it
tests its condition. `accepted` and `delivered` are history.

What clients do is not in `channel.tk`; the model's calls are those the
ownership rules of the language and the callers in the repository allow:
a producer uses its own Sender; a clone is handed to a producer that never had
one; the Receiver (whose `clone` is deleted) may be shared by address, as forge
does, and is dropped only when no thread is inside it; a consumer that was told
the stream ended stops. The error branches of `Mutex::lock` are left out: the
mutex is never destroyed while a handle exists.

### ForgeBuild

`imports` and `clean` are chosen in `Init` and never change: every list of import
lines, with repetitions, self imports and cycles, and every answer of
`is_dirty`. `stack` is the recursion of `register_file`; one action per step of
it. The inner loop over dependents is `Decremented`, one decrement per entry.
`Submit` is one turn of the loop of `submit_ready_tasks`, because the send to the
exec channel is visible to the workers. `AwaitSuccess` is `recv_result` with all
that main does with the answer before its next submit. The order in which
`resolve_clean_nodes` takes nodes from its vector is left open (any order gives
the same result). `boxes` are the task records main allocates and frees; workers
read them by address. An abandoned run (`failed`) leaves the workers running,
as the code does. Files keep their identity: `SlabID`s are looked at in `Slab`.

### Ring, Slab, OpenTable

One action per operation. `Masked` is `x & (c - 1)` for the arguments the code
gives it, which `MCRing` checks against the bitwise operator. A slot that was
moved out of, or never written, is `Moved`; TLC and the proof show that no
operation returns it. Slab generations are taken modulo `GenMod` (2^32 in the
code). `held` records what the first holder of each id was given it for, `old`
the ids from before the last clear.

`OpenTable` puts the three arrays of a slot into one value: empty, dead or full.
`hash` is chosen in `Init`, so a run covers every way the keys can collide.
`First` is the probe loop; `insert` is split by how its probe ends: at the key
(`Replace`), at an empty slot (`Add`, which takes the first slot on the way that
is not full), or back where it started (`AddNowhere`). The resize is part of
each. Left out are `clone` (a hazard says why) and direct calls of `resize`, of
which the repository has none.

### Loader, Driver

A path is a record of directories, stem and extension; "." as a directory makes
another name and the same file. `frames` are the calls of `parseSource` in progress,
`recursion` is the program's own stack of names. The two differ: the early returns
for a file that cannot be found (`NotFound`) leave their name behind. `files` is the
address space of `SourceManager`; a module's text is what `upper_bound` finds at the
start of its range (`TextAt`), which for an empty file is the next file's text. The
parser looks at the kind of the token in front of the first one; what that memory
looks like is a choice (`Memory`). The passes after loading are loops of `Driver`
over the modules; what the analysis, the code generator, the linker and the file
system answer is chosen by the environment, and what the driver does with each
answer is the model.

### Lexer to Parser

A production is an operator from a parser state to a parser state. `Production` and
`Part` give the mutually recursive ones a name, so that the modules can be read in
order. Of the tree only what the parser itself asks for later is kept. `starts`
collects where declarations, members, arms and statements begin, and `halt` says how
a parse did not come back (an endless loop or a null dereference). The translation
was compared with the repository's own programs: the model accepts every program
of `tests/pass` (up to 8000 bytes, without a byte order mark) and the small files
of `lib`.

### Ledger, BorrowCheck, Ownership

The text of a body is written one statement at a time, in every way a grammar
(`Profiles`) allows; each action of `BorrowCheck` is what `checkStmt` does with the
statement, up to the erasure of its transient borrows. The first error refuses the
text. `Generate` compiles an accepted text to a small code of stores, reads,
releases, drops and jumps, with the scope stack of CodeGen kept at compile time, and
one action per instruction runs it on a heap, each condition going either way.
`faults` collects reads of null, uses of freed objects and second frees, those of a
pointer's object (*double free*) apart from those of a value (*double drop*).
Types, traits, calls by signature, closures, match and for loops are left out.

A `#` decides twice. A reference is an `&` (`auto &r = &p`, `auto &r# = &p`: its borrow
is committed) or an `&#` (`auto &#r = &p`: it is not, `Sema_Stmt.cpp:848`, and only such
a reference can be rebound); `sharp` tells them apart in `DeclareRef`, and an
`auto nul &r` is an `&#r` that no rebind touches. An assignment has it or not on its
left (`^#v = ..`, `^v = ..`): `GenAssign` releases the old object only for the first, as
`emitAssignment` calls `emitEnvelopeRebind` only then. The other form, the everyday one
by `docs/syntax_zh.md:17` and `:153` and in `tests/pass/linked_list_uniqueptr.tk:40`,
stores over the handle (`PlainStore`). For a shared pointer that gets what `new`
returns, the store is narrower than the handle: the old count stays, the new object has
none, and one of the two is never freed (`Graft`; the model calls the new one lost, since
it knows a handle by its count). `lost`, in the heap, is a history field: nothing reads
it but the properties and the bound. It counts the owners of an object that were
overwritten and not released.

### Types to Passes

A type is a record, its text a sequence of the lexer's pieces. `ToText` and
`FromText` are `toString` and `fromString`; `Compatible` tries the rules of
`isTypeCompatible` in the code's order. A node of the tree is a record with roles;
`Clone` copies what each class's `clone` copies and leaves out what it forgets.
The exporter's texts keep their line ends, because the parser minds them. `Passes`
takes one input through one pass.

## 3. Runs

| run | what it asks | instance |
|---|---|---|
| `channel_safety` | FIFO, bound, no stranded waiter, end of stream, refinement | 2 producers, 2 consumers, capacity 2, 2 sends each |
| `channel_live` | closing releases everybody | same threads, capacity 1, 1 send each |
| `channel_closed` | finding: accepted after close | 2 producers, 1 consumer |
| `ring` | ring is a deque and owns its window | 3 values, first capacity 2, up to 5 elements |
| `slab` | free list, length, ids | 3 slots, 3 uses of each |
| `slab_clear` | finding: ids issued again after clear | 2 slots, 2 uses |
| `open_table` | the table is a map; when an insertion has an effect | 4 keys, all hash functions into {0, 4, 7}, capacity 4 and 8 |
| `open_table_lost` | finding: insertion without effect | same, 1 value |
| `forge_build` | counts, order, skipping, lifetimes, end of an acyclic build | 3 files, up to 2 import lines, 2 workers |
| `forge_cycle` | finding: a cycle hangs the build | same |
| `driver` | the compiler's run: order of modules, their text, no line lost, end, exit code; beside it the passes over text | below; 73 571 states |
| `ownership` | borrow checker and generated code agree: no double free, no leak but by a plain assignment, no dangling use but through references that are shared or not committed | 12 grammars, texts of up to 5 to 8 statements; 4 607 409 states |

Some properties are conjunctions that belong together: `FreeListExact` of the slab
includes that `len` counts the present elements; `CountersExact` of forge is
`TypeOK`, `InDegreeExact` and `RemainingExact`; `ReachableOnce` of the table includes
its length; `OwnText` includes the types of the loader's variables and that the
address space has no gap.

Why these bounds are enough to be of interest. *Channel:* `MaxSends` bounds the
calls. A lost wakeup needs two waiters on one side and one of them woken while
another thread passes it by; with capacity 2 the order of the queue can be told,
and two sends by each of two producers reach a full queue with both producers
asleep, and a woken sender overtaken by a new one. Unbounded and larger
capacities are covered by the proofs, which fix nothing. Symmetry exchanges
producers, or consumers; it is used only without liveness. *Ring:* with
`FirstCap` 2 and `MaxLen` 5 the ring grows at 0, 2 and 4, and wraps at every
size. *Slab:* three slots give a free list of every order; `MaxReuse` 3 lets an
id be two generations old. `NoGenerationWrap` keeps generations from coming
round: in the code that takes 2^32 uses of one slot. *OpenTable:* the first capacity
is 4 instead of 128 (`FirstCap`; a multiple of 4, so that the load test is exact),
hence three keys force a resize and four slots run out of empty ones; hashes 0, 4
and 7 collide or not depending on the capacity, and 7 wraps in both tables; `MaxCap`
allows one growth. *ForgeBuild:* three files with two lines each (`MaxImports`)
contain the chain, the diamond's edge cases (two importers of one file, one file
importing it twice), self imports and cycles of two and three; two workers return
results out of order.

*driver:* two sources and the library give cycles of one and two, one file under two
names (with and without extension), an interface beside its source, a missing, an
empty and a broken file, and a package directory; `MaxErrors` 2 instead of 20 is
reached by two broken files; `MaxDepth` 6 is more calls than there are names without
relative imports, so `Overflow` is reached only by files that import each other
relatively. Sources are every two lines out of 38 statements inside a function, 18
inside a closure of a method, and 23 declarations, the wrong ones among them: which
token may follow which across a line end is a question about two lines. The passes
are an independent machine that runs while the driver only prints its version, so
that their states do not multiply; their inputs are listed in `MCPasses`.

*ownership:* each grammar joins the statements whose interplay matters: moves, and
assignments with and without a `#`, under branches; under loops; shared handles with
early returns; a unique pointer with references of both forms that are lent and
rebound; a value with references and cedes; every kind of jump; and one value that is ceded and written in loops, in
blocks and branches, or in branches with a loop that returns. Five or
six statements reach a scope inside a scope (`MaxNest` 3)
with something moved, borrowed or released in each, and eight are what a value takes
that is ceded, refilled two scopes deep and dropped, or ceded in a branch with a loop
in it and dropped after both. `MaxObjects` 3
stops loops from being entered again once three objects were made, or three owners of
one object lost. Code behind a
jump is not written and names are not shadowed.

Deadlock is checked in the channel runs (`Freed` is the only rest state, so a
state in which every thread sleeps would be reported), the ring, the slab and the
table. It is off in the forge runs, where main ends and that it *does* end is the
property, and in the compiler's runs, which end with the program they are about.

**Fairness.** `Channel!FairSpec`: weak fairness of `Run(t)` for each thread, that
is, a thread inside an operation that can take a step takes one in the end. No
call is ever forced, no spurious wakeup is needed, and the mutex is not assumed to
be granted in any order. A thread that others overtake at the mutex again and
again is therefore released only because calls run out after a close: consumers
stop at the end of stream, and `MaxSends` bounds what producers still try. With
clients that call for ever the property would need a fair mutex, which pthreads
does not promise. `ForgeBuild!FairSpec`: weak
fairness of the main thread and of each worker; it includes that the compiler
process returns. `FrontSpec`: weak fairness of the driver's steps, one sequential
process. The kernel's scheduler justifies all three.

## 4. Findings

* `channel_closed`: a sender parked on a full queue is signalled by a pop; the
  Receiver is dropped before the sender has the mutex again; the loop in `send`
  looks at `closed` only while the queue is full, so the message is pushed and the
  call answers Ok, though nobody will read it. The text of the same function,
  "Send on closed channel", calls this an error. `ChannelSpec` describes what the
  code does (`parked`).
* `slab_clear`: `clear` drops the generations, so the first insertion after it
  gives out an id equal to an old one. `tests/pass/slab_test.tk:46` asks that a
  "generational ID should prevent ABA stale read".
* `open_table_lost`: tombstones do not count towards the load. Once every slot is
  full or dead, a probe for a new key finds no empty slot, `is_new` stays false and
  the insertion has no effect; with the source's capacity, 128 insertions and
  removals of keys with different slots suffice, and the map, though empty, takes no
  new key until `clear`. `tests/pass/test_map_remove.tk:29` expects a key to be
  contained after its insertion over tombstones. `InsertTakesEffect` shows that this
  is the only case.
* `forge_cycle`: with an import cycle nothing becomes ready and main waits for a
  result for ever. The compiler reports the same input as "Circular dependency
  detected".

The compiler's models answer more questions with no than a project of this size can
list as runs. Each of the following was found as a counterexample, confirmed in the
source, and is now an exception the property names (so that the property says it is
the only one); the hazards give the lines.

* *Loader and driver.* An import that cannot be found stays on `recursionStack`: the
  same import elsewhere is reported as a circular dependency. Files that import each
  other by relative paths are never recognised as a cycle and overflow the stack. An
  empty file gets the text of the file loaded after it. With `--check-json` errors
  end with exit code 0.
* *Lexer and parser.* An unknown character ends the file silently; an unclosed
  shape, string or comment at the end is accepted. `pass`, a prefix keyword, and an
  array of one element before a name take the next line for theirs. A name, a line
  end and `(x)` are a call. A token that nothing consumes in a trait, and a bracket in
  the type of a cast, keep the parser in place; `(;)` dereferences null, and a number
  of 2^64 ends the process.
* *Borrow checker and ownership.* Only the flags of the scope right around an `if`
  are saved and merged: a pointer of an outer scope that one branch refills counts as
  filled (`ReadsSeeOwner` excludes refills two scopes deep). A write through a moved
  pointer is accepted and marks it as filled. The second iteration of a loop is not
  checked, so a value ceded in a loop is dropped again; and a value that is written in
  a loop, or two scopes deep, counts as filled on the paths that do not write it.
  A branch with a loop in it that jumps is taken for one that always jumps
  (`allPathsJump`), though the loop may not be entered: after
  `if { cede x; loop { return } }` the value counts as still there and is dropped
  again (`ValueUnsure` names all of these). The erasure of transient
  borrows at the end of a statement takes a committed shared borrow of the same place
  with it, and the borrow of an `&#` or a `nul &` reference is never committed, neither
  when it is declared nor when it is rebound: a reference that is shared, or of one of
  these forms, may dangle (`ExclusiveNeverDangles` is about the exclusive `&`).
* *Assignments without a `#`.* `^v = new ..` and `~v = ~w`, accepted for a `v` that is
  declared rebindable, overwrite the handle and release nothing: the old object is
  never freed, or keeps an owner that is gone. `docs/syntax_zh.md:17` and `:153` want
  no `#` there, and `tests/pass/linked_list_uniqueptr.tk:40` and
  `smart_ptr_borrow.tk:42` are written so. `OwnersReleased` counts what is lost so and shows
  that nothing else is.
* *Types and templates.* `Printable` names the types whose text is read as another
  one. Aliases lose nullability; a blocked type can be opened behind an alias;
  parameters of closures are compared in the wrong direction; integers of any width
  flow into each other. Two argument lists can have one mangled name. The instantiator
  does not look into the classes of `Unseen`, and a copied loop forgets the prefix of
  its variable. The exporter has no text for the nodes of `Misprinted`.

## 5. Proofs

TLAPS checks the theorems for all sets of threads, names, capacities, values and
bounds, from the named ASSUMEs of the modules only (threads are disjoint and
finite, the capacity is an integer of at least -1, the first capacity is
positive, for the hash table a multiple of four, and within the bound on capacities,
generations are counted modulo at least two, each name has one of the four kinds, the
files and the workers of a build are finite sets).

**Channel.** `ChannelProofs` builds the inductive invariant in layers, each with
`Init => I` and `I /\ earlier /\ [Next]_vars => I'`:
1. `TypeInv`: types, and a send in progress was counted. Gives `TypeCorrect`.
2. `QueueInv`: `accepted = delivered \o queue` and the bound. Both are inductive
   given types, since a push is guarded by `~Full` after the relock. Gives `Fifo`
   and `Bounded`.
3. `MutexInv`: the holder of the mutex is the one thread at a point inside the
   critical section. Gives `Exclusion`; later layers need it to know that a thread
   that just tested its condition still has it.
4. `HandleInv`: `senders` is the number of live handles, `receivers` is 1 until
   the drop, `closed` is set exactly when one side is gone, a thread inside an
   operation owns its handle. Without it `DropTx` could leave the count at 0 with
   a Sender alive.
5. End of stream uses 2 and 4. `SleepersWait` (a thread in a wait set is at
   `wait` in the matching operation) and `AdmittedOpen` (a sender that is past its
   first test, and has not waited, has the channel open) complete it.
6. `NoReceiverStranded`, `NoSenderStranded`: the counting invariant itself. A
   push adds a message and, if somebody sleeps, moves one sleeper to the threads on
   their way; a thread on its way leaves by taking a message or by finding none.
   These rest on lemmas about the cardinality of that set.

`Refinement` proves `Spec => Abstract!Spec` under the mapping `txs` = owners
of a live handle, `rx` = receivers is not 0, `parked` = senders inside or back
from the wait. Nine actions map to an abstract action, all others to a stutter.

**Ring.** `Inv == TypeOK /\ OwnsItsWindow` is inductive: an update
outside the window is what keeps `Moved` slots apart, and types alone do not give
it. Each operation's lemma proves `Inv'` and the `DequeSpec` step together.
`Refinement` follows. The proof uses `Masked` as the conditional it is; that it
is the code's `&` is checked by TLC for capacities up to 64.

**Slab.** `SlabInv` holds the free list as a witness: some sequence without
repetitions runs from `free_head` through the links to the end (`Chain`) and its
members are the vacated slots. Insert takes its first element or appends a slot,
remove puts one in front; each case gives the witness for the next state. From it
`FreeListIsExact`, and with `HeldExact` (the ids given out for a slot since the last
clear are its generations from the first to the present one) `IdsFindTheirElements`:
an id finds its element as long as the slot's generation is the id's, and nothing
after. `HeldExact` needs `NoGenerationWrap`, which the actions' guards give; the free
list needs nothing of the kind.

**Borrow ledger.** `BorrowProofs` proves that an exclusive reference keeps its entry,
for every set of names, every grammar and every nesting. `ExclusiveKeepsEntry` alone
is not inductive: a statement could erase the entry with its transient borrows, or
close the wrong scope. `BorrowInv` adds that there is one map per scope and one for
the function (`Matches`), that no transient borrow is left between statements, and
that each symbol of an exclusive `&` has its entry as one. What an `&#` reference
borrows is recorded and cleared within the statement and touches no such entry. A
statement's checks then change the ledger only in a way that keeps exclusive entries
(`Keeps`: entries recorded exclusively stay, in every map) and the scopes only by
weakening claims (`Weaker`), two relations shown for each helper and composed; `Commit`
and the opening and closing of scopes are the only steps proved directly. The reason
the erasure is harmless is that a borrow is refused where the same path is exclusive
in the innermost map.

**Code of a body.** `OwnershipProofs` proves the types, `OwnersReleased`, and that
pointers stay alive (`PointersAreAlive`, the first part of `NoDoubleFree`), for every
grammar, every text of any length and nesting that is accepted, and every path of its
code, loops included. The releases are placed at compile time and the counts change at
run time; what joins the two is a typing of the code.
1. The typing. `Flow(c, S, T, tx, n)`: ahead of instruction `i` the slots in `S[i]` own
   an object each, `Fits` says which sets an instruction may meet, `After` which set it
   leaves, and `T` which set the labels of an `if` or a loop expect from every jump to
   them. The register is two more slots, 0 and -1: `return ~v` owns its object twice for
   a moment. The set of a place does not depend on the path: this is what
   makes releases at compile time possible at all.
2. The compiler keeps it. `Body` is the invariant of `GenBody` after a statement: the
   code so far is typed and ends in the set that the open frames will release (`Owned`),
   frames and scopes of the checker agree and name the same variables (`Named`), and
   each jump has its label or a frame that owes it (`Resolved`). There is a lemma for
   every statement and one for the unwinding of any number of scopes, an induction over
   them by `DownTo`. The checker is needed for one thing: in a text it did not refuse,
   each variable a statement names is declared, of the right kind, in a scope that is
   open (`CheckInv`, on top of `BorrowInv`). `FunctionIsProgram` closes it: in the code
   of a whole function every jump lands and nothing falls off the end (`Program`).
3. The run keeps it. `Memory`: every object made for a pointer has as many owners as
   slots of `S[pc]` hold it, not counting the lost ones (`Counts`, `Owed`), and pointers
   lead to such objects or to null
   (`Handles`), only references to addresses (`SlotsFit`). `OwnersReleased` alone says
   nothing before the end and `PointersAreAlive` nothing of the heap, so neither is
   inductive; `RunInv` is, and has one lemma per instruction. At the end `S[pc]` holds
   at most the register, so all other objects have the lost owners and no other.
   Wherever a pointer is released,
   copied or used, its slot is in `S[pc]`, so the count of its object is at least one.

**Values and the moved flags.** A value has no count: its drop is left out where Sema's
flag says that it was moved, so that it is dropped once is a fact about flags, set in the
order of the text, and code, which runs along paths. `FilledProofs` proves
`NoDoubleFree` whole (`NothingFreedTwice`), on top of `OwnershipProofs`.
1. A second typing. `Fills(c, V, W, tx, n)`: ahead of instruction `i` the slots in `V[i]`
   surely hold a value, whatever path led there, and `W` is what each label has from
   every jump to it. A drop and a gift (`cede`, a value returned or written) need their
   slot. A set may be taken smaller at a label, which the typing of the pointers does
   not allow; where control cannot come, the set is `Everything`.
2. The checker gives it. `Known`: at the end of the code made so far, the values that
   the open scopes still owe a drop and Sema counts as not moved are in the set there,
   and those that are not moved by the flags an `if` saved for its other branch and for
   its end are in the sets of its pending labels (`Kept`). This fails for some accepted texts; they
   are the texts of `ValueUnsure`, and outside of it there are two reasons why the flags
   of a merge are right, neither covering all texts (`SureIsClean`, `Modes`). With no jump
   out of a loop ("calm"), a branch that leaves the function has no end whose flags
   count. With no value moved in a branch ("still"), both branches have the same flags.
   `KnownInv` has a lemma per statement, and `FunctionIsFilled` closes it at the end.
3. The run keeps it. `Live`: the slots in `V[pc]` hold distinct values, made and not
   dropped. Distinctness is needed: a drop through one slot must not empty another.
   `ValueInv` has one lemma per kind of instruction, and with `RunInv` gives the theorem.

Not among the theorems are that no emptied pointer is read (`ReadsSeeOwner`), which needs
such a typing for the slots of pointers, and `ExclusiveNeverDangles`.

**Forge.** `ForgeProofs` proves the five invariants of `ForgeBuild` and its types for
any finite set of files and workers, any import lists (repeated lines, self imports
and cycles included), any answers of `is_dirty` and any failing compilations. None of
the five is inductive; `IInv` joins eleven parts, each proved from those before it:
1. `TypeInv`, with counters in `Int` only: that they never fall below zero is a
   consequence, drawn at the end (`TypeCorrect`).
2. `ReadyInv` (what waits in the vector of `resolve_clean_nodes` is clean and Pending)
   and `FlightInv`: for each file, how often it is still to be compiled (`ToRun`), how
   often it was (`runs`) and how many answers about it are on their way (`Done`). One
   lemma for each kind of move says what it does to the two counts. It gives
   `RunningFilesAreInFlight`, and that the file of an answer is Running.
3. `EarlyInv`: nothing is compiled or built before its phase. `RegisteredInv`: ids are
   not repeated, a file has at most one `register_file` call, and there is one line
   after the last at most.
4. `LinkInv`: `dependents[f]` holds `g` once for each line of `g` that imports `f` and
   was linked, so, with the stack empty, once for each line.
5. `DegreeInv`: `in_degree` is 0 while a file is scanned and the number of its open
   lines from then on. By 4 a success closes as many lines of a file as `Decremented`
   takes from its count. Gives `CountersAreExact`, with `RemainInv`.
6. `OrderInv` (no open line in a file handed out, built or about to be skipped) gives
   `ImportsAreFirst`; `SkipInv` and `BoxInv` rest on it, on 2 and on `RemainInv`.

**Hash table.** `OpenTableProofs` proves the four properties of `OpenTable` for any
keys, any hash function and any capacity. `Good(t, c)` is the invariant of one table:
no key has two entries, and from the first slot of a key the probe gets to its entry
over slots that are not empty. `ReachableOnce` alone says this only of the table as it
stands; `Good` is also what every table in the middle of a resize satisfies.
1. Probing. A probe passes every slot once around (`ProbeCovers`, from the uniqueness
   of quotient and remainder), so `First` is a least distance that exists whenever a
   slot of the wanted kind does. In a good table the search for `k` ends at its entry
   if it has one (`StopFinds`), and at a hole if one slot is not full (`HoleIsFree`).
2. Writing. `PutNew`, `PutOld`, `PutDead`: a table that is written in one slot stays
   good, since none of the writes empties a slot a path runs over.
3. Resize. Its recursive function exists for every number of slots, and after `n`
   slots the new table is good, has no tombstone, and has just the entries of these
   slots (`ResizeKeeps`). This is induction over a number, for which there is no theorem
   here that takes a predicate; `UpTo` makes it from the least element of a *set* of
   naturals, which `WellFoundedInduction` gives.
4. `Inv`: the table is good, `len` counts its entries, three quarters are the limit, and
   the capacity is a multiple of four. The last makes `4 * len < 3 * cap` leave room for
   one more entry (`RoomIs`). Each operation is then described by what it does to the set
   of entries, from which follow the invariant, the step of `MapSpec` (`Refinement`) and
   `InsertionsTakeEffect`.

**Only model-checked.** Liveness (`CloseReleasesEveryone`, `AcyclicBuildEnds`,
`Terminates`), which is outside this prover; of the run of compiled code,
`ReadsSeeOwner` and `ExclusiveNeverDangles`, which need the moved flags of pointers
and the borrows of every path in the invariant; the lexer, the parser, the loader,
the driver and the passes over text, whose recursion no installed prover can follow; the
fact about `&`.

## 6. Abstractions

Payloads are model values. Logging, timing, allocation failure (never looked at
by the code), command lines of forge, the parsing of import lines by forge and the
text of its cache are left out. `is_dirty` is a free choice, so `SkippedIsClean` says
what forge does with its answers and not whether they are right. Atomic actions
assume that data guarded by the mutex is touched only under it, which
`Exclusion` and the code's use of `MutexLock` give; memory ordering is not
modelled. In the compiler, texts are sequences of pieces (blanks, symbols, whole
words and numbers): what happens inside a word is not seen. The answers of the
passes that are not modelled are free choices of `Driver`, and a file that was found
can be opened.

## 7. Plan

In this order, the most useful first:

1. `ForgeCache`: the log across runs: what `record_success` stores against what
   `is_dirty` compares, a run killed in the middle of an append, edits between runs.
   Question: does a second run of an unchanged tree compile nothing, and is
   nothing stale ever skipped?
2. `TaskLoop`: timer heap, run queue, detached coroutines and the reactor as
   environment. Questions: is a coroutine resumed only while suspended and
   never after it was destroyed; does `block_on` return?
3. `CancelTree`: contexts over channels and polling coroutines. Question: does a
   cancellation reach every descendant, once, and nothing else?
4. `PkgFetch` (failure and interruption of a fetch), `Once` and `WaitGroup`.
5. More of the borrow checker's grammar: match, for, closures and calls by
   signature; generic functions in `Instantiation`.
6. Theorems: that no accepted statement moves an owner under an exclusive reference
   (`ExclusiveNeverDangles`); and for `ReadsSeeOwner` a third typing, the slots of
   pointers that are surely not null, along the lines of `FilledProofs`.
