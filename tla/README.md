# A verification project for PCTK

PCTK is a C++ toolkit library in its early days. Most of its tree is build
machinery; its run-time behaviour sits in `src/src/libs/core/source`, and the
choice of which of that code is compiled sits in the CMake configure system
(`src/cmake`). This directory holds TLA+ models of the parts that have state
or concurrency, and of the headers that describe the platform to the rest of
the library; TLC configurations that check them on small instances; and TLAPS
proofs of the most important properties for every instance.

Paths are given from the directory that holds the repository as `src/`.
`PROJECT.json` is the machine-readable index: for every definition the lines of
source it stands for, for every property a mutated definition that breaks it,
the hazards each property is for, the findings and the theorems.

Contents: 1 inventory, 2 plan, 3 the models, 4 the runs, 5 findings,
6 the proofs, 7 what is not modelled.

## 1. Inventory

`core` is short for `src/src/libs/core/source`.

### Components

| Component | State | Operations | Interacts with |
|---|---|---|---|
| `AtomicInt`: `core/thread/pctkAtomic.h`, `_cxx11.cpp`, `_c11.cpp` | one `std::atomic<int>` or `atomic_int` | constructors, load, store, ref, deref, testAndSet, fetchAndStore/Add/Sub/Or/And/Xor in the variants Relaxed, Acquire, Release and Ordered; operators on top of them | any threads of the application, through the memory model |
| `AtomicPointer<T>`: same files | one `std::atomic<void *>` | load, store, testAndSet, fetchAndStore, fetchAndAdd, fetchAndSub | any threads |
| `SharedLibrary`: `core/plugin` | `m_handle`, `m_name`, `m_path`, `m_filePath`, `m_prefix`, `m_suffix` | three constructors, destructor, load, unload, setters, getters | the dynamic loader's open counts, shared by all objects of the process |
| `FileSystem`: `core/io` | none of its own; the tree on disk | makePath, removeDirectoryRecursive, queries, path functions | every other thread and process that uses the tree |
| Configure features: `src/cmake/PCTKConfigureHelpers.cmake`, `src/src/libs/core/configure.cmake`, `CMakeLists.txt` | CMake's cache: test results, feature values, "was forced" flags; `INPUT_` variables | compile tests, reset, evaluation of each feature, choice of the atomic back end | the user who edits the cache between runs; the compiler; the sources that get compiled |
| Configure expressions: `src/cmake/PCTKCMakeHelpers.cmake` | none | evaluation of CONDITION, AUTODETECT and the like | called by the features |
| `Tag`: `core/tools/pctkTag.*` | a registry: counter, id-to-name and name-to-id maps | tags from names, ids and other tags; registration | unlocked globals of the process |
| `Any`: `core/tools/pctkAny.h` | an owned holder on the heap | construction, copy, assignment, swap, reset, destruction, `any_cast` | pointers handed out to callers; any type, `Tag` among them |
| Global and platform headers: `core/global` | the macros and typedefs defined so far in a translation unit | one inclusion each: system, processor, compiler and its features, spellings, types and formats, limits | the compiler's predefined macros, `pctkCoreConfig.h` written by the configure step, each other |
| `TypeTraits`, `TypeInfo`: `core/tools` | none | what kind of type a type is, and how its values may be copied | the features of the compiler header; C's types and the library's typedefs |
| `Flags`: `core/tools` | one word of bits | one C++ operator each | `TypeInfo`, which it includes |
| gcc, msvc and posix atomic back ends | none yet | bodies are empty or return nothing | chosen by the configure step |
| `Error`, `Exception`, `String`, `Object`, preprocessor helpers, osgi library, rcc tool, build helpers | none that evolves | formatting, argument counting, empty stubs | none |

How they interact: the configure step decides which back end defines the
methods of `AtomicInt` and `AtomicPointer` (`Configure`, property
`OneBackEnd`); the back end decides the memory orders (`AtomicOrders`); the
orders decide whether reference counting with `ref()`/`deref()` is safe
(`RefCount`). The configure step also measures the types that `Types` chooses
from, and every header of `core/global` tests macros the others define
(`Headers`). An `Any` can hold a `Tag` (`Tools`). `SharedLibrary` and
`FileSystem` each stand alone against the operating system.

### What is hard, and what makes each component correct

- **Atomics.** A wrong memory order shows only on weakly ordered machines, in
  rare interleavings. Correct means that a method named Acquire sees what a
  method named Release published, also through failed exchanges and through
  chains of relaxed read-modify-writes; that a count kept with ref and deref
  destroys the object once, after every use; that the pointer's calls are
  indivisible. The last one fails for fetchAndAdd and fetchAndSub (section 5)
  and the project states the discipline under which it holds.
- **SharedLibrary.** Legal calls in unusual orders: setters after load, a load
  after a failed unload, an object destroyed while loaded. Correct means that
  the loader's count is accounted for by handles, that the path of a loaded
  object does not move, that the path parts spell the path, that a failed load
  changes nothing.
- **FileSystem.** Several callers, each making several system calls, with
  failures between them. Correct means that makers do not trip over each other,
  that removal removes its tree and nothing else, that what an interrupted
  removal leaves can be removed, that no call runs for ever.
- **Configure.** A cache that outlives each run, edited by the user and left
  half written by fatal errors. Correct means that exactly one back end is
  compiled and that earlier runs leave no trace.
- **Tag and Any.** Long sequences of legal calls; a name that has several ids;
  holders that change hands by clone, swap and reset. Correct means that a valid
  tag finds the name it was made with wherever it is kept, that each holder has
  one owner, and that a pointer from `any_cast` follows its value until the
  value dies.
- **The headers.** Some forty conditionals over the macros of some ten
  compilers, two dozen systems and a dozen processors, of which a test sees one
  combination. Correct means that the order of inclusion does not matter, that
  widths and formats are what their names say, that a macro expands to what the
  compiler understands, that a later compiler has the features of the one
  before, that each type is judged to be one kind of type, and that the
  fallbacks for overflow-checked unsigned arithmetic are exact. (The signed
  ones are not; what they report is stated too.)

The list of hazards, each at its line with the properties for it, is in
`PROJECT.json`.

## 2. Plan

Order: the code whose errors a test can least reach comes first. Done:

1. `AtomicOrders`, `AtomicMemory`, `AtomicInt`: what the names promise.
2. `RefCount`: the protocol ref and deref exist for, over the same memory.
3. `AtomicRegister` (abstract) and `AtomicPointer`, with the refinement.
4. `SharedLibrary`.
5. `FileSystem`, and `FileSystemRetry`, which adds a history variable to it.
6. `Configure`, whose result selects between the back ends of 1 to 3.
7. `Tag`, `Any` and their composition `Tools`.
8. The headers: `Cpp`, `System`, `Processor`, `Compiler`, `Macros`, `Types`,
   `Global`, `TypeTraits`, composed in `Headers`.
9. Proofs for all of them (section 6).

To come, in this order:

1. The expression evaluator (`src/cmake/PCTKCMakeHelpers.cmake`) as a recursive
   function on member lists, checked against a reference with the usual
   precedence over all short expressions, and `Configure` extended with DISABLE,
   ENABLE and EMIT_IF.
2. Two threads that make tags. Nothing locks the maps, so the model would state
   the discipline under which `TagsNameThemselves` holds.
3. `TypeTrait`, `TypeIf` and the modifiers of `pctkTypeTraits.h` over the types
   of `TypeTraits`.

Abstract specification: `AtomicRegister`. Modules that are proved about, and
those they extend, have no RECURSIVE operator.

## 3. The models

### AtomicOrders: the tables of memory orders

For each method family the order each finished back end passes:
`pctkAtomic_cxx11.cpp` to the C++ atomics, `pctkAtomic_c11.cpp` to the C ones,
for success and for failure of the exchanges. The names' promises
(`NamedAcquire`, `NamedRelease`) are kept apart from the orders, so that the
properties compare the two.

### AtomicMemory: the language's memory model (external)

One atomic object under C++20 release/acquire. `mo` is the modification order:
each element holds its value and the plain writes it publishes. `seen[t]` is
the coherence bound of a thread and `hb[t]` the plain writes that happen
before its next step. A read may return any element not older than `seen[t]`,
so stale reads happen. A store without release publishes nothing; a
read-modify-write continues the release sequence it reads from, whatever its
own order. With one atomic object, appending every store at the end of `mo`
loses no execution (the module's header says why).

### AtomicInt

One action per method. The class's operators are compositions of these, listed
in the module's header. `int` has its width: `-Half .. Half - 1`, with
`Wrap` where the language wraps. `log` and `acq` are history variables:
what the names of the methods called so far promise. Copying is the atomic
load of the source: the object the copy makes is not visible to others yet.

### RefCount

The same memory and the same tables; the actions are those of a caller that
keeps references: `Copy` (ref), `Drop` (deref), `Give` (hands a reference over
by a means that orders the threads), `Use` (a plain write to the object),
`Destroy` (what a caller does when deref returns false). The counted value is
an `int` of its width; `RefsAssumption` says that there are fewer references
than it can count.

### AtomicRegister and AtomicPointer

`AtomicPointer` interleaves at single accesses of `m_value`. load, store,
testAndSet and fetchAndStore are one access; fetchAndAdd and fetchAndSub are
a load and then a store (`pctkAtomic_cxx11.cpp:389`, `_c11.cpp:380`), so they
are two actions with `pc`, `expected` and `arg` between them. Pointers are
integers modulo `Modulus`. `done` (the last call completed, with arguments and
result) and `ledger` (where the completed calls should have left the pointer)
are history variables. `AtomicRegister` is what a caller expects: each call is
one step. `Register!Spec`, with `value <- m_value`, is the refinement. Memory
orders do not appear: the accesses to one atomic object are totally ordered
whatever they are.

### SharedLibrary

`obj[o]` is a block of memory for one `SharedLibraryPrivate` with its six
members, `alive` the blocks that hold an object, `refs` the loader's open
counts. Blocks are reused, and `m_handle` is what the block held, for the
constructor does not set it; with `DirtyHeap = FALSE` blocks come zeroed. Each
constructor, the destructor, load (three outcomes: already loaded, loaded,
rejected by the loader), unload (two) and each setter is an action, with the
code's order of checks. `WithFilePath` is `setFilePath`'s derivation of
directory, prefix, name and suffix. File names are sequences of tokens, so
that removing a prefix or suffix is modelled by what it does; a path is a
directory and a name, the search for the last separator already done. `own`
and `leaked` are history variables. The model follows the POSIX branch.

Seen while modelling, and denied by no test: `getFilePath(name)` ignores its
argument once a file path is set (`pctkSharedLibrary.cpp:182`), and
`setFilePath("")` makes the setters work again (`:254`) on an object for which
`pctkSharedLibrary.h:172-174` says they do nothing. They change no handle.

### FileSystem

The tree is `kind` and `child`, inodes and directory entries. A call is a
process with a `task`, a `stack` of activations (the recursion of
`removeDirectoryRecursive` is explicit) and a `result`. Every system call is a
step: `Mkdir`, `MkdirExists` and `MkdirFails`; `Opendir`, `ReadDirectory`,
`ReadOther`, `EndOfStream`, `Unlink`, `Rmdir`, and their failures.
`ReadDirectory` and `ReadOther` may return an entry that has gone since the
directory was opened, as a buffered `readdir` does. `SystemFails` is a failure
for a reason of the system's own (permissions, a full disk) at any step.
`streams` counts the directory streams a call has open. A call ends "ok",
"threw" (because of what it found) or "failed" (because of the system).

`FileSystemRetry` adds the history variable `undisturbed`: whether a call began
on a directory that was there, with no other call running, and none has begun
since.

Four properties are stated for when nobody makes, or nobody removes. That is
not a restriction of the model but the condition under which they can be
promised: a maker can always undo a remover's work just after it returned.

Behaviour the model shows and no document denies, so that it is not a finding:

- two removers of one tree may both throw: each `unlink` fails on what the
  other took, and the tree is left half removed. `RetryRemoves` says that a
  later undisturbed call finishes the work;
- a call that throws in a nested activation leaves the streams of the
  enclosing directories open. `StreamsClosed` is therefore about calls that
  return;
- a link given as the argument itself is followed by `opendir`; links inside
  the tree are not. Without `d_type` the code asks `isDirectory()`, which
  follows links: one of the mutants is that branch, and it breaks `OutsideKept`;
- a relative argument of `makePath` is created below `/`.

### Configure

One build directory, configured again and again. `compiles` and `icu` are what
the compiler and `find_package` would find now, `input` the `INPUT_`
variables; `test`, `value` and `oldForce` are the cache. Between configurations
`ChangeWorld`, `ChangeInput` and `EditCache` change what the next one finds;
`BeginConfigure` is the reset and the compile tests, `Evaluate` the evaluation
of one feature in the order of declaration, `EvaluateFails` the fatal error on
an invalid input, after which CMake saves the cache as it is. `KeepsValue`,
`force` and `result` are the conditions and formulas of
`pctk_configure_evaluate_feature`; `Compiled` is the condition of each back end
in the library's CMake file. The features modelled are the two
that choose the back end and ICU, whose condition is what was found: that is
enough for each way a value can be kept, forced or recomputed.

Seen while modelling: ICU's AUTODETECT is `NOT WIN32`; since the evaluator
drops undefined members (`src/cmake/PCTKCMakeHelpers.cmake:178`) what is left
on Unix is a lone `NOT`, so ICU is never detected. The source of the
STDCXX_THREAD test contains a full-width semicolon and cannot compile. With GCC
the unfinished gcc back end is compiled besides the chosen one.

### Tag, Any and Tools

`Tag` has the two maps and the counter of `pctkTag.cpp` as functions and the
program's tag variables as records: `id` is `m_id`, `given` (history) the name
the tag was made with. `FromName` is every way to make a tag of a name: a name
that is known gets the id 0, as in the code, and one that is not is numbered.
`FromId`, `WithSuffix`, `WithPrefix` and `registerId` are the others. The
program keeps two rules the class needs and does not check: `name()` is called
on valid tags, and registered ids are negative, out of the counter's reach.

`Any` has a small heap: `content[x]` is the holder of Any `x`, `held[h]` the
value in holder `h`. A constructor or assignment makes its new holder while the
old one exists, then swaps and deletes, so a free block must be there, and the
same operator covers self-assignment. `ptr` is the last pointer `any_cast`
returned; `owner` (history) is the Any whose value it refers to. `Tools` is
one program that keeps tags in Anys, takes them back and writes through
the pointer.

Seen while modelling, and denied by nothing in the repository:

- every later use of a name gets the id 0 of the invalid tag, and so does the
  first name of all (`pctkTag.cpp:100`), so tags of one name differ;
- a positive registered id may be given out again by the counter, and then the
  tags of the first name answer with the second;
- `~TagCache` deletes names with `delete[]` that came from `strdup` or are
  literals given to `registerId()`;
- `suffixAfter()` starts one character early (`pctkTag.cpp:204`).

### The headers

`Cpp` is the preprocessor as these headers use it: the macros defined at a point
are a function from names to values; `#ifdef`, `#if` on a missing macro (0),
`#define`, `#undef`, include guards and `#error` are operators on it. What a
compiler answers without a macro (`__has_feature`, `__has_include`) is a name of
that function too. Each header is one operator from the macros before it to
those after it, the headers it includes among them:

| Module | Header | What it decides |
|---|---|---|
| `System` | `pctkSystem.h` | the operating system and its family |
| `Processor` | `pctkProcessor.h` | processor, revision, byte order, word size |
| `Compiler` | `pctkCompiler.h` | compiler and version, and 38 feature macros by four tables |
| `Macros` | `pctkMacros.h` | for each macro the language its expansion is written in |
| `Types` | `pctkTypes.h`, with what `configure.cmake` writes to `pctkCoreConfig.h` | typedefs, formats and their modifiers, pointer size, overflow-checked arithmetic |
| `Global` | `pctkGlobal.h`, `pctkLimits.h` | limits, and the order of the others |
| `TypeTraits` | `pctkTypeTraits.h`, `pctkTypeInfo.h` and what `pctkFlags.h` needs | kinds of types by their declarators; how they are copied |

`MacroNames` lists, header by header, the names it defines and the names it
tests, and what the proofs assume of them and of the targets (section 6). TLC
evaluates these assumptions on the 48 targets of the run.

A macro that is the same for every compiler is left out. `Headers` is a source
file: `target` is the compiler with its system, `includes` the headers it has
included so far, `m` the macros. `Include(h)` includes one more; `Upgrade`
compiles the same source with a later compiler or a later standard.

The model was compared with the real headers: for gcc 12 on x86-64 Linux every
macro the model gives after each header is the one `g++ -dM -E` prints,
the judgements of the traits agree with a compiled program, and `pctkFlags.h`
is refused with "redefinition of class pctk::TypeInfo<long int>" (finding 3).

Seen while modelling; the models do what the code does, and the properties keep
to what it promises:

- `pctkTypeTraits.h:548-550` asserts that `char` is signed: with C++11 it does
  not compile on ARM, POWER, RISC-V and s390x. `PCTK_STATIC_ASSERT` is
  `static_assert` in C++98 too, so it does not compile there either.
- TypeTraits takes `__int128`, `char8_t` and rvalue references for enums where
  the compiler's own test is not used, and takes scoped enums for none;
  `const void` is not void to it; `TypeHasTrivialConstructor<const int[3]>` is
  ambiguous. These types are not among those `TypesClassifiedOnce` tries.
- `pctkFlags.h` uses `ushort`, `uint` and `ulong`, which are not declared on
  Windows, nor the last on watchOS; `TypeInfo<long double>` is missing on Darwin.
- `pctkTypes.h`: PCTK_INT32_MODIFIER is "h" where `int` has 4 bytes (259), on
  every ordinary target: a format made with it reads a `short`, while
  PCTK_INT32_FORMAT, beside it, is right. No document says what the modifiers
  are for and nothing uses them; `WidthsFit` states this one as it is.
- `pctkTypes.h`: the signed overflow fallbacks (419-428) are the unsigned ones
  with other types: of results that fit, a sum is reported as an overflow
  whenever the number added is negative, and no product is; where the result
  does not fit the arithmetic is undefined, and `IntAdd` and `IntMul` return
  anything. The heading (368) promises unsigned arithmetic only.
- `pctkTypes.h`: PCTK_POINTER_SIZE is 4 with 64-bit MSVC unless
  `pctkProcessor.h` was included before (228-236), so `WidthsFit` is about the
  compilers that tell the size; PCTK_HAS_SSIZET and PCTK_SIZET_SIZE are never
  defined.
- `pctkMacros.h`: Intel's compiler on Windows loses PCTK_PRAGMA and then uses it
  (1276); GCC before 4.6 has no PCTK_WARNING_DISABLE_INVALID_OFFSETOF; some
  branches define UTK_C_ALIGNOF (138, 140); `__attribute__(__deprecated__)` for
  Intel lacks a pair of parentheses.
- `pctkSystem.h:97` has `#d efine` for webOS, and Windows RT and CE count as Unix.
- `pctkCompiler.h:625` has a misspelt DEFAULT_DELETE, and Intel's table has an
  empty entry (512) and one that is repeated. `pctkProcessor.h` gives
  WebAssembly a word of 8 bytes, and no family to a processor it does not know.
- `pctkLimits.h:174-175` uses types that are declared nowhere.

## 4. The runs

All runs are exhaustive over their instance. Distinct states are given as an
orientation.

| Run | Instance | States | What it shows |
|---|---|---|---|
| `AtomicInt` | 3 threads, 1 plain write, one-bit int, 2 stores after the first, arguments -1 and 0; either back end | 604,930 | `AcquireSeesRelease` for the C++11 and the C11 orders |
| `RefCount` | 3 threads, 3 references, 2 uses, `Half = 4`, `MaxStores = 4` | 1,182,411 | `CountIsHeld`, `NoUseAfterFree`, `DestroyedOnce`, `DestroyerSeesUses`, `EventuallyDestroyed` |
| `AtomicPointer` | 2 threads, one updates, addresses modulo 3 | 3,066 | `NoLostUpdate`, refinement `IsAtomic` |
| `AtomicPointer_lost` | 2 threads that add, modulo 4 | violation | finding 1 |
| `SharedLibrary` | 2 objects, one loadable path, one bare name, the empty path, 2 opens | 42,136 | `HandlesCounted`, `LoadedPathStable`, `FilePathRebuilt`, `LoadFailureHarmless` |
| `SharedLibrary_dirty` | the same with blocks that are not zeroed | violation | finding 2 |
| `FileSystem` | 3 calls, 5 paths to make, 2 to remove, system failures | 252,663 | `MadePathStands`, `MakersNeverClash`, `RemovedIsGone`, `RemovedByOne`, `OutsideKept`, `StreamsClosed` |
| `FileSystem_retry` | 3 calls that refill and remove one tree, no system failures | 41,011 | `RetryRemoves`, `EveryCallEnds` |
| `Configure` | Unix, neither GCC nor MSVC, inputs on each feature, one of them possibly invalid | 549,232 | `OneBackEnd`, `SameAsFresh`, `ResetIsFresh` |
| `Tools` | 2 tags, 2 tokens, 2 Anys, 3 holders, 1 registered id | 545,004 | `TagsNameThemselves`, `HoldersOwnedOnce`, `CastPointersLive` |
| `Headers` | 48 targets, 12 upgrades, up to 3 headers in any order | 14,273 | `IncludeOrderFree`, `WidthsFit`, `SpellingsUnderstood`, `UpgradeKeepsFeatures`, `TypesClassifiedOnce`, `OverflowChecksExact` |
| `Headers_types` | the same | violation | finding 3 |

Every run of a component also checks its `TypeOK`.

### Bounds, and why they are enough

- `MaxStores` bounds the length of the modification order. In `AtomicInt` a
  release, a relaxed read-modify-write and an acquire, by three threads, need
  two stores after the initial one. The proofs have no bound.
- `Half` is 1 in `AtomicInt`: with a one-bit int every arithmetic operation
  reaches both ends of the range. In `RefCount` it is 4, the least that counts
  three references without wrapping.
- `Refs`: with three references and three threads a reference can be copied by
  one thread while another drops its own and a third holds one.
- `Modulus` 3 (4 in the violation) tells -1, 0 and 1 apart.
- `MaxOpens` 2: both objects open the same file at once, and one may leak.
- Inodes `new1` to `new4`: as many as the calls of an instance can create, so
  `mkdir` never fails for want of an inode in the model.
- `Procs` 3: each makes one call, begun at any time, so two calls of one thread
  are two of them in sequence. Three are two callers that disturb each other
  and one that finds what they leave; or two removers and a maker. The paths
  make the callers meet in a shared directory, in a nested directory and below a file.
- `Tools`: three numbered names of at most two tokens, and one registered id
  whose name the program also makes tags of, so that it is registered before and
  after the name is numbered. Two Anys and three holders: a copy or an
  assignment between two full Anys has a block to spare, and a leak runs out.
- `Headers`: the 48 targets are each system, processor and compiler family the
  headers name, in the combinations that exist, and the versions at which the
  feature tables change. A header includes what it needs, so an order of three
  is enough to put a header before, between and after two others. `Limit` 16
  is a four-bit unsigned type, and a five-bit signed one, at every pair of operands; the
  theorem has no bound.
- `Configure` needs no bound: its state is finite and any number of
  configurations in a row is covered.

`CHECK_DEADLOCK FALSE` is given where calls are bounded or every call ends;
`Configure` is checked for deadlock: it can always be configured again.

Symmetry is used where the threads, writes, objects or processes are
interchangeable and no liveness property is checked in the run.

### Fairness

- `RefCount`: weak fairness of `Destroy(t)`. deref's contract is that the
  caller whose call returned false deletes the object; the property is that
  some deref does return false. No owner is assumed to drop.
- `FileSystem_retry`: weak fairness of `Continue(p)`. A call that has begun
  is a running thread that blocks on nothing; the system schedules it. No call
  is assumed to begin. Calls end although others refill the tree because each
  other call ends too and there are finitely many.

### Mutants

For each property a passing run checks, `PROJECT.json` names a mutated
definition, written before the original in its module and commented there as
"Mutant", with which TLC finds the property violated. They are
plausible slips: an order swapped in a table, a comparison with the new value
in deref, a setter without its guard, an ignored result of rmdir, a compile
test that is not repeated on reset.

## 5. Findings

1. **A lost update in AtomicPointer** (`pctkAtomic_cxx11.cpp:389`, and
   `_c11.cpp:380`). fetchAndAdd and fetchAndSub load, then store. The test
   (`src/src/libs/core/tests/tools/tst_atomic.cpp:437-438`) expects that an
   addition of `v` and one of `-v` cancel; two threads that add lose one
   addition. Run `AtomicPointer_lost`. Used by one updating thread the calls
   are atomic: run `AtomicPointer`, theorem `ImplementsRegister`.
2. **m_handle is not initialized** (`pctkSharedLibrary.cpp:48`). An object
   that never loaded may report a handle, and then refuses load and its setters;
   `pctkSharedLibrary.h:190` promises `nullptr`. Run `SharedLibrary_dirty`.
3. **pctkTypeInfo.h specialises TypeInfo twice for one type**
   (`pctkTypeInfo.h:254`): for `long` and for `pctk_int64_t`, which is `long` on
   64-bit Linux and FreeBSD, and so for the unsigned ones. The header cannot be
   compiled there, nor can `pctkFlags.h`, which
   `src/src/libs/core/tests/tools/tst_flags.cpp:25` includes. Run
   `Headers_types`.

## 6. The proofs

TLAPS checks every step. The constants are arbitrary within the named
assumptions (`...Assumption`) of each module, which TLC also evaluates on
the instances.

**AtomicIntProofs.** Any threads, any plain writes, any int width, both back
ends. `NamesKeepTheirWord` is `AcquireSeesRelease`. It is not inductive: a read
at `j` learns what `mo[j]` publishes, so one must know that `mo[j]` still
carries what the head of its release sequence published. `ChainCarries` says
so, and the inductive invariant is TypeOK, `ChainCarries` and
`AcquireSeesRelease`. Three lemmas say what a read, a store and a
read-modify-write preserve; `OrdersKeepNames` says what the tables must
satisfy; then each method is an instance.

**RefCountProofs.** Any number of threads, any finite set of references that
the int can count (`RefsAssumption`), both back ends. `CountCorrect`: the
count is the number of references, for which the wrapping arithmetic must be
exact in that range (`WrapExact`). `DestroyedUnowned`: nobody owns a reference
once a deref returned false; `DestroyedByOne`: none is told twice.
`DestroyedInOrder`: every use happens before the destruction. That is made
inductive by `UsesAccountedFor`: a use is known to an owner or was released into
the newest element of the modification order. This is where deref must both
release (an owner that drops passes on what it knows) and acquire (the last one
learns it).

**AtomicPointerProofs.** Any threads and address space, assuming `SoleUpdater`:
if any thread adds or subtracts, it is the only one that changes the pointer.
The case in which nobody adds and any threads write is included.
`NothingLost` is `NoLostUpdate`; `ImplementsRegister` is the refinement
`IsAtomic`: the second half of a two-step call maps to the register's step
and the first half to a stutter. The inductive invariant adds
`WindowUndisturbed` (nobody writes between the two halves) and that only adders
are in mid call.

**SharedLibraryProofs.** Any finite set of objects, any names, paths, prefixes and suffixes, and
any number of opens, assuming zeroed memory (`~DirtyHeap`; without it finding 2
is a counterexample). `OpensAccountedFor` is `HandlesCounted`. Inductive is that
every handle is owned by the object that opened it (`HandlesOwned`), the counts
(`Counted`: the opens of a file are the objects with a handle on it, and those
leaked, for which one object's handle is added to or taken from a finite set),
and that the parts spell the path (`PathsSpelled`, for which
removing a suffix and appending it again is the identity on sequences that end
in it). `FailedLoadHarmless` is an action property.

**FileSystemProofs.** Any tree, paths and number of calls, with failures.
A path is looked up by a recursive function, so each fact about paths is shown
by the least length at which it would fail (`LeastNatural`): that the function
exists, that a path leads where it led while nothing is unlinked
(`LookupGrows`), that it leads there or nowhere while nothing is made
(`LookupShrinks`), and that it leads there, nowhere or to a new directory in any
case (`LookupMoves`). The invariant of `StreamsAreClosed` is that a removal has
one open stream for each activation but the last, and one for that while it
reads; the invariant of `MadePathsStand` and `MakersDoNotClash` is what a
maker has passed; `RemovedStaysGone` and `OneRemover` need that the outermost
activation is for the call's own path. `OutsideUntouched` is `OutsideKept` under
`Apart`: the trees to remove lie in a part of the file system, closed under
entries, to which the directory the links lead to does not belong, and no path
given to a call goes through a link. Its invariant is that every activation is
for a path in that part which ends in no link, and that what an open stream
reported as a directory is still one, or has gone, or was made anew; new
directories hold nothing but new directories. The instance of run `FileSystem`
satisfies `Apart`.

`RetriesRemove` is `RetryRemoves`, for `HistorySpec` of `FileSystemRetry`: from
any tree other calls left, whatever they left it in the middle of, a removal that
is alone and meets no failure of the system's own (`~Failures`) returns. Its
argument must be a directory reached through no link (`Direct`): one that is
missing makes `opendir` fail, a link makes `rmdir` fail. The invariant
(`RetryInv`) is that the activations are for the prefixes of one direct path,
one after the other (`Descends`), and that each has the truth about its directory
(`FrameTrue`): what it has not read is what it saw at `opendir`, what it has read
is gone but for the directory the next activation is in, and what it is about to
unlink is no directory. Taking an entry from one directory must leave the others'
as they are, so the directories of the activations have to be different
(`DirectDistinct`). That is so because a directory has one name and "/" has none
(`OneName`): `OneNameAssumption` says it of the first tree, as file systems do,
and mkdir, unlink and rmdir keep it.

**ToolsProofs.** Any tags, names, registered ids, Anys and holders, assuming
that registered ids are negative (`NamesAssumption`). The invariant of
`TagsKeepNames` is that the counter is above every number given out, so that
numbering overwrites nothing, and that a negative id, once registered, keeps its
name; `OwnersUnique` and `CastPointersStayLive` share an invariant: no two
Anys have one holder and a live pointer is its owner's holder.

**HeadersProofs.** `OverflowChecksAlwaysExact`: the fallbacks of the unsigned
overflow checks are exact for unsigned types of any number of values. The sum
wraps at most once, so that it is below an addend just if it wrapped; the
product modulo the limit, divided by a factor, gives the other just if nothing
was lost. Of the signed ones (`IntAddAnswers`, `IntMulAnswers`) it says what they
return where the result fits: truncating division gives a factor back whatever
the signs, and a sum is below its first term just if the second is negative.

The other theorems are for any set of targets, any upgrades between them and
any number of inclusions in any order. They share one argument:

- *Order.* Each header reads only the compiler's macros and those of the headers
  it includes, and adds only its own (`Alike` and `Extends`, one pair of lemmas
  for each header). So the headers but `pctkProcessor.h` form a chain, and what
  is defined after the first k of it is `Chain(t, k)` whatever the order was.
  Including a header moves a translation unit up the chain, or leaves it where it is
  (`Ready`, `Moves`, and a `...Level` lemma for each header). The inductive
  invariant `IncludesInv` says that the macros are those of the chain at the level
  the included headers reach, with those of `pctkProcessor.h` if it is one of
  them, or that an #error has stopped the compiler. `IncludeOrderAlwaysFree` is
  `IncludeOrderFree`. What `Upgrade` compiles is a recursive function, whose
  existence is shown through the least length without one (`LeastNatural`).
- *Types.* `TypesAlwaysOK` is `TypeOK`; that the features are 0 or 1 needs that
  the four tables only ever give names. `WidthsAlwaysFit` is `WidthsFit`: at
  the level of `pctkTypes.h` each typedef and format is the one the configure step
  measured, PCTK_INT32_MODIFIER as it is, and PCTK_POINTER_SIZE where the
  compiler tells it.
- *Upgrades.* `UpgradesAlwaysKeepFeatures` is the action property
  `UpgradeKeepsFeatures`. `Tells` is what `pctkCompiler.h` finds out about the
  compiler before it decides on features; `Grows` says that it grows with the
  version; then each table is shown to be monotone, row by row.
- *Spellings.* `SpellingsAlwaysUnderstood` is `SpellingsUnderstood`. The names
  the compiler gives reach `pctkMacros.h` unchanged (`ToldReached`), a compiler that
  says nothing of C++11 gets no feature that is a keyword of C++11
  (`SilentPlain`), and every macro is in a language the tests before it have
  established (`Talks`, and a `...Within` lemma for each group of macros).
- *Kinds.* `TypesAlwaysClassifiedOnce` is `TypesClassifiedOnce`. What the
  templates strip off a type of the family leaves a name, or a type that begins with
  a declarator no template strips (`Stripped`); a declarator settles the kind
  at once, and a name has one kind (`FamilyJudged`), which needs that the
  features know `char16_t` where it is a type of its own (`UnicodeReached`). The
  types with a TypeInfo are C's, the one behind `pctk_int64_t` included
  (`SpecialisedReached`), so that only scalars are copied (`CopiedOne`,
  `CopiedPair`).

What is assumed about the targets is named in `MacroNames`: they start with no
macro of the library's (`TargetsBare`); C's types have the sizes C's compilers
give them, and the standard's names are honest (`TargetsAssumption`); a later
version tells no smaller number and lacks nothing that it had
(`UpgradesAreLater`); a compiler understands what its own macros say, is not one
for C and C++ at once and is not Intel's for Windows, for which PCTK_PRAGMA is
missing (`TargetsSpeak`); and a compiler of C++ with a `char16_t` of its own is
of a version, or tells of a feature, that has one (`TypesTold`). The other assumptions there are about letters: which
names differ (`DefinedOnce`, `TestsInOrder`, `FeaturesDiffer` and those
called Named and Foreign). The provers know strings only as equal or not, TLC
computes them.

**ConfigureProofs.** Any platform, compiler and set of inputs.
`NothingRemembered` is `SameAsFresh`, `ResetRefreshes` is `ResetIsFresh`,
and `ExactlyOneBackEnd` is `OneBackEnd` on Unix with neither GCC nor MSVC. The
invariant has three parts: a value that is neither forced nor edited is ON
(`KeptIsOn`), for it was computed while its feature was detected; a reset
repeats the tests (`TestsRepeated`); and the features evaluated so far are up to
date (`Evaluated`), which needs the order of declaration.

Only model-checked: the liveness properties (`EventuallyDestroyed`,
`EveryCallEnds`), since TLAPS here reasons neither about fairness nor about
ENABLED. Induction over data is out of reach where it needs the library's
induction theorems; where a least counterexample will do, as for paths, it is
proved. Every invariant a run checks is proved for all values of the constants
the hypotheses above admit, but for those that record a finding.

## 7. What is not modelled

- The gcc, msvc and posix atomic back ends: unfinished, without behaviour.
- The Windows branches of `SharedLibrary` and `FileSystem`.
- `FileSystem`'s queries and path functions: they read or compute and change
  nothing. `exists` and `isDirectory` are modelled as the callers see them.
- Of Configure: DISABLE, ENABLE and EMIT_IF, symbol tests, options. The
  expression evaluator is planned.
- `Tag` from several threads: without a lock it is a data race on `std::map`,
  which has no defined outcome. Comparison, `suffixAfter()` and the stream
  operators change nothing.
- Of `TypeTraits` and `TypeInfo`: `TypeTrait`, `TypeIf` and the modifiers,
  `TypeIsDefaultConstructible`, `TypeIsBaseOf`, `TypeInfoQuery`, containers and
  shared types, and pairs within pairs, which `Trivial` takes for no scalars. The operators of `Flags` are one C++ operator on an int each.
- Two `AtomicInt` objects at once: copying one to another loads, then
  stores, and the class promises no relation between the two.
- `Error`, `Exception`, `String`, `Object`, the osgi and rcc stubs, cotire and
  the build helpers: formatting, empty classes, third-party code.
- `pctkPreprocessor.h`: generated lists that count and repeat macro arguments.
