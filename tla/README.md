# Formal models of MemoryManagement

This directory holds TLA+ models of the allocation and handle code of this
repository, configurations that check them with TLC, and proofs that TLAPS
checks.  Paths below are relative to the repository's root (`src/` in the maps
of `PROJECT.json`).

## The system

The repository is a set of single-threaded C++ libraries around one theme:
memory that is addressed through something safer or cheaper than `new` and
`delete`.  Nothing in it runs concurrently, and nothing is persisted or sent.
What is hard in the libraries is the **long sequences of legal calls**: a free list or a pair of
index maps is rewritten by every call, and one wrong rewrite shows many calls
later; narrow counters wrap; an operation that throws half way leaves something
behind; and a stale handle must be recognised by comparison with data that has
long been reused.  The vendored test framework adds control that leaves a
function by other ways than its end: exceptions, signals that jump out of their
handler, destructors that report while the stack unwinds.

| Component | Source | State it keeps | Operations | What must hold |
|---|---|---|---|---|
| `pow2::HandleManager` | `src/Handle/src/HandleManager.*` | array of 4096 entries with bit-fields (next free index, 15-bit counter, active, end of list), count, head of the free list | `Reset`, `Add`, `Update`, `Remove`, `Get`, `GetCount` | the free list holds each unused entry once; the count is exact; removed and null handles are rejected; it behaves as a map |
| `pow2::Handle` | `src/Handle/src/Handle.h` | 12 + 15 + 5 bits | conversion to and from `uint32` | handles in use have words of their own; none is 0, the unset handle's |
| `Pow2Assert` | `src/Handle/src/Pow2Assert.*` | the installed handler | `SetHandler`, `Report`, `POW2_ASSERT` | a failed assertion has no effect beyond what its handler asks for |
| `SparseSet<T>` | `src/ObjectPooling/src/SparseSet.hpp` | three vectors (`mSparse`, `mDense`, `mData`), `mBack`, `mUncollected` | `alloc`, `free`, `collect`, `reserve`, `clear`, `isValid`, `get`, `size`, iteration | the index maps stay inverse; a live handle leads to its object wherever `collect` moves it; freed handles stay invalid; `size` is the number of live objects |
| `Handle` of `SparseSet` | same file | 16 + 16 + 32 bits, all ones when unset | `isSet`, conversion to and from `uint64_t` | every handle `alloc` returns is set; converting there and back is the identity |
| `FreeStore`, `FixedSizeStorage`, `BlockListStorage` | `include/allocators/FreeStore.hpp` | head of a list kept inside freed slots, `mLast`, list of blocks | `allocate`, `deallocate`, `operator[]` | no slot is handed out twice; none is lost; each lies in a block, apart from the others and aligned |
| `FreeStoreAllocator`, `Heap`, `HeapAllocator` | `include/allocators/` | the free store behind them and what `operator new` has given out | `allocate(n)`, `deallocate(p, n)` | memory goes back where it came from; a block holds what was asked for |
| `Allocator`, `AllocatorTraits`, `DefaultInitializer` | `include/allocators/` | none | type-level glue | |
| ObjectPooling's allocator glue | `src/ObjectPooling/src/` | none | forwards to `operator new`, constructors | |
| `ObjectPool` | `src/ObjectPooling/src/ObjectPool.hpp` | | commented out as a whole | |
| UnitTest++ runner | `src/Handle/UnitTest++/src`: `TestList`, `TestRunner`, `TestResults`, `ExecuteTest`, `TestMacros`, `TimeConstraint` | the list of tests, the counters, the test that runs | registration, `RunAllTestsIf`, fixtures, checks, time constraints | wanted tests run once each in order; nothing that goes wrong is lost or counted twice; the run ends |
| UnitTest++ `SignalTranslator` | `.../Posix/SignalTranslator.*` | `s_jumpTarget`, the saved signal actions | constructor, `SignalHandler`, destructor, nested | the target that is jumped to is alive; afterwards the application's actions are back |
| UnitTest++ reporters | `.../TestReporterStdout.cpp`, `DeferredTestReporter.cpp`, `XmlTestReporter.cpp` | results deferred to the end of the run | start, failure, summary | the reports agree |
| UnitTest++ checks, timer, stream | `.../Checks.*`, `CheckMacros.h`, `Posix/TimeHelpers.*`, `MemoryOutStream.*` | a start time; a growing buffer | `CHECK_...`, `GetTimeInMs`, `operator<<` | a check passes only what it should; times are within a millisecond; texts fit |
| Demo application | `src/ObjectPooling/src/app` | none | an empty `main` | |

How they interact: `FreeStoreAllocator` sends `allocate(1)` to a `FreeStore`
and other counts to a `Heap`; a `FreeStore` asks its storage for
`mStorage[mLast++]`, and a `BlockListStorage` is a list of `FixedSizeStorage`;
both throw `std::bad_alloc` through `allocate`.  `HandleManager` calls out to
`Pow2Assert`, and the handler installed there decides whether the operation goes
on; the one of the test suite calls UnitTest++'s `ReportAssert`, which throws the
`AssertException` that `CHECK_ASSERT` and `ExecuteTest` catch.  `SparseSet` only
uses `std::vector`.  UnitTest++'s runner calls a test, which calls back into the
results through the checks; the runner times it with a `Timer`, and checks write
their messages with a `MemoryOutStream`.  Clients touch shared state in two
places: they write into the memory a `FreeStore` gave them, where the free list
will be, and they keep copies of handles after they are freed.

## The modules

| Module | What it is |
|---|---|
| `HandleTable` | the abstract specification: a partial map from handles to values; `Insert` never reuses a key in use, and nothing but the four operations changes the map |
| `HandleManager` | `HandleManager` and what `POW2_ASSERT` does under each handler |
| `HandleManagerProofs`, `SparseSetProofs`, `FreeStoreProofs`, `FreeStoreAllocatorProofs`, `TestRunnerProofs`, `TestSessionProofs`, `UnitTestProofs` | the theorems about the modules they are named for; `TestSessionProofs` has those about the runner's reports and its refinement of `TestSession` |
| `Facts` | lemmas on numbers and sequences that several of them use |
| `HandleManagerResets` | `HandleManager` with the handles clients hold from before a `Reset` |
| `MCHandleManager` | `HandleManager` for TLC, with the symmetry of the pointers |
| `SparseSet` | `SparseSet<T>`, with `collect` taken one turn of its loops at a time |
| `FreeStore` | `FreeStore` over either storage |
| `FreeStoreAllocator` | extends it with `FreeStoreAllocator`'s dispatch, `Heap` and `HeapAllocator` |
| `TestSession` | the abstract specification of running tests: the wanted ones, once each, in order of registration, and a verdict at the end |
| `Checks` | when each check of UnitTest++ reports a failure, as operators on its arguments |
| `TestRunner` | extends it with the runner, results, reporters, fixtures, time constraints and signals |
| `MemoryOutStream`, `TimeHelpers` | the stream and the timer |
| `UnitTest` | the four of them put together for TLC |

`HandleManager`, `SparseSet` and `FreeStore` each instantiate `HandleTable`
with a refinement mapping and state `ImplementsTable`; `TestRunner` instantiates
`TestSession` and states `ImplementsSession`.

### HandleManager

The variables `m_entries`, `m_activeEntryCount` and `m_firstFreeEntry` are the
members of the class, and the fields of an entry those of `HandleEntry`.
`handler` is the static of `Pow2Assert.cpp`, `halted` stands for `POW2_HALT`
having been reached.  `freeList` and `issued` are history variables that no
guard of an operation depends on, apart from the bound `MaxUses`.

An operation begins with its assertions and changes nothing before them.  So
each has two outcomes: its action under `Proceeds(ok)`, where the assertions
hold or the handler returns false ("ignoring"), and `Asserts(ok)`, where the
handler ends it: the default one halts the program, the test suite's
(`src/Handle/src/Main.cpp`) throws.  A build without `POW2_ASSERTS_ENABLED`
behaves like one whose handler returns false.  When `Add` goes on over a failed assertion
it takes whatever entry `m_firstFreeEntry` names, in use or not, and `Remove`
links an entry that may be linked already; the model does the same.  To the
manager a `Handle` is an index and a counter: `m_type` is stored in it and never
read back.  An index of `m_index`'s 12 bits is always in the
array because `MaxEntries` is 2^12; `Handle` in the model has that property by
definition.  `Word` is the conversion to `uint32`.

### SparseSet

`capacity` is the size of `mData`, and of the other vectors unless a `reserve`
has thrown; the vectors are functions on the positions they have.  `mBack` and
`mUncollected` are the members.  `pc` and `i` are where `collect` is: `collectStart` enters the `for` loop, `collectSkip` and
`collectHole` are its two cases, `collectTrim` is one turn of the inner `while`,
`collectSwap` the rest of the loop's body, `collectEnd` the exit.  Between these
steps no other operation is enabled: the split serves the properties about what
holds inside `collect`, and the one that it returns.  `alloc` includes the
`reserve` it may call.

Two calls may throw half way.  `reserveThrows` is a `reserve`, a client's or one
in `alloc`, that is refused memory for `mSparse` or `mDense`: what it resized
before stays so.  `constructorThrows` is an `alloc` whose `T` throws: the slot is
in use by then, and `mBack` counts it.  `live` and `lost` are history variables:
what the clients stored and have not freed, and the objects left by
`constructorThrows`.  The lifetime of a `T` is reduced to whether a position
holds a client's value (`alloc` constructs it, `free` destroys it).

Calls that return without an effect (`free` of an invalid handle, `collect` of a
set that needs none) are stuttering steps and have no action of their own.

Three operations keep their promise only in certain states, as the findings
below show.  The constant `Habits` says which of them the clients call in any
state; the others they call under these rules (the last one always), which the run
`sparse_tidy` shows to be sufficient:

- `collect` only if the object at position `size()` is alive (`CollectSafe`);
- `reserve` only if no unused position is paired with a slot below `mBack`
  (`ReserveSafe`), and never with less than the capacity;
- `clear` only if nothing is uncollected, and handles are dropped with it;
- after a `reserve` that threw, another that succeeds before the room it was to
  make is used.  `alloc` does not do this by itself: it asks `mData` alone
  whether the set is full, so one that is tried again after `std::bad_alloc`
  reads past the end of `mDense`.

`Serialized` and `Deserialized` are the conversions of a handle, with the value
an undefined shift leaves in a build that promotes a bit-field to `int`.

### FreeStore

A slot is its index in the storage, so `mStorage[i]` is slot `i`.  `word` is the
first machine word of every slot, which is a link while the slot is free and the
client's data while it is held; `clientWrites` is the client's own action.
`blocks` is `mBlocks.size()`.  `storageType` is the template's argument, chosen
at the start.  `Size`, `PointerSize` and `StorageSize` are in bytes, and
`OBJECT_SIZE`, `OBJECTS_PER_BLOCK` and `Offset` compute the layout from them as
the code does, so that `SlotsInStorage` can say that slots share no byte.
`allocate` has four outcomes: from the free list, from the storage, an exception
(from the bound of a fixed storage, or from a refused block, after the blocks
that were added before it), and `undefined`, when `BlockListStorage::operator[]`
dereferences the end of its list.  After the last the model stops: what the
program does then is not defined.  `held`, `freed`, `skipped` and `refusals` are
history.

Clients deallocate only what they hold, and a growing storage has at least one
object per block.

### FreeStoreAllocator

`heap` is what `operator new` has given out, with the size that reached it,
`(count * Size) % SizeMod`; `lent`, a history, is what clients hold and what they
asked for.  `allocateOne` is any of `FreeStore`'s outcomes, `allocateMany` any
other count, and `deallocateMemory` sees the pointer and the count alone, as the
code does.  `HeapAllocator` uses the same heap and throws above its `max_size`.
A refused request to `operator new(nothrow)` returns null and changes nothing,
so it is a stuttering step.  An address of the heap is a member of `Elsewhere`,
which also has a `word`: a block that wrongly joined the free list would be
linked through it.

### UnitTest++

`TestRunner` follows one run of a program's tests, from the static constructors
that register them (`Add`, in any order) to the exit status.

| Variables | Code |
|---|---|
| `m_head`, `m_tail`, `next` | `TestList`, and `Test::next` |
| `options` | the suite, the predicate and the time limit of `RunAllTestsIf` |
| `pc`, `curTest` | the loop in `RunAllTestsIf`, and where the test macros and `ExecuteTest` are |
| `exempt`, `constraints`, `acts` | `m_timeConstraintExempt`; `TimeConstraint` objects of the body; how much it has done |
| `flying` | the exception that is unwinding the stack |
| `frames`, `s_jumpTarget`, `action` | the `SignalTranslator` objects on the stack, the static, the process's `sigaction`s |
| `results`, `m_results`, `printed` | `TestResults`, `DeferredTestReporter`, what `TestReporterStdout` has printed |
| `summary`, `exitStatus` | the last line that is printed, and `main`'s result |
| `mishaps` | history: how often the current test went wrong, and where |

A body may do anything its test wants: fail a check, open a time constraint,
exempt itself, throw one of three kinds of exception, receive a signal, run a
test of its own with results of its own, or end the program.  Each is an action;
`MaxActs` limits those that could go on for ever.  Destructors of time
constraints run as the stack unwinds (`closeConstraint` in `"unwind"`), except
past a signal, whose `siglongjmp` skips them.  A time is reduced to whether it
was too long (`late`).  Of a test within a test, which may run one in turn, only
its `SignalTranslator` and its end are followed, as its results are its own.

A `TimeConstraint` keeps a reference to the `TestDetails` it is given, and reads
them when it is destroyed.  Those that `UNITTEST_TIME_CONSTRAINT` gives it are a
temporary, which is gone by then: what is reported is either still the macro's
place or whatever has been put over it, `Garbage` (`ConstraintDetails`).
`MacroUsers` are the tests that open their constraints with the macro; the others
construct a `TimeConstraint` with details that outlive it, as
`tests/TestTimeConstraint.cpp:36-37` does.  With no such test every failure must be
reported at its own place, which is what the run `unittest` and two theorems
below say; finding 8 is about the macro.

Every failure goes through `OnTestFailure`, which updates `TestResults` and both
reporters; `XmlReport` is the file `XmlTestReporter` writes after the run.

To `TestSession` the registered tests are what a walk along `Test::next` from
`m_head` meets (`walk`).  `todo` is the set of the places in it that are wanted
and not before the current test (`Ahead`); a test is over, and has an outcome,
when the runner has moved on from it (`Finished`).

`Checks` has the comparisons of `Checks.h` and around each the macro, which
reports an exception in an argument.  `MemoryOutStream` knows a text by its
length.  `TimeHelpers` divides as C++ does, towards zero.  None of the three
keeps anything between two uses by the runner, so `UnitTest` lets a behaviour be
about one `subject` of the four, which keeps TLC from multiplying their states.

## The runs

| Run | Shows |
|---|---|
| `handles_strict` | With handlers that stop an operation, every interleaving of operations on 4 entries keeps the free list (`FreeListInv`) and the count (`CountInv`) exact; `Add` asserts exactly when 3 handles are live; stale and null handles are rejected; every handle that is issued has a nonzero word of its own (`IssuedWordsDistinct`); `HandleTable` is implemented |
| `handles_ignoring` | With a handler that lets operations go on, after which the free list and the count may be wrong, stale and null handles are rejected all the same |
| `handles_reset` | Finding: `Reset` lets an old handle resolve again |
| `sparse_tidy` | Under the clients' rules, and with calls that throw half way: inverse index maps, exact counters (an object whose constructor threw is counted for good), live handles that resolve, no access outside a vector, freed handles that stay invalid, `HandleTable` implemented, `collect` returns |
| `sparse_collect`, `sparse_reserve`, `sparse_clear`, `sparse_serial` | Findings: what happens when one rule is lifted, and at the last serial |
| `allocator` | Over both storages: the list inside the slots survives the clients' writes (`FreeChain`); slots are neither handed out twice nor lost, except one per exception (`SlotsConserved`); they lie apart, aligned and inside blocks (`SlotsInStorage`); a fixed storage refuses exactly when every slot is held; a growing one grows only when used up; memory past the last block is touched only after a block's worth of refusals; single objects and arrays, also of no object, go back where they came from (`MemoryGoesBack`); `HandleTable` is implemented |
| `unittest` | Whatever bodies and fixtures do: the counters agree with the reports (`CountsAgree`), nothing that goes wrong is lost or reported twice (`MishapsReported`, for tests without `UNITTEST_TIME_CONSTRAINT`), a signal finds a jump target that is alive (`JumpTargetLive`), the application's signal actions come back except for SIGBUS (`DispositionsRestored`), the XML report has the printed failures, of the same tests and lines, each in the file of its test's last one (`XmlAgreesWithStdout`), `TestSession` is implemented, the run ends; a stream has room for its text; a timer is within a millisecond; `CHECK_ARRAY2D_CLOSE` passes only what is close |
| `unittest_constraint` | Finding: the failure of a time constraint of the macro may be reported with another file, line and test |
| `unittest_exit` | Finding: a failed run may exit with status 0 |

### Bounds

- `handles_strict`: 4 entries, so three can be live and the sentinel is a
  fourth; the free list takes every order.  `CounterMod = 4` and `MaxUses = 4`:
  counters take the values 1 .. 3, so the fourth use of an entry wraps and the
  first handle's counter is issued once more.  `MaxBelowZero = 1` lets the count
  go wrong, had the code an error there.  `Types` has the first and the last
  valid type and the first invalid one.
- `handles_ignoring`: 3 entries, `CounterMod = 3`; `MaxUses = 3` again wraps.
  Counts are followed to -1 (`MaxBelowZero`).
- `handles_reset`: two usable entries and two uses of each are more than the
  counterexample needs (one `Add`, `Reset`, `Add`).
- `sparse_tidy`: `Growth = 2` and `MaxCapacity = 4`: the set is grown twice by
  `alloc` and to any size by `reserve`, and four objects are enough for two
  holes and two live objects after them in every arrangement, with `collect`'s
  inner loop taking several turns.  `SerialMod = 3`: a slot has two usable
  serials and the one that marks an unset handle, so slots reach the last serial,
  and objects stay in them for good.  `MaxLost = 1`: at a time, one object whose
  constructor threw, in any arrangement with the others.  The violation runs have
  the same bounds or smaller ones, and no constructor that throws.
- `allocator`: objects of 3 bytes and pointers of 2 make slots of 4, so blocks of
  9 bytes have two slots and a byte to spare: rounding matters in both.
  `MaxLast = 5` is three blocks, or three exceptions past the end of a fixed
  storage.  `MaxRefusals = 3` lets `mLast` run a whole block ahead of the
  storage, which is when `operator[]` wants more than one block.  With
  `SizeMod = 16`, five objects are the most a `size_t` of bytes can hold and six
  wrap; a count of 0 is the one that could be confused with 1.
- `unittest`: a plain test and one with a fixture, in either order and in suites
  of their own, and per body two failed checks, constraints or nested tests: two
  constraints are open together, one is open around a nested test, two nested
  tests follow each other, or one runs within the other, three `SignalTranslator`s
  deep.  `MacroUsers` is empty.
  `MsPerSec = UsPerMs = 3` has readings on either side of a second within three
  seconds; a stream starts at two chunks of 4 and grows to six; numbers have two
  bits (`WordMod = 4`), so every bound of an unsigned comparison wraps.
- `unittest_constraint`: the same, where the plain test uses the macro.
- `unittest_exit`: the same as `unittest`, with an exit status of one bit in the place of eight.

`MaxUses`, `MaxBelowZero`, `MaxCapacity`, `MaxLost`, `MaxLast`, `MaxRefusals`, `MaxActs`,
`MaxText` and `MaxSec` are the bounds that exist in the model only.  They are
constants like the others: what is proved holds for every value of them.

Deadlock is checked where the system cannot stop.  It is off for `HandleManager`
(a halted program), for `allocator` (undefined behaviour, and the bound on
`mLast`) and for UnitTest++ (a program that has exited).

### Fairness

`CollectTerminates` needs weak fairness of `collectStep` (`FairSpec`), since the
turns of a loop in a single-threaded call follow each other until the loop ends.
`RunEnds` needs weak fairness of `Run`, any step of the runner after it has been
started, for the same reason; that bodies do not run for ever is the bound
`MaxActs`, and no test is promised to fail, to throw or to be late.  No fairness
is assumed of clients, nor of static initialisation.

### Definitions named Bug

Before an operation there may be a definition whose name begins with `Bug`: what
the operation could have been by a plausible mistake, such as an index map that
is not swapped or a sentinel set one entry too early.  `PROJECT.json` pairs one
with each property of each passing run; with the mistake in place of the
definition, TLC finds that property violated under the same configuration.

## Findings

1. **`Reset` revives handles** (`handles_reset`).  `Reset` puts every counter
   back to 1, so after one `Add` the handle issued first before the `Reset`
   resolves again, to another object.
2. **`collect` loses an object** (`sparse_collect`).  If no live object follows
   a dead one, the inner loop trims `mBack` to below the hole and the swap pushes
   the last live object out: alloc, alloc, free the second, collect leaves
   `size() = 0` with one object alive.
3. **`reserve` redirects handles** (`sparse_reserve`).  It pairs the slots from
   `mBack` on with the positions of the same number, but after a `collect` some
   of them are in use: alloc, alloc, free the first, collect, reserve.  `alloc`
   itself is safe here, since it reserves only when `mBack` has reached the
   capacity.
4. **`clear` keeps `mUncollected`** (`sparse_clear`).  `size()` of the empty set
   is then 0 minus it, in `size_t`.
5. **The last serial is the unset mark** (`sparse_serial`).  A slot that has been
   freed 2^16 - 1 times hands out handles that `isSet` rejects.  The object can
   be neither read nor freed; on the other hand serials therefore never wrap, and
   `StaleForever` holds.
6. **A handle does not survive `uint64_t`** (theorem `ConversionLosesSerials`).
   The bit-fields of 16 bits promote to `int`, for which shifts by 32 and 48 are
   undefined; the serial is lost or lands in the index.
   `SparseSet-test.cpp:65-71` requires it back.  This is a fact about two
   operators for every width of the fields, so it is proved and has no run.
7. **A failed run can exit with 0** (`unittest_exit`).  `RunAllTests` returns the
   number of failures, of which a process's status keeps 8 bits, so 256 of them
   look like success, and one test can have as many.  `docs/UnitTest++.html:64`
   says the exit code is the number of failed tests and never 0 for a failed run.
8. **A time constraint is reported in the wrong place** (`unittest_constraint`).
   `UNITTEST_TIME_CONSTRAINT` (`TimeConstraint.h:27-28`) gives the constraint a
   temporary `TestDetails`, to which it keeps a reference (`TimeConstraint.h:23`)
   that its destructor reads (`TimeConstraint.cpp:24`).  The test
   `TimeConstraintMacroUsesCorrectInfo` (`tests/TestTimeConstraintMacro.cpp:14-27`)
   requires the macro's own file, line and test name.  It passes where the
   compiler leaves the temporary's place on the stack alone.  Compiled with
   `g++ -O2` (version 12), a block that has an array of its own after the macro
   gets it put there, and the failure is printed as that of another file, a
   negative line and another test; AddressSanitizer reports a use of the stack
   after its scope.

Three things the properties allow because the code does them, without a text
that says otherwise.  The constructor of `SignalTranslator` saves the old action
of SIGILL over that of SIGBUS, so after a test SIGBUS has SIGILL's
(`DispositionsRestored`).  The XML report has one file name per test, that of its
last failure, which `XmlAgreesWithStdout` states as it is.  And
`FreeStoreAllocator` multiplies a count it has not compared with
`max_allocations`, so that a larger one gets a block that is too small
(`BlocksHoldWhatWasAsked`).

## What is proved

TLAPS checks the theorems below for every value of the constants that the
assumptions in the modules allow: any size of table, storage, object and word,
any set of handles, values, tests and exceptions, and any of the bounds.  The
assumptions on the constants are `ConstantsAssumption` (one in each of
`HandleManager`, `SparseSet` and `FreeStore`), `AllocatorAssumption`,
`RunnerAssumption`, `ChecksAssumption`, `StreamAssumption`, `TimeAssumption` and
`ArgumentsAssumption`.  They give widths and sizes that are not zero, keep apart
the values that stand for nothing (`NULL`, `NoValue`, `Throws`) from those that
do not, and exclude the two things the sections on `FreeStore` and the stream
name.  TLC evaluates each of them in a run.

Every safety property that a run finds to hold is a theorem, and so are the
refinements; only the two liveness properties are not.

### HandleManager

| Theorem | States |
|---|---|
| `TypeCorrect` | `TypeOK`: every field stays in its bit-field, and no issued counter is 0 |
| `StaleHandlesAreRejected` | `StaleHandleRejected`, whatever the handler |
| `NullHandlesAreRejected` | `NullHandleRejected`, whatever the handler |
| `WordsAreDistinct` | `IssuedWordsDistinct`, whatever the handler |
| `FreeListCorrect` | `FreeListInv` |
| `CountCorrect` | `CountInv` |
| `AddAssertsOnlyOnAFullTable` | `AddAssertsOnlyWhenFull` |
| `ManagerImplementsTable` | `ImplementsTable` |

The last four assume `Strict`, that no installed handler returns false: with
such a handler they do not hold.

`TypeOK` is inductive by itself, given that `NextCounter` stays
in the counter's range without 0.  `StaleHandleRejected` is not: nothing in it
ties an entry's counter to the counters issued before.  `IssuedInv` adds that
(the counter of an entry is the last one issued for it, an active entry has been
issued, and two uses with the same counter are at least `CounterMod - 1` uses
apart), and is inductive with `TypeOK` because `NextCounter` is a cycle of that
length through the nonzero counters: `NextCounterValue` gives one step of the
cycle, `AppendSpaced` its effect on a sequence of uses.  Neither argument looks
at the free list, which is why both theorems survive handlers that ignore
assertions.  That words are distinct is that a number has one representation in
mixed radix (`RadixUnique`), and that an issued counter is not 0.

`FreeListInv` speaks of the links through the history `freeList`, and `CountInv`
relates the count, the cardinality of the active entries and the length of that
list; the two are inductive together with `TypeOK`.  `Add` needs its assertion on
the count only to know the list has a second element; that the entry it takes is
inactive and not the sentinel then follows, which is
`AddAssertsOnlyOnAFullTable`.  The refinement has one lemma per operation
(`AddInserts`, `UpdateAssigns`, `RemoveDeletes`, `ResetDeletesAll`), each showing
that it maps to the operation of `HandleTable` of that kind; assertions and
`SetHandler` map to stuttering.

### SparseSet

| Theorem | States |
|---|---|
| `SetTypeCorrect` | `TypeOK` |
| `IndexMapsStayInverse` | `IndexMapsInverse` |
| `DenseArrayCounted` | `DenseCounted` |
| `LiveHandlesCorrect` | `LiveHandlesResolve` |
| `SizeCorrect` | `SizeCountsLive` |
| `AccessesCorrect` | `AccessesInRange` |
| `FreedHandlesStayStale` | `StaleForever` |
| `SetImplementsTable` | `ImplementsTable` |
| `ConversionLosesSerials` | a handle survives the conversion to `uint64_t` and back only if its serial is 0 |

All but the last assume `Careful`, that `Habits` is empty: clients keep the rules above.  The
findings show what goes wrong when one of them is not kept.

The invariant is `SetInv`.  Its first part, `Pairs`, is that the two vectors of
indices are inverse where both have a position, also halfway through a `reserve` that
threw.  `HandlesInv` says that the handles the set would accept are exactly those
of the objects that clients have, or could not be given: it is this equality, in
both directions, that `alloc` and `free` preserve, and from which both
`LiveHandlesResolve` and `StaleForever` follow.  `CountInv` adds that the alive
positions are as many as those objects.  What makes `collect` correct, and is
nowhere in the properties, is `CollectInv`: as long as there is a hole below
`mBack`, the object at position `size()` is alive.  The client's rule
`CollectSafe` establishes it, trimming and swapping keep it, and it is why the
inner loop never trims past the hole it is about to fill.  The proof takes each step of `collect` alone
and shows it to be a stuttering step of `HandleTable`.

### FreeStore and its allocators

| Theorem | States |
|---|---|
| `StoreTypeCorrect` | `TypeOK` |
| `FreeChainCorrect` | `FreeChain` |
| `SlotsAreConserved` | `SlotsConserved` |
| `SlotsLieInStorage` | `SlotsInStorage` |
| `FixedStorageFillsUp` | `FixedThrowsOnlyWhenFull` |
| `StorageGrowsWhenUsedUp` | `GrowsOnlyWhenUsedUp` |
| `UndefinedNeedsRefusals` | `UndefinedOnlyAfterRefusals` |
| `StoreImplementsTable` | `ImplementsTable` |
| `AllocatorImplementsStore` | the allocators' specification implies that of the store |
| `StoreHoldsUnderAllocators` | so all of the above holds under the allocators |
| `MemoryReturns` | `MemoryGoesBack` |
| `BlocksHold` | `BlocksHoldWhatWasAsked` |

`ListInv` is `TypeOK`, `FreeChain`, `SlotsConserved` and that no slot is freed
twice (`Distinct(freed)`).  None of them is inductive alone: the type of the head
rests on the chain, since `allocate` takes the new head out of memory clients
have written in; the chain survives the clients because no slot is held and freed
at once; and a deallocation because none is freed twice.  The growth of the
storage needs a bound on how far `mLast` may run ahead of the blocks: by one
index for each refusal (`GrowthInv`).  That slots share no byte
is arithmetic on products and quotients, done in the module `Facts`.  A growing
storage whose blocks hold no object is excluded (`operator[]` would divide by
zero).

`MemoryGoesBack` needs `LentInv`: what `FreeStoreAllocator` lends from the heap
is never a single object, so its count, all that `deallocate` sees, sends it back
there; and the bytes of a block are the wrapped product of its count and size.

### UnitTest++

| Theorem | States |
|---|---|
| `RunnerTypeCorrect` | `RunnerTypeOK` |
| `CountersCorrect` | `CountsAgree` |
| `NoMishapIsLost` | `MishapsReported` |
| `JumpsStayLive` | `JumpTargetLive` |
| `SignalActionsReturn` | `DispositionsRestored` |
| `XmlReportAgrees` | `XmlAgreesWithStdout` |
| `RunIsASession` | `ImplementsSession` |
| `UnitTestImplementsRunner` | what the run of TLC composes implies the runner's specification |
| `RunnerHoldsInUnitTest` | so all of the above holds of it, `MishapsReported` and `XmlAgreesWithStdout` under their assumption |
| `TextAlwaysFits` | `TextFits` |
| `TimerIsAccurate` | `TimerWithinAMillisecond` |
| `ClosenessIsChecked` | `ClosePassesOnlyWhatIsClose` |

`RunnerInv` has five parts.  `RegistryInv`: a test that is not on the list has no
successor, so that adding it brings no other along.  `BodyInv`: where the
program is; no time constraint outlives the body that opened it.  `SignalInv`:
the translators on the stack count down in their saved jump targets, the
outermost has saved the application's actions and all others the handler, which
is why leaving any of them, by return, exception or jump, restores what it must.
`ReportInv`: `m_currentTestFailed` is about the last of the results, from which
`CountsAgree` follows.  `MishapInv`: an exception that is in flight out of the
body has happened but is not reported yet (`Due`); `MishapsReported` leaves those
states out, so that it says nothing about the step that reports.

`NoMishapIsLost` and `XmlReportAgrees` assume that `MacroUsers` is empty: no test
uses `UNITTEST_TIME_CONSTRAINT`.  Finding 8 shows that they need it.  The first
is the count in `MishapInv` together with `NoGarbage`: where no constraint is of
the macro, every line that is reported is the one where something went wrong.

For the second, two more facts are needed.  `CurrentInv`: while a test runs, the
last result is its own.  `OnceInv`: no other result is of a test that is still to
come, the current one included, because the walk along the list meets a test
once; so the failures of a test are together at the end of the report.  A failure
then adds one element and moves those of its test, and no others, to its file
(`XmlGrows`), and the reports agree afterwards if they did before (`AgreeStep`).

`JumpsStayLive` and `SignalActionsReturn` hold for any depth of tests within
tests, up to `MaxActs`, which may be any number.

For the refinement of `TestSession`, `SessionInv` says that the list is a chain:
there is an order of the registered tests that `Test::next` follows from `m_head`
to `m_tail`.  The mapping walks the list recursively, so what it maps to is found
by induction along the order (`WalkChain`).  The current test's place in it
separates the tests that are over from those to come.  Registration, the start,
the end of each test, an abort and the end of the run map to the steps of the
session; everything within a test stutters, because only the last result
changes and the session does not see it before the test is over.

A stream of initial size 0 is excluded (`StreamAssumption`): its constructor
would write behind its buffer.

### Induction

No prover here can instantiate an induction theorem that takes an operator as a
parameter.  Where the argument is an induction over data all the same (what
`FlattenSeq` does to a sequence with one more element, what a walk along the list
yields), it goes by contradiction: `Least` says that a set of natural
numbers that is not empty has a least element, which follows from the
well-foundedness of `<`, and the lemma applies it to the set of counterexamples.

## What is only model-checked

`CollectTerminates` and `RunEnds`: liveness under fairness, and `ENABLED`, are
outside what the prover supports.  The findings but one are counterexamples, which only TLC gives.

## What is not modelled

- What follows a read outside a vector, or a use of memory past a block.  The
  models stop there, or state that it does not happen (`AccessesInRange`).
- The lifetimes of C++ objects (the double construction in `alloc`, the
  destruction of an element the vector still owns in `free`).
- A refusal of memory for `SparseSet`'s `mData`: `heap_policy` returns null where
  a vector expects an exception, and the vector writes there.
- Handles of a `SparseSet` used after a `reserve` that shrinks it: `isValid`
  indexes a vector with them unchecked.
- Slots of a `FreeStore` deallocated twice, or by someone who does not hold them:
  nothing in the code detects it.
- The first block of a `FreeStore`, whose refusal leaves no store, and blocks too
  small for one object, by which `operator[]` divides.
- `FreeStoreAllocator::max_size`, which returns bytes under a comment that says
  objects; nothing in the allocator asks it.
- In UnitTest++: a crash of the reporter that follows what is left of the details
  of finding 8, instead of printing it; the texts of reports; a number whose text does not fit the 32
  bytes `MemoryOutStream` formats it in; a clock that is set back; a second run
  in the same process, where `m_timeConstraintExempt` would still be set; the
  Win32 files; the results and time constraints of a test within a test.
- Glue without state: `Allocator`, `AllocatorTraits`, `DefaultInitializer` and
  ObjectPooling's own allocator.  The commented-out `ObjectPool`, and the empty
  application.

## Plan

Done: all of the models above, and the proofs of every safety property that a
run finds to hold, and of every refinement.

Next:

1. Object lifetimes in `SparseSet`: which positions hold a constructed `T`, and
   which are constructed or destroyed twice.
2. For each rule of `SparseSet`'s clients, what still holds of the set when that
   rule alone is not kept, as theorems without `Careful`: `IndexMapsInverse` and
   `AccessesInRange` are the candidates.
3. A variant for each of the two liveness properties: a number that every step of
   `collect`, or of the runner, decreases, as an action property that can be
   proved.
