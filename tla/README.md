# A verification development for tsan11

tsan11 is ThreadSanitizer with the C++11 memory model. The repository holds it as
one patch of LLVM's tsan runtime (`scripts/tsan11.diff`), a build script that
applies it, a suite of litmus tests that say what the runtime should report, and
the CDSChecker benchmarks it was measured on. The patch does two things:

* **Release sequences and fences.** The clock of an atomic location holds exactly
  the release sequences the last store belongs to, so that a relaxed store ends the
  sequences of the other threads and an RMW continues them. Unpatched tsan lets
  everything synchronise for ever and misses races.
* **Store buffers.** A load may return an earlier store than the last one, chosen by
  a coin (`rdtsc`), as long as C++11 coherence and the SC axioms allow it.

Both are bookkeeping spread over handlers of many threads, where a forgotten entry
means a missed race, a false alarm, or an execution C++11 forbids.

In this file `diff:N` is line N of `src/scripts/tsan11.diff`.

## 1. Inventory

| Component | State | Operations | Who uses it |
|---|---|---|---|
| Vector clocks, `tsan_clock` (diff:29-400) | `SyncClock`: table of epochs, `release_store_tid_`, the vector of vector clocks (VVC: `tids_`, `clocks_`, `last_free_idx_`) | `ReleaseStore`, `NonReleaseStore`, `NonReleaseStore2`, `RMW`, `release`, `acquire`, `acq_rel`, `CopyClock`, `JoinClock`, `Reset` | the `*Impl` functions, under the lock of the location's `SyncVar` |
| Store buffer, `tsan_relaxed` (diff:862-1315) | per location: list of `StoreElem`s, the latest store's `prev_*` fields, `pos_[tid]`, lists of `LoadElem`s, `loads_[tid]` | `BufferStore`, `FetchStore`, `AdvanceToEnd`, `Reset` | the atomic handlers |
| Atomic handlers, `tsan_interface_atomic` (diff:489-717) | `ThreadState`: clock, epoch, `last_release`, the fence clocks | `AtomicLoad`, `AtomicStore`, `AtomicRMW`, `AtomicCAS`, `AtomicFence` | the program |
| SC ordering (diff:1328-1333, 1521-1535) | `ctx->Smtx`, `Sfence`, `Swrite`; per thread `Slimit`, `Swrite`, `Sread` | `SCFence`, `SCWrite`, `SCRead` | handlers with `mo_seq_cst` |
| Mutexes of the program (not patched) | clock and holder | lock, unlock | the program; happens-before only |
| Thread life cycle (diff:1540-1593) | fence clocks of a `ThreadState`, `last_release`, the clock a finished thread leaves | create, start, finish, join, detach | the program; happens-before only |
| Allocators | `DenseSlabAlloc`s and their caches | alloc, free, flush | clocks, buffers |
| Litmus tests | shared atomics and plain variables | the `.cpp` programs, `tsan_stats.txt` | the suite |
| CDSChecker benchmarks | eight data structures | barrier, Chase-Lev deque, Dekker, Linux rwlock, MCS lock, MPMC queue, Michael-Scott queue, SPSC queue with an eventcount | the evaluation |
| Build pipeline `scripts/tsan11.py` | directories and files on disk | download, patch, build, test steps, each skipped if its output exists | the user |

How they interact: a handler locks the location's `SyncVar` (and then `ctx->Smtx`
when `seq_cst`), reads or extends its `StoreBuffer`, then changes the
thread's clock and the location's `SyncClock`. A store moves the previous value
*with a copy of its clock* into the buffer, so a load that returns an old store
acquires what that store had released. What a thread may still read is decided by
its clock (`thr->clock.get(tid_) >= epoch_`), hence by every synchronisation through
any other location, mutex or fence; `last_release` is the one field by which the
buffers hear of releases elsewhere.

What makes each one correct:

* *Clocks*: nothing stale (a clock that should have been cut off hides a race),
  nothing lost (a false alarm), VVC entries covered by the main clock, a full VVC only
  when the program really has that many sequences.
* *Store buffer*: coherence (CoWR and CoRR, also through third threads), the C++11
  29.3p3-6 axioms of SC operations and fences, no pointer to a freed load, a bound on
  its size.
* *Handlers*: all of the above under every order of every operation, the failing CAS
  and the relaxed CAS, which skip half the work, included; and that a handler, which
  touches the context, the buffer, the `SyncVar` and the memory one after the other, takes
  effect at once under its two locks, which never keep everybody waiting.
* *Whole runtime*: the races and outcomes the litmus tests expect, on every
  schedule and for every coin, not only those a run of the suite happens to take.
* *Benchmarks*: that their data structures work on the patched runtime where their orders
  suffice (exclusion, each element once, nobody passes early, nobody left waiting), and
  that the race tsan11 reports is the one their weak order causes.
* *Build pipeline*: that "it exists, skip it" never takes something half made, or made
  by the wrong compiler, for finished.

The behaviours that are hard to test are listed with their lines under `hazards` in
`PROJECT.json`.

## 2. Modules

```
Clocks ── SyncClockOps ──┬── ReleaseSequences ── MCReleaseSequences
  │       MemoryOrders ──┤          └ implements ReleaseSequenceSpec
  │                      │
  └── StoreBufferOps ────┴── Tsan11 ── MCTsan11
                               │
                            Programs ──┬── Litmus (with LitmusTests) ── MCLitmus
                                       │
                                       ├── Barrier, ChaseLevDeque, DekkerFences, McsLock,
                                       │   LinuxRwLocks, MpmcQueue, MsQueue, SpscQueue
                                       └────── Benchmarks ── MCBenchmarks

HandlerLocks ── MCHandlerLocks          BuildPipeline ── MCBuildPipeline
  └ implements AtomicHandlers

Proofs:  ReleaseSequences ── ReleaseSequencesProofs ── NothingLostProofs
         SyncClockOps ── ClockProofs
         Tsan11, ClockProofs ── StoreBufferProofs ── HistoryProofs ── CoherenceProofs
         HandlerLocks ── HandlerLocksProofs     BuildPipeline ── BuildPipelineProofs
```

| Module | Models |
|---|---|
| `Clocks` | vector clocks: pointwise order and join |
| `MemoryOrders` | the predicates `IsLoadOrder`, `IsAcquireOrder`, ... of tsan. They are not in the patch and are modelled from LLVM's names and the handlers' use of them; `acq_rel` is not a load order |
| `SyncClockOps` | a `SyncClock` as a record `clk`, `owner`, `vvc`, and every `ThreadClock` operation of the patch on it |
| `ReleaseSequences` | one atomic location, all handlers, reads of the last store |
| `ReleaseSequenceSpec` | the abstract machine: what C++11 lets threads learn |
| `ReleaseSequencesProofs` | nothing stale: the theorems of section 5 about the clocks of one location |
| `NothingLostProofs` | nothing lost, and `Die()` only when crowded |
| `ClockProofs` | the operations of a `SyncClock` stay in any set of clocks that is closed under join |
| `StoreBufferProofs` | the types of `Tsan11`, and what every operation keeps of a buffer |
| `HistoryProofs` | what the clocks of `Tsan11` stand for |
| `CoherenceProofs` | coherence of writes and reads, and the SC axioms |
| `StoreBufferOps` | a `StoreBuffer` as a record and its operations |
| `Tsan11` | several locations with clock and buffer, fences, SC state, a mutex, threads that are created, finish and are joined |
| `Programs` | what a program adds to the runtime: counters, values, the race detector; the operations programs are made of |
| `LitmusTests` | 62 of the 68 litmus programs as data |
| `Litmus` | runs a litmus program on `Tsan11`, with the race detector |
| `Barrier` ... `SpscQueue` | one CDSChecker benchmark each, one step per atomic or racy access |
| `Benchmarks` | the eight of them, one at a time, and what each must keep |
| `AtomicHandlers` | the abstract handlers: each takes effect at once |
| `HandlerLocks` | the handlers access by access, under `SyncVar::mtx` and `ctx->Smtx` |
| `HandlerLocksProofs` | the theorems of section 5 about it |
| `BuildPipeline` | the targets of `tsan11.py`, their failures, and the user |
| `BuildPipelineProofs` | the theorems of section 5 about it |
| `MC*` | model values and program shapes for TLC |

### State and actions against the code

**SyncClock.** `clk` is the table (`Zero` = size 0), `owner` is `release_store_tid_`
(`NoTid` for `kInvalidTid` and for the `-1` of `RMW`), `vvc` maps the `tids_` below
`last_free_idx_` to their `clocks_`; an empty `vvc` is `vvc_in_use_ == false`. An
operation of `ThreadClock` is an operator of the same name that returns the new
record; `RmwSync` is `ThreadClock::RMW` with its simple case, its relaxed join, its
migration into the VVC and its new entry, and `RmwDies` the call of `Die()`.

The body of `ThreadClock::release` is LLVM's and not in the repository; the patch
only changes its head. When the owner itself releases again it may or may not stay
the owner, depending on what it acquired in between. The parameter `keep` of `Release`
leaves both possible, and every property is checked and proved for both.

**StoreBuffer.** Stores are named by their position in modification order. The list is a
function on a window of positions, the latest store is `End(b)`. `LoadElem`s are the
set `loads`, and `active[t]` is the pointer `loads_[t]`. The coin of `FetchStore` is a
choice: `Readable` is the set of positions it may return, and `FetchStore(b, th, p)`
the buffer after it returned `p`.

**Handlers.** In `ReleaseSequences` and `Tsan11` each handler is one action: it runs under the
location's lock, and under `Smtx` when `seq_cst`, and `HandlerLocks` shows that this is
enough to make it one. `Ticked` is `IncrementEpoch`, `Stamped` is
`thr->clock.set(epoch)`. The order of the steps inside follows the code, because
it matters: `BufferStore` uses the clock before `RMWImpl` acquires, `FenceImpl`
releases before it acquires, a relaxed CAS ticks without stamping. The epoch
ticks of plain memory accesses and of `MemoryReadAtomic`/`MemoryWriteAtomic` are left
out where no access is recorded; they only add epochs that nobody compares.

**Threads.** `Creator[t]` starts `t` (`NoTid`: it runs from the start); creating a thread is a
release that its start acquires, and finishing one is a release that joining it acquires, as the
runtime does for its own `SyncClock`s. Neither sets `last_release`. Thread ids do not come
back.

**HandlerLocks.** A handler is a program counter and the locals that outlive a step: `copy`
and `left` are the loop of `SCRead`, `seen` what a CAS or an RMW found. What a handler
touches is split into the pieces that other handlers could see apart: the memory of the
program (`mem`), the clock of the `SyncVar` (`clk`), the buffer (`buf`), `ctx->Sfence` and
`ctx->Swrite`. A store is known by its position in modification order, and `mem` and `clk`
say whose value and whose clock are there now, so an access in the wrong order shows as two
positions that differ. `op.isSc` and `op.fsc` are the two orders as far as the locks can
tell them apart. A CAS replaces the memory *first* (`func_cas`, diff:657), a store and an RMW
last; that is why `AtomicHandlers` needs a mapping of `stores` that hides a pending CAS, and
`swriteDone` and `sfenceDone`, which hide an entry of `Swrite` or `Sfence` whose handler is
not over. Both mutexes are free for anyone when they are free: no queue, no fairness.

**History variables** (`heads` and `blurred` in `ReleaseSequences`, `hist` in
`Tsan11`) record what C++11 says: who heads which sequence, what each thread's past
read and wrote, which stores SC fences order. No action reads them.

**Litmus.** A program is a sequence of instructions per thread (`load`, `store`, `add`,
`cas`, `fence`, `until` for the waiting loops, `if`, `sleep`, and `read`/`write` of plain
variables). A `sleep` waits until all the other threads are done, which is what the
tests' sleeps are for. `regs` records what each thread read; a waiting loop records a value
once, so that it has finitely many states. A plain access races when an earlier one by
another thread is not in the reader's clock. Programs are keyed by their file names.

**Benchmarks.** A thread is at a named place of the code, and each atomic access, fence, mutex
operation and access to a variable that may race is a step with the order the code gives it. A
local computation belongs to the access before it. `Reads(t, x, mo, Then)` takes the
continuation as an operator, as the code goes on with what it read; a waiting loop stays
where it is when the value keeps it waiting. `RacesHaveCauses` names, per benchmark,
the access with the weak order and the schedule in which it matters, and says that the race
is reported then and at no other time (only the latter in `spsc-queue`). `blind` and `under` (in `ChaseLevDeque` and `MsQueue`) record that a
thread acted on a stale view, so that a property can say what goes wrong only then. The
deque and the Michael-Scott queue have clients of ours beside that of `main.cc`, to
reach the last element, the empty structure and the node that is used again. The threads of
the barrier wait twice, those of `barrier.cc` once: a second round starts with another `step_` and
with the `nwait_` that the first left, and a thread may come to it while others still spin in the
first. In `spsc-queue` pthreads and tsan may differ about who holds `guard`, because it is unlocked once
too often: `held` is what pthreads think, `mutex.holder` and `depth` what tsan thinks. A lock of a
mutex that tsan takes for held, and an unlock by a thread that does not hold it, are reported and the
thread goes on, without an acquire or a release. The call of pthreads and tsan's note of it are one step.

**BuildPipeline.** `todo` is the stack of calls and commands of the script. A target first
looks whether its file exists, then calls what it needs, then runs its commands; `bench_build`
and `litmus_build` have no test and call `make`, which has its own. A command succeeds, or fails and
may leave its output half made. What a file holds is `partial`, `plain` or `patched`: built of
something incomplete, without, or with the patch. The directories of `bench_build` and
`litmus_build` may also be `torn`: a file in them was cut short when the copy or the compiler was
interrupted. It is newer than what it is made from, so `copytree` (`tsan11.py:94`) and `make` leave it
as it is. The user removes what the failed command was to make, archive included, and runs the same
command again, as `README.md` says. It says so of what is *skipped*, which these two directories are
not, so the user may leave them; `left` (a history variable) records the torn ones that were left.

## 3. Runs

| Run | Instance | Shows |
|---|---|---|
| `sequences` | 3 threads, VVC of 3 entries, 5 ticks, stores/RMWs/acquire loads | no stale clock, no lost sequence, entries under the main clock, `Die()` only when crowded |
| `everything` | 3 threads, every operation and order, 3 ticks | the same with fences and CAS; refinement of `ReleaseSequenceSpec` |
| `coherence` | 3 threads, one of them created, finished and joined, 2 locations, buffer cap 0, 5 ticks | CoWR, CoRR, no stale `loads_`, the size bound |
| `sc` | 3 threads, 1 location, `seq_cst` loads, stores, fences, 4 ticks | 29.3p3-6 |
| `every` | 2 threads, every operation, fence and a mutex, 3 ticks | knowledge is transitive, a thread sees its own stores, also those of a relaxed CAS, SC loads |
| `litmus` | 62 programs, every schedule and coin | races and outcomes of the suite |
| `benchmarks` | 8 programs of 2 to 4 threads, every schedule and coin; two rounds of the barrier | exclusion, delivery, who may wait for ever, which races have which cause |
| `handler_locks` | 2 threads, 2 and 1 calls, 2 locations, every operation | the locks exclude; refinement of `AtomicHandlers`; some handler always ends |
| `build_pipeline` | every command, 3 failures of commands that could have succeeded | nothing half made or wrongly made is taken for finished, no command starts before what it needs is made, and repeating ends in success, unless the user leaves a directory with a file cut short in it; what can then go wrong is only what comes of that directory |
| `acq_rel_fence`, `mutex`, `sc_rmw` | | the disagreements of section 4 |

*Refinements.* `LearnsOnlyCpp11` (of `everything`): the runtime's clocks implement what
C++11 lets threads learn. `HandlersAreAtomic` (of `handler_locks`): handlers with interleaved
accesses implement handlers that are one step, which is how the other modules model them.

*Why the bounds are enough.* Migration to a VVC needs two threads that release by RMW, its
collapse a third operation by a thread in it or outside it, a full VVC three
owners: three threads and five ticks reach all of them, with a VVC of three entries
for the code's 80 (`kNumElems`, diff:351). A buffer with cap 0 evicts at the third store,
where the code's 128 (`kBuffMaxSize`, diff:1292) evicts at the 131st. CoRR through a
third thread needs a reader, a writer and a witness, each with one release between;
five ticks leave room for two stores more. Three threads are interchangeable in
`ReleaseSequences` (symmetry); in `Tsan11` the initial store belongs to `Main` and
the program shapes tell threads apart, so no symmetry is used there except in the
`mutex` run, whose workers are alike. The litmus programs and the benchmarks are finite, and
their tick bounds (14 and 36), buffer cap and VVC are above what any of them uses, but for
`spsc-queue`: its consumer goes from `get` to `wait` and back as often as it misses the element, and
36 ticks cut that loop after several rounds, more than the two it takes to reach the race on `waiters`. The
benchmarks run with the threads of their `main.cc`, but for the Michael-Scott queue (two of
four) and the MPMC queue (three of four). The barrier has two rounds (`Rounds`): the third starts from
what the second left as the second from the first. In `handler_locks` two threads meet at every
pair of steps, a third would wait for the same mutexes, and the second call lets one meet
what the first left; the proofs of section 5 have no bound. One failure in
`build_pipeline` breaks a target, a second one breaks the repair, a third one something else.

*Bounds by name.* `MaxTicks` (epoch increments, in all), `kNumElems`, `kBuffMaxSize`,
`MaxCalls` (handlers per thread), `MaxFailures` (failures of commands that could have succeeded; those
of a command whose inputs are missing or torn are not counted), `Rounds` (of the barrier).

*Deadlock.* All runs but `build_pipeline` say `CHECK_DEADLOCK FALSE`: programs end, and the
bounds stop what does not. That nobody is left waiting before the end is asked by
`SomeThreadCanGoOn` in `benchmarks` and by `SomeHandlerEnds` in `handler_locks`. In
`build_pipeline` the user can always start another command, and TLC checks it.

*Fairness.* In `handler_locks`, weak fairness of each thread's handler: a thread inside the
runtime is scheduled again. Nothing is assumed of who gets a mutex, so a single handler may starve, and
`SomeHandlerEnds` promises only that not all do. In `build_pipeline`, weak fairness
of the script, of the cleaning and of the repetition: the user does not give up.
Elsewhere none: a waiting loop of a litmus test or a benchmark ends only if the coin of
`FetchStore` eventually lets it reach the latest store, and `rdtsc` guarantees nothing of the
kind. `SomeThreadCanGoOn` is the safety property that remains: unless all is done, some thread is not
held up by the *latest* value. A thread at `failed` or `crashed` has failed an assertion or dereferenced
null and ended the program, so it is not held up; that this does not happen is `QueuesGive` and `DequeGives`.

## 4. Where the repository disagrees with itself

Each is a run that TLC refutes; `findings` in `PROJECT.json` quotes the lines.

1. *`acq_rel` fences do not acquire* (`acq_rel_fence`). `AtomicFence` asks
   `IsLoadOrder(mo)`, which `acq_rel` is not. Its comment says "Acquire and release".
2. *A mutex unlock does not commit a load* (`mutex`). `last_release` is set by atomic
   releases only, so after an unlock the thread's load moves on when it reads again, and the
   next holder of the mutex may read a store older than the one read before: CoRR fails.
   Creating a thread releases without `last_release` too: when the creator reads `x`, creates
   a thread and reads `x` again, the new thread may read an older store than the first read.
   `coherence` has no creator that reads. `ReadsAreCoherent` (section 5) shows that these two
   are the only ways to break CoRR.
3. *A `seq_cst` RMW marks stores before it acquires* (`sc_rmw`), so an SC load may later
   return the very store the RMW read.

Six litmus programs say more than C++11 does, or something else than the runtime does. They
run with the rest of the suite, and `OutcomesAllowed`, `RacesAreReal` and `RacesAreFound` hold
what the runtime does, so these runs pass *against* the lines quoted here:

* `cowr_sync.cpp:17` and `cowr_sync_trans.cpp:24` say "Must not see the init or first store"
  (`tsan_stats.txt:33-34`: "Read cannot see the first write"). The release comes before the
  second store, so the first store may be read, and is; the initial value is not.
* `sc_fence_read_non_sc.cpp:19` says "Should never see x = 1, y = 0". A fence on the writer's side
  alone does not rule it out, and it is seen; no clause says anything of it.
* `relaxed_load_buffering.cpp:23-24` says of two loads, each before a store that the other
  reads, "yet we always get x = y = 1", and `relaxed_cycle.cpp:25` of stores that depend on each other
  "no store should ever occur, but it does". A thread calls the runtime in program order and a load
  returns a store that was already made, so neither happens, and `OutcomesAllowed` says so.
* `tsan_stats.txt:37` lists `cas_strong_fail` as racing because "CAS does not sync on
  failure"; its failure order is acquire, and the runtime acquires.

What the benchmarks show, beside the races they are there for: in `spsc-queue` the reader may
sleep for ever only after a load that was not the latest (`test_all.sh` skips the benchmark "as it
deadlocks"). `eventcount.h:47` unlocks `guard`, and the end of `lck` unlocks it again, which may free the
mutex while the producer is in its section; a consumer that misses the element then takes it too,
and both are in `waiters` (lines 43 and 65-66), on which tsan reports a race. `SpscRaces` says that this is the
only race there, and the only way to it. `deque.cc:18` computes with an unsigned `bottom` that may have gone
below 0; a thief that finds a new array relaxed may find it without its size. `DequeGives` excepts
the thread that does so, and says that nothing else is handed out wrongly.

## 5. Proofs

All theorems hold for any sets of threads and locations, any programs (`Uses`, `Fences`,
`Creator`, `UsesMutex`), any capacity of VVCs and buffers, and any bound on ticks, calls
and failures; where one needs a hypothesis, its row says so.

*Assumptions* are those the modules declare: `NoTid` is no thread, `Main` is one
(`NoTidAssumption`, `MainAssumption`); programs use memory orders and create threads
(`UsesAssumption`, `LocUsesAssumption`, `FencesAssumption`, `CreatorAssumption`); bounds are naturals
(`TicksAssumption`, `BuffAssumption`, `MaxCallsAssumption`, `FailuresAssumption`). TLC evaluates
them on every run.

### The clocks of one location

`ReleaseSequencesProofs` and `NothingLostProofs`:

| Theorem | Statement |
|---|---|
| `TypeCorrect` | `Spec => []TypeOK` |
| `SyncClockSound` | `Spec => []SyncWithinHeads` |
| `EpochsAreReal` | `Spec => []NoFutureEpoch` |
| `ImplementsCpp11` | `Spec => LearnsOnlyCpp11`: the runtime implements `ReleaseSequenceSpec` |
| `MainClockCovers` | `Spec => []VvcUnderClock` |
| `NoReleaseIsLost` | `Spec => []NothingLost` |
| `OwnSequencesOnly` | `Spec => []OwnSequences` |
| `FullMeansCrowded` | `Spec => []DiesOnlyWhenCrowded`, if `Tid` is finite (`Cardinality` means nothing otherwise) |

*Nothing stale.* The inductive invariant `IInv` is the types, `Sound(sync, heads)` and
`NoFutureEpoch`. `SyncWithinHeads` alone is not inductive: a plain store of `t`
collapses the SyncClock to `t`'s VVC entry, or keeps the table if `t` owns it, and that is
sound only if entry and table are `t`'s *own* sequences (`OwnSequences`, part of `Sound`).
`NoFutureEpoch` is needed because a stamp `clock.set(epoch)` would otherwise lower a clock.
One lemma per operation of `tsan_clock.cc` (`ReleaseStoreSound`, `NonReleaseStoreSound`,
`JoinClockSound`, `ReleaseSound`, `MigrateSound`, `SetEntrySound`, `RmwSound`) says that it
keeps `Sound`, and one that it keeps every clock below the epochs (`...Below`). One
lemma per handler (`StoreStep`, `LoadStep`, ...) then shows that the handler keeps
`IInv` and is a step of the abstract machine; the refinement mapping is the
identity on `clock`, `frel`, `facq` and `heads`.

*Nothing lost.* `KInv` adds to `IInv` where a sequence is to be found: in the table, and also where the next
plain store of its thread will look for it, the table that thread owns, its VVC entry or its
fences' clock (`Keeps`, while not `blurred`). `NonReleaseStore2` tells the entry from the fences' clock by
comparing one component, which is right only because the two are ordered (`Chained`, in
`Continues`), and they are because a thread knows what it heads and what its fences cover
(`Known`). `Covers` is `VvcUnderClock` with what it rests on: a VVC in use has no owner and no
empty entry.

### The whole runtime

`ClockProofs`, `StoreBufferProofs`, `HistoryProofs` and `CoherenceProofs`:

| Theorem | Statement |
|---|---|
| `TypeCorrect` | `Spec => []TypeOK` |
| `BufferStaysBounded` | `Spec => []BufferIsBounded` |
| `LoadsStayAttached` | `Spec => []MovingLoadsAreAttached` |
| `KnowledgeStaysTransitive` | `Spec => []KnowledgeIsTransitive` |
| `WritesAreCoherent` | `Spec => []WriteReadCoherence` |
| `FencesOrderReads` | `Spec => []ScFencesOrderReads` |
| `ScReadsAreLatest` | `Spec => []ScLoadsReadLatest` |
| `ScReadsSkipPast` | `Spec => []ScLoadsSkipPast`, if no RMW is `seq_cst` (`NoScRmw`): the run `sc_rmw` refutes it otherwise |
| `ReadsAreCoherent` | `Spec /\ [][CommitsFirst]_vars => []ReadReadCoherence`: the run `mutex` refutes it of `Spec` alone |
| `AtomicReadsAreCoherent` | `Spec => []ReadReadCoherence`, for programs without a mutex whose creators of threads do not read (`CreatorsReadNothing`) |

From `KnowledgeStaysTransitive` on they assume `KeepsHistory`, that is, that the history
variable records what the properties speak of; nothing else in the model depends on it.

*Types.* `ClocksIn(G)` says that every clock of the state is in `G`, for a set `G` of clocks closed
under join (`Lattice(G)`), and that every buffer is `Sound`: its stores are an interval of at most
`kBuffMaxSize + 2` positions (`Window`), positions and loads are held, and a moving load is
on the list where its thread is (`Attached`). `ClockProofs` shows once for all operations of
`tsan_clock.cc` that they stay in a lattice, `StoreBufferProofs` that each handler does. With `G`
the set of all clocks this gives the first three theorems.

*Knowledge.* The same lemmas are used again with `GoodClocks`: the clocks that name only epochs
reached (`Reached`) and that are above what was published with every epoch they name (`Closed`). These are a
lattice too, so that only the two places where a clock is not the join of others need an argument: a
thread's own tick, and what it publishes at it. This is `GoodInv`, which carries the history
(`HistInv`) along.

*Coherence.* What a thread knows of a store is the store's tag, the thread and epoch that made it.
`CoverInv` says that a thread's clock has the tags of all stores in its past that are still held, and the same
of every past that was ever published; `OwnBelow` says it of a thread's own stores, whose
epoch its clock reaches only later. A tag that is known is below `limit` in `FetchStore`. That
a past is covered survives an acquire because the clock acquired is `Closed`, which is why
`KnowledgeIsTransitive` comes first. An evicted store cannot be read, and nothing is asked of it.

*The SC axioms.* `OrderInv` says the same of what orders SC accesses: a thread's last store
before its fence is tagged with its own epoch, what `hist.fenced` and `hist.floor` hold is known by tag to
`ctx->Sfence` and to the thread's `Slimit` and `Swrite`, and every SC store to `ctx->Swrite` and marked. `PastMarked`
is the mark of `BufferStore` on what happens before the latest SC store.

*Reads.* A load leaves no tag, so CoRR needs another argument. A position is barred to a clock
(`Bars`) when every store still held is at it or later, or the clock knows the tag of a
held store at it or later, or it knows a load at it or later that is `Settled`: its thread released
since, or finished, so that `FetchStore` will not move it. What a thread publishes must bar what it saw for
the clock it publishes, and those clocks are a third lattice for `ClocksIn` (`BackedClocks`); what
a thread read since is at its `pos_` or before, and `pos_` is held in place by a load or a store of
its own (`Placed`). This is `ReadInv`. A release settles all loads of its thread, because
`last_release` is then later than their epochs; a mutex unlock and the creation of a thread set no
`last_release`, and there the induction stops. `CommitsFirst` says what is missing: the thread has
released since each of its loads in progress. That is what the counterexample of the run `mutex`
does not do, and the theorem shows that nothing else is wrong. In programs without
a mutex the hypothesis holds when creators have no load in progress, which
`CreatorsLoadless` proves of creators that only store and update. The program of `coherence` is one
of these, and so is each in which all threads run from the start.

### The handlers under their locks

`HandlerLocksProofs`:

| Theorem | Statement |
|---|---|
| `SmtxIsHeld` | `Spec => []ScMutexHeld` |
| `MutexesExclude` | `Spec => []HandlersExclude` |
| `HandlersImplementAtomic` | `Spec => HandlersAreAtomic`: the handlers implement `AtomicHandlers` |

*Argument.* `LockInv` says which operations come to which step (`Fits`) and that a mutex is held
by a thread exactly when it is at a step that the mutex is for (`LocksHeld`, an
equivalence: from left to right it keeps the others out, from right to left it is inductive). The
first two theorems follow. For the third, `IInv` adds what the mutexes protect: a
location that nobody is in is `Settled` (memory and clock are those of the latest store, the
buffer holds the ones before, each with its own clock); `DataAt` says, step by step, what the
handler inside finds there instead, and `CopyAt` that what `SCRead` has copied under `Smtx` is
still what `Sfence` holds. `Frame` and `OthersKeep` are the heart of it: a step touches
only a location its thread has locked, so what the others know of theirs stays true. One lemma per
action then shows that it keeps `IInv` (`...Keeps`) and what it maps to (`...Stutters`,
`...Maps`): the last access of a handler to its step of `AtomicHandlers`, all others to a
stutter. A CAS whose failure order alone is `seq_cst` maps to `ACasFailBare`, whose
copy of `Sfence` is anything: the proof shows where the missing lock is felt.

### The build pipeline

`BuildPipelineProofs`:

| Theorem | Statement |
|---|---|
| `TypeCorrect` | `Spec => []TypeOK` |
| `SkippingIsRight` | `Spec => []SkippedIsRight`: right, or the results of a directory that the user left torn |
| `ResultsStayRight` | `Spec => []ResultsAreRight` |
| `InputsStayRight` | `Spec => []InputsAreRight`: right, or a torn directory that the user left |

*Argument.* That a target on the disk is right follows from the order in which it was made, so the
inductive invariant is about the stack of the script: the commands of a target stand together and in order
(`InOrder`), and whatever they need is there, or is called before them (`NeedsComeFirst`). `Settled` is
`SkippedIsRight` with its exceptions: while the commands of a target run, and until the user has removed what a
failed one left, the target may be partial or still unpatched. `ArchivesSettled` says the same of the archives
that are unpacked. A directory is torn only while the command that tore it is the one that failed last, or when it is in `left`
(also `Settled`), because the user then removes it or leaves it; a command may find such a directory among its
inputs (`Usable`), and its results are then the exception.
The three properties are then read off. The exceptions name `left` and nothing weaker: while the user has left
nothing torn, `OfLeft` is false and no torn input is allowed, so the properties say what they would without
exceptions.

### What is model-checked only

* `Litmus` and the benchmarks: what they show is about these programs, and TLC runs all of them.
* Liveness under fairness (`SomeHandlerEnds`, `CommandsComplete`), and `ENABLED`: out of this prover's reach,
  as are induction over data and `RECURSIVE` operators (there are none).

## 6. Not modelled, and why

* The block layout of tables over 64 entries (`ClockBlock`, `Resize`, the copies in
  `CopyClock` and `RMW`, diff:111): a table is a function of thread ids here, and the layout is below
  that abstraction.
* Memory management: `DenseSlabAlloc`s, their caches, `vclock_cache`, which is not flushed when a
  `Processor` finishes (diff:1547). That no freed `LoadElem` is used is `MovingLoadsAreAttached`.
* `OnDetached` and the reuse of thread ids, with the `Reset` of the fence clocks.
* Read locks, trylocks and repair of the program's mutexes, which the patch does not touch.
* Six litmus programs: the three stress tests and `rmw_many_*` (many threads running the
  same code) and `race_memory` (`memcpy`).
* Of the benchmarks: the driver of the Michael-Scott queue with its sums, its races on
  `input`, `output` and `threads` (`main.cc:20`), and the free lists `init_queue` leaves
  as `malloc` gave them (`my_queue.cc:65`), which are 0 here; `threadC`, the options and the wrap of the
  16-bit counters of the MPMC queue; the trylocks of the rwlock, which the program does
  not call; the node of the Michael-Scott queue that is taken again while another thread reads its value
  (`my_queue.cc:149`), which takes six calls; the order of the MPMC queue, of which only delivery is checked.
* Statistics, debug printing, containers and the shell drivers. (Of these,
  `cds_bench.sh:10` overwrites `TESTS`, so the barrier never runs there.)
* `svn patch` exits with 0 when a part of the patch does not apply; `BuildPipeline` takes a
  command that exits with 0 for one that succeeded.

## 7. Plan

Done, in this order: clocks and release sequences with their abstract machine and its
proof; store buffers and the whole runtime; the litmus suite on it; the life cycle of
threads; the benchmarks; the handlers under their locks, with their abstract machine and
its proof; the build pipeline.

Proofs, in this order: what one location learns, its refinement and what it does not lose; the locks; types and buffers
of the whole runtime; the knowledge of clocks; coherence of writes and the SC axioms; the
build pipeline; coherence of reads.

Next, should the development go on:

* `ClockTables`: tables as blocks of `kClockCount` entries, `Resize` and the copies, and their
  refinement of `Clocks`.
