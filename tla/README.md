# A TLA+ model of tbjit-alloc

tbjit-alloc interposes on `malloc` and `free`, traces allocations per call
site, compiles a specialised routine for a site whose sizes are stable, and
throws the routine away when its guard fails. This directory models the parts
of it that threads share (the code cache and its reclamation, the dispatch table
and the list of threads, the segments that routines hand chunks out of, the trace
pipeline to the background thread, and the entry points that decide which
allocator a pointer belongs to) and the analysis that decides what is compiled.
TLC checks the models on small instances; TLAPS proves the invariants that the
passing runs check, the action property of the analysis and the two refinements
for any number of threads, sites, pages, slots, chunks, addresses and events,
under the hypotheses that section 4 names. Liveness is checked by TLC only.

File and line references are to the repository's `src/` directory.

## 1. The system

| Part | State | Operations | Talks to |
|---|---|---|---|
| Dispatch table (`dispatch/`) | open-addressing table site -> routine, `g_generation` | `install`, `revert`, `lookup` | trampoline, analysis, deopt |
| Trampoline (`trace/trampoline.cpp`) | per-thread inline cache, safe-point counter, reentrancy guard; `g_initialized`, `g_shutting_down` | `malloc`, `free`, `realloc`, constructor, destructor | everything |
| Deopt (`deopt/`) | queue of guard failures, pending pages, epochs, list of threads | `handle`, `mark_safe_point`, `drain_pending` | dispatch, analysis, codegen |
| Analysis (`analysis/`) | per-site summary: phase, windows, deopt count | `process_event`, `advance_prespec`, `check_postspec`, `reset_call_site`, `background_loop` | trace rings, codegen, dispatch |
| Codegen (`codegen/`) | compile slots, code pages, thread-local bump pointers and free lists | `compile`, `reclaim`, refills, `free_managed` | segments |
| Segments (`seg/`) | header of each 2 MiB segment, pagemap, reaper index | `alloc_segment`, `mpsc_push`, `mpsc_harvest`, `reaper_sweep` | codegen, background loop |
| Trace rings (`trace/trace.cpp`) | one ring per thread, global list | `push`, `pop`, `get_ring` | internal arena, futex |
| Futex parking (`analysis/futex.h`) | one word | `futex_wait`, `futex_wake`, `notify_if_sleeping` | rings, background loop |
| Trace file (`trace/writer.cpp`) | `g_file` | open, write, close | background loop |
| Internal arena (`alloc/`) | a bump cursor | `alloc` | rings, dispatch |
| Histogram, KS test (`analysis/`) | a window's sizes and counts | `record`, `top_k_modes`, `quantile`, `ks_stable` | analysis, dump |
| Statistics dump (`analysis/dump.cpp`) | - | `dump_stats`, after the background thread has ended | analysis |
| Shadow validator (`shadow/`), debug builds | hash table of managed pointers in use | `validate_alloc`, `validate_free` | trampoline |
| Replay tool (`tools/replay.cpp`) | - | feeds a trace to the analysis, `--oracle` | analysis, trace file |

Threads of the program run `malloc` and `free`; one background thread runs
`background_loop`, which drains guard failures, sweeps segments and drains the
rings, round after round. They share memory through atomics, one mutex for the
deopt queue and one for the segment index. What is hard:

* a code page must not be unmapped while any thread executes it or may still
  enter it through a stale inline cache (epochs, safe points);
* `install` and `revert` write the table and bump the generation in two steps,
  from different threads;
* a segment must not be unmapped while a chunk of it is in use, although chunks
  are freed by any thread and the count that decides it is only set at
  retirement;
* rings are single-producer single-consumer without locks, and the parked
  consumer is woken through a check that can miss;
* start-up and shutdown overlap with recording threads, and pointers live longer
  than the phase in which they were allocated;
* the dispatch table is searched while it is written and the list of threads is
  scanned while threads register and end, both without a lock;
* the analysis decides by statistics of events that arrive late, incomplete and
  out of order, across deoptimisations, and never resets some of them.

What makes each part correct: no use after unmap, caches that agree with the
table, bounded arrays, and pages that are reclaimed (deopt, dispatch); no chunk
in two hands, no chunk lost from the count, nothing in use reaped, empty
segments reaped (segments); FIFO order without loss other than by overflow, no
event forgotten, shutdown that ends (trace); every pointer back to the allocator
it came from (entry points); decisions on evidence that was really seen, and
reports that agree with it (analysis, dump, replay). `PROJECT.json` lists the
hazards at their lines with the properties that cover them.

## 2. Modules

| Module | Models | Proved in |
|---|---|---|
| `CodeCache` | dispatch table, inline cache, `deopt::handle`, safe points, `drain_pending`, phases of a site | `CodeCacheProofs` |
| `SegmentHeap` | chunks of all six strategies, remote frees, retirement, reaper | `SegmentHeapProofs` |
| `TraceRing` | rings, list of rings, arena cursor, futex parking, background loop, trace file, constructor and destructor | `TraceRingProofs` |
| `Interpose` | `malloc`, `free`, `realloc` and the life of the library: bootstrap arena, resolution of libc, gates, reentrancy guard, pagemap | `InterposeProofs` |
| `ShadowTable` | the shadow validator's hash table; `Interpose` uses it | `InterposeProofs` |
| `SharedTables` | dispatch table probe by probe; list of threads link by link | `SharedTablesProofs` |
| `Picker` | `process_event` with all its statistics, guard failures, the dump, the oracle replay | `PickerProofs` |
| `Histogram` | size histogram, KS test, majority vote; `Picker` uses it | `HistogramProofs` |
| `FiniteSums` | lemmas on least members and on sums over finite sets, for the proofs | itself |
| `EventChannel` | what the rings promise: a bounded FIFO per thread | abstract |
| `RoutineMap` | what the dispatch table promises: a map with atomic updates | abstract |
| `MCCodeCache`, `MCSegmentHeap`, `MCTraceRing`, `MCInterpose`, `MCSharedTables`, `MCPicker` | the instances for TLC | |

`CodeCache` relies on `SharedTables` for its two abstractions (a map for the
dispatch table, a set for the list of threads) and leaves open the decisions
that `Picker` makes. `Picker` takes the events in any order, as the rings may
deliver those of different threads.

In all modules but `Picker` an action is one access to memory that another thread can see,
together with the private steps around it, so every interleaving of the
accesses is a behaviour. Memory is sequentially consistent. Operators named
`...NoRevert`, `...OffByOne` and the like, each just before the operator it
imitates, are faulty variants used to see that the properties notice; nothing
else refers to them.

### CodeCache

Variables carry the names of the source (`g_table`, `g_generation`,
`g_deopt_queue`, `g_pending`, `g_epoch`, `g_thread_list`, `tl_thread_epoch`).
`tl_ic` is the inline cache, `pc`, `site`, `fn` and `loaded` are the locals of
`malloc`; `mapped` and `code_site` are the code pages and the call-site id
emitted into them.

| Code | Actions |
|---|---|
| `malloc`, `trampoline.cpp:149-191` | `Malloc`, `ReadGen`, `Lookup` |
| `mark_safe_point`, `register_thread` | `RegisterThread`, `LoadEpoch`, `StoreEpoch` |
| the routine, `emitter.cpp` | `Serve`, `GuardFail`, `TailCall` |
| `handle`, `dispatch::revert` | `Revert`, `BumpGeneration`, `Enqueue` |
| `drain_pending` | `Dequeue`, `ResetCallSite`, `DrainEmpty`, `ScanThread`, `Reclaim` |
| `process_event`, `advance_prespec`, `check_postspec` | `Resume`, `Specialize`, `SpecializeFails`, `PostDrift`, `EndEvents` |
| `dispatch::install` | `Specialize` (store), `InstallBump` |

Abstracted: the table is a map (`SharedTables` has the probing); the statistics
that make a site stable or drifted are nondeterministic (`Picker` has them); the size that fails a guard is a
choice; `deopt_reason` is left out, since nothing decides on it. The generation
and the epoch are unbounded naturals (64-bit counters in the code). `free` does
not touch this state. `Return` resets locals that are dead, to keep states
equal that are equal.

### SegmentHeap

A bin is a list head or a bump region in thread-local storage; a segment belongs
to the thread and bin that carved it. `PopHead`, `BumpChunk` and `ArenaReset`
are the routines' fast paths and the arena's reset; `FirstRefill`, `Harvest`,
`PcHarvest`, `StoreLiveChunks`, `SetRetired` and `Carve` are the steps of
`freelist_refill`, `multi_refill`, `pc_refill` and the three `slow_init`
functions; `Free`, `DecLiveChunks` and `MpscPush` those of `free_managed`;
`Sweep`, `Unregister`, `Unmap` and `Decommit` those of `reaper_sweep`. Lists are
sets, since no property depends on the order of chunks. `mpsc_push`, a
compare-and-swap loop, is one step, as is `mpsc_harvest`, an exchange. `user` is
the environment: chunks the program holds; it frees only those, and it keeps
the arena's contract (`slow_init.h`) not to use pointers from before a reset.
The Reap tag of a site may change at any time, so the conservative reaper sweeps
any subset of the bins. `live_chunks` wraps like a `uint32_t` (`CountMod` stands
for 2^32). A BumpAlloc or PairedStack region that is full leads to a guard
failure, which is `CodeCache`'s. Not modelled: bins whose routine was
deoptimised (they keep their lists); thread exit.

### Interpose

Calls nest (realloc calls malloc and free, malloc resolves libc's functions,
`dlsym` calls malloc), so a thread has a stack of frames; an action is a step of
its innermost call. `Preamble`, `...Direct` and `...Gate` are the tests of
`g_initialized`, of `g_shutting_down` and of the guard, each where the code makes
it; `Resolve` is `resolve_real_allocators`, in which `dlsym` may re-enter all
three functions; `LibcMalloc`, `LibcFree` and `LibcRealloc` are libc's, external,
modelled by what the callers rely on: they take memory that belongs to nobody,
and abort on memory that is not libc's. A segment is one address, and the reaper
may unregister and unmap it when nobody holds it, after which libc may get it
(`ReapUnregister` takes the reaper's test, retired and no live chunks, to be exact,
which `SegmentHeap` shows it to be except for ProducerConsumer segments).
`life` is where the constructor and the destructor are. `ValidateAlloc` and
`ValidateFree` are the shadow validator's calls, each one step since it runs
under a mutex; an abort of the validator is a step that cannot be taken, and
`ShadowExact` says that it never has to be for a DUP. In the run all addresses
have the last slot of the table for their home.
`dropped` are managed chunks freed after shutdown, which the code ignores.
`MCInterpose` also assumes, and TLC evaluates, that `Erase` takes exactly one
entry out of every table with three pointers in three or four slots and any
hash (`EraseTakesOneOut`). The abstract heap serves an address only when it is
free, as all strategies but the arena do. Abstracted: sizes (zero
and not zero are told apart) and contents; libc does not run out of memory. With
the sizes goes a corner of `bootstrap_alloc`: a request of zero bytes to an arena
that is exactly full succeeds (`trampoline.cpp:84-91`), while a full arena of
`BootstrapFits` serves nobody. `DlsymReenters` has the test of the pointer
(`trampoline.cpp:108-114`) and the call of `dlsym` in one step, so a `dlsym` does not
call back after another thread has set that pointer.

### TraceRing

`head`, `tail`, `slots` and `next` are the fields of a `RingBuffer` at an arena
address; `cursor` is the arena. `Record`, `LoadCursor` ... `WakeCall` are a
record call, `LoopTest` ... `ParkEnd` the background loop, `OpenFile` ...
`JoinAndClose` the constructor from `writer_open` on and the destructor. `log`
is the history of events processed and `file` the trace file (TBJIT_TRACE is
taken to be set). The futex system call compares and sleeps in one step; its
timeout may fire whenever the thread sleeps. The wakeup by
`stop_background_thread` takes the same steps as a producer's.

`TraceRing` implements `EventChannel` under the mapping that reads each ring
from tail to head (`Channel`, `RefinesChannel`): a push takes effect at its
store of head, a pop at its store of tail, and a drop at its load of the
indices that finds the ring full. The channel drops an event (`Drop`) only while its FIFO
is full, so the mapping shows that no event is lost while there is room; `Decided`
counts the events of a thread whose push has taken effect. `Overlap`
says whether the first events of two threads may overlap; they then may share
a ring (see below), so the run has `Overlap = FALSE`.

### SharedTables

`g_table` and `g_generation` are the dispatch table. `find` is a loop, of which a
step is one read of `Entry::id` (`Passes`, `Finds`, `Exhausts`); `lookup`
reads the id once more and then the routine (`LookupCheck`, `LookupLoad`),
`revert` likewise before its store, and `install` writes id and routine in two
steps. `seen` records the routines a site has had while a lookup of it is under
way; `RoutineMap` is stated with it, and `RefinesMap` maps the table to the
routine stored under each id.

`g_thread_list`, `next` and `registered` are the list of `ThreadEpoch` records,
each in a block of thread-local storage. `RegisterLoad`, `RegisterLink` and
`RegisterCas` are `register_thread`; `ScanBegin`, `ScanRead` and `ScanEnd` the scan
of `drain_pending`. A thread may end between two mallocs (`EndThread`); its record
stays on the list. `ReuseBlocks` says whether a new thread may get the block of one that has
ended; with FALSE the properties hold, with TRUE they do not (`tls_reuse`). The
epochs themselves are in `CodeCache`.

### Histogram and Picker

A histogram is a function from tracked sizes to counts, with the overflow flag
and the total. Loops over entries become sets: `Ahead` is the order by count and
size that `dominant_index` and `top_k_modes` follow, `KsStable` compares the two
distributions at every tracked size in integers (its argument `critSq` is a
thousand times the square of the critical value; double rounding is left out). `Vote` is
`ThreadDist::record` and the vote on freeing sites.

A step of `Picker` is one call of `process_event` or one entry of the deopt
queue, since all of this runs on the background thread: `AllocEvent`,
`FreeEvent` (libc chunk, attributed by the LIFO stacks), `ManagedFreeEvent`
(attributed by the segment header) and `GuardFailed` (`reset_call_site`). Each is a
composition of operators that follow the code's functions: `ProcessAlloc`,
`RecordSize`, `AdvancePrespec`, `Specialize`, `Candidate`, `CheckPostspec`,
`RecordPair`, `ResetCallSite`. `oracle` is the analysis of a replay of the same
events with `--oracle`. `init()` takes the window size, the number of stable windows
and the KS level from the environment, and the replay calls `init_state()` only
(`replay.cpp:72`): `KnobsOf` gives the live analysis `LiveKnobs` and the oracle
`DefaultKnobs`. `BuildSummary`, `SiteLine`, `EventsToSpecialize` and
`CapturedEvents` are what the dump and the replay report. `seen` counts what
really happened, for the properties to compare with. `compile` succeeds or fails
by its own conditions; the 4096 compile slots are `CodeCache`'s. A guard may fail for a
site that ever had a routine, at any time, since entries of the queue may be
cycles old; the reason is that of the current strategy.

## 3. Runs

Passing runs:

| Run | Instance | Checks |
|---|---|---|
| `recompile` | 2 threads, 2 pages, a second compile of the site, queue of 1 | `CacheCoherent`, `PageSafe`, `InstalledMapped`, `CondemnedUnreachable`, `StragglerPinned` |
| `reclaimed` | 1 thread, not registered at first, 2 sites, 2 pages, safe point at every malloc, queue and `g_pending` of 1, fair | `TypeOK`, `CondemnedReclaimed` |
| `heap_lists` | 2 threads, 2 bins, 3 segments of 2 chunks, index of 2 | `TypeOK`, `InUseIntact`, `NoDoubleUse`, `CountExact` |
| `heap_madvise` | 2 threads, one bin of each of five kinds, 2 segments, fair reaper | `NoDoubleUse`, `ReturnedReaped` |
| `ring` | 2 threads with 3 and 1 events, rings of 2 slots, one back-off, fair | `TypeOK`, `FinalDrain`, `FileWellFormed`, `RefinesChannel`, `NothingWaits` |
| `routes` | 2 threads, 2 addresses, a bootstrap arena of 1 chunk, colliding shadow entries | `TypeOK`, `FreeReachesOwner`, `ResolvedBeforeUse`, `RecursionBounded`, `GuardExact`, `ReallocReachesOwner`, `ShadowExact` |
| `picker` | 2 sites, 2 threads, 3 recorded sizes and one too large, windows of 3, histograms of 2 sizes, LIFO stacks of 2, blacklist after 2, a stricter KS test live than in the replay | `TypeOK`, `VotesSound`, `FreesConserved`, `CompiledOnEvidence`, `BlacklistFinal`, `OracleUpperBound`, `ReportAddsUp`, `StrategyEarned` |
| `tables` | 2 threads, 2 blocks, 3 colliding sites of which 2 are compiled, 2 routines, table of 2 slots | `TypeOK`, `TableSound`, `ScanComplete`, `ListEnds`, `RefinesMap` |

`recompile` shows that a page is unmapped only when nobody can reach it any
more: every registered thread that can holds back `min_epoch`
(`StragglerPinned`), and no inline cache survives an install or a revert.
`reclaimed` shows that a page in `g_pending` is always unmapped as long as the
thread keeps allocating, and that a page on the queue is, too, unless it is taken
off while `g_pending` is full: that is the only way one is lost. It happens in the run:
while the page of one site waits for its epoch, that of the other is forgotten. One
thread is enough for what can keep a page waiting: it has to register, check in past
the epoch, and be found by a scan after that; two threads and two pages are beyond a
check of liveness (12 million states).
`heap_lists` shows that `live_chunks` of a retired free-list segment is exact,
so that the reaper never takes a chunk in use. `ReturnedReaped` speaks of
free-list segments only, since the count of the others is wrong (`heap_pc`).
`ring` shows that the missed wakeup of a parked thread is repaired by the
timeout, for producers and for the destructor. `routes` shows that the phase a
pointer is freed in does not matter, nor that it is resized in until the
destructor begins, that the pagemap is never out of step with libc, that
resolution ends although `dlsym` allocates, and that the shadow validator is
right about every managed chunk.

`tables` shows that a lookup racing with installs of other sites never returns
their routine: the second look at the id is what makes it so. It also shows that a
full table (as many compiled sites as slots) is no problem, since slots are
never freed, and that prepending to the list never hides a record from a scan
that has begun.

`picker` compares the statistics with a record of what was seen. The vote of
`ThreadDist` is not quite Boyer and Moore's, and still finds every majority
(`VotesSound`). A free may be charged to the wrong site, but never so that a
site has more frees of libc chunks than allocations (`FreesConserved`); `seen`
charges it by the code's rule, the oldest site first, so the wrong charge as such is not
caught. The two
windows and the baseline of a compiled site are full, fully tracked and
statistically equal, whatever deoptimisations came before
(`CompiledOnEvidence`; it is about compile decisions, which do not read the
`post_window` that `reset_call_site` leaves behind). The oracle replay, although it
sees no guard failure, is ahead of the live analysis in every state, so its report is an
upper bound (`OracleUpperBound`), if the live knobs ask for no less than the
replay's defaults do (`KnobsNoLooser`); for others it is not, as reported below.
All strategies but the arena (which only `TBJIT_FORCE_STRATEGY` selects), both lifetime tags, drift, blacklisting,
histogram overflow, a failed compile and a second compilation occur in the run.

The bounds. Two threads are enough for every race named above: one inside a
page or a free while another reverts, retires or registers. A queue of one
entry makes it overflow; a `g_pending` of one overflows with the second page; an
index of two segments out of three makes the reaper's index overflow; a ring of two slots wraps and drops; a bootstrap arena of one
chunk is exhausted. In `picker` the budgets of events of each kind (`MaxAllocs`,
`MaxFrees`, `MaxResets`) allow three windows of one site and a second
compilation. Windows of three events need other thresholds than windows of a
thousand: Reap is at 20 %, the concentration of threads at 75, pairs at 15, and a
single size and the coverage of the learned classes at 100, where the code has
50, 95, 95, 95 and 90; Hold (10) and LIFO (95) are the code's. They are chosen so that each
strategy and tag occurs within the budgets; the proofs are for any percentages. The
critical values, likewise, suit three events. The table of sites is
never full there. In `tables` the sites share a home slot, the last one, so
that every search wraps around and passes other sites, and `MaxGeneration`
bounds installs. One call site is enough for the races on an entry; the
proofs cover any number. `MaxSlots`
bounds compilations (the code's own bound is 4096), `DeoptLimit` the number of
times a site is compiled again, `MaxEvents` the events of a thread, and mmap
runs out of `Pages` or `Segs`. Counters need no other bound: the generation and
the epoch grow only with compilations and guard failures. In `SegmentHeap` a
thread may wait for a segment that mmap does not have, and in `TraceRing`
nothing happens after the destructor, and in `Interpose` a call of libc waits
for memory or has aborted, and in `Picker` the events come to an end: these
runs do not check deadlock. The `CodeCache` and `SharedTables` runs do.

Runs that expect a violation show where a document, comment or test of the
repository promises more than the code does:

| Run | What happens |
|---|---|
| `cold_thread` | a thread before its 32nd malloc does not hold back reclamation; its page is unmapped under it |
| `double_reclaim` | two threads fail one guard; the page is unmapped twice, the second time as another routine's page |
| `heap_pc` | the count of a retired producer-consumer segment is too small |
| `tls_reuse` | a thread reuses the thread-local storage of one that has ended, and cuts the list of threads |

Other disagreements met while modelling, for which no run is kept.

* A guard failure that finds the queue full is dropped after the entry was
  reverted (`deopt.cpp:75`): the site stays in phase Compiled without a routine
  unless its sizes drift, where `deopt.h:19` says that `handle` restarts analysis.
* A page taken off the queue while `g_pending` is full is forgotten
  (`deopt.cpp:102`) and stays mapped for ever, where `deopt.h:24-25` says that it can be
  freed once all threads have checked in. `CondemnedReclaimed` without its
  exception (`Forgotten`) fails in `reclaimed`.
* `tbjit_replay` calls `init_state()` and not `init()` (`replay.cpp:72`), so the
  knobs `TBJIT_WINDOW_SIZE`, `TBJIT_STABLE_WINDOWS` and `TBJIT_KS_ALPHA`
  (`analysis.cpp:287-301`), which `bench/realworkload/sweep.sh` varies, apply to the
  live process only. It is said to be for reproducing the analyzer's decisions, and its
  `--oracle` result to be a true upper bound (`replay.cpp:3-4`, `14-17`). With a smaller
  window, fewer windows or a larger critical value live, a site can be Compiled live and
  not in the replay: with `LiveKnobs <- MCSmaller` in `Picker.cfg`, `OracleUpperBound`
  fails after four events.
* Once the destructor has begun, `realloc` passes managed chunks to libc
  (`trampoline.cpp:251`), where its own comment says that libc would abort on them
  (`trampoline.cpp:259`) and `free` tests for them (`trampoline.cpp:207`).
  `ReallocReachesOwner` holds until then.
* `alloc::alloc` reads and stores its cursor without synchronisation
  (`alloc.cpp:33-37`), so two threads that record their first event at the same
  time may get the same ring, which then has two producers; the repository's
  `README.md:32` promises per-thread rings.
* `reset_call_site` counts a deopt per queue entry, so that one cycle of two
  threads counts twice; `analysis.cpp:160-161` speaks of cycles. Drift is not
  counted at all.
* `dispatch.cpp:9` says that `install` and `revert` acquire a spinlock; there is
  none. `SharedTables` shows that one installer and any number of reverters do
  not need it.
* `analysis.cpp:38` says that the learned classes must cover 90 % of the events;
  four classes are used whatever they cover. `histogram.h:95-96` says that the
  modes are taken until their count exceeds the target; the code stops at the
  target.
* `lifo_stack` is not "last 16 outstanding allocs from this site"
  (`analysis.h:103`): allocations that were freed out of order stay on it.
  A free counts only if its address is on top of a stack, so nearly every pair
  is a LIFO pair and the LIFO ratio (`analysis.cpp:145-146`) decides little.
* "Events-to-specialize" of the dump is headed by the number of compiled sites
  but counts all that ever were compiled (`dump.cpp:167`).
* `record_alloc` stores the size in 32 bits and `process_event` takes size 0 for a
  free (`trace.cpp:67`, `analysis.cpp:344`): `malloc(0)` is analysed as a free of
  the block it returned, and a size of 2^32 + n as n. In `Picker` such events are
  members of `Frees`, or of `Allocs` with the narrowed size.
* A call site whose hash is 0 cannot be told from a free slot of the dispatch
  table (`dispatch.cpp:27`). `SharedTables` takes it that no site has that hash.
* In the shadow build an arena that is reset serves chunks again that were never
  freed, which the validator reports as a DUP; and a malloc that fails for lack
  of memory aborts (`shadow.cpp:57`).
* Drift found by `check_postspec` leaves the routine installed; the tracing
  design (`docs/plans/2026-05-06-tracing-pipeline-design.md:82`) goes through
  `deopt::handle`.
* A free that read `retired` before the retirement and pushes after it leaves
  its chunk on a queue that nobody harvests; `slow_init.cpp:138-139` says that
  such chunks are accounted via `live_chunks`. `CountExact` counts them, so
  nothing is lost but the segment is never reaped.
* `push` can return false for a push that made the ring non-empty, because it
  compares with a tail read earlier; `trace.h:16` says it tells the transition.
* The 4 MiB arena bounds the number of rings; the same design (line 11) says
  there is no limit. The threads of the model fit.
* When malloc fails inside a realloc of a managed chunk, the old chunk is freed
  all the same (`trampoline.cpp:271-273`).

Fairness. `CodeCache`: a malloc that has begun goes on (`InMalloc`; the paths
are straight lines and one mutex held for a few instructions), and the
background loop goes on, which includes that `drain_all` returns. Nobody is
obliged to call malloc; `CondemnedReclaimed` says what follows if all threads
do (`AllAllocate`). `SegmentHeap`: the background thread keeps sweeping. `TraceRing`: every
thread is scheduled and the one-second timeout of the futex fires. No property
assumes that a wakeup arrives, a program exits or a thread records.

## 4. Proofs

Each `...Proofs` module extends the module it is about and proves its results
for all values of the constants that satisfy the assumptions of that module.
Every inductive invariant was checked by TLC on the instances of section 3
first. A hypothesis of a theorem (`ASSUME`) excludes a situation in which TLC
finds the property violated: a thread before its first safe point
(`cold_thread`), the reuse of addresses by mmap (`double_reclaim`) and of
thread-local storage (`tls_reuse`), the miscounted segments of ProducerConsumer
routines (`heap_pc`), live knobs that ask for less than the replay's, and two
threads that get the same ring (section 3 for both).

| Module | Theorem | Property | Hypothesis |
|---|---|---|---|
| `CodeCacheProofs` | `TypeCorrect` | `TypeOK` | |
| | `CachesCoherent` | `CacheCoherent` | |
| | `PagesSafe` | `PageSafe` | `FreshMmap`, `Warm = Threads` |
| | `RegisteredThreadsSafe` | `PageSafe` for the threads in `g_thread_list` | `FreshMmap` |
| | `InstalledAlwaysMapped` | `InstalledMapped` | `FreshMmap` |
| | `GracePeriod` | `CondemnedUnreachable` | `FreshMmap` |
| | `StragglersPinned` | `StragglerPinned` | `FreshMmap` |
| `SharedTablesProofs` | `TypeCorrect` | `TypeOK` | |
| | `TableAlwaysSound` | `TableSound` | |
| | `TableRefinesMap` | `RefinesMap` | |
| | `ScansComplete` | `ScanComplete` | `ReuseBlocks = FALSE` |
| | `ListAlwaysEnds` | `ListEnds` | `ReuseBlocks = FALSE` |
| `TraceRingProofs` | `TypeCorrect` | `TypeOK` | `Overlap = FALSE` |
| | `FileAlwaysWellFormed` | `FileWellFormed` | |
| | `FinalDrainComplete` | `FinalDrain` | `Overlap = FALSE` |
| | `RingsRefineChannel` | `RefinesChannel` | `Overlap = FALSE` |
| `SegmentHeapProofs` | `TypeCorrect` | `TypeOK` | |
| | `ChunksNeverShared` | `NoDoubleUse` | `ExactReaping` |
| | `CountAlwaysExact` | `CountExact` | `PcBins = {}` |
| | `InUseAlwaysIntact` | `InUseIntact` | `PcBins = {}` |
| `InterposeProofs` | `GuardAlwaysExact` | `GuardExact` | |
| | `AlwaysResolvedBeforeUse` | `ResolvedBeforeUse` | |
| | `RecursionAlwaysBounded` | `RecursionBounded` | |
| | `FreesReachOwner` | `FreeReachesOwner` | |
| | `ReallocsReachOwner` | `ReallocReachesOwner` | |
| | `TypesAlwaysOK` | `TypeOK` | |
| | `ShadowAlwaysExact` | `ShadowExact` | |
| `PickerProofs` | `PickerInvariant` | the inductive invariant `PickerInv` | |
| | `PickerTypeOK` | `TypeOK` | |
| | `BlacklistFinalHolds` | `BlacklistFinal` | |
| | `CompiledOnEvidenceHolds` | `CompiledOnEvidence` | |
| | `OracleUpperBoundHolds` | `OracleUpperBound` | `KnobsNoLooser` |
| | `TalliedInvariant` | the inductive invariant `TalliedInv` | |
| | `VotesSoundHolds` | `VotesSound` | |
| | `FreesConservedHolds` | `FreesConserved` | |
| | `StrategyEarnedHolds` | `StrategyEarned` | |
| | `ReportAddsUpHolds` | `ReportAddsUp` | |

### CodeCache

The substance of `TypeOK` is that the queue and the pending list stay within
their capacities. For `CacheCoherent` the inductive invariant adds that a
generation loaded or cached is not ahead of `g_generation`, and that a thread
about to look up with the current generation is in the same situation as a
cache that holds it. The other five rest on `FreshMmap`, that mmap does not
return the address of a code page twice. `PageSafe` also needs every thread
to be registered from the start; but a registered thread is safe from its
first safe point on, whatever the others are (`RegisteredThreadsSafe`), and the dispatch table, the grace period and the epochs are right even
when no thread is registered.

The argument for the pages. A thread in a page, or about to enter it through a
stale cache, read the generation before the page's revert bumped it; its last
safe point is older than that. A queued page is in no table entry and in no
cache that the check would accept, so from the moment it is queued the set of
threads that can reach it only shrinks. The epoch stamped on it is read after
that moment, so each of these threads published an epoch not above the stamp,
or has loaded one and will publish it before it reads the generation again.
The minimum that the scan computes, which covers every registered thread, is
therefore not above the stamp as long as one of them is left, and the page is
unmapped only when the minimum is above it. The invariant carries this through
the scan: for threads already scanned, `minEpoch` is bounded by an epoch they
published.

### SharedTables

`TypeInv` adds to the types that each actor runs its own code and searches for a
site. `TableInv` says that every taken slot is reached by the probe sequence of
its site (all earlier slots of the sequence are taken), and what an actor knows of the
slots it has passed. Slots are never freed, so this knowledge stays true under
the writes of others. A search of the whole table without result would mean that
all slots hold other compiled sites: impossible by pigeonhole, since there
are at most as many compiled sites as slots. `MapInv` is what
the refinement of `RoutineMap` needs: a lookup that came to a free slot, or found an id
and not yet the routine, has in `seen` everything it can still return. For the list of threads, reachability
is stated without recursion: a set that contains the head and that no link
leaves contains every registered record, and a set of records from which no
link leads out is empty (no cycle). `ScanComplete` follows from the first with
the scan's cursor in place of the head, and `ListEnds` from the second:
following `Cardinality(Blocks)` links without reaching the end would visit as many
different blocks and one more. `SharedTables` assumes that the blocks of
thread-local storage are finitely many and that `"bg"` is not the name of a
thread.

### TraceRing

`FileWellFormed` only needs that nothing is recorded before the header has been
written and that the file is closed after the background thread has ended. For
the others the hypothesis `Overlap = FALSE` says that two threads do not record
their first events at the same time; otherwise the arena may give them the same
ring, as section 3 reports. The invariant has seven parts besides the types. `OwnInv`: the rings below the arena
cursor and the threads that have one correspond one to one. `ListInv`: links lead from linked rings to linked
rings, and the list holds all of them (with closed sets, as above). `ProducerInv`:
the indices a producer has read still leave it a free slot, since the consumer
only makes room. `OrderInv`: a ring holds events of its thread, in increasing order and later than
those in the log. `ConsumerInv`: the consumer's copy is the oldest event of a ring that is
not empty. `MainInv`: the stages of the constructor and the
destructor. `DrainInv`: a ring that the final walk has behind it gets at
most one more event, that of a record call which had passed the shutdown gate.
Slots do not collide because indices less than `Capacity` apart differ modulo
`Capacity` (`SlotsDiffer`). For the refinement, a store of `head` appends the
event to the queue of its thread, a store of `tail` removes the first one, a
load of the indices that finds the ring full is the channel's `Drop` (the ring is full at
that moment, since the tail is read there), and every other step leaves all queues
as they are.

### SegmentHeap

`TypeOK` needs only that a remote queue holds chunks of its own segment and that
the index is finite. The other three need all of `IInv`:

* `RefillInv`: a refill works on a bin whose list is empty or whose region is
  used up, and the count it is about to store is the size of the segment;
* `ActiveInv`: a mapped segment that is not retired is the active segment of the
  bin of the thread that carved it, and of no other;
* `ListInv`, `FreeInv`: a free list holds chunks of its bin's active segment; a
  remote queue holds chunks of its own; the program and the frees in
  progress hold chunks of mapped segments; and a free that goes on to count its
  chunk off has found the segment retired, as it stays;
* `ApartInv`, `ServedInv`: no chunk is in two of these places, and none beyond
  the bump pointer is in any;
* `CountInv`: `live_chunks` of a retired free-list segment is exact, and before
  its retirement none of its chunks is missing from program, frees, queue
  and list together;
* `ReapInv`: what the reaper has picked, unregistered or decommitted is
  abandoned: retired, and no chunk of it is in anybody's hands.

The argument for the count. When a refill finds both the list and the queue
empty, every chunk of the segment is with the program or in a free that is
under way. The owner is inside the refill, so the list stays empty until the
flag is set, and chunks that others push meanwhile are still counted, on the queue. So at the moment
of `SetRetired` the count stored before is right, and from then on only
`DecLiveChunks` changes either side, both by one; it cannot wrap, since the chunk it
takes off is one of those counted. A free that read the flag too early
pushes and strands its chunk, which keeps the count above zero. A count of zero
therefore means that nobody has a chunk of the segment, and nobody can get one,
as only the lists and regions of active segments hand out chunks.

`PcBins = {}` excludes routines of the strategy ProducerConsumer, whose count is
too small (`heap_pc`), so that segments are taken under chunks in use. `ExactReaping` allows them as long as the reaper
only decommits (`Madvise`): then a segment's address is never used
again, and no chunk gets a second holder even if its contents are lost.

### Interpose

Frames are numbered from the bottom of a thread's stack (`Up`), so that a call
or a return leaves the numbers of the others alone. `RouteInv` has the types of
all variables but `shadow`, and

* `CallsInv`: which frames can be where (`FrameShape`), which call can wait for
  which (`Waits`), no resolve at the bottom, and at most one frame of a stack in a
  guarded section, with the guard set exactly if there is one;
* `LifeInv`, `ReadyInv`: what has been resolved when a call is where it is; once
  `g_initialized` is set, all three functions; before, nothing is managed.

The first three theorems follow. A call of malloc or free in a guarded section makes no further
call, so a guard found set by a call outside such a section is that of a resolve
below it on the stack. A second resolve of the thread therefore returns at once:
at most a realloc, a malloc and a resolve, the calls of dlsym, again a realloc, a malloc and a
resolve.

`OwnerInv` adds who has an address. `SegmentsInv`: what the pagemap recognises,
and what the reaper has unregistered, is a segment's. `PlacesInv`: an address in
the hands of the program, of a call, or lost is live (libc's, or recognised by the
pagemap), and in one place only. `CallsOwner`: a call that has chosen an
allocator has chosen the right one; and the argument of a call on the direct
path, or made by dlsym, is not managed, since it was passed before
initialisation ended. The last is what makes the shortcut `guard -> libc` of
`free` and `realloc` right: the guard is set there only below dlsym. An address
that is live and not managed is libc's, and it stays so until the call that has
it gives it back, because the reaper and libc only change addresses that nobody
has.

The shadow validator's table. `Exact` says that a search finds every entry; for
a table without duplicates this means that no slot is empty between an
entry's home and its place (`Clear`, measured by `Dist`, the distance in the order
of probing). `PlaceOK` is direct. `EraseOK` is about a loop: `Repack` takes
out and puts in again what follows the emptied slot `h`. Its invariant is
`Loose(table, h, k)`: only `h` can be empty where an entry needs it taken, and only
for entries that are `k` or more slots behind `h`, those the loop has yet to
reach. An iteration either puts the entry back where it was and goes on to `k + 1`,
or moves it to `h` and starts again with the slot it left as the hole
(`LooseStep`). The second shortens the sum of all entries' distances from
home (`Shift`), the first the way left around the table, so the loop ends; and
where it ends, at an empty slot, nothing depends on the hole (`LooseEnds`).
`Repack` is a recursive function on tables that may not be in order at all; that
its equation has a solution, so that it can be unfolded, follows from its being
tail-recursive (`TailRecursion`: pass on the answer of the place where the
iteration ends, and any answer if it does not).

`RecordInv` says that an address is on record exactly if it is managed and in
the hands of the program, of a call that keeps it (`Keeps`), or among the
dropped chunks. A malloc keeps nothing before it returns, a free nothing once it has
passed `ValidateFree`, a realloc its result, and its argument until it is done. It
also says that a realloc waiting for malloc has no result yet (`Fresh`), or
the return would lose one. With `PlacesInv`, that an address is in one place
only, the chunk malloc has been given is not on record, the one free is about to
remove is, and the one the reaper takes is not. The table can be full: the
validator then says so, and since every entry is a managed chunk in use, it does
when as many chunks as slots are in use at once.

`FreeReachesOwner` relies on `ReapUnregister`, that the reaper takes only segments
with no chunk in use. That is `InUseAlwaysIntact` of `SegmentHeapProofs`, so it is not
for programs with ProducerConsumer routines.

### Histogram, Picker

`PickerInv` couples, entry by entry, the live table with the oracle's
(`Coupled`). `WindowsOK`: while a site is not Compiled its active window is not
full, the other one is either unused or full, and the windows so far have been
paid for by allocations; a Compiled site has two full windows that passed the
test, one of them its baseline. `Mirrors`, under `KnobsNoLooser`: until the oracle
compiles a site, the live site is in PreSpec with the same windows and no more of
them stable in a row. Windows that pass the live test pass the oracle's, whose critical
value is not smaller (`KsStableMonotone`). That is the point of
`OracleUpperBound`: a guard failure takes the live site back to an empty start
and leaves the oracle's alone, and the live site cannot be ahead. `Barred`: a
blacklisted site is not Compiled. `Accounted`, on windows, says that the counts
of a histogram add up to its total unless a size was turned away; the KS test
fails such a window, hence `CompiledOnEvidence`.

`TallyInv` relates the summaries to `seen`. `Leads` is the strengthening of
`VoteSound` that is inductive for the majority vote: for everyone but the leader
`2 * counts[x] + score <= total + 1`, for the leader
`2 * counts[x] <= total + score`. The `+ 1` is there because a new leader starts with
score 1 when the old one is voted down. `FreesConserved` is inductive
together with the types: a free by address pops the stack onto which an
allocation pushed the address. `StrategyEarned` follows from `Leads` before
the step, since a strategy is chosen from the votes. `ReportAddsUp` needs
`TotalsOK`, that the events of the summaries add up to those seen.

The percentiles of the dump are stated by rank: `CompileAt(k)` is the least
value that more than `k` of the sites' values do not exceed, which is entry `k`
of the sorted array. Quantiles of a histogram are in order for the same reason:
the least size that reaches a larger share is no smaller. No more modes are
learned than asked for (`TopKModesBounded`): all the others taken are ahead of the
mode that has most sizes ahead of it, and these are fewer than `k`.

`PickerAssumption` includes that there are finitely many different events and that
sizes are natural numbers. `StrategyEarned` speaks of picks that are not forced by
`TBJIT_FORCE_STRATEGY` (`Forced` is `"Generic"` without it).

Sums and induction. The library's induction theorems take an operator for a
parameter, so they cannot be used; but a property of the finite subsets of a set
can be given as the set of those subsets, and `SubsetInduction` states the
induction for such a set. It is proved from the well-foundedness of the natural
numbers by a counterexample of least cardinality. `FiniteSums` derives with it that
the recursion behind `SumFunctionOnSet` defines a function and that any member may be
taken out first, and from these the facts on sums that the proofs cite.

### Only model-checked

* Liveness: `CondemnedReclaimed`, `ReturnedReaped`, `NothingWaits`. Fairness and
  ENABLED are out of the prover's reach.
* `EraseTakesOneOut` is `EraseOK` on small tables, by evaluation.
* The four runs that expect a violation: the counterexamples are TLC's.

No module has a RECURSIVE operator. Recursive functions have a single argument
(a record where there are two values), because the prover cannot use
others. `Nth` in `SharedTables` is recursive, but what the proof needs of it
follows from its defining equation and the least-number principle (a smallest
index at which two members are equal).

## 5. State of the work

All modules of section 2 are written, checked and proved about as section 4 says.
What could be added, in the order of its worth:

1. the arena's exhaustion: `TraceRing` takes it that all rings fit;
2. a malloc that fails inside a realloc of a managed chunk: libc does not run out of
   memory in `Interpose`;
3. `CodeCache` with `SharedTables` in place of the map and of the set of threads
   that stand for them, in one composed specification. Today the refinement
   `TableRefinesMap` and `ScansComplete` justify the two abstractions separately.

## 6. Not modelled

* Instruction encoding in `emitter.cpp`: bytes of code, which the integration
  tests execute; what the routines do is in `CodeCache` and `SegmentHeap`.
* `tools/bound_bench.cpp`, `bench/` and the Python and shell scripts: they time
  the allocator or plot its output, and have no state that could be wrong.
* Text layout of the dump, `%p` in its path, and the two counters of the
  trampoline it prints.
* Huge pages and the alignment of segments (`segment.cpp`): policies towards the
  kernel without an effect on which chunk is whose.
* Exhaustion of the internal arena and of memory; weak memory orders (memory
  is sequentially consistent in all modules).
