# memgen in TLA+

memgen estimates the DRAM traffic of an inference workload on a GPU. HBServe
expands a sampled profile into the memory instructions of every kernel; the
Memgen backend sends their sector requests through a model of the L1 and the L2
and writes the DRAM requests that are left. The profile itself is fitted to the
memory instructions of a few traced CTAs of each kernel, and the SGLang
integration runs the sampling, the fitting and the cache jobs. This directory holds TLA+ modules
for the parts of that program whose correctness depends on order, on two copies
of one state, or on two threads, with the TLC runs that check them and the
proofs that TLAPS checks.

C++ sources are named by their file under `release/source/tools/`:
`hbserve...r17.cpp` stands for `hbserve_profile_stream_cache_semantic_r17.cpp`,
`...r4_semantic.cc` for `hyfiss_request_trace_generator_stream_r4_semantic.cc`.
`r15` is `release/workflow/hyfiss_sampled_sass_trace_profile_rules_r15.py`; the
runners r1, r5 and r6 are `release/workflow/run_workload_profiles_*.py`; the
rest of the Python lies under `integrations/sglang/`.

## 1. Inventory

| Component | State | Operations | Interacts with |
|---|---|---|---|
| `BufferedWorkloadSource` (hbserve...r17.cpp) | ring of slots, indices, count, flags, stored exception; the consumer's held slot | producer thread `produce`; `begin_next`, `next_inst`, `finish`, `cancel_and_join` | generator (calls), backend (callbacks), one mutex and two condition variables |
| `KernelGenerator`, `WorkloadSource` | heap of cursors per CTA, position in the profile list | `begin_next`, `next`, `next_inst` | called by the producer thread |
| `SectorLruCache` (...r4_semantic.cc) | sets of line entries in LRU order; per sector valid, reserved, dirty, known bytes, two time stamps | `access`, `drain_dirty`, `drain_eligible_dirty`, `clear`, `save`, `load` | kernel loops, checkpoints |
| L2 write-back path and `SemanticTrafficLedger` | producer of each dirty sector, kernel base and last time | `process_inst`, `drain_l2_dirty`, `flush_l2_dirty`, `begin_kernel`, `end_kernel` | all L2 slices, request output |
| `R4L1ReadFilter` (r4_l1_read_filter.h) | allocations, memoised allocation, per SM and set: slots, tag map, hand | `begin_kernel`, `require_sector`, `access` | `process_inst` |
| Checkpoints (cache_checkpoint.h) | files: pending directory, payload, hard link | `save_cache_checkpoint`, `load_cache_checkpoint` | file system, other writers |
| Profile fitting: r15, `sglang_sample_to_packed.py`, CTA plans, `profile_census.py` | per kernel: samples, slots, structural classes, one address rule per instruction | `cta_plan`, `fit_*`, `profile`, `generate`; `fit`, `validate_samples`; `count_profile` | captures (input), `KernelGenerator` (reads the profile) |
| Profile runners r1, r5, r6 | futures, window, results held, pack, index, manifest | submit, wait, yield in order, append, publish | process pool, file system |
| Sampling job (`sample_pipeline.py`, `stream_consumer.py`, `packet_stream.py`, `ram_capture.py`, `full_source_postprocess.py`) | three children, two pipes, captured frames, rows, receipts | spawn, capture, qualify, replay, fit, commit, reap | pipes, signals, marker and receipt files |
| Sampler runtime (nvbit_sampler_r4) | launch state; receiver flags | `prepare`, `complete`, `context_end`, `recv_loop` | raw pipe, receiver thread, GPU |
| Case matrix queues (`batch_prepare.py`, `cache_queue.py`, `run_job.py`) | state files, case entries, controllers, CPU leases | `execute`, `run_job`, observer thread, stop, restart | processes, signals, lease server |
| Layer expansion (`expand_profiles.py`) | observed tensors, cursor of private pages | `normalize_backend_rules`, `rule_bounds`, `Binder.mapping`, `Binder.rebind` | fitted profiles (input), `KernelGenerator` (reads the moved ones) |
| Orchestration (`wait_then_sample.py`, `followthrough.py`, `run_memgen.py`) | progress file | wait, compare hashes, start jobs | external processes |
| Parsing, configuration, observation, audits, fixtures | none that outlives a pass | sequential | files |

The hard behaviours are: two threads over one ring with slots used outside the
mutex and errors on both sides; the L2's dirty state kept twice, in the caches
and in the ledger, through evictions, cleaning, flushing and clearing; partial
stores over reads in flight; a checkpoint that must restore exactly what it
saved; a hash map and an array that describe one set; a memoised lookup that
outlives the read it was made for; rules fitted in one language and evaluated
in another, for CTAs nobody traced; results of a pool that finish in any order;
three processes and two pipes of which each may fail; two queues, an observer
thread and killed controllers over one directory. `PROJECT.json` lists each at
its line under `hazards`, with the properties that would catch it.

What makes each component correct:

* the ring: no data race on a slot, records in order and exactly once, errors
  after the records that precede them, no thread left asleep;
* the L2 and its ledger: same dirty sectors at all times, no stored byte lost,
  evictions that never drop incomplete data, exact checkpoints, a drain that
  respects its watermark, target and limit;
* the R4 filter: hits exactly what the SM read in this kernel and has not lost
  since, accepts exactly the spans inside one allocation;
* fitting: what is admitted describes the whole kernel, what cannot be described
  is refused, a complete capture never is;
* layer expansion: a kernel of another layer is the sampled one with its objects
  moved: tensors to their counterparts, private objects to pages of their own;
* the generator: records in order of time with a total tie-break, at the
  addresses that the fit meant;
* checkpoints: a file of the final name is complete, whatever crashed;
* profile runners: results in order, bounded window, files that agree wherever
  the run stops, a verdict unless it is killed;
* sampling job: accepted profiles come from exactly the records that the device
  pushed, over a transport known to be good; nobody waits for ever;
* queues: a case's test is started at most once, state files tell no untruth,
  both queues come to an end.

## 2. Modules

| Module | Models | Role |
|---|---|---|
| `OrderedStream` | - | abstract: records delivered in order, exactly once; complete only after the end |
| `BufferedSource` | `BufferedWorkloadSource`, `run_memgen`'s use of it | implements `OrderedStream` |
| `BufferedSource_proofs` | - | TLAPS proofs about `BufferedSource` |
| `SectorCache` | `SectorLruCache` as functions on one set | used by `L2Writeback` |
| `L2Writeback` | L2 part of `process_inst`, kernel loops, ledger | state machine over the caches |
| `L2Writeback_MC` | - | values for TLC |
| `L2Writeback_proofs` | - | TLAPS proofs about `SectorCache` and `L2Writeback` |
| `ReadFilter` | - | abstract: what an L1 read filter promises |
| `R4L1Filter` | `R4L1ReadFilter` | implements `ReadFilter` |
| `R4L1Filter_MC` | - | values for TLC |
| `R4L1Filter_proofs` | - | TLAPS proofs about `R4L1Filter` |
| `Extremes` | - | TLAPS lemmas: `Min` and `Max` of sets of numbers |
| `OrderedLedger` | - | abstract: results recorded in the plan's order, then one verdict, `pass` only with all of them |
| `ProfileRunner` | `run_workload_profiles_*` r1, r5, r6 | implements `OrderedLedger` |
| `ProfileRunner_proofs` | - | TLAPS proofs about `ProfileRunner` |
| `SamplePipeline` | the sampling job: host, consumer, fitter, parent | implements `OrderedLedger` |
| `SamplePipeline_proofs` | - | TLAPS proofs about `SamplePipeline` |
| `MatrixQueues` | `batch_prepare.py`, `cache_queue.py`, `run_job.py` | two queues composed over shared leases and outputs |
| `MatrixQueues_proofs` | - | TLAPS proofs about `MatrixQueues` |
| `ProfileRules` | address rules: fits, evaluation in Python and in C++, CTA plans | used by `ProfileTrace` |
| `LayerBinding` | `expand_profiles.py`: lowering, bounds, tensor counterparts, private pages | used by `ProfileTrace` |
| `ProfileTrace` | r15 `profile` and `generate`, `fit` of `sglang_sample_to_packed.py`, `KernelGenerator`, the sector census, `Binder.rebind` | one kernel, from samples to its whole trace, there or in another layer |
| `ProfileTrace_MC` | - | kernels for TLC |
| `ProfileTrace_proofs` | - | TLAPS proofs about the merge of `ProfileTrace` |

### BufferedSource

One action per critical section (`ReserveWrite`, `Publish`, `AcquireReady`,
`ReleaseHeld`, `ReleaseRead`, `SetProducerDone`, `CatchProducer`, `Cancel`) and
per access outside the mutex (`BeginKernel`, `FillSlot`, `ReadSlot`, the
notifications). `ppc` and `cpc` are the two threads' places. A thread whose
wait predicate is false is "asleep" until it is notified, or wakes for no
reason. `Finish`, `JoinDone` and `JoinNoexcept` are the places where
`run_memgen` ends; a backend failure may come between any two calls, a source
failure in any call of the source. `log`, `threw`, `received` and `last` are
history variables; the payload of an instruction is its position in `log`. The
join before the end of the stream reads the stored exception without the mutex,
after the producer has exited: `JoinDone` waits for that.

### SectorCache and L2Writeback

A set is a sequence of entries, most recently used first. `Access`,
`DrainDirty` and `DrainL2` return the new set, the entries or sectors handed on
for writeback, and whether the code throws. Every request of both backends is
one sector (`assign_coalesced_sectors` splits instructions), so the model's
requests have one sector and the bytes of it they touch. Further abstractions:

* the slices are concatenated: a set of the model is a set of some slice, in
  the order in which the drain visits them; the hash that finds a line's slice
  and set is the constant `SetOf`;
* a writeback is the set of its sectors: the splitting into contiguous spans
  only changes how many requests carry them;
* the time of a request is any from the kernel's base on, as the sm-major and
  hyfiss orders permit; a read the L1 answers moves only the kernel's last time;
* only the write-back DRAM policy, which is the one with dirty state;
* whether the L2 is kept or cleared between kernels, flushed or drained at their
  end, and whether requests may stream is the variable `policy`, chosen once from
  the constant `Policies`;
* `evict_one` refreshes entries that the walk has already refreshed at the same
  time; the second refresh changes nothing and is left out;
* an exception ends the run, in `failure`; the state it leaves is not used again;
* the command-line backend has no ledger: in its configuration `owners` is a
  history of which sectors have been stored to and not written back, and its
  boundary check is the model's, not the code's;
* `stale` is a history variable: the bytes whose last store memory lacks.

### R4L1Filter

`BeginKernel` validates and installs an allocation list, `Access` is
`require_sector` and the CLOCK lookup, `RequireSector` the check alone, as made
for stores. Addresses are bytes of a small memory; slots and allocations count
from 1; the limits at 2^32 and 2^64 in the address checks are not modelled, and
the set hash is the constant `Index`. `std::sort` leaves lists of equal bases in an
unspecified order, so `ByBase` is a set of orders. `answer` records the last outcome.

### ProfileRules, LayerBinding and ProfileTrace

`ProfileRules` has no state. A fit takes the training points as a function from
CTAs to addresses and returns a rule or `NoRule`; `PredictBase` evaluates a rule
as Python does, `ParseRule` and `AddressBase` as the C++ generator does. A rule is
a record whose fields are those of the JSON object; a field a rule lacks is
missing from the record, as it is from the object.

`LayerBinding` has no state either: what `expand_profiles.py` does to a rule
(`Normalized`, `Translated`), how it bounds a rule's addresses without listing them,
which tensor of the target layer corresponds to one of the source layer, and where
private objects go. A layout is its number of bytes; a label's context of module
calls is its layer. The cursor of private pages is kept from launch to launch:
`w.taken` is what earlier launches took, any number of whole pages.

In `ProfileTrace` a workload is a kernel as it really runs: for every CTA its
memory instructions with signature, base address and time, and its SM and start
time. Only the CTAs of the plan are sampled. `Profile` is a whole fitter, which
admits or refuses; `Rebind` moves the profile to another layer, or lowers its rules
for its own; `Open`, `Emit`, `Close` are a generator: `who` is the C++ stream, the same
stream behind the expansion, or the Python text. `heap` is a set, whose least element is popped. Abstractions:

* an instruction has one address group; lane offsets, opcode, mask and pc are
  its signature; it touches `Span` bytes;
* the samples are what the CTA executed: the sequence audit that refuses captures
  with losses is left out (for SGLang the transport is `SamplePipeline`'s);
* the rules' arithmetic is unbounded in Python and checked in C++ (`Refused`);
  only the cursor's time wraps, at `WordSize`;
* schema 12's selector and the one kernel that `cta_plan` knows by its name are
  left out.

### ProfileRunner

The main thread's places are `pc`; `fut` are the futures of the executor, taken and
finished by `WorkerTakes` and `WorkerReturns`, in any order; `WorkerDies` breaks the
pool. `runner` chooses the generation of the script. `SubmitAll` and `PullMapped` are
`executor.map`, `FirstFill`, `WaitFirstCompleted` and `YieldHead` the look-ahead window,
`PullSerial` the loop without a pool. Appending to the pack, appending to the
index and saving the manifest are separate actions, so `Killed` stops between any
two of them.

### SamplePipeline

One action per frame or row that a process writes or reads, per exit and per
step of the parent. A frame is known by its kind, kernel and number; the
sampler's own hashes hide a frame lost before it was hashed, so the reader's
counts must find it (`SamplerFault` loses, repeats or swaps frames). `ChildCrashes`,
`HostHangs`, `MarkerTimeout`, `BudgetSpent`, `Interrupted` and `Killed` are the failures the
scripts handle. `quality` says how a kernel's records lend themselves to a fit.

### MatrixQueues

`Meta` is `batch_prepare.py` and `Cache` a worker of `cache_queue.py`, with its observer
thread; `Child` are the controllers (`run_job.py`) with the lease they hold. Signals,
the wall bound, refused leases, killed workers (whose controller becomes an
orphan) and a restart with a new state directory come between any two steps.
`saved` is the worker's state file, `starts` a history of started tests. The lease
server belongs to the vendored controller: a lease is held by one process and is
free again when that process ends.

## 3. Runs

| Run | Configuration | Properties | What it shows |
|---|---|---|---|
| `buffered_source` | ring of 2, up to 7 records | `TypeOK SlotExclusive NoProtocolError DrainedBeforeError StreamOrder Termination` | all interleavings, failures and cancellations of the two threads |
| `l2_production` | 3 lines, 2 ways, partial stores, latency 0, L2 kept, with and without streaming and a limited drain | `TypeOK LedgerAgrees NothingLost CheckpointExact EvictionPossible DrainExact` | the backend as `run_memgen` configures it, and with what the command line adds |
| `l2_slices` | 2 sets, 2 sectors per line, whole-sector requests, the command line's drain | `DrainExact` | the drain budget over slices, positions, sectors |
| `l2_latency` | latency 1, L2 cleared between kernels, with and without a flush | `LedgerAgrees NothingLost CheckpointExact` | reads in flight against stores, evictions and the flush; discarding dirty data together with its producers |
| `r4_l1_filter` | 1 SM, 1 set, 1 to 3 ways, 4 lines, lists with gaps, cut ends and errors | `TypeOK LookupExact NewestProtected SpanExact ReadsFiltered` | the filter over any sequence of kernels and reads |
| `profile_runner` | 6 rows, 2 workers (window 4), three generations | `FilesAgree LookAheadBounded LedgerSpec VerdictPublished` | every order of completion, failed profiles, dead workers, kills |
| `matrix_queues` | 2 cases, one restart | `JobsExclusive CacheAfterGraph ReportTruthful VerdictsKept` | queues, observer, controllers, stop signals, an orphan from a killed worker |
| `matrix_queues_end` | 2 cases, no restart | `QueuesEnd` | neither queue waits for ever |
| `sample_pipeline` | 2 kernels of 2 records, pipes of 1, one fault of the stream | `TypeOK PassMeansExact ProfilesSealed LedgerSpec PipelineEnds` | the sampling job with any failure of any process |
| `profile_trace` | some 9600 kernels on 17 grids, both fitters, both generators, six sets of tensors | `StreamOrdered TraceRegenerated CensusExact CompleteGridAdmitted LayerRebound` | from samples to the whole trace, in its own layer or another |
| `profile_text` | the same | `TextOrdered` | violated: see Findings |
| `profile_rows` | kernels whose rows differ, linear in the CTA number | `SampledAddressesExact` | violated: see Findings |

Bounds. `MaxItems` = 7 gives two kernels with an instruction and more records
than slots, so indices wrap several times with the ring full and empty.
Three lines over two ways are the smallest instance with evictions that depend
on recency; two bytes distinguish partial from full sectors; `MaxTime` = 1 and
`MinAge` = 1 put young and old dirty sectors side by side, over any number of
kernels that start at time 0 or 1. `l2_production` limits its drain to one
sector per kernel, `l2_slices` does not limit it. Four lines over one to three ways make the CLOCK hand pass referenced
and unreferenced lines, turn fully, and stop with one way; the lists of
allocations have ends inside a line, a neighbour directly behind, a gap, and
two refused forms. Sms = 1 suffices because nothing is shared between SMs but
the allocations. Six rows over a window of four let the window refill twice
behind a slow head. Two kernels of two records over pipes of one make every
process wait for the next, and one fault is enough to break each rule of the
reader. Two cases are needed for the observer of one to meet the other.

The kernels of `profile_trace` are written from layouts - linear in the
coordinates, a table in y, a step at half of z, tiles and groups of x, x's digits
exchanged - and not from the rules that are to find them; the grids are the
smallest on which each fit has the points it requires. To these come single
sampled CTAs that deviate, plans that two widths explain equally, CTAs with
other instructions by row or one by one, and merges with ties, equal signatures
and starts near the end of the clock (`WordSize` 8 for 2^64; addresses up to
511, sectors of 2 bytes). The kernels that are moved see no tensor, one for all,
two with instructions across both, a shared one beside another layer's, one of
another layout and an ambiguous one; pages have 4 bytes and run out in some. What they leave out, no program could find: a CTA that was
not sampled and follows no layout. The kernels are therefore exhaustive in the
small grids and representative in the large ones.

Deadlock is checked in every run but four: the ring, the runners, the sampling
job and the queues have a step for a program that has ended; the R4 filter and the L2
with fills that complete at once never stop. `l2_latency` sets `CHECK_DEADLOCK
FALSE` because an eviction of incomplete dirty data ends the run with an
exception, the three runs of `ProfileTrace` because an expansion ends.

Fairness. `BufferedSource`: weak fairness of each thread, since both are
operating-system threads and neither blocks while it holds the mutex; nothing is
assumed of spurious wake-ups, of the source being finite beyond the bound, or of
failures. `ProfileRunner`: weak fairness of the main thread, of an idle worker
taking a call and of a profile's computation, which is a finite pass; workers
need not die. `SamplePipeline`: weak fairness of each process and of the death of
a child that was sent a signal; time need not pass, except that the budget is
spent in the end when the host hangs (the parent polls a clock). `MatrixQueues`:
weak fairness of the queues, the observer, every controller (each runs its test
under a time limit) and the wall bound; strong fairness of `PollGivesUp`, because
an admission that is retried for ever exceeds `maximum_resource_wait_seconds`.

### Findings

* `profile_text`: for a complete profile with one class, `generate` (r15:1917)
  sorts the template once, by the anchor's times, and gives each CTA its own
  times (r15:1921). A CTA that executes in another order than the anchor is
  written out of the order that the manifest states (r15:1984). The C++ generator
  sorts per CTA (`order_for`), and `StreamOrdered` holds of it.
* `profile_rows`: when the rows of a grid are classes of their own,
  `sglang_sample_to_packed.py` may fall back to `fit_affine`, one stride per flattened
  CTA number. Its sample check evaluates the rule with that number and passes;
  `address_base` (hbserve...r17.cpp:985) multiplies the same stride by the x
  coordinate, so that CTAs of every row but the first get other addresses. This is
  so where the profile goes to the backend as it is, in the isolated diagnostic of
  `run_model`, which compares counts and, for complete grids only, digests.
  `expand_profiles.py` (116-117) knows of the difference and lowers such rules first:
  of its output `TraceRegenerated` and `LayerRebound` hold, these kernels included.

Every property has a mutant in `PROJECT.json`: a change of one mapped
definition, defined beside it, under which TLC finds the property violated.

## 4. Proofs

Six components have an inductive invariant `IInv`, a lemma per action that shows
that the action preserves it, and theorems that follow. Each holds for every
value of the constants; the last column names the property that a run checks on
a small instance.

| Module | Theorem | Statement |
|---|---|---|
| `BufferedSource_proofs` | `Invariance` | `Spec => []IInv` |
| | `TypeCorrect` | `Spec => []TypeOK` |
| | `RaceFreedom` | `Spec => []SlotExclusive` |
| | `ProtocolKept` | `Spec => []NoProtocolError` |
| | `ErrorComesLast` | `Spec => []DrainedBeforeError` |
| | `Refinement` | `Spec => StreamOrder` |
| `R4L1Filter_proofs` | `Invariance` | `Spec => []IInv` |
| | `TypeCorrect` | `Spec => []TypeOK` |
| | `MapExact` | `Spec => []LookupExact` |
| | `SecondChance` | `Spec => []NewestProtected` |
| | `SpansExact` | `Spec => []SpanExact` |
| | `Refinement` | `Spec => ReadsFiltered` |
| `L2Writeback_proofs` | `Invariance` | `Spec => []IInv` |
| | `TypeCorrect` | `Spec => []TypeOK` |
| | `ProducersKnown` | `Spec => []LedgerAgrees` |
| | `StoresKept` | `Spec => []NothingLost` |
| | `EvictionNeverThrows` | `Spec => []EvictionPossible` |
| | `CheckpointRestores` | `Spec => []CheckpointExact` |
| | `DrainStops` | `Spec => DrainExact` |
| `ProfileRunner_proofs` | `Invariance` | `Spec => []IInv` |
| | `TypeCorrect` | `Spec => []TypeOK` |
| | `FilesAlwaysAgree` | `Spec => []FilesAgree` |
| | `WindowHolds` | `Spec => []LookAheadBounded` |
| | `Refinement` | `Spec => LedgerSpec` |
| `MatrixQueues_proofs` | `Invariance` | `Spec => []IInv` |
| | `TypeCorrect` | `Spec => []TypeOK` |
| | `RunsExclude` | `Spec => []JobsExclusive` |
| | `GraphFirst` | `Spec => []CacheAfterGraph` |
| | `ReportsTrue` | `Spec => []ReportTruthful` |
| | `VerdictsFinal` | `Spec => VerdictsKept` |
| `SamplePipeline_proofs` | `Invariance` | `Spec => []IInv` |
| | `TypeCorrect` | `Spec => []TypeOK` |
| | `SealedProfiles` | `Spec => []ProfilesSealed` |
| | `PassComplete` | `Spec => []PassMeansComplete` |
| | `ExactPass` | `Spec => [](faults <= 1 => PassMeansExact)` |
| | `Refinement` | `Spec => LedgerSpec` |
| `ProfileTrace_proofs` | `Invariance` | `Spec => []IInv` |
| | `StreamInOrder` | `Spec => []StreamOrdered` |
| | `Faithfulness` | `Spec => []Faithful` |
| | `CompleteAdmitted` | `Spec => []CompleteGridAdmitted` |
| | `Tracing` | `Spec => []Traced` |
| | `SamplesRegenerated` | `Spec => []SampledRegenerated` |
| | `CompleteRegenerated` | `Spec => [](Complete(w) => TraceRegenerated)` |
| | `Fitting` | `Spec => []Fit` |
| | `CompleteCounted` | `Spec => [](Complete(w) => CensusExact)` |
| | `Rebinding` | `Spec => []Moved` |
| | `CompleteRebound` | `Spec => [](Complete(w) => LayerRebound)` |

`TypeOK` of the runners and of the queues is stated for the proofs and is in no
run of its own; `PassMeansComplete` is defined in `SamplePipeline_proofs`. The
invariants were model-checked on the runs' instances before they were proved.

### BufferedSource

Assumed: `Capacity` >= 2, `MaxItems` a number. None of the properties is
inductive alone. `SlotExclusive` needs to know that
`writeIndex` is `count` places behind `readIndex` around the ring and that the
producer fills only when `count` is below the capacity; that the consumer's
index is `readIndex` and that `count` is positive while it owns a slot. The
order of records needs the contents: the slot `k` places behind `readIndex`
holds the record at position `received + k` (one earlier while a slot is held)
of `log`, and `log` has the grammar of kernels that `produce` and the source
give it. `IInv` conjoins these facts with the types and with what each place of
a thread implies about the flags. The refinement uses `IInv` to
show that each step is `Yield`, `Deliver`, `Complete`, `Fail` or a stutter.

### R4L1Filter

Assumed: positive sizes, a set hash into the sets, positive ways, lists of
allocations (`SizesAssumption`, `IndexAssumption`, `WaysAssumption`,
`DeclaredAssumption`).

`LookupExact` is nearly inductive: that a replacement keeps it needs the victim's
slot to exist, which is what `Sweep` shows of the CLOCK hand from the bounds on
the hand. `NewestProtected` rests on one more fact, that the hand stays at the
first slot until the set is full: only then is the slot behind it the one that
was filled last. `Sweep` then rules out that slot in both endings of the walk,
a slot without its bit and a full turn. `SpanExact` needs that allocations
checked pairwise by `begin_kernel` are apart altogether (`Apart`, by the least
counterexample), so that the remembered allocation and the one the search finds
are the same when either has the address.

The refinement needs one fact that no set knows of itself: which set a line is
in. The code takes the set from the offset in the allocation and the tag from
the address, so a line might lie in two sets, and then a replacement would lose
half of it. `HomeInv` says that a line is held only where the allocation that
has the line's first byte puts it; as allocations begin with a line and are
apart, there is one such set in a kernel (`HomeUnique`), the one every read of the
line goes to (`ReadHome`). `ReadHas` says of one set what a read adds to it and
takes from it, `AcceptedRead` carries that over to all of them.

### SectorCache and L2Writeback

Assumed: finite sets of lines and of bytes per sector, at least one byte, sector,
way and set, any hash, policies, limits, latency, and set of requests.

The first half of `L2Writeback_proofs` shows of each operation of `SectorCache` what it does to a well-formed entry
or set: `Shaped` says that masks and times of an entry agree and that a dirty
sector has bytes or a read in flight. `IInv` is `Books /\ Rest`. `Books` says that
every set is well-formed and holds only lines that hash to it (`Fits`), that
`owners` is exactly the set of dirty sectors, and that each stale byte is in the
cache, known or on its way, in a sector that is dirty. `LedgerAgrees` and
`NothingLost` follow; neither is inductive alone, as the first
needs a line to be in one place and the second that masks are true. Two lemmas
say what a step must do to the sets for the books to follow it: `BooksAgree` of
sectors, `BytesSafe` of bytes; every action then only has to account for what it
writes, marks and hands out. `Rest` has the types and that the one failure is an
eviction of incomplete data: no check of the ledger ever throws, and with
`FillLatency` = 0 neither does the eviction (`EvictionPossible`). `CheckpointExact`
is a lemma about single sets, `DrainExact` one about counting: the drain takes
the first dirty positions in its order, and as many as the budget allows
(`FirstMembers`).

### ProfileRunner

Assumed: any number of rows, at least one worker, a positive progress interval,
any of the three generations. `FilesInv` ties the lengths
of pack and index to `nextEmit` at each place of the main thread, `CountInv` the manifest to
the index, `ResultsInv` says that only profiles are handed to the writer, and
`WindowInv` that what was submitted and not yielded is what is waited for and
what is held, at most a window of it. `FillRoom` shows, by counting, that `fill` respects
the window. The refinement maps each append to the index to `Record` and the last
save of the manifest to the verdict.

### MatrixQueues

Assumed: at least one case, any number of restarts. The invariant says what a
queue's place means for its controller (`QueueInv`), that the lease is with the controller that
leased or runs (`LeaseInv`), that an output directory is that of the one start of
its job (`OutputInv`), that a job is only called, spawned and started with its
inputs complete (`ChainInv`), and what the state files say of the cases before
and behind the worker's position (`WorkerInv`, `MetaInv`). That no test starts
twice, although calls are retried and a killed worker's controller lives on, rests
on the output directory, and that no two run at a time on the lease; neither
suffices for both. `VerdictsFinal` is an action property: it needs that the
observer thread lives no longer than the job it watches.

### SamplePipeline

Assumed: at least one launch, record per launch and place in a pipe, any number
of sampler faults. `IInv` has the types; what the parent's place says of its
children and their statuses (`ParentInv`); that the consumer's receipt rests on
a sealed transport (`SealInv`); that the numbers of the records continue each
other in the capture, over the pipe and into the fitter (`RamInv`, `ChainInv`);
and what the fitter holds and has written (`FitInv`, `RowsInv`).

`PassComplete` needs nothing more, and holds for any number of faults: a published
pass has one row per launch, each accepted one fitted from as many
records as were pushed, numbered in order. It also shows that the fitter's
assertion that all launches have rows never fails after a receipt of `PASS`.

That these records are the launch's own is not true of any number of faults:
TLC finds a counterexample with four, in which records of two launches change
places, and none with three on the run's instance. `ExactPass` proves it for at
most one. The argument follows the stream as a whole, what is captured, in the
pipe and still to be written: unharmed, a record has the launch of both frames next to it
and of the one behind (`Pristine`), and after one frame lost, repeated or
swapped it still has the launch of the frame before it (`Follows`). With the counts of the
reader that puts each captured record into its own launch (`OwnLaunch`), and the
fitter keeps it there (`OwnRecords`). With `MaxFaults` <= 1, as in the run,
`ExactPass` is `PassMeansExact`.

### ProfileTrace

Assumed (`WorkloadsAssumption`, `ConstantsAssumption`): of every workload a grid of
positive extents, numbers for addresses, times, starts and SMs, and what the
planners and readers guarantee: some training CTA, none that is also held out (the
fitter requires both), all CTAs in training when the plan is complete, and for
sglang's captures times that are positions (`seq=len(out[cta])`); of what is moved
to another layer, finitely many views of numbers and a cursor of private
addresses that is on a page, as `expand_profiles.py` rounds it up and adds whole
pages. Nothing is assumed about
which rules, classes or orders the fit finds, or about how far the times are from
the word size.

**Order.** `StreamOrdered` is about the last two instructions emitted; the invariant relates
the whole heap to the last one. `NoneBehind` says that a cursor is not behind it in
the order of the merge, unless the cursor's unchecked 64-bit sum has wrapped. A
wrapped cursor may come to the top too early, but then the check at the pop ends
the expansion and nothing is emitted. That a popped cursor's successor is not
behind it needs the order of a template: `NthIs` shows by counting that each
place in it is taken by one instruction, `NthSorted` that the CTA's own times do
not fall along it, equal times included. `CursorsKept` (one cursor per CTA, with the
time and SM of its instruction) gives the heap a first element
(`FirstCursor`), so the pop is total. That there is a time for every instruction of every
CTA (`ProfileTimed`) is shown of the fit: the first sample of a class is one of
its CTAs, a CTA of a complete grid has its own table entry, no time precedes
its CTA's start, and neither the normal form of the rules nor another layer's
rules change a time. The text generator is outside this theorem, and its own claim is
refuted by the run `profile_text`.

**Regeneration.** An address comes back in four steps, each a group of lemmas.

1. *A rule explains its points.* Every fit of `ProfileRules` (affine, xyz, half grids,
   tiled, floor, permuted digits, table) returns `NoRule` or a rule that gives every
   point that it was fitted to (`Explains`) and whose fields are the integers that the
   generator's arithmetic needs (`GridRule`). `CppAgrees`: `address_base` of C++ then gives the address of
   `predict_bases` or refuses, although it divides differently; the one rule it would
   misread is the flat one of version 11 (`FlatRule`).
2. *A template matches its samples.* Slots tell instructions of equal signature apart
   by rank (`SlotDiffers`, `SlotIndexIs`), so CTAs of one structure correspond slot by slot
   (`SameStructure`, `TemplateRuled`). sglang's fitter compares by order instead:
   `OrderMatches` shows that the order of times is the same pairing. CTAs that the
   rules were not fitted to were compared when the profile was admitted
   (`FittedMatches`). For a complete grid every fit succeeds (`CompleteIsAdmitted`), hence
   `CompleteAdmitted`.
3. *What comes after admission.* `NormalForm`: one stride per CTA written as three gives the same
   address (`FlatIndex` is the arithmetic of coordinates). A layer's rules leave
   slots and times alone (`ReboundIs`). `Faithful` is the invariant that carries this from admission to the merge.
4. *The merge loses nothing.* `Traced`: there is a one-to-one map from emitted instructions to
   entries of templates, and what is not in it is at or behind its CTA's cursor. At the end the heap
   is empty. Counting along the two one-to-one maps (`SameSize`) gives `Regenerates`.

`SampledRegenerated`, defined with the proofs, says it of all CTAs that were
sampled, in training or held out, for every plan, fitter, format and generator;
TLC agrees on the runs' instance. It excepts version 11 expanded directly by
the stream generator, whose misreading of the flat rule is the finding of the run
`profile_rows`, and thereby shows that `normalize_backend_rules` repairs exactly this. For a complete
capture it is the whole of `TraceRegenerated`, times included (`CompleteRegenerated`).

**Census.** `CompleteCounted` is `CensusExact` for complete captures. That a rule's
strides and offsets keep the residue makes every CTA's address keep it
(`ModuloSame`, over all kinds of rules), and an address touches as many sectors as its residue
says (`SectorsAre`), so one CTA's count can be multiplied (`EntryCensusIs`). The
profile then counts by class, entry and CTA, the kernel by CTA and
instruction. The sums are folds over sets with no induction theorem to cite; instead
`SumIs` shows by a least counterexample that whatever grows with each element by its
summand is the sum, `SumCounts` that a sum is the number of its units, and the two
orders of summation count the same units (`SumNested`, `SumAlong`).

**Binding.** `CompleteRebound` is `LayerRebound` for complete captures.

1. *The bounds are true.* `GridBounds` bounds the parts of x, y and z separately and adds them up. Each kind
   of rule is such a sum (`RuleIsSum`), each part takes its least and greatest value where Python looks (`XSpans`, `YSpans`, `ZSpans`), and so does the sum
   (`SumSpans`): the bounds are attained, and no CTA's address is outside
   (`GridExact`; with table entries `ClassExact`). A table lists its own. Hence what moves with a tensor is
   what lies in it (`TouchedIs`).
2. *Private objects stay apart.* A cluster begins at a number that no earlier interval
   reaches (`ClustersAre`), and the sums of pages taken before a cluster grow along
   the clusters (`TakenGrows`). So two private objects move together, or are
   in different clusters and apart before and after (`PrivateIs`).
3. *What runs is what was bound.* `Moved` says that the profile behind the expanded
   generator is the fit of the samples, moved. `Indexed` pairs the instructions emitted
   with the entries of templates, and what C++ did not refuse is in the domain of its
   table (`GivenIs`).

### Only model-checked

* `Termination`, `VerdictPublished`, `PipelineEnds` and `QueuesEnd`: liveness is
  outside the prover's reach.
* `TraceRegenerated` for CTAs of a sparse plan that were not sampled: what the fits
  extrapolate is right only of kernels whose layout is one of the rules', as the
  runs' kernels are; no assumption that the code checks implies it.
* `CensusExact` and `LayerRebound` for sparse plans, for the same reason.
* `PassMeansExact` for two faults and more.

## 5. Plan

Done: all modules of section 2 with their runs, and the proofs of section 4. What is
left: the publication of a cache checkpoint and the timestamps of the backend,
which have no module.

## 6. Not modelled

* Fourteen superseded versions of the profile tool (r1 to r14) and earlier
  versions of runners and plan builders: they repeat most of the modelled ones.
* Parsing and validation of profiles, configurations and traces; the sequence
  audit and lowering of captured records; request output and statistics; cache
  observation; the ledger's sums: sequential passes without a later state.
* The per-SM time rule of the backend: `L2Writeback` allows a superset of its times.
* Publication of a checkpoint (claim directory, hard link): a straight line of
  system calls by the one owner of a name; its contents are `CheckpointExact`'s.
* The orchestration scripts (`wait_then_sample.py`, `followthrough.py`,
  `run_memgen.py`): they wait for external processes and compare hashes. Of the layer
  expansion, the matching of sampled launches with those of other layers.
* The thread inside the sampler that receives packets, with its 15 s deadline:
  `SamplePipeline` has its outcomes, a complete launch or a host that ends.
* Device code, vendored parsers, audits and validation scripts, recorded evidence.

`PROJECT.json` lists every component with its status.
