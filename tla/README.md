# A TLA+ development for wperf

wperf records scheduler, futex and block-I/O events with eBPF probes (`wperf
record`), and turns the recording into a Wait-For Graph that it analyses for
bottlenecks (`wperf report`). These modules model both halves, from the start of
the recorder and the probes to the critical path and the text on stdout. TLC
checks them on small instances. TLAPS proves all of the invariants, the action
property and the refinements for every value of the constants. Paths are relative to the repository; its root is
`src/`.

    startup ──► kernel probes ──► ring buffer ─────────────► recorder ──► .wperf file
                  (bpf/)      └─► per-CPU perf buffers ─► reorder buffer ─┘     │
                                                                                ▼
    stdout ◄── report, Graphviz ◄── critical path ◄── condensation ◄── cascade ◄── correlate

## 1. Inventory

| Component | State | Operations | Interacts through |
|---|---|---|---|
| Scheduler probes (`bpf/wperf.bpf.c`) | none of their own; `drop_counter` | `sched_switch`, `sched_wakeup`, futex enter, exit | `reserve_buf`/`submit_buf`; they see the kernel between any two of its steps |
| Block-I/O probes (`bpf/wperf.bpf.c`) | `pending_io` map, `io_counters` | issue, complete | the request pointer in the kernel, `(dev, sector, nr_sector)` in the events |
| Ring-buffer transport and `poll_ringbuf` (`bpf/compat.bpf.h`, `record.rs`) | the ring, stop flag, deadline, kept write error | reserve, stamp, submit; consume, sleep, final consume, finish | shared memory; callback into the writer |
| Perf-buffer transport and `poll_perfarray` | per-CPU buffers, `pending`, `lost_count` | output; poll, lost callback, push, drain, finish | callbacks; `ReorderBuf` |
| Reorder buffer (`transport/reorder.rs`) | heap, `newest_ts` | `push`, `flush_expired`, `drain` | callback that writes |
| Writer and reader (`format/`) | file, `BufWriter`, header, counts | `write_event`, bookmark, `finish`; `open`, `read_all_events`, `read_metadata` | the file, also after a crash |
| Correlator (`correlate.rs`) | off-CPU table, pending futex, deferred edges, pending I/O, counters | one handler per event type; drain at the end | sorted events in, edges out |
| Sweep line, cascade (`graph/sweep.rs`, `cascade/`) | none (pure) | `sweep_line_partition`, `compute_cascade`, `cascade_engine`, sentinel | graph in, attributed graph out |
| Condensation, MAX heuristic, knots, critical path (`scc/`, `critical_path/`) | DAG, `dist`, `pred` | `build_condensation`, `apply_max_heuristic`, `critical_path_dp`, `detect_knots` | attributed graph in |
| Feature probing and startup (`probe/`, `transport/config.rs`, `record.rs`) | feature matrix, transport configuration, open skeleton, attached programs, stop flag | register handlers, probe, configure, open, load, attach, create the file, build the poller | kernel, libbpf, `/proc`; signals at any moment |
| Report (`report.rs`, `pipeline.rs`, `output.rs`) | events, drop count, cascade result | open, parse, sort, metadata, analyse, write | file in, stdout out |
| DOT and SVG (`dot.rs`) | DOT text, writer thread, three pipes | `render_dot`, `render_svg` | child process `dot` |
| Command line (`cli.rs`, `main.rs`) | none | argument limits, exit code | – |

What is hard here:

* **Probes interleave.** Reserving, stamping and submitting are separate steps on every CPU, and nested in interrupts.
* **Events are missing.** Buffers overflow, probes skip wperf's own threads together with the other half of the switch, captures begin and end in the middle of waits. The correlator must be right for every stream that is left.
* **The end of a recording races with the probes**, which stay attached while the recorder drains and finishes.
* **A file can be cut anywhere**: kill inside a flush, inside a bookmark, inside `finish`; power loss with the header persisted first; a full disk.
* **Two pairings of one request** (pointer in the kernel, sector range in userspace) with reissue, partial completion and reuse.
* **Startup decides twice.** The recorder probes the kernel, and the BPF object selects its helpers again when it is loaded; both must come to the same result on every mixture of kernel features.
* **Three parties share three pipes** when an SVG is made, and any of them may stop early.
* **Truncating arithmetic** in windows and shares, cycles and overlaps in the graph.

The properties that make each component correct are the ones of section 3;
`PROJECT.json` lists the hazards line by line with the properties aimed at them.

## 2. Modules

| Module | Models | Extends / uses |
|---|---|---|
| `Correlate` | `correlate_events` over an arbitrary sorted stream | |
| `SchedTrace` | an external scheduler, the sched and futex probes, lost events | `Correlate` |
| `BlockIo` | an external block layer, the two block probes | `Correlate` |
| `Recorder` | ring-buffer transport, `poll_ringbuf`, `finish` | |
| `ReorderBuf` | `push`, `flush_expired`, `drain` | |
| `PerfArray` | per-CPU buffers, `poll_perfarray`, `finish` | `ReorderBuf` |
| `Layout` | the bytes of events, header, records, section table, metadata | |
| `WprfReader` | `open`, `read_all_events`, `read_metadata` over bytes | `Layout` |
| `WprfFile` | writer on a `BufWriter`, crashes | `WprfReader`, `EventLog` (refinement) |
| `EventLog` | abstract: a log that only grows and is sealed once | |
| `Cascade` | graph construction, sweep line, cascade engine | |
| `Analysis` | condensation, heuristic, critical path, knots, I/O ratio | `Cascade` |
| `Startup` | `wperf record` from its arguments to its exit | |
| `Report` | `wperf report` from its arguments to its exit code, with `dot` | `WprfReader` |
| `CorrelateProofs`, `SchedTraceProofs`, `BlockIoProofs`, `RecorderProofs`, `PerfArrayProofs`, `AnalysisProofs`, `StartupProofs` | theorems | the module they are about; the probes' proofs use the correlator's |
| `FileProofs` | theorems about the file and the report made of it | `WprfFile`, `Report` |
| `MCTransport` | the choice between the two transports, made once | `Recorder`, `PerfArray` |
| other `MC*` | constants and symmetry sets for TLC | |

**Correlate.** One step per event: `NextEvent(ts)` picks any timestamp not
smaller than the last, and the arms of the `match` are the actions. A `HashMap`
is a total function with `None`. `handle_switch` is one action although it does
three things in order: it commits or filters the deferred edge of the thread
switched out, records that thread as off-CPU if it sleeps, and resolves the
thread switched in. Edges are a sequence, counters a function; `seen` counts
events, as a history to compare the counters with. The stream is not assumed
to come from a kernel, so every result here holds whatever was lost.

**SchedTrace** composes the correlator with a scheduler (external, modelled from
what the probes read): `SetCurrentState`, `Schedule` (with preemption of a
thread that already set its state), `TryToWakeUp`, and futex calls that may or
may not sleep. The true waits, wakeups and futex calls are kept beside the
tables. An event may be lost, or skipped because wperf is involved; `complete`
and `exact` record whether that ever happened.

**BlockIo** composes the correlator with the block layer: requests issued by
threads, kernel threads and wperf, issued again by any of them (a requeue is
dispatched by a kworker as often as by a submitter), completed in parts, their
struct and their sector range used again, some in flight at attach. `in_flight`
keeps as truth the last issue that the probes do not skip: an issue by a kernel
thread or by wperf leaves the entry of the earlier one, so a request that a
kworker dispatches again stays charged to the thread that submitted it, from its
own issue on, and that is what the properties say. A request that was issued
keeps its sectors until a part of it completes, since the kernel no longer
merges into it; after that any range may be the rest.

**Recorder.** A probe is three steps; `ring` keeps records in reservation order
and `ConsumeRecord` stops at the first unsubmitted one. The poll loop is a
program counter. Signal, deadline and write errors may come at any moment.

**PerfArray.** A record that does not fit is counted and reported in front of
the next one that fits. `perf.poll` reads one CPU after the other while all go
on. There are `NumCpus` CPUs. The clock is explicit, because the reorder window
is about time. Where a name of the code would also be one of `Recorder`, the
perf-buffer side has a prefix (`perf_pc`, `PerfCheckStop`), as `MCTransport`
holds both: a recorder that chose one transport never takes a step of the other.

**Layout, WprfReader, WprfFile.** The file is a sequence of bytes with the code's
widths and offsets. A byte has `Base` values (8 for TLC, 256 in fact) and magic
and metadata keys are shorter; nothing depends on either. The events come from
`Trace`, any sequence of events whose fields have their widths. `FlushPage` moves one
page of the `BufWriter` per step, so a record may be torn anywhere, whereas the
64 bytes of the header lie in one page. Every reachable file is a possible kill,
and `AfterPowerLoss` combines any header the file ever had with any length.
The limit of 16 MiB on a payload is the length whose highest byte is not zero.
Refinement: the reader's view of the file implements `EventLog` (`LogSpec`).

**Cascade.** `AddWait` and `AddIo` build any Wait-For Graph (the engine is a
public function and promises to handle all); `cascade_engine` computes every
attribution from the original graph and then evaluates the sentinel.
`compute_cascade` is a recursive function over depth, node, window and path.
Edges with the same ends, window and kind are merged; `sweep_line_partition`
and `count_concurrent_waiters` deduplicate them anyway.

**Analysis** goes on with steps 5–7 in `build_report`'s order. `tarjan_scc` and
`toposort` are external: classes of mutual reachability (a node reaches what is
in every set of nodes that holds it and that no edge leaves), and any topological
order. `KernelThread` is the set of threads whose node is tagged
`NodeKind::KernelThread`; any set of threads for the proofs, two of three
threads in the run. The correlator tags every thread `UserThread`
(`correlate.rs:282-283`), so that in a report the set is empty, rule 2 of
`detect_knots` excludes nothing, and SCCs of kernel threads only are reported
as knots, although `knot.rs:27` means to leave them out. The I/O ratio is the
pair of its sums.

**Startup.** `Steps` is the order of `run` and `record_impl`, one action per step
with each of its early returns. `refused` is a history variable: some call
failed for a reason of the system's own (permission, memory, a full disk), which
may happen at every call. A kernel is a record of what the probes look at, and
what loads on it (`Loadable`, `LoadSucceeds`) is external. Poll loops are
reduced to how they end; their inside is `Recorder` and `PerfArray`.

**Report.** `input` is a file of bytes, read by `WprfReader`, together with what
its recorder was given (`trace`, `drops`) and what happened to it since (`left`:
whole, cut, malformed, absent), which only the properties look at. The analysis
yields some list of edges or an error, and the order in which `sort_unstable`
leaves equal elements is open. Of the JSON, which is one line, the model has the
edges and the two numbers that come from the file. The main thread, the writer
thread and `dot` are three processes joined by bounded pipes. A file too short
for a header is an error of the pipeline, not of I/O: `WprfHeader::read_from`
wraps it (`HeaderError::Io`), so that `report.rs:169` does not see it.

A recording that was cut in its data section is *not* refused: the bookmark is
clamped to the file (`reader.rs:124`), the section table lies behind its end and
counts as none (`reader.rs:227-236`), and the report succeeds with the events
that are left. `ReportedIsRecorded` says what such a report is worth: the first
events, each as often as recorded, and no drop count, which is the one trace of
the cut.

Definitions whose comment starts with "Mutant" or describes a fault (for example
`TransferWhole`, `handle_exit_forgets`) are wrong versions of the definition
that follows. They are used only to confirm that the properties notice.

## 3. Runs

The modelled program ends, hence `CHECK_DEADLOCK FALSE`, except in `Startup`,
which has an explicit final state and is checked for deadlock.

| Run | Bounds | Shows |
|---|---|---|
| `correlate` | 2 threads + idle, 1 key, 2 futex ops, 5 events of any type, 4 timestamps, 2 ns per ms | `OffCpuOrDeferred`, `WaitConservation`, `WaitsOfAThreadDisjoint`, `DeferredEdgeFate`, `IoConservation`, `NothingLeftBehind` |
| `sched_trace` | 2 threads and wperf, 2 CPUs, 1 futex operation, 4 events, 1 lost | `TableMirrorsKernel`, `EdgesAreTheWaits`, `EveryEdgeHasItsWakeup` (no stale waker, wperf never in the graph) |
| `block_io` | 3 requests, 2 keys, 2 user threads, wperf, a kernel thread, map of 2, 1 lost | `PendingIsInFlight`, `IoEdgesAreRequests`, `PairingsAgree` |
| `wprf_file` | 9 events of 45 bytes whose fields all differ, bookmark every 3, buffer of 150 bytes, pages of 64 | `KillRecoversPrefix`, `PowerLossRecoversPrefix`, `MetadataIsTrue`, refinement `LogSpec` |
| `transport` | ring: 3 contexts, 2 records, 4 events, fair; perf buffers: 2 CPUs, 2 records, 4 events, window 1 | `EveryEventAccounted`, `ContextOrder`, `FooterIsTrue`, `StopEndsRecording`, `RingIsDrained` of the ring; `InWindowMeansSorted` and `HeldOrHandedOn` of the reorder buffer, `PerfEventsAccounted` |
| `analysis` | 3 threads (2 of the kernel) + disk, up to 4 edges, windows in 0..2, depth 3, every topological order | `SweepIsPointwise`, `PropagatedFitsWait`, `UnscaledIsExact`, `ClosureEdgesInert`, `ToposortSucceeds`, `CriticalPathIsLongest`, `KnotsAreTraps`, `IoRatioMeetsGate` |
| `startup` | 10 kernels, 4 PID-namespace settings, 5 buffer sizes, 3 kinds of duration, debug and release, with and without `bpf` | `HooksCoveredOnce`, `EveryFailureHasACause`, `StopIsHonoured` |
| `report` | 25 files over a trace of 4 events (3 with one timestamp, 2 of them equal): whole, with records of another type, cut at 10 places, unfinished, malformed, absent; 2 graphs, 3 formats, pipes of 2 lines, up to 4 lines of SVG and 3 warnings | `ReportIsReproducible`, `ReportedIsRecorded`, `OutcomeIsTrue`, `ReportEnds` |

Why the bounds are enough for the cases that matter. Two threads and five events
allow a wait, its deferral, a second wait and a lost event in each position; a
futex call, its sleep, the wakeup and the switch-in are four events, with a
preemption or a loss in place of one of them. Two
nanoseconds per millisecond make every combination of roundings happen. A ring
or buffer of two overflows, and lets a busy record hide a submitted one. A
buffer that holds three records but is not a multiple of them, a bookmark every
three events and pages that no record divides make flushes fall inside records,
before bookmarks and inside `finish`. The kernels are a modern one, the oldest with
the ring buffer, two without it, one without typedefs, an enterprise kernel
whose block layer is newer than its version, and ones that lack BTF, the futex
tracepoint or half of `tp_btf`. The DOT text and the SVG are both longer than a
pipe. Four edges over two
milliseconds contain fan-out with concurrent waiters, 2- and 3-cycles, self-waits,
touching, nested and empty windows, I/O pairs beside waits, and a depth limit
that cuts a chain. Threads, contexts and requests are interchangeable, so
symmetry is used in safety runs only.

Runs that are expected to fail state what a comment or document of the
repository says and find it is not what the code does:

| Run | Statement | What happens |
|---|---|---|
| `sleepers_tracked` | `correlate.rs:35` | `TASK_FROZEN` and `TASK_RTLOCK_WAIT` have an empty low byte and read as preempted |
| `all_complete` | `ADR-010.md:67` | complete records behind the last bookmark are not recovered |
| `fallback_works` | `bpf/wperf.bpf.c:33`, `ADR-004.md:50` | without the ring buffer `load` fails: nothing changes the type of `events` to a perf event array |
| `container_skips_itself` | `record.rs:95`, `record.rs:99` | `NSpid` counts from the namespace that mounted `/proc`: in a container with a `/proc` of its own `self_tgid` is a number the probes never see, and wperf records itself |

Two further observations need no run. Events stand in the ring in the order of
reservation, not of timestamps, which the sort of the report repairs; and after
a stop the per-CPU perf buffers are not polled again. `PerfEventsAccounted`
counts what they still hold.

`Startup` also has states that no property judges, since the repository states no
policy for them: an earlier recording is truncated before the deadline is computed
and the poller is built, both of which may still fail; and a `--duration` that
no `Duration` can hold (infinity) panics at that point.

A futex call that sleeps twice has its type on the first sleep only, because
`handle_switch` removes the entry; `TableMirrorsKernel` promises no more.

**Fairness.** In `transport`, on the ring buffer: weak fairness of the recorder process (it is
scheduled), and of a probe that reserved a record (a BPF program cannot block and
runs to its end). No event, signal or deadline is forced. In `startup`: the
process is scheduled and time goes on; the fair action excludes refused calls,
so no result rests on a call failing. In `report`: both threads and `dot` go on
when they can. That `dot` ends is an assumption about it (`MaxOut`, `MaxErr`):
against one that prints for ever `wait_with_output` promises nothing.
`StopEndsRecording` further rests on events being finite (`MaxFired`): the
callback loop of `consume()` returns only when it has caught up with the probes
and does not look at the stop flag, so against probes that are always faster
than the writer the code makes no such promise.

## 4. Theorems

Every theorem has the form `Spec => []P` (or `Spec => [][A]_vars`, or a
refinement) for the same `P` a run checks, and holds for every value of the
constants that meets the named assumptions: any number of threads, events,
requests, CPUs, any graph, any file. The bounds of section 3 are constants too,
so no result below depends on them. For each module, TLC checked the inductive
invariant on the instance of the run before it was proved.

**CorrelateProofs.** `TypeCorrect`, `NoEdgeOverwritten`, `WaitsConserved`,
`RequestsConserved` (for `TypeOK`, `OffCpuOrDeferred`, `WaitConservation`,
`IoConservation`), `NothingIsLeftBehind`, `WaitsAreDisjoint` and the action
property `NoDeferredEdgeLost`.
The inductive invariant `CorrInv` is the conjunction of the first four with the
types of tables, edges, counters and history. None of the laws is inductive
alone: that a switch-in adds exactly one deferred edge needs `OffCpuOrDeferred`
(the insert must not replace an edge), which needs that the idle task is in
neither table; that the counts add up needs the tables to be finite
(`Cardinality` of one more or one less key: `KeysInsert`, `KeysRemove`).
`LeftInv` adds what the drain leaves in each phase; `WaitsInv` adds that no
wait, committed or deferred, ends after the last event, and that the wait going
on begins after all of them, which is what makes the next one disjoint although
`floor` and `ceil` round the ends. Assumptions: `CorrelateAssumption` (finite
sets, distinct names, natural numbers) and `NoneAssumption` (`Option::None` is
no record; the other modules assume the same of their records).

**SchedTraceProofs** and **BlockIoProofs** first prove that the probes with
whatever is behind them implement the correlator's specification
(`TraceIsAStream`, `ProbesFeedTheCorrelator`): each step of the composition is a
step of `Correlate` or a stutter, so that all of the above holds of a recorded
trace too. The scheduler: `TableIsTheKernels`, `EdgesHaveTheirWakeups`,
`EdgesAreWaits`. The invariant `TraceInv` says what holds whatever was lost (no
record in a table is later than the clock, wperf is in no table, each waker in
the table did wake its waiter in this wait), and, while nothing was lost or
inexact, that every table is the kernel's own state (`Truth`). The block layer:
`PendingAreInFlight`, `IoEdgesAreOfRequests`, `PairingsDoAgree`. The
invariant `IoInv` adds that, with nothing lost and no collision (`Clean`), the
entries of the two pending tables correspond one to one and carry the time of
their request's issue (`Paired`): without it an edge could span two requests.

**RecorderProofs.** `EveryEventAccountedHolds`, `ContextOrderHolds`,
`FooterIsTrueHolds`, for any ring, contexts and schedule. The strengthening is
that a probe that is not idle has exactly one busy record in the ring, that no
stamp is later than the clock, and that the stamps of a context increase from
the file through the ring (`OrderInv`), as the consumer takes them from one
into the other.

**PerfArrayProofs.** Of the reorder buffer alone: `ReorderBufSorts`
(`InWindowMeansSorted`) and `ReorderBufKeepsApart` (`HeldOrHandedOn`), for every
window, timestamps and number of pushes. The strengthening is `OutputBelow`:
what was handed on is not newer than anything held back, nor than the cutoff. An
event that is not late cannot be older than the cutoff, so it cannot belong in
front of the output. Behind the perf buffers the same two properties hold of the
file (`PerfOutputSorted`, `PerfOutputApart`), and `PerfEventsAccountedHolds`: for any
number of CPUs and any buffer size, each event that fired is in one place or
counted once as lost or discarded. The law alone is not inductive, as moving a
record says nothing about one that is in two places: `PerfInv` adds that the
events of each place are different (`ApartInside`) and the places have none in
common (`ApartBetween`). A step then moves a number of events from one term of
the sum to another; what the sum over the CPUs does when one of them changes is
proved of the fold (`SumChange`).

**StartupProofs.** `EveryFailureHasACauseHolds` for every set of kernels,
processes and arguments, and so is `HooksCoveredOnceHolds`. `StartInv` says what each step finds: from the probing on the
feature matrix is the kernel's, then the configuration, then the skeleton; after
`load` what is attached is what was to be loaded. `StartupAssumption` says that
a kernel without `tp_btf` for the block layer passes the request as its version
has it.

**FileProofs** goes from the bytes of a number to the report.

*Bytes.* `from_le_bytes` inverts `to_le_bytes` for every width and every number
that fits (`RoundTrip`), an event comes back from its 40 bytes with all its fields
(`EventRoundTrip`), and so do the header (`HeadRead`), a section table entry
(`SectionRead`) and the metadata (`MetadataRead`). Of a file that begins with a
header whose bookmark is behind record *j*, and that holds the first records of
the trace wherever it is long enough, `read_all_events` gives the events up to
*j* or up to the cut, whichever comes first (`ReadsPrefix`), and `read_metadata`
gives what is in the footer or, if that is cut off, nothing (`FooterRead`).

*The writer.* `FileInv` says what `disk` and `buf` are at each stage. While the
writer appends, `disk \o buf` is one sequence: a header and the records of all
accepted events (`Appending`). While it goes back to write a bookmark, `disk` has
all records and `buf` the rest of eight bytes that replace eight of the header
(`Bookmarking`). In the last step of `finish`, `disk` has records and footer, and
`buf` the final header (`Sealing`). A flush of any number of bytes keeps each of
the three (`FlushAppending`, `FlushBookmarking`, `FlushSealing`); that the header
is never torn uses that it lies in one page (`PageBytes >= HEADER_SIZE`). The
bookmark in the file is one of the last two that were due (`Fresh`), and every
header the file ever had names only what is in the file or can be cut off it
(`OldHeader`). From this follow `KillRecoversPrefixHolds`,
`PowerLossRecoversPrefixHolds` and `MetadataIsTrueHolds`, for every trace, bookmark
interval, buffer and page size, also when a write fails and the drop of the
`BufWriter` flushes once more. `FileImplementsLog` shows the refinement step by
step: the flush of a bookmark is `Persist`, that of the last header is `Seal`,
and any other flush changes nothing a reader gets.
Assumptions: `WprfFileAssumption` (a buffer holds a record; the events and the
length of the file fit in their integers), `LayoutAssumption`.

*The report.* `ReportIsReproducibleHolds`: for every file and every order in
which `sort_unstable` may leave equal keys, the events come to the correlator in
one order and a graph has one DOT text. Nothing is claimed of the order of the
edges in the JSON: it is that of the graph, and the edges deferred to the end of
the trace are drained from a `HashMap` (`correlate.rs:267`). The heart is that a sequence has only one sorted arrangement if elements
with equal keys are equal (`OneSorting`): two arrangements that first differ
at some place would have different numbers of elements below it
(`OrderedNotLess`). It is then applied to the events, whose key is all their fields
(`EventsSortOneWay`), to the edges, whose key is all that is printed
(`EdgesSortOneWay`), and to the deduplicated nodes. That the reader yields
events at all, with an error only at the end, is proved of its recursion
(`ReadsEvents`). `OutcomeIsTrueHolds` follows from `ReportInv`, which says for each
step of the main thread, the writer thread and `dot` what is in which pipe.
`ReportedIsRecordedHolds` is about files whose *bytes* are as they are said to be
(`IsTrue`): of a whole file the records, the footer and the last header
(`Whole`); of a cut one any header the file ever had, and of the rest as much as
there is (`Left`); a malformed one does not open. What the reader makes of them
is proved (`LeftRead`, `WholeRead`), not assumed. `RecordingLeaves` shows that the
writer, stopped, killed, failed or cut by a power failure at any moment, leaves
such files and no others, so that the two halves of wperf meet. The
invariant `WholeInv` says that nothing is analysed or printed before all of the
file has been read without an error, and that only a file the reader rejects is
blamed; a sort keeps the number of each event because it is a bijection
(`SortingCounts`). Two kinds of files are only model-checked: those with records of
another type between the events, and those that open and are malformed further
on. Assumptions: files are sequences of bytes, graphs are lists of `EdgeOutput`.

**AnalysisProofs.** `SweepIsPointwiseHolds`: clipping keeps what the node waits
for in the window and no more (`ClippedWaits`), between two consecutive
points nothing begins or ends (`ActiveIsAt`), and a millisecond in which
something is waited for lies between exactly one pair of them (`PointsAround`,
`ConsecutiveOnce`). `ClosureEdgesInertHolds`: the engine reads a
graph only through its two filters (`CascadeReads`). `ToposortSucceedsHolds`:
a DAG edge leads forward only (`CrossLeads`), so of any super-nodes one that
the fewest of them lead to has no predecessor among them
(`CondensationIsAcyclic`). `KnotsAreTrapsHolds`: no edge leaves a sink, hence
neither does reachability (`SinkIsClosed`), and the members of the sink are all
that a trapped thread reaches, so that rule 2 looks at the same threads.

`PropagatedFitsWaitHolds` and `UnscaledIsExactHolds` are inductions over the
calls of `compute_cascade`, from the depth limit up (`CascadeFits`,
`CascadeExact`). One call: the intervals of a partition are disjoint and lie in
the window, so their durations add up to no more than it (`DurationsFit`); a
child explains no more than its interval, and divided by the number of targets
and then by the waiters the shares of all targets add up to no more than the
interval (`PushedFits`). If nobody waits for two at once nor is waited for by
two, an interval has one target and that target one waiter
(`OneTargetOneWaiter`), so that nothing is divided and every bound is an
equality. That `verify_engine_postconditions` never fails follows
(`PostconditionsHold`). `IoRatioMeetsGateHolds`: only return edges leave the disk
(`DiskEnds`), so a wait for it has an empty partition and is attributed in full
(`DiskAttributed`); both sums are the same, and positive exactly when one wait
is.

`CriticalPathIsLongestHolds` has an invariant of its own, `DpInv`, for the table
that the DP fills: a super-node is done after those before it, what is done has
been relaxed and stays so, each distance is that of its predecessor plus the
edge and the node, and the chain follows `pred` back from a greatest distance.
With nothing left to do, no path is heavier than the distance of its end
(`DistBoundsPaths`), the chain is as heavy (`ChainWeighs`), and it is a path no
longer than the DAG since a super-node that came twice would close a cycle
(`ChainIsPath`). `AnalysisInv` keeps what the engine, the condensation, the knots
and the ratio computed until it is used. Assumptions: `CascadeAssumption`
(finitely many threads, a depth limit of at least one), `KindAssumption` (kernel
threads are threads) and `NoneAssumption`
(`Option::None` is neither a ratio nor a super-node).

Induction over data is done without a schema, by a least counterexample: a set
of numbers that is not empty has a least element (`LeastNat`), and of a family
of finite sets one leaves the family whatever is taken out of it (`LeastSet`).
The same argument shows that the recursive functions exist (they are solved for
one more argument at a time), the community modules' fold among them: what
`SumFunction` computes, that it does not depend on the order, and how it compares
with another sum (`SumNat`, `SumRemove`, `SumMonotone`, `SumBounded`,
`SumPositive`) is proved, not assumed.

Only model-checked: the liveness properties `StopEndsRecording`, `RingIsDrained`,
`StopIsHonoured` and `ReportEnds`, which need fairness and `ENABLED`.

## 5. Not modelled

* The heap entry that nested probes of one CPU share on the perf-buffer path.
  `PerfArray` treats an event as a whole. As `fallback_works` shows, no kernel
  reaches that path today, so `PerfArray` is about the code as written.
* A power failure that leaves a page in the middle of the file unwritten while a
  later one is on the disk. `AfterPowerLoss` pairs any header the file ever had
  with a file that ends anywhere; a hole before that end is not in it.
* The metrics of the report that only add up what the graph holds
  (`GraphMetrics`, `HealthMetrics`, `PipelineStats`), but for the drop count and the
  ratio of `Analysis`.
* A BTF file that cannot be parsed: one that exists is taken to be readable.
* `probe_tracepoint`, `probe_kprobe` and the trait `EventTransport`: nothing calls
  or implements them. `start_timestamp_ns` and `end_timestamp_ns` of the writer,
  which nothing reads.
* The I-5/I-6 checks that only tests call.
* The wording of messages, the layout of JSON, clap and `build.rs`.
* petgraph, libbpf, the kernel, Graphviz: external, modelled from how the code
  uses them.
* u64 overflow: nanoseconds since boot overflow after centuries; no arithmetic of
  the code comes near.

## 6. Plan

1. `Recorder` and `WprfFile` as one specification. Today they meet in the count:
   the recorder gives events to the writer one at a time, and the writer is
   proved for any trace.
2. The shared heap entry, once the perf-buffer path can be reached.
