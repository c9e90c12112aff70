------------------------------ MODULE Correlate ------------------------------
(***************************************************************************)
(* The correlate sub-step of the analysis (src/correlate.rs): one pass     *)
(* over a timestamp-sorted event stream that turns scheduler, futex and    *)
(* block-I/O events into the edges of a Wait-For Graph, plus the counters  *)
(* by which the report judges how complete the capture was.                *)
(*                                                                         *)
(* The stream is arbitrary: any event may have been lost before it reached *)
(* the file, so the handlers meet every sorted sequence of events.  One    *)
(* step handles one event; the last steps are the drain at the end of      *)
(* correlate_events.  A HashMap is a total function with None for an       *)
(* absent key.                                                             *)
(***************************************************************************)
EXTENDS Integers, Sequences, FiniteSets

CONSTANTS
  Thread,       \* tids of the threads that occur in the stream
  Idle,         \* tid 0, the idle task
  Disk,         \* DISK_TID, the pseudo-thread of all block I/O
  IoKey,        \* the (dev, sector, nr_sector) triples of the stream
  FutexOp,      \* futex operations of the stream
  None,         \* an absent HashMap entry, and Option::None
  NsPerMs,      \* nanoseconds per millisecond
  FUTEX_CORRELATION_WINDOW_NS,
  spurious_threshold_ns,
  MaxEvents,    \* bound: number of events of the stream
  MaxTs         \* bound: largest timestamp of the stream

Tid == Thread \cup {Idle}

ASSUME CorrelateAssumption ==
  /\ Idle \notin Thread /\ Disk \notin Tid /\ IsFiniteSet(Thread)
  /\ IsFiniteSet(IoKey)
  /\ None \notin Tid
  /\ NsPerMs \in Nat \ {0}
  /\ FUTEX_CORRELATION_WINDOW_NS \in Nat
  /\ spurious_threshold_ns \in Nat
  /\ MaxEvents \in Nat /\ MaxTs \in Nat

VARIABLES
  off_cpu,        \* threads that are off-CPU: switch-out time, waker, wait type
  pending_futex,  \* last futex wait entered by a thread
  pending_edges,  \* edges deferred until the woken thread is switched out
  pending_io,     \* block requests issued and not completed
  edges,          \* the edges of the WaitForGraph, in insertion order
  stats,          \* CorrelationStats
  last_ts,        \* timestamp of the last event handled
  phase,          \* "events": the loop; "drain": after it; "done": returned
  seen            \* history: how many events of some kinds were handled

tables == <<off_cpu, pending_futex, pending_edges, pending_io>>
corrVars == <<tables, edges, stats, last_ts, phase, seen>>
-----------------------------------------------------------------------------
Ts == 0 .. MaxTs
TASK_RUNNING == 0

WaitType ==
  {"FutexWait", "FutexLockPi", "FutexWaitBitset", "FutexWaitRequeuePi",
   "Unknown", "IoBlock"}

futex_op_to_wait_type(op) ==
  CASE op = "FUTEX_WAIT"            -> "FutexWait"
    [] op = "FUTEX_LOCK_PI"         -> "FutexLockPi"
    [] op = "FUTEX_WAIT_BITSET"     -> "FutexWaitBitset"
    [] op = "FUTEX_WAIT_REQUEUE_PI" -> "FutexWaitRequeuePi"
    [] OTHER                        -> "Unknown"

\* u64::saturating_sub
SaturatingSub(a, b) == IF a >= b THEN a - b ELSE 0

\* 1 when p holds: how much a step adds to a counter
Bump(p) == IF p THEN 1 ELSE 0

OffCpuRecord ==
  [switch_out_ns : Ts, waker_tid : Thread \cup {None},
   wait_type : WaitType \cup {None}]
PendingFutex == [timestamp_ns : Ts, wait_type : WaitType]
PendingIo    == [submitter_tid : Thread, issue_ts_ns : Ts]
TimeWindow   == [start_ms : Nat, end_ms : Nat]
PendingEdge  ==
  [switch_in_ns : Ts, src : Thread, dst : Thread, window : TimeWindow,
   wait_type : WaitType \cup {None}]
EdgeKind == {"Normal", "SyntheticClosureReturn"}
Edge ==
  [src : Thread \cup {Disk}, dst : Thread \cup {Disk}, window : TimeWindow,
   wait_type : WaitType \cup {None}, kind : EdgeKind]

Counter ==
  {"events_processed", "edges_created", "unmatched_wakeup_count",
   "unmatched_switch_in_count", "switch_in_without_waker_count",
   "false_wakeup_filtered_count", "unknown_event_type_count",
   "io_orphan_complete_count", "io_pending_at_end_count",
   "io_userspace_pair_collision_count"}

Seen == [switch_in : Nat, io_issue : Nat, io_complete : Nat]

\* Option::None is no record.
ASSUME NoneAssumption ==
  None \notin OffCpuRecord \cup PendingFutex \cup PendingIo \cup PendingEdge

\* The keys an abstracted HashMap holds
Keys(table) == {k \in DOMAIN table : table[k] # None}
-----------------------------------------------------------------------------
Init ==
  /\ off_cpu = [t \in Tid |-> None]
  /\ pending_futex = [t \in Tid |-> None]
  /\ pending_edges = [t \in Tid |-> None]
  /\ pending_io = [k \in IoKey |-> None]
  /\ edges = << >>
  /\ stats = [c \in Counter |-> 0]
  /\ last_ts = 0
  /\ phase = "events"
  /\ seen = [switch_in |-> 0, io_issue |-> 0,
             io_complete |-> 0]

\* The counters after a step that adds incr to some of them
Counted(incr) ==
  [c \in Counter |-> stats[c] + (IF c \in DOMAIN incr THEN incr[c] ELSE 0)]

\* The event loop takes the next event.  The stream is sorted by timestamp:
\* build_wait_for_graph sorts it and correlate_events asserts it.
NextEvent(ts) ==
  /\ phase = "events"
  /\ stats.events_processed < MaxEvents
  /\ last_ts <= ts
  /\ last_ts' = ts
  /\ UNCHANGED phase

\* add_edge_from_pending: what a PendingEdge becomes in the graph
add_edge_from_pending(pe) ==
  [src |-> pe.src, dst |-> pe.dst, window |-> pe.window,
   wait_type |-> pe.wait_type, kind |-> "Normal"]

\* Mutant: the length of a wait is rounded up to the next millisecond.
SchedWindowRoundedUp(out_ns, in_ns) ==
  LET start == out_ns \div NsPerMs
  IN  [start_ms |-> start,
       end_ms |-> start + (SaturatingSub(in_ns, out_ns) + NsPerMs - 1) \div NsPerMs]

\* Windows are in milliseconds: the start and the length are truncated.
SchedWindow(out_ns, in_ns) ==
  LET start == out_ns \div NsPerMs
  IN  [start_ms |-> start,
       end_ms |-> start + SaturatingSub(in_ns, out_ns) \div NsPerMs]

\* Both ends of an I/O window are truncated, not its length.
IoWindow(issue_ns, complete_ns) ==
  LET issue_ms    == issue_ns \div NsPerMs
      complete_ms == complete_ns \div NsPerMs
  IN  [start_ms |-> issue_ms,
       end_ms |-> IF complete_ms >= issue_ms THEN complete_ms ELSE issue_ms]
-----------------------------------------------------------------------------
(***************************************************************************)
(* handle_switch, in its three stages.                                     *)
(***************************************************************************)
\* Mutant: no deferred edge is resolved at switch-out.
ResolvesNever(prev_tid) == prev_tid # prev_tid

\* Stage 1: prev_tid has a deferred edge, which this switch resolves ...
Resolves(prev_tid) == prev_tid # Idle /\ pending_edges[prev_tid] # None

\* ... and drops, because the woken thread ran too short before it slept again.
Spurious(ts, prev_tid, prev_state) ==
  /\ prev_state # TASK_RUNNING
  /\ SaturatingSub(ts, pending_edges[prev_tid].switch_in_ns)
       < spurious_threshold_ns

\* Mutant: a preempted thread is taken for a sleeping one.
SleepsPreempted(prev_tid, prev_state) == prev_tid # Idle

\* Stage 2: prev_tid goes off-CPU, unless it was preempted.
Sleeps(prev_tid, prev_state) == prev_state # TASK_RUNNING /\ prev_tid # Idle

FutexCause(ts, tid) ==
  IF /\ pending_futex[tid] # None
     /\ SaturatingSub(ts, pending_futex[tid].timestamp_ns)
          <= FUTEX_CORRELATION_WINDOW_NS
  THEN pending_futex[tid].wait_type
  ELSE None

\* Mutant: a record that is already there keeps its waker.
SwitchOutKeepsWaker(ts, prev_tid, prev_state) ==
  IF Sleeps(prev_tid, prev_state)
  THEN [off_cpu EXCEPT ![prev_tid] =
          [switch_out_ns |-> ts,
           waker_tid |-> IF off_cpu[prev_tid] = None THEN None
                         ELSE off_cpu[prev_tid].waker_tid,
           wait_type |-> FutexCause(ts, prev_tid)]]
  ELSE off_cpu

SwitchOut(ts, prev_tid, prev_state) ==
  IF Sleeps(prev_tid, prev_state)
  THEN [off_cpu EXCEPT ![prev_tid] =
          [switch_out_ns |-> ts, waker_tid |-> None,
           wait_type |-> FutexCause(ts, prev_tid)]]
  ELSE off_cpu

\* Mutant: waiter and waker are swapped.
DeferredEdgeReversed(ts, tid, record) ==
  [switch_in_ns |-> ts, src |-> record.waker_tid, dst |-> tid,
   window |-> SchedWindow(record.switch_out_ns, ts),
   wait_type |-> record.wait_type]

\* Stage 3: next_tid comes on-CPU; its record, if it has a waker, is deferred.
DeferredEdge(ts, tid, record) ==
  [switch_in_ns |-> ts, src |-> tid, dst |-> record.waker_tid,
   window |-> SchedWindow(record.switch_out_ns, ts),
   wait_type |-> record.wait_type]

handle_switch(ts, prev_tid, prev_state, next_tid) ==
  LET resolves == Resolves(prev_tid)
      filtered == resolves /\ Spurious(ts, prev_tid, prev_state)
      commits  == resolves /\ ~filtered
      kept     == IF resolves THEN [pending_edges EXCEPT ![prev_tid] = None]
                  ELSE pending_edges
      out      == SwitchOut(ts, prev_tid, prev_state)
      arrives  == next_tid # Idle
      matched  == arrives /\ out[next_tid] # None
      woken    == matched /\ out[next_tid].waker_tid # None
  IN  /\ edges' = IF commits
                  THEN Append(edges,
                              add_edge_from_pending(pending_edges[prev_tid]))
                  ELSE edges
      /\ pending_futex' = IF Sleeps(prev_tid, prev_state)
                          THEN [pending_futex EXCEPT ![prev_tid] = None]
                          ELSE pending_futex
      /\ off_cpu' = IF arrives THEN [out EXCEPT ![next_tid] = None] ELSE out
      /\ pending_edges' =
           IF woken
           THEN [kept EXCEPT ![next_tid] =
                   DeferredEdge(ts, next_tid, out[next_tid])]
           ELSE kept
      /\ stats' = Counted([events_processed |-> 1,
           edges_created |-> Bump(commits),
           false_wakeup_filtered_count |-> Bump(filtered),
           switch_in_without_waker_count |-> Bump(matched /\ ~woken),
           unmatched_switch_in_count |-> Bump(arrives /\ ~matched)])
      /\ seen' = [seen EXCEPT !.switch_in = @ + Bump(arrives)]
      /\ UNCHANGED pending_io

\* Mutant: the idle task is taken for a waker.
handle_wakeup_by_idle(target, source) ==
  LET matched == off_cpu[target] # None
  IN  /\ off_cpu' = IF matched
                    THEN [off_cpu EXCEPT ![target].waker_tid = source]
                    ELSE off_cpu
      /\ stats' = Counted([events_processed |-> 1,
           unmatched_wakeup_count |-> Bump(~matched)])
      /\ UNCHANGED <<pending_futex, pending_edges, pending_io, edges, seen>>

\* The idle task is no causal source: its wakeups are skipped.  Otherwise the
\* last waker wins.
handle_wakeup(target, source) ==
  LET counts  == source # Idle
      matched == counts /\ off_cpu[target] # None
  IN  /\ off_cpu' = IF matched
                    THEN [off_cpu EXCEPT ![target].waker_tid = source]
                    ELSE off_cpu
      /\ stats' = Counted([events_processed |-> 1,
           unmatched_wakeup_count |-> Bump(counts /\ ~matched)])
      /\ UNCHANGED <<pending_futex, pending_edges, pending_io, edges, seen>>

handle_futex_wait(ts, tid, op) ==
  /\ pending_futex' = [pending_futex EXCEPT ![tid] =
       [timestamp_ns |-> ts, wait_type |-> futex_op_to_wait_type(op)]]
  /\ stats' = Counted([events_processed |-> 1])
  /\ UNCHANGED <<off_cpu, pending_edges, pending_io, edges, seen>>

\* Mutant: an exiting thread's deferred edge is forgotten, not committed.
handle_exit_forgets(tid) ==
  /\ pending_edges' = [pending_edges EXCEPT ![tid] = None]
  /\ off_cpu' = [off_cpu EXCEPT ![tid] = None]
  /\ pending_futex' = [pending_futex EXCEPT ![tid] = None]
  /\ stats' = Counted([events_processed |-> 1])
  /\ UNCHANGED <<pending_io, edges, seen>>

\* The arm of EventType::Exit: commit_pending_edge, then forget the thread.
handle_exit(tid) ==
  LET commits == pending_edges[tid] # None
  IN  /\ edges' = IF commits
                  THEN Append(edges, add_edge_from_pending(pending_edges[tid]))
                  ELSE edges
      /\ pending_edges' = [pending_edges EXCEPT ![tid] = None]
      /\ off_cpu' = [off_cpu EXCEPT ![tid] = None]
      /\ pending_futex' = [pending_futex EXCEPT ![tid] = None]
      /\ stats' = Counted([events_processed |-> 1,
           edges_created |-> Bump(commits)])
      /\ UNCHANGED <<pending_io, seen>>

\* Mutant: an overwritten entry is not counted.
handle_io_issue_uncounted(ts, tid, key) ==
  /\ pending_io' = [pending_io EXCEPT ![key] =
       [submitter_tid |-> tid, issue_ts_ns |-> ts]]
  /\ stats' = Counted([events_processed |-> 1])
  /\ seen' = [seen EXCEPT !.io_issue = @ + 1]
  /\ UNCHANGED <<off_cpu, pending_futex, pending_edges, edges>>

handle_io_issue(ts, tid, key) ==
  /\ pending_io' = [pending_io EXCEPT ![key] =
       [submitter_tid |-> tid, issue_ts_ns |-> ts]]
  /\ stats' = Counted([events_processed |-> 1,
       io_userspace_pair_collision_count |-> Bump(pending_io[key] # None)])
  /\ seen' = [seen EXCEPT !.io_issue = @ + 1]
  /\ UNCHANGED <<off_cpu, pending_futex, pending_edges, edges>>

\* The User -> Disk edge, and the Disk -> User edge that only closes the cycle
IoEdges(pending, ts) ==
  LET window == IoWindow(pending.issue_ts_ns, ts)
  IN  << [src |-> pending.submitter_tid, dst |-> Disk, window |-> window,
          wait_type |-> "IoBlock", kind |-> "Normal"],
         [src |-> Disk, dst |-> pending.submitter_tid, window |-> window,
          wait_type |-> "IoBlock", kind |-> "SyntheticClosureReturn"] >>

\* Mutant: a paired completion leaves its issue in the table.
handle_io_complete_keeps(ts, key) ==
  LET paired == pending_io[key] # None
  IN  /\ edges' = IF paired THEN edges \o IoEdges(pending_io[key], ts)
                  ELSE edges
      /\ stats' = Counted([events_processed |-> 1,
           edges_created |-> 2 * Bump(paired),
           io_orphan_complete_count |-> Bump(~paired)])
      /\ seen' = [seen EXCEPT !.io_complete = @ + 1]
      /\ UNCHANGED tables

handle_io_complete(ts, key) ==
  LET paired == pending_io[key] # None
  IN  /\ pending_io' = [pending_io EXCEPT ![key] = None]
      /\ edges' = IF paired THEN edges \o IoEdges(pending_io[key], ts)
                  ELSE edges
      /\ stats' = Counted([events_processed |-> 1,
           edges_created |-> 2 * Bump(paired),
           io_orphan_complete_count |-> Bump(~paired)])
      /\ seen' = [seen EXCEPT !.io_complete = @ + 1]
      /\ UNCHANGED <<off_cpu, pending_futex, pending_edges>>

\* An event_type byte no EventType has
handle_unknown ==
  /\ stats' = Counted([events_processed |-> 1,
       unknown_event_type_count |-> 1])
  /\ UNCHANGED <<tables, edges, seen>>
-----------------------------------------------------------------------------
\* The arms of the match in correlate_events
Switch(ts) == \E prev_tid, next_tid \in Tid, prev_state \in {TASK_RUNNING, 1} :
  NextEvent(ts) /\ handle_switch(ts, prev_tid, prev_state, next_tid)
Wakeup(ts) == \E target, source \in Tid :
  NextEvent(ts) /\ handle_wakeup(target, source)
Exit(ts) == \E tid \in Tid : NextEvent(ts) /\ handle_exit(tid)
FutexWait(ts) == \E tid \in Thread, op \in FutexOp :
  NextEvent(ts) /\ handle_futex_wait(ts, tid, op)
IoIssue(ts) == \E tid \in Thread, key \in IoKey :
  NextEvent(ts) /\ handle_io_issue(ts, tid, key)
IoComplete(ts) == \E key \in IoKey :
  NextEvent(ts) /\ handle_io_complete(ts, key)
UnknownType(ts) == NextEvent(ts) /\ handle_unknown

\* The stream ends: nothing more is read.
EndOfEvents ==
  /\ phase = "events"
  /\ phase' = "drain"
  /\ UNCHANGED <<tables, edges, stats, last_ts, seen>>

\* pending_edges.drain(): the deferred edges, in any order, are committed.
DrainPendingEdge == \E tid \in Keys(pending_edges) :
  /\ phase = "drain"
  /\ edges' = Append(edges, add_edge_from_pending(pending_edges[tid]))
  /\ pending_edges' = [pending_edges EXCEPT ![tid] = None]
  /\ stats' = Counted([edges_created |-> 1])
  /\ UNCHANGED <<off_cpu, pending_futex, pending_io, last_ts, phase, seen>>

\* Mutant: the deferred edges are not drained before returning.
ReturnUndrained ==
  /\ phase = "drain"
  /\ stats' = [stats EXCEPT
       !.io_pending_at_end_count = Cardinality(Keys(pending_io))]
  /\ phase' = "done"
  /\ UNCHANGED <<tables, edges, last_ts, seen>>

\* The requests left over are counted, and correlate_events returns.
Return ==
  /\ phase = "drain"
  /\ Keys(pending_edges) = {}
  /\ stats' = [stats EXCEPT
       !.io_pending_at_end_count = Cardinality(Keys(pending_io))]
  /\ phase' = "done"
  /\ UNCHANGED <<tables, edges, last_ts, seen>>

Next ==
  \/ \E ts \in Ts :
       \/ Switch(ts) \/ Wakeup(ts) \/ Exit(ts) \/ FutexWait(ts)
       \/ IoIssue(ts) \/ IoComplete(ts) \/ UnknownType(ts)
  \/ EndOfEvents
  \/ DrainPendingEdge
  \/ Return

Spec == Init /\ [][Next]_corrVars

-----------------------------------------------------------------------------
(***************************************************************************)
(* Properties                                                              *)
(***************************************************************************)
\* Type invariant: every table holds records of its struct, with timestamps of
\* the stream; a waker, a waiter and a submitter is never the idle task.
TypeOK ==
  /\ off_cpu \in [Tid -> OffCpuRecord \cup {None}]
  /\ pending_futex \in [Tid -> PendingFutex \cup {None}]
  /\ pending_edges \in [Tid -> PendingEdge \cup {None}]
  /\ pending_io \in [IoKey -> PendingIo \cup {None}]
  /\ edges \in Seq(Edge)
  /\ stats \in [Counter -> Nat]
  /\ last_ts \in Ts
  /\ phase \in {"events", "drain", "done"}
  /\ seen \in Seen

\* Paired completions: each added two edges
IoPairs == seen.io_complete - stats.io_orphan_complete_count

\* No thread is off-CPU and has a deferred edge at once, whatever was lost from
\* the stream.  This is why pending_edges.insert in handle_switch can never
\* overwrite an edge that was neither committed nor filtered.
OffCpuOrDeferred ==
  /\ \A t \in Tid : off_cpu[t] = None \/ pending_edges[t] = None
  /\ off_cpu[Idle] = None /\ pending_edges[Idle] = None

\* Every switch-in ends up in exactly one place: unmatched, without a waker,
\* filtered as spurious, deferred, or an edge of the graph.  The counters of
\* CorrelationStats lose no wait and count none twice.
WaitConservation ==
  seen.switch_in =
    stats.unmatched_switch_in_count + stats.switch_in_without_waker_count
      + stats.false_wakeup_filtered_count + Cardinality(Keys(pending_edges))
      + (stats.edges_created - 2 * IoPairs)

\* Every issue is paired, pending or overwritten: the three counters of the
\* block-I/O health metrics account for every IoIssue and IoComplete.
IoConservation ==
  seen.io_issue = IoPairs + Cardinality(Keys(pending_io))
                    + stats.io_userspace_pair_collision_count

\* When correlate_events returns, no deferred wait is left behind and the
\* edges of the graph are the ones the statistics count.
NothingLeftBehind ==
  phase = "done" =>
    /\ Keys(pending_edges) = {}
    /\ Len(edges) = stats.edges_created
    /\ stats.io_pending_at_end_count = Cardinality(Keys(pending_io))

\* The scheduler waits of one thread: committed, deferred, and the one going on
WaitWindows(t) ==
  {edges[i].window : i \in {j \in DOMAIN edges :
                              edges[j].src = t /\ edges[j].dst # Disk}}
  \cup {pending_edges[u].window : u \in Keys(pending_edges) \cap {t}}

\* Two waits of one thread never overlap although their ends are rounded to
\* milliseconds, so a thread is never charged twice for one moment, and the
\* wait it is in starts after all of them.
WaitsOfAThreadDisjoint ==
  \A t \in Thread :
    /\ \A v, w \in WaitWindows(t) :
         v = w \/ v.end_ms <= w.start_ms \/ w.end_ms <= v.start_ms
    /\ off_cpu[t] # None =>
         \A w \in WaitWindows(t) :
           w.end_ms <= off_cpu[t].switch_out_ns \div NsPerMs

\* A deferred edge leaves the table only into the graph or into the count of
\* filtered wakeups, whichever handler removes it.
EdgeFate(t) ==
  \/ pending_edges'[t] = pending_edges[t]
  \/ edges' = Append(edges, add_edge_from_pending(pending_edges[t]))
  \/ stats'.false_wakeup_filtered_count =
       stats.false_wakeup_filtered_count + 1
DeferredEdgeFate == [][\A t \in Keys(pending_edges) : EdgeFate(t)]_corrVars
=============================================================================
