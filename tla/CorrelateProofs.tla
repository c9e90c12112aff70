--------------------------- MODULE CorrelateProofs ---------------------------
(***************************************************************************)
(* Correlate for every set of threads, every stream, and every value of    *)
(* the windows and thresholds.                                             *)
(***************************************************************************)
EXTENDS Correlate, FiniteSetTheorems, TLAPS

USE DEF TASK_RUNNING

-----------------------------------------------------------------------------
(***************************************************************************)
(* The operators the handlers are built from.                              *)
(***************************************************************************)
\* A step adds 0 or 1 to a counter.
LEMMA BumpType == ASSUME NEW p PROVE Bump(p) \in {0, 1}
BY DEF Bump

\* saturating_sub stays a natural number.
LEMMA SaturatingSubType ==
  ASSUME NEW a \in Nat, NEW b \in Nat PROVE SaturatingSub(a, b) \in Nat
BY DEF SaturatingSub

\* Milliseconds are natural numbers.
LEMMA DivType == ASSUME NEW a \in Nat PROVE a \div NsPerMs \in Nat
BY CorrelateAssumption

\* Timestamps are natural numbers.
LEMMA TsNat == Ts \subseteq Nat
BY CorrelateAssumption DEF Ts

\* Both kinds of window are windows.
LEMMA WindowType ==
  ASSUME NEW a \in Ts, NEW b \in Ts
  PROVE  SchedWindow(a, b) \in TimeWindow /\ IoWindow(a, b) \in TimeWindow
<1>1. a \in Nat /\ b \in Nat
  BY TsNat
<1>2. a \div NsPerMs \in Nat /\ b \div NsPerMs \in Nat
      /\ SaturatingSub(b, a) \div NsPerMs \in Nat
  BY <1>1, DivType, SaturatingSubType
<1> HIDE DEF SaturatingSub
<1>3. SchedWindow(a, b) \in TimeWindow
  BY <1>2 DEF SchedWindow, TimeWindow
<1>4. IoWindow(a, b) \in TimeWindow
  BY <1>2 DEF IoWindow, TimeWindow
<1> QED BY <1>3, <1>4

\* add_edge_from_pending makes an edge of the graph.
LEMMA EdgeOfPending ==
  ASSUME NEW pe \in PendingEdge PROVE add_edge_from_pending(pe) \in Edge
BY DEF PendingEdge, Edge, EdgeKind, add_edge_from_pending

\* Every futex operation, known or not, has a wait type.
LEMMA FutexType == \A op : futex_op_to_wait_type(op) \in WaitType
BY DEF futex_op_to_wait_type, WaitType

-----------------------------------------------------------------------------
(***************************************************************************)
(* The counters after each kind of step: the ones the conservation laws    *)
(* are about.                                                              *)
(***************************************************************************)
LEMMA CountSwitch ==
  ASSUME stats \in [Counter -> Nat],
         NEW b \in Nat, NEW c \in Nat, NEW d \in Nat, NEW e \in Nat,
         stats' = Counted([events_processed |-> 1, edges_created |-> b,
           false_wakeup_filtered_count |-> c,
           switch_in_without_waker_count |-> d,
           unmatched_switch_in_count |-> e])
  PROVE  /\ stats' \in [Counter -> Nat]
         /\ stats'.edges_created = stats.edges_created + b
         /\ stats'.false_wakeup_filtered_count =
              stats.false_wakeup_filtered_count + c
         /\ stats'.switch_in_without_waker_count =
              stats.switch_in_without_waker_count + d
         /\ stats'.unmatched_switch_in_count =
              stats.unmatched_switch_in_count + e
         /\ stats'.io_orphan_complete_count = stats.io_orphan_complete_count
         /\ stats'.io_userspace_pair_collision_count =
              stats.io_userspace_pair_collision_count
BY DEF Counter, Counted

\* The counters of the waits and of the requests are left alone.
SameWaits ==
  /\ stats'.false_wakeup_filtered_count = stats.false_wakeup_filtered_count
  /\ stats'.switch_in_without_waker_count = stats.switch_in_without_waker_count
  /\ stats'.unmatched_switch_in_count = stats.unmatched_switch_in_count
SameIo ==
  /\ stats'.io_orphan_complete_count = stats.io_orphan_complete_count
  /\ stats'.io_userspace_pair_collision_count =
       stats.io_userspace_pair_collision_count

\* A wakeup, a futex wait and an event of an unknown type
LEMMA CountOther ==
  ASSUME stats \in [Counter -> Nat], NEW b \in Nat,
         \/ stats' = Counted([events_processed |-> 1])
         \/ stats' = Counted([events_processed |-> 1, unmatched_wakeup_count |-> b])
         \/ stats' = Counted([events_processed |-> 1,
                              unknown_event_type_count |-> b])
  PROVE  /\ stats' \in [Counter -> Nat] /\ SameWaits /\ SameIo
         /\ stats'.edges_created = stats.edges_created
BY DEF Counter, Counted, SameWaits, SameIo

\* An exit, and the drain of a deferred edge
LEMMA CountCommit ==
  ASSUME stats \in [Counter -> Nat], NEW b \in Nat,
         \/ stats' = Counted([events_processed |-> 1, edges_created |-> b])
         \/ stats' = Counted([edges_created |-> b])
  PROVE  /\ stats' \in [Counter -> Nat] /\ SameWaits /\ SameIo
         /\ stats'.edges_created = stats.edges_created + b
BY DEF Counter, Counted, SameWaits, SameIo

\* handle_io_issue: at most a collision is counted.
LEMMA CountIoIssue ==
  ASSUME stats \in [Counter -> Nat], NEW b \in Nat,
         stats' = Counted([events_processed |-> 1,
                           io_userspace_pair_collision_count |-> b])
  PROVE  /\ stats' \in [Counter -> Nat] /\ SameWaits
         /\ stats'.edges_created = stats.edges_created
         /\ stats'.io_orphan_complete_count = stats.io_orphan_complete_count
         /\ stats'.io_userspace_pair_collision_count =
              stats.io_userspace_pair_collision_count + b
BY DEF Counter, Counted, SameWaits

\* handle_io_complete: two edges, or an orphan.
LEMMA CountIoComplete ==
  ASSUME stats \in [Counter -> Nat], NEW b \in Nat, NEW c \in Nat,
         stats' = Counted([events_processed |-> 1, edges_created |-> b,
                           io_orphan_complete_count |-> c])
  PROVE  /\ stats' \in [Counter -> Nat] /\ SameWaits
         /\ stats'.edges_created = stats.edges_created + b
         /\ stats'.io_orphan_complete_count = stats.io_orphan_complete_count + c
         /\ stats'.io_userspace_pair_collision_count =
              stats.io_userspace_pair_collision_count
BY DEF Counter, Counted, SameWaits

\* A table gains and loses keys one at a time.
LEMMA KeysOfTable ==
  ASSUME NEW S, IsFiniteSet(S), NEW f, DOMAIN f = S
  PROVE  IsFiniteSet(Keys(f)) /\ Cardinality(Keys(f)) \in Nat
<1>1. Keys(f) \subseteq S
  BY DEF Keys
<1> QED BY <1>1, FS_Subset, FS_CardinalityType

\* HashMap::remove takes away one key, or none.
LEMMA KeysRemove ==
  ASSUME NEW S, IsFiniteSet(S), NEW f, NEW g, NEW k \in S, DOMAIN f = S,
         DOMAIN g = S, g[k] = None, \A x \in S \ {k} : g[x] = f[x]
  PROVE  /\ f[k] # None => Cardinality(Keys(g)) = Cardinality(Keys(f)) - 1
         /\ f[k] = None => Cardinality(Keys(g)) = Cardinality(Keys(f))
<1>1. Keys(g) = Keys(f) \ {k}
  BY DEF Keys
<1>2. IsFiniteSet(Keys(f)) /\ (k \in Keys(f) <=> f[k] # None)
  BY KeysOfTable DEF Keys
<1>3. f[k] = None => Keys(g) = Keys(f)
  BY <1>1, <1>2
<1>4. f[k] # None => Cardinality(Keys(g)) = Cardinality(Keys(f)) - 1
  BY <1>1, <1>2, FS_RemoveElement
<1> QED BY <1>3, <1>4

\* HashMap::insert adds one key, or replaces a record.
LEMMA KeysInsert ==
  ASSUME NEW S, IsFiniteSet(S), NEW f, NEW g, NEW k \in S, DOMAIN f = S,
         DOMAIN g = S, g[k] # None, \A x \in S \ {k} : g[x] = f[x]
  PROVE  /\ f[k] = None => Cardinality(Keys(g)) = Cardinality(Keys(f)) + 1
         /\ f[k] # None => Cardinality(Keys(g)) = Cardinality(Keys(f))
<1>1. Keys(g) = Keys(f) \cup {k}
  BY DEF Keys
<1>2. IsFiniteSet(Keys(f)) /\ (k \in Keys(f) <=> f[k] # None)
  BY KeysOfTable DEF Keys
<1>3. f[k] # None => Keys(g) = Keys(f)
  BY <1>1, <1>2
<1>4. f[k] = None => Cardinality(Keys(g)) = Cardinality(Keys(f)) + 1
  BY <1>1, <1>2, FS_AddElement
<1> QED BY <1>3, <1>4

\* The history counts after a step
LEMMA SeenAdd ==
  ASSUME NEW f \in Seen, NEW b \in Nat
  PROVE  /\ [f EXCEPT !.switch_in = @ + b] \in Seen
         /\ [f EXCEPT !.io_issue = @ + b] \in Seen
         /\ [f EXCEPT !.io_complete = @ + b] \in Seen
BY DEF Seen

\* An edge is appended to the graph.
LEMMA AppendType ==
  ASSUME NEW S, NEW s \in Seq(S), NEW x \in S PROVE Append(s, x) \in Seq(S)
OBVIOUS

-----------------------------------------------------------------------------
(***************************************************************************)
(* Type correctness, handler by handler.                                   *)
(***************************************************************************)
\* TypeOK without the loop's own variables, which no handler changes
DataOK ==
  /\ off_cpu \in [Tid -> OffCpuRecord \cup {None}]
  /\ pending_futex \in [Tid -> PendingFutex \cup {None}]
  /\ pending_edges \in [Tid -> PendingEdge \cup {None}]
  /\ pending_io \in [IoKey -> PendingIo \cup {None}]
  /\ edges \in Seq(Edge)
  /\ stats \in [Counter -> Nat]
  /\ seen \in Seen

\* The cause handle_switch takes from pending_futex.
LEMMA FutexCauseType ==
  ASSUME DataOK, NEW ts \in Ts, NEW tid \in Tid
  PROVE  FutexCause(ts, tid) \in WaitType \cup {None}
BY DEF DataOK, FutexCause, PendingFutex

\* The record handle_switch inserts for the thread switched out.
LEMMA SwitchOutType ==
  ASSUME DataOK, NEW ts \in Ts, NEW prev_tid \in Tid, NEW prev_state \in Nat
  PROVE  SwitchOut(ts, prev_tid, prev_state) \in [Tid -> OffCpuRecord \cup {None}]
<1>1. [switch_out_ns |-> ts, waker_tid |-> None,
       wait_type |-> FutexCause(ts, prev_tid)] \in OffCpuRecord
  BY FutexCauseType DEF OffCpuRecord
<1> QED BY <1>1 DEF SwitchOut, DataOK

\* The edge handle_switch defers for the thread switched in: its waker is a thread.
LEMMA DeferredEdgeType ==
  ASSUME NEW ts \in Ts, NEW tid \in Thread, NEW record \in OffCpuRecord,
         record.waker_tid # None
  PROVE  DeferredEdge(ts, tid, record) \in PendingEdge
<1>1. record.switch_out_ns \in Ts /\ record.waker_tid \in Thread
      /\ record.wait_type \in WaitType \cup {None}
  BY DEF OffCpuRecord
<1>2. SchedWindow(record.switch_out_ns, ts) \in TimeWindow
  BY <1>1, WindowType
<1> QED BY <1>1, <1>2 DEF DeferredEdge, PendingEdge

\* The cases of a switch, as handle_switch names them
Filters(ts, prev_tid, prev_state) ==
  Resolves(prev_tid) /\ Spurious(ts, prev_tid, prev_state)
Commits(ts, prev_tid, prev_state) ==
  Resolves(prev_tid) /\ ~Filters(ts, prev_tid, prev_state)
Matched(ts, prev_tid, prev_state, next_tid) ==
  next_tid # Idle /\ SwitchOut(ts, prev_tid, prev_state)[next_tid] # None
Woken(ts, prev_tid, prev_state, next_tid) ==
  /\ Matched(ts, prev_tid, prev_state, next_tid)
  /\ SwitchOut(ts, prev_tid, prev_state)[next_tid].waker_tid # None

\* What a switch adds to the counters
SwitchCounts(ts, prev_tid, prev_state, next_tid) ==
  LET commits  == Commits(ts, prev_tid, prev_state)
      filtered == Filters(ts, prev_tid, prev_state)
      matched  == Matched(ts, prev_tid, prev_state, next_tid)
      woken    == Woken(ts, prev_tid, prev_state, next_tid)
  IN  /\ stats'.edges_created = stats.edges_created + Bump(commits)
      /\ stats'.false_wakeup_filtered_count =
           stats.false_wakeup_filtered_count + Bump(filtered)
      /\ stats'.switch_in_without_waker_count =
           stats.switch_in_without_waker_count + Bump(matched /\ ~woken)
      /\ stats'.unmatched_switch_in_count =
           stats.unmatched_switch_in_count + Bump(next_tid # Idle /\ ~matched)
      /\ SameIo

\* handle_switch: each of its counters goes up by 0 or 1.
LEMMA SwitchCounted ==
  ASSUME DataOK, NEW ts, NEW prev_tid, NEW prev_state, NEW next_tid,
         handle_switch(ts, prev_tid, prev_state, next_tid)
  PROVE  /\ stats' \in [Counter -> Nat]
         /\ SwitchCounts(ts, prev_tid, prev_state, next_tid)
<1> DEFINE commits  == Commits(ts, prev_tid, prev_state)
           filtered == Filters(ts, prev_tid, prev_state)
           matched  == Matched(ts, prev_tid, prev_state, next_tid)
           woken    == Woken(ts, prev_tid, prev_state, next_tid)
<1>1. stats' = Counted([events_processed |-> 1,
         edges_created |-> Bump(commits),
         false_wakeup_filtered_count |-> Bump(filtered),
         switch_in_without_waker_count |-> Bump(matched /\ ~woken),
         unmatched_switch_in_count |-> Bump(next_tid # Idle /\ ~matched)])
  BY Zenon DEF handle_switch, Commits, Filters, Matched, Woken
<1>2. /\ Bump(commits) \in Nat /\ Bump(filtered) \in Nat
      /\ Bump(matched /\ ~woken) \in Nat
      /\ Bump(next_tid # Idle /\ ~matched) \in Nat
  BY DEF Bump
<1>3. stats \in [Counter -> Nat]
  BY DEF DataOK
<1> HIDE DEF commits, filtered, matched, woken
<1>4. /\ stats' \in [Counter -> Nat]
      /\ stats'.edges_created = stats.edges_created + Bump(commits)
      /\ stats'.false_wakeup_filtered_count =
           stats.false_wakeup_filtered_count + Bump(filtered)
      /\ stats'.switch_in_without_waker_count =
           stats.switch_in_without_waker_count + Bump(matched /\ ~woken)
      /\ stats'.unmatched_switch_in_count =
           stats.unmatched_switch_in_count + Bump(next_tid # Idle /\ ~matched)
      /\ SameIo
  BY <1>1, <1>2, <1>3, CountSwitch DEF SameIo
<1> QED BY <1>4 DEF SwitchCounts, commits, filtered, matched, woken

\* handle_switch keeps the types of the tables.
LEMMA SwitchType ==
  ASSUME DataOK, NEW ts \in Ts, NEW prev_tid \in Tid, NEW prev_state \in Nat,
         NEW next_tid \in Tid, handle_switch(ts, prev_tid, prev_state, next_tid)
  PROVE  DataOK'
<1> DEFINE out == SwitchOut(ts, prev_tid, prev_state)
<1>1. out \in [Tid -> OffCpuRecord \cup {None}]
  BY SwitchOutType
<1>2. off_cpu' \in [Tid -> OffCpuRecord \cup {None}]
  <2> HIDE DEF out
  <2>1. off_cpu' = IF next_tid # Idle THEN [out EXCEPT ![next_tid] = None] ELSE out
    BY DEF handle_switch, out
  <2> QED BY <1>1, <2>1
<1>3. pending_futex' \in [Tid -> PendingFutex \cup {None}]
  BY DEF handle_switch, DataOK
<1>4. pending_edges' \in [Tid -> PendingEdge \cup {None}]
  <2> DEFINE kept == IF Resolves(prev_tid)
                     THEN [pending_edges EXCEPT ![prev_tid] = None]
                     ELSE pending_edges
             woken == /\ next_tid # Idle /\ out[next_tid] # None
                      /\ out[next_tid].waker_tid # None
  <2>1. kept \in [Tid -> PendingEdge \cup {None}]
    BY DEF DataOK
  <2>2. pending_edges' = IF woken
                         THEN [kept EXCEPT ![next_tid] =
                                 DeferredEdge(ts, next_tid, out[next_tid])]
                         ELSE kept
    BY DEF handle_switch
  <2>3. ASSUME woken PROVE DeferredEdge(ts, next_tid, out[next_tid]) \in PendingEdge
    <3> HIDE DEF out
    <3> QED BY <1>1, <2>3, DeferredEdgeType DEF Tid
  <2> HIDE DEF kept, woken, out
  <2> QED BY <2>1, <2>2, <2>3
<1>5. edges' \in Seq(Edge)
  <2>1. edges \in Seq(Edge)
    BY DEF DataOK
  <2>2. ASSUME Resolves(prev_tid)
        PROVE  add_edge_from_pending(pending_edges[prev_tid]) \in Edge
    BY <2>2, EdgeOfPending DEF Resolves, DataOK
  <2>3. \/ edges' = edges
        \/ /\ Resolves(prev_tid)
           /\ edges' = Append(edges, add_edge_from_pending(pending_edges[prev_tid]))
    BY DEF handle_switch
  <2> QED BY <2>1, <2>2, <2>3, AppendType
<1>6. stats' \in [Counter -> Nat] /\ SwitchCounts(ts, prev_tid, prev_state, next_tid)
  BY SwitchCounted
<1>7. seen' \in Seen
  <2>1. seen' = [seen EXCEPT !.switch_in = @ + Bump(next_tid # Idle)]
    BY DEF handle_switch
  <2>2. Bump(next_tid # Idle) \in Nat
    BY DEF Bump
  <2> QED BY <2>1, <2>2, SeenAdd DEF DataOK
<1>8. pending_io' = pending_io
  BY DEF handle_switch
<1> QED BY <1>2, <1>3, <1>4, <1>5, <1>6, <1>7, <1>8 DEF DataOK

\* handle_wakeup keeps the types of the tables.
LEMMA WakeupType ==
  ASSUME DataOK, NEW target \in Tid, NEW source \in Tid,
         handle_wakeup(target, source)
  PROVE  DataOK'
<1>1. off_cpu' \in [Tid -> OffCpuRecord \cup {None}]
  <2>1. ASSUME source # Idle, off_cpu[target] # None
        PROVE  [off_cpu[target] EXCEPT !.waker_tid = source] \in OffCpuRecord
    BY <2>1 DEF DataOK, OffCpuRecord, Tid
  <2> QED BY <2>1 DEF handle_wakeup, DataOK
<1>2. stats' \in [Counter -> Nat]
  <2>1. PICK b \in Nat :
          stats' = Counted([events_processed |-> 1, unmatched_wakeup_count |-> b])
    BY DEF handle_wakeup, Bump
  <2> QED BY <2>1, CountOther DEF DataOK
<1>3. seen' \in Seen
  BY DEF handle_wakeup, DataOK
<1> QED BY <1>1, <1>2, <1>3 DEF handle_wakeup, DataOK

\* handle_futex_wait keeps the types of the tables.
LEMMA FutexWaitType ==
  ASSUME DataOK, NEW ts \in Ts, NEW tid \in Thread, NEW op \in FutexOp,
         handle_futex_wait(ts, tid, op)
  PROVE  DataOK'
<1>1. [timestamp_ns |-> ts, wait_type |-> futex_op_to_wait_type(op)] \in PendingFutex
  BY FutexType DEF PendingFutex
<1>2. pending_futex' \in [Tid -> PendingFutex \cup {None}]
  BY <1>1 DEF handle_futex_wait, DataOK
<1>3. stats' \in [Counter -> Nat]
  BY CountOther DEF handle_futex_wait, DataOK
<1> QED BY <1>2, <1>3 DEF handle_futex_wait, DataOK

\* The exit of a thread keeps the types of the tables.
LEMMA ExitType ==
  ASSUME DataOK, NEW tid \in Tid, handle_exit(tid)
  PROVE  DataOK'
<1>1. edges' \in Seq(Edge)
  <2>1. ASSUME pending_edges[tid] # None
        PROVE  add_edge_from_pending(pending_edges[tid]) \in Edge
    BY <2>1, EdgeOfPending DEF DataOK
  <2> QED BY <2>1 DEF handle_exit, DataOK
<1>2. stats' \in [Counter -> Nat]
  <2>1. PICK b \in Nat :
          stats' = Counted([events_processed |-> 1, edges_created |-> b])
    BY DEF handle_exit, Bump
  <2> QED BY <2>1, CountCommit DEF DataOK
<1>3. /\ off_cpu' \in [Tid -> OffCpuRecord \cup {None}]
      /\ pending_futex' \in [Tid -> PendingFutex \cup {None}]
      /\ pending_edges' \in [Tid -> PendingEdge \cup {None}]
  BY DEF handle_exit, DataOK
<1> QED BY <1>1, <1>2, <1>3 DEF handle_exit, DataOK

\* handle_io_issue keeps the types of the tables.
LEMMA IoIssueType ==
  ASSUME DataOK, NEW ts \in Ts, NEW tid \in Thread, NEW key \in IoKey,
         handle_io_issue(ts, tid, key)
  PROVE  DataOK'
<1>1. pending_io' \in [IoKey -> PendingIo \cup {None}]
  <2>1. [submitter_tid |-> tid, issue_ts_ns |-> ts] \in PendingIo
    BY DEF PendingIo
  <2> QED BY <2>1 DEF handle_io_issue, DataOK
<1>2. stats' \in [Counter -> Nat]
  <2>1. PICK b \in Nat :
          stats' = Counted([events_processed |-> 1,
                            io_userspace_pair_collision_count |-> b])
    BY DEF handle_io_issue, Bump
  <2> QED BY <2>1, CountIoIssue DEF DataOK
<1>3. seen' \in Seen
  BY SeenAdd DEF handle_io_issue, DataOK
<1> QED BY <1>1, <1>2, <1>3 DEF handle_io_issue, DataOK

\* The pair of edges of a completed request are edges of the graph.
LEMMA IoEdgesType ==
  ASSUME NEW pending \in PendingIo, NEW ts \in Ts
  PROVE  IoEdges(pending, ts) \in Seq(Edge) /\ Len(IoEdges(pending, ts)) = 2
<1>1. pending.submitter_tid \in Thread /\ pending.issue_ts_ns \in Ts
  BY DEF PendingIo
<1>2. IoWindow(pending.issue_ts_ns, ts) \in TimeWindow
  BY <1>1, WindowType
<1> QED BY <1>1, <1>2 DEF IoEdges, Edge, EdgeKind, WaitType

\* handle_io_complete keeps the types of the tables.
LEMMA IoCompleteType ==
  ASSUME DataOK, NEW ts \in Ts, NEW key \in IoKey, handle_io_complete(ts, key)
  PROVE  DataOK'
<1>1. edges' \in Seq(Edge)
  <2>1. ASSUME pending_io[key] # None
        PROVE  IoEdges(pending_io[key], ts) \in Seq(Edge)
    BY <2>1, IoEdgesType DEF DataOK
  <2> QED BY <2>1 DEF handle_io_complete, DataOK
<1>2. stats' \in [Counter -> Nat]
  <2> DEFINE paired == pending_io[key] # None
  <2>1. stats' = Counted([events_processed |-> 1,
                          edges_created |-> 2 * Bump(paired),
                          io_orphan_complete_count |-> Bump(~paired)])
    BY DEF handle_io_complete
  <2>2. 2 * Bump(paired) \in Nat /\ Bump(~paired) \in Nat
    BY DEF Bump
  <2> HIDE DEF paired
  <2> QED BY <2>1, <2>2, CountIoComplete DEF DataOK
<1>3. seen' \in Seen
  BY SeenAdd DEF handle_io_complete, DataOK
<1>4. pending_io' \in [IoKey -> PendingIo \cup {None}]
  BY DEF handle_io_complete, DataOK
<1> QED BY <1>1, <1>2, <1>3, <1>4 DEF handle_io_complete, DataOK

-----------------------------------------------------------------------------
(***************************************************************************)
(* The inductive invariant.  WaitConservation alone is not inductive: a    *)
(* switch that defers an edge adds a key to pending_edges only because the *)
(* thread it switches in, being off-CPU, cannot have one already.          *)
(***************************************************************************)
CoreInv == DataOK /\ OffCpuOrDeferred /\ WaitConservation /\ IoConservation

\* The tables have finitely many keys.
LEMMA FiniteTables == IsFiniteSet(Tid) /\ IsFiniteSet(IoKey)
BY CorrelateAssumption, FS_AddElement DEF Tid

\* The sizes of the deferred and of the pending table are numbers.
LEMMA PendingSizes ==
  ASSUME DataOK
  PROVE  /\ Cardinality(Keys(pending_edges)) \in Nat
         /\ Cardinality(Keys(pending_io)) \in Nat
<1>1. DOMAIN pending_edges = Tid /\ DOMAIN pending_io = IoKey
  BY DEF DataOK
<1> QED BY <1>1, FiniteTables, KeysOfTable

\* The counters and the history the laws add up are numbers.
LEMMA LawTypes ==
  ASSUME DataOK
  PROVE  /\ seen.switch_in \in Nat /\ seen.io_issue \in Nat
         /\ seen.io_complete \in Nat
         /\ stats.unmatched_switch_in_count \in Nat
         /\ stats.switch_in_without_waker_count \in Nat
         /\ stats.false_wakeup_filtered_count \in Nat
         /\ stats.edges_created \in Nat
         /\ stats.io_orphan_complete_count \in Nat
         /\ stats.io_userspace_pair_collision_count \in Nat
BY DEF DataOK, Seen, Counter

\* Laws that a step keeps because it leaves alone what they add up
LEMMA SameLaws ==
  ASSUME CoreInv, DataOK', OffCpuOrDeferred', SameWaits, SameIo,
         stats'.edges_created = stats.edges_created,
         seen'.switch_in = seen.switch_in, seen'.io_issue = seen.io_issue,
         seen'.io_complete = seen.io_complete,
         pending_edges' = pending_edges, pending_io' = pending_io
  PROVE  CoreInv'
BY DEF CoreInv, WaitConservation, IoConservation, IoPairs, SameWaits, SameIo

\* The tables after a switch
LEMMA SwitchTables ==
  ASSUME CoreInv, NEW ts \in Ts, NEW prev_tid \in Tid, NEW prev_state \in Nat,
         NEW next_tid \in Tid, handle_switch(ts, prev_tid, prev_state, next_tid)
  PROVE  /\ OffCpuOrDeferred'
         /\ Cardinality(Keys(pending_edges')) =
              Cardinality(Keys(pending_edges)) - Bump(Resolves(prev_tid))
                + Bump(Woken(ts, prev_tid, prev_state, next_tid))
<1> DEFINE out   == SwitchOut(ts, prev_tid, prev_state)
           kept  == IF Resolves(prev_tid)
                    THEN [pending_edges EXCEPT ![prev_tid] = None]
                    ELSE pending_edges
           woken == Woken(ts, prev_tid, prev_state, next_tid)
           edge  == DeferredEdge(ts, next_tid, out[next_tid])
<1>1. /\ off_cpu \in [Tid -> OffCpuRecord \cup {None}]
      /\ pending_edges \in [Tid -> PendingEdge \cup {None}]
      /\ out \in [Tid -> OffCpuRecord \cup {None}]
      /\ OffCpuOrDeferred /\ Idle \in Tid
  BY SwitchOutType DEF CoreInv, DataOK, Tid
<1>2. kept \in [Tid -> PendingEdge \cup {None}]
  BY <1>1
<1>3. \A t \in Tid : out[t] = off_cpu[t] \/ (t = prev_tid /\ prev_tid # Idle)
  BY <1>1 DEF SwitchOut, Sleeps
<1>4. \A t \in Tid : /\ kept[t] = None \/ kept[t] = pending_edges[t]
                     /\ t = prev_tid => kept[t] = None
  BY <1>1 DEF Resolves, OffCpuOrDeferred
<1>5. woken => next_tid # Idle /\ out[next_tid] # None
  BY DEF Woken, Matched
<1>6. off_cpu' = IF next_tid # Idle THEN [out EXCEPT ![next_tid] = None] ELSE out
  BY DEF handle_switch
<1>7. pending_edges' = IF woken THEN [kept EXCEPT ![next_tid] = edge] ELSE kept
  BY DEF handle_switch, Woken, Matched
<1>8. woken => edge \in PendingEdge /\ edge # None
  <2>1. ASSUME woken PROVE edge \in PendingEdge
    <3>1. out[next_tid].waker_tid # None /\ next_tid \in Thread
      BY <1>5, <2>1 DEF Woken, Tid
    <3> HIDE DEF out
    <3> QED BY <1>1, <1>5, <2>1, <3>1, DeferredEdgeType
  <2> QED BY <2>1, NoneAssumption
<1>9. woken => kept[next_tid] = None
  BY <1>1, <1>3, <1>4, <1>5 DEF OffCpuOrDeferred
<1>10. OffCpuOrDeferred'
  <2> HIDE DEF out, kept, woken, edge
  <2>1. ASSUME NEW t \in Tid PROVE off_cpu'[t] = None \/ pending_edges'[t] = None
    <3>1. CASE t = next_tid /\ next_tid # Idle
      BY <1>1, <1>6, <3>1
    <3>2. CASE ~(t = next_tid /\ next_tid # Idle)
      <4>1. off_cpu'[t] = out[t] /\ pending_edges'[t] = kept[t]
        BY <1>1, <1>2, <1>5, <1>6, <1>7, <3>2
      <4> QED BY <1>1, <1>3, <1>4, <4>1 DEF OffCpuOrDeferred
    <3> QED BY <3>1, <3>2
  <2>2. off_cpu'[Idle] = None
    BY <1>1, <1>3, <1>6 DEF OffCpuOrDeferred
  <2>3. pending_edges'[Idle] = None
    BY <1>1, <1>2, <1>4, <1>5, <1>7 DEF OffCpuOrDeferred
  <2> QED BY <2>1, <2>2, <2>3 DEF OffCpuOrDeferred
<1>11. Cardinality(Keys(kept)) =
         Cardinality(Keys(pending_edges)) - Bump(Resolves(prev_tid))
  <2>1. Cardinality(Keys(pending_edges)) \in Nat
    BY PendingSizes DEF CoreInv
  <2>2. CASE Resolves(prev_tid)
    <3>1. pending_edges[prev_tid] # None /\ kept = [pending_edges EXCEPT ![prev_tid] = None]
      BY <2>2 DEF Resolves
    <3>2. /\ DOMAIN pending_edges = Tid /\ DOMAIN kept = Tid
          /\ kept[prev_tid] = None
          /\ \A x \in Tid \ {prev_tid} : kept[x] = pending_edges[x]
      BY <1>1, <1>2, <3>1
    <3> HIDE DEF kept
    <3>3. Cardinality(Keys(kept)) = Cardinality(Keys(pending_edges)) - 1
      BY <3>1, <3>2, FiniteTables, KeysRemove
    <3> QED BY <2>2, <3>3 DEF Bump
  <2>3. CASE ~Resolves(prev_tid)
    BY <2>1, <2>3 DEF Bump
  <2> QED BY <2>2, <2>3
<1>12. Cardinality(Keys(pending_edges')) = Cardinality(Keys(kept)) + Bump(woken)
  <2> HIDE DEF kept, woken, edge
  <2>1. Cardinality(Keys(kept)) \in Nat
    <3>1. DOMAIN kept = Tid
      BY <1>2
    <3> QED BY <3>1, FiniteTables, KeysOfTable
  <2>2. CASE woken
    <3>1. /\ edge \in PendingEdge /\ edge # None /\ kept[next_tid] = None
          /\ pending_edges' = [kept EXCEPT ![next_tid] = edge]
      BY <1>7, <1>8, <1>9, <2>2
    <3>2. /\ DOMAIN kept = Tid /\ DOMAIN pending_edges' = Tid
          /\ pending_edges'[next_tid] # None
          /\ \A x \in Tid \ {next_tid} : pending_edges'[x] = kept[x]
      BY <1>2, <3>1
    <3>3. Cardinality(Keys(pending_edges')) = Cardinality(Keys(kept)) + 1
      BY <3>1, <3>2, FiniteTables, KeysInsert
    <3> QED BY <2>2, <3>3 DEF Bump
  <2>3. CASE ~woken
    BY <1>7, <2>1, <2>3 DEF Bump
  <2> QED BY <2>2, <2>3
<1> QED BY <1>10, <1>11, <1>12

\* handle_switch keeps the invariant.
LEMMA SwitchInv ==
  ASSUME CoreInv, NEW ts \in Ts, NEW prev_tid \in Tid, NEW prev_state \in Nat,
         NEW next_tid \in Tid, handle_switch(ts, prev_tid, prev_state, next_tid)
  PROVE  CoreInv'
<1> DEFINE resolves == Resolves(prev_tid)
           commits  == Commits(ts, prev_tid, prev_state)
           filtered == Filters(ts, prev_tid, prev_state)
           matched  == Matched(ts, prev_tid, prev_state, next_tid)
           woken    == Woken(ts, prev_tid, prev_state, next_tid)
           arrives  == next_tid # Idle
<1>1. DataOK /\ DataOK'
  BY SwitchType DEF CoreInv
<1>2. /\ OffCpuOrDeferred'
      /\ Cardinality(Keys(pending_edges')) =
           Cardinality(Keys(pending_edges)) - Bump(resolves) + Bump(woken)
  BY SwitchTables
<1>3. SwitchCounts(ts, prev_tid, prev_state, next_tid)
  BY <1>1, SwitchCounted
<1>4. /\ seen'.switch_in = seen.switch_in + Bump(arrives)
      /\ seen'.io_issue = seen.io_issue /\ seen'.io_complete = seen.io_complete
      /\ pending_io' = pending_io
  BY <1>1 DEF handle_switch, DataOK, Seen
<1>5. Bump(resolves) = Bump(commits) + Bump(filtered)
  BY DEF Bump, Commits, Filters
<1>6. Bump(arrives) = Bump(arrives /\ ~matched) + Bump(matched /\ ~woken)
                        + Bump(woken)
  BY DEF Bump, Matched, Woken
<1>7. /\ Bump(resolves) \in Nat /\ Bump(commits) \in Nat /\ Bump(filtered) \in Nat
      /\ Bump(arrives) \in Nat /\ Bump(arrives /\ ~matched) \in Nat
      /\ Bump(matched /\ ~woken) \in Nat /\ Bump(woken) \in Nat
  BY DEF Bump
<1>8. WaitConservation /\ IoConservation
  BY DEF CoreInv
<1>9. /\ stats'.edges_created = stats.edges_created + Bump(commits)
      /\ stats'.false_wakeup_filtered_count =
           stats.false_wakeup_filtered_count + Bump(filtered)
      /\ stats'.switch_in_without_waker_count =
           stats.switch_in_without_waker_count + Bump(matched /\ ~woken)
      /\ stats'.unmatched_switch_in_count =
           stats.unmatched_switch_in_count + Bump(arrives /\ ~matched)
      /\ SameIo
  BY <1>3 DEF SwitchCounts
<1> HIDE DEF resolves, commits, filtered, matched, woken, arrives
<1>10. WaitConservation'
  BY <1>1, <1>2, <1>4, <1>5, <1>6, <1>7, <1>8, <1>9, LawTypes, PendingSizes
     DEF WaitConservation, IoPairs, SameIo
<1>11. IoConservation'
  BY <1>4, <1>8, <1>9 DEF IoConservation, IoPairs, SameIo
<1> QED BY <1>1, <1>2, <1>10, <1>11 DEF CoreInv

\* handle_wakeup keeps the invariant.
LEMMA WakeupInv ==
  ASSUME CoreInv, NEW target \in Tid, NEW source \in Tid,
         handle_wakeup(target, source)
  PROVE  CoreInv'
<1>1. DataOK /\ DataOK'
  BY WakeupType DEF CoreInv
<1>2. OffCpuOrDeferred'
  <2>1. \A t \in Tid : off_cpu[t] = None => off_cpu'[t] = None
    BY <1>1 DEF handle_wakeup, DataOK
  <2>2. pending_edges' = pending_edges /\ Idle \in Tid
    BY DEF handle_wakeup, Tid
  <2> QED BY <2>1, <2>2 DEF CoreInv, OffCpuOrDeferred
<1>3. SameWaits /\ SameIo /\ stats'.edges_created = stats.edges_created
  <2>1. PICK b \in Nat :
          stats' = Counted([events_processed |-> 1, unmatched_wakeup_count |-> b])
    BY DEF handle_wakeup, Bump
  <2> QED BY <1>1, <2>1, CountOther DEF DataOK
<1>4. /\ seen'.switch_in = seen.switch_in /\ seen'.io_issue = seen.io_issue
      /\ seen'.io_complete = seen.io_complete
      /\ pending_edges' = pending_edges /\ pending_io' = pending_io
  BY <1>1 DEF handle_wakeup, DataOK, Seen
<1> QED BY <1>1, <1>2, <1>3, <1>4, SameLaws

\* handle_futex_wait keeps the invariant.
LEMMA FutexWaitInv ==
  ASSUME CoreInv, NEW ts \in Ts, NEW tid \in Thread, NEW op \in FutexOp,
         handle_futex_wait(ts, tid, op)
  PROVE  CoreInv'
<1>1. DataOK /\ DataOK'
  BY FutexWaitType DEF CoreInv
<1>2. OffCpuOrDeferred'
  BY DEF CoreInv, OffCpuOrDeferred, handle_futex_wait
<1>3. SameWaits /\ SameIo /\ stats'.edges_created = stats.edges_created
  BY <1>1, CountOther DEF handle_futex_wait, DataOK
<1> QED BY <1>1, <1>2, <1>3, SameLaws DEF handle_futex_wait

\* An event of an unknown type keeps the invariant.
LEMMA UnknownInv ==
  ASSUME CoreInv, handle_unknown
  PROVE  CoreInv'
<1>1. /\ stats' \in [Counter -> Nat] /\ SameWaits /\ SameIo
      /\ stats'.edges_created = stats.edges_created
  BY CountOther DEF CoreInv, handle_unknown, DataOK
<1>2. DataOK'
  BY <1>1 DEF CoreInv, handle_unknown, DataOK, tables
<1>3. OffCpuOrDeferred'
  BY DEF CoreInv, OffCpuOrDeferred, handle_unknown, tables
<1> QED BY <1>1, <1>2, <1>3, SameLaws DEF handle_unknown, tables

\* One deferred edge is committed, or there is none to commit.
LEMMA CommitLaws ==
  ASSUME CoreInv, NEW tid \in Tid, NEW b \in Nat,
         b = Bump(pending_edges[tid] # None),
         pending_edges' = [pending_edges EXCEPT ![tid] = None],
         SameWaits, SameIo, stats'.edges_created = stats.edges_created + b,
         seen' = seen, pending_io' = pending_io
  PROVE  WaitConservation' /\ IoConservation'
<1>1. /\ DataOK /\ WaitConservation /\ IoConservation
      /\ pending_edges \in [Tid -> PendingEdge \cup {None}]
  BY DEF CoreInv, DataOK
<1>2. Cardinality(Keys(pending_edges)) \in Nat
  BY <1>1, PendingSizes
<1>3. Cardinality(Keys(pending_edges')) = Cardinality(Keys(pending_edges)) - b
  <2>0. /\ DOMAIN pending_edges = Tid /\ DOMAIN pending_edges' = Tid
        /\ pending_edges'[tid] = None
        /\ \A x \in Tid \ {tid} : pending_edges'[x] = pending_edges[x]
    BY <1>1
  <2>1. CASE pending_edges[tid] # None
    <3>1. b = 1
      BY <2>1 DEF Bump
    <3>2. Cardinality(Keys(pending_edges')) = Cardinality(Keys(pending_edges)) - 1
      BY <2>0, <2>1, FiniteTables, KeysRemove
    <3> QED BY <3>1, <3>2
  <2>2. CASE pending_edges[tid] = None
    <3>1. b = 0
      BY <2>2 DEF Bump
    <3>2. Cardinality(Keys(pending_edges')) = Cardinality(Keys(pending_edges))
      BY <2>0, <2>2, FiniteTables, KeysRemove
    <3> QED BY <1>2, <3>1, <3>2
  <2> QED BY <2>1, <2>2
<1>4. WaitConservation'
  BY <1>1, <1>2, <1>3, LawTypes DEF WaitConservation, IoPairs, SameWaits, SameIo
<1>5. IoConservation'
  BY <1>1 DEF IoConservation, IoPairs, SameIo
<1> QED BY <1>4, <1>5

\* The exit of a thread keeps the invariant.
LEMMA ExitInv ==
  ASSUME CoreInv, NEW tid \in Tid, handle_exit(tid)
  PROVE  CoreInv'
<1> DEFINE b == Bump(pending_edges[tid] # None)
<1>1. DataOK /\ DataOK'
  BY ExitType DEF CoreInv
<1>2. OffCpuOrDeferred'
  BY <1>1 DEF CoreInv, OffCpuOrDeferred, handle_exit, DataOK, Tid
<1>3. b \in Nat
  BY DEF Bump
<1>4. stats' = Counted([events_processed |-> 1, edges_created |-> b])
  BY DEF handle_exit
<1>5. /\ pending_edges' = [pending_edges EXCEPT ![tid] = None]
      /\ seen' = seen /\ pending_io' = pending_io
  BY DEF handle_exit
<1> HIDE DEF b
<1>6. SameWaits /\ SameIo /\ stats'.edges_created = stats.edges_created + b
  BY <1>1, <1>3, <1>4, CountCommit DEF DataOK
<1>7. WaitConservation' /\ IoConservation'
  BY <1>3, <1>5, <1>6, CommitLaws DEF b
<1> QED BY <1>1, <1>2, <1>7 DEF CoreInv

\* handle_io_issue keeps the invariant.
LEMMA IoIssueInv ==
  ASSUME CoreInv, NEW ts \in Ts, NEW tid \in Thread, NEW key \in IoKey,
         handle_io_issue(ts, tid, key)
  PROVE  CoreInv'
<1> DEFINE b == Bump(pending_io[key] # None)
           v == [submitter_tid |-> tid, issue_ts_ns |-> ts]
<1>1. DataOK /\ DataOK' /\ WaitConservation /\ IoConservation
  BY IoIssueType DEF CoreInv
<1>2. OffCpuOrDeferred'
  BY DEF CoreInv, OffCpuOrDeferred, handle_io_issue
<1>3. b \in Nat
  BY DEF Bump
<1>4. stats' = Counted([events_processed |-> 1,
                        io_userspace_pair_collision_count |-> b])
  BY DEF handle_io_issue
<1>5. pending_io \in [IoKey -> PendingIo \cup {None}]
  BY <1>1 DEF DataOK
<1>6. v \in PendingIo /\ v # None
  BY NoneAssumption DEF PendingIo
<1>7. pending_io' = [pending_io EXCEPT ![key] = v] /\ pending_edges' = pending_edges
  BY DEF handle_io_issue
<1>8. /\ seen'.switch_in = seen.switch_in /\ seen'.io_issue = seen.io_issue + 1
      /\ seen'.io_complete = seen.io_complete
  BY <1>1 DEF handle_io_issue, DataOK, Seen
<1>9. Cardinality(Keys(pending_io)) \in Nat
  BY <1>1, PendingSizes
<1>10. Cardinality(Keys(pending_io')) = Cardinality(Keys(pending_io)) + 1 - b
  <2> HIDE DEF v
  <2>0. /\ DOMAIN pending_io = IoKey /\ DOMAIN pending_io' = IoKey
        /\ pending_io'[key] # None
        /\ \A x \in IoKey \ {key} : pending_io'[x] = pending_io[x]
    BY <1>5, <1>6, <1>7
  <2>1. CASE pending_io[key] # None
    <3>1. b = 1
      BY <2>1 DEF Bump
    <3>2. Cardinality(Keys(pending_io')) = Cardinality(Keys(pending_io))
      BY <2>0, <2>1, FiniteTables, KeysInsert
    <3> QED BY <1>9, <3>1, <3>2
  <2>2. CASE pending_io[key] = None
    <3>1. b = 0
      BY <2>2 DEF Bump
    <3>2. Cardinality(Keys(pending_io')) = Cardinality(Keys(pending_io)) + 1
      BY <2>0, <2>2, FiniteTables, KeysInsert
    <3> QED BY <1>9, <3>1, <3>2
  <2> QED BY <2>1, <2>2
<1> HIDE DEF b, v
<1>11. /\ SameWaits /\ stats'.edges_created = stats.edges_created
       /\ stats'.io_orphan_complete_count = stats.io_orphan_complete_count
       /\ stats'.io_userspace_pair_collision_count =
            stats.io_userspace_pair_collision_count + b
  BY <1>1, <1>3, <1>4, CountIoIssue DEF DataOK
<1>12. WaitConservation'
  BY <1>1, <1>7, <1>8, <1>11 DEF WaitConservation, IoPairs, SameWaits
<1>13. IoConservation'
  BY <1>1, <1>3, <1>8, <1>9, <1>10, <1>11, LawTypes DEF IoConservation, IoPairs
<1> QED BY <1>1, <1>2, <1>12, <1>13 DEF CoreInv

\* handle_io_complete keeps the invariant.
LEMMA IoCompleteInv ==
  ASSUME CoreInv, NEW ts \in Ts, NEW key \in IoKey, handle_io_complete(ts, key)
  PROVE  CoreInv'
<1> DEFINE paired == pending_io[key] # None
           b == Bump(paired)
           c == Bump(~paired)
<1>1. DataOK /\ DataOK' /\ WaitConservation /\ IoConservation
  BY IoCompleteType DEF CoreInv
<1>2. OffCpuOrDeferred'
  BY DEF CoreInv, OffCpuOrDeferred, handle_io_complete
<1>3. b \in Nat /\ c = 1 - b /\ c \in Nat /\ 2 * b \in Nat
  BY DEF Bump
<1>4. stats' = Counted([events_processed |-> 1, edges_created |-> 2 * b,
                        io_orphan_complete_count |-> c])
  BY DEF handle_io_complete
<1>5. pending_io' = [pending_io EXCEPT ![key] = None] /\ pending_edges' = pending_edges
  BY DEF handle_io_complete
<1>6. /\ seen'.switch_in = seen.switch_in /\ seen'.io_issue = seen.io_issue
      /\ seen'.io_complete = seen.io_complete + 1
  BY <1>1 DEF handle_io_complete, DataOK, Seen
<1>7. Cardinality(Keys(pending_io)) \in Nat
  BY <1>1, PendingSizes
<1>8. Cardinality(Keys(pending_io')) = Cardinality(Keys(pending_io)) - b
  <2>0. /\ DOMAIN pending_io = IoKey /\ DOMAIN pending_io' = IoKey
        /\ pending_io'[key] = None
        /\ \A x \in IoKey \ {key} : pending_io'[x] = pending_io[x]
    BY <1>1, <1>5 DEF DataOK
  <2>1. CASE paired
    <3>1. b = 1
      BY <2>1 DEF Bump
    <3>2. Cardinality(Keys(pending_io')) = Cardinality(Keys(pending_io)) - 1
      BY <2>0, <2>1, FiniteTables, KeysRemove
    <3> QED BY <3>1, <3>2
  <2>2. CASE ~paired
    <3>1. b = 0
      BY <2>2 DEF Bump
    <3>2. Cardinality(Keys(pending_io')) = Cardinality(Keys(pending_io))
      BY <2>0, <2>2, FiniteTables, KeysRemove
    <3> QED BY <1>7, <3>1, <3>2
  <2> QED BY <2>1, <2>2
<1> HIDE DEF b, c, paired
<1>9. /\ SameWaits /\ stats'.edges_created = stats.edges_created + 2 * b
      /\ stats'.io_orphan_complete_count = stats.io_orphan_complete_count + c
      /\ stats'.io_userspace_pair_collision_count =
           stats.io_userspace_pair_collision_count
  BY <1>1, <1>3, <1>4, CountIoComplete DEF DataOK
<1>10. WaitConservation'
  BY <1>1, <1>3, <1>5, <1>6, <1>9, LawTypes, PendingSizes
     DEF WaitConservation, IoPairs, SameWaits
<1>11. IoConservation'
  BY <1>1, <1>3, <1>6, <1>7, <1>8, <1>9, LawTypes DEF IoConservation, IoPairs
<1> QED BY <1>1, <1>2, <1>10, <1>11 DEF CoreInv

-----------------------------------------------------------------------------
(***************************************************************************)
(* The steps after the event loop, and the theorems.                       *)
(***************************************************************************)
LEMMA DrainInv ==
  ASSUME CoreInv, DrainPendingEdge
  PROVE  CoreInv'
<1>1. PICK tid \in Keys(pending_edges) :
        /\ edges' = Append(edges, add_edge_from_pending(pending_edges[tid]))
        /\ pending_edges' = [pending_edges EXCEPT ![tid] = None]
        /\ stats' = Counted([edges_created |-> 1])
        /\ UNCHANGED <<off_cpu, pending_futex, pending_io, last_ts, phase, seen>>
  BY DEF DrainPendingEdge
<1>2. DataOK /\ tid \in Tid /\ pending_edges[tid] # None
      /\ pending_edges[tid] \in PendingEdge
  BY DEF CoreInv, DataOK, Keys
<1>3. /\ stats' \in [Counter -> Nat] /\ SameWaits /\ SameIo
      /\ stats'.edges_created = stats.edges_created + 1
  BY <1>1, <1>2, CountCommit DEF DataOK
<1>4. edges' \in Seq(Edge)
  BY <1>1, <1>2, EdgeOfPending, AppendType DEF DataOK
<1>5. DataOK'
  BY <1>1, <1>2, <1>3, <1>4 DEF DataOK
<1>6. OffCpuOrDeferred'
  BY <1>1, <1>2 DEF CoreInv, OffCpuOrDeferred, DataOK, Tid
<1>7. 1 = Bump(pending_edges[tid] # None)
  BY <1>2 DEF Bump
<1>8. WaitConservation' /\ IoConservation'
  BY <1>1, <1>2, <1>3, <1>7, CommitLaws
<1> QED BY <1>5, <1>6, <1>8 DEF CoreInv

\* The return of correlate_events keeps the invariant.
LEMMA ReturnInv ==
  ASSUME CoreInv, Return
  PROVE  CoreInv'
<1>1. DataOK /\ Cardinality(Keys(pending_io)) \in Nat
  BY PendingSizes DEF CoreInv
<1>2. /\ stats' \in [Counter -> Nat] /\ SameWaits /\ SameIo
      /\ stats'.edges_created = stats.edges_created
  BY <1>1 DEF Return, DataOK, Counter, SameWaits, SameIo
<1>3. DataOK' /\ OffCpuOrDeferred'
  BY <1>2 DEF CoreInv, DataOK, OffCpuOrDeferred, Return, tables
<1> QED BY <1>2, <1>3, SameLaws DEF Return, tables

CorrInv == CoreInv /\ last_ts \in Ts /\ phase \in {"events", "drain", "done"}

\* The empty tables satisfy the invariant.
LEMMA InitCorrInv == Init => CorrInv
<1> SUFFICES ASSUME Init PROVE CorrInv
  OBVIOUS
<1>1. DataOK
  BY DEF Init, DataOK, Seen
<1>2. OffCpuOrDeferred
  BY DEF Init, OffCpuOrDeferred, Tid
<1>3. Keys(pending_edges) = {} /\ Keys(pending_io) = {}
  BY DEF Init, Keys
<1>4. Cardinality({}) = 0
  BY FS_EmptySet
<1>a. \A c \in Counter : stats[c] = 0
  BY DEF Init
<1>b. /\ stats.unmatched_switch_in_count = 0 /\ stats.edges_created = 0
      /\ stats.switch_in_without_waker_count = 0
      /\ stats.false_wakeup_filtered_count = 0
      /\ stats.io_orphan_complete_count = 0
      /\ stats.io_userspace_pair_collision_count = 0
  BY <1>a DEF Counter
<1>c. seen.switch_in = 0 /\ seen.io_issue = 0 /\ seen.io_complete = 0
  BY DEF Init
<1>5. WaitConservation /\ IoConservation
  BY <1>3, <1>4, <1>b, <1>c DEF WaitConservation, IoConservation, IoPairs
<1>6. last_ts \in Ts /\ phase \in {"events", "drain", "done"}
  BY CorrelateAssumption DEF Init, Ts
<1> QED BY <1>1, <1>2, <1>5, <1>6 DEF CorrInv, CoreInv

\* Every step keeps the invariant.
LEMMA NextCorrInv == CorrInv /\ [Next]_corrVars => CorrInv'
<1> SUFFICES ASSUME CorrInv, [Next]_corrVars PROVE CorrInv'
  OBVIOUS
<1>0. CoreInv
  BY DEF CorrInv
<1>1. ASSUME NEW ts \in Ts,
             \/ Switch(ts) \/ Wakeup(ts) \/ Exit(ts) \/ FutexWait(ts)
             \/ IoIssue(ts) \/ IoComplete(ts) \/ UnknownType(ts)
      PROVE  CorrInv'
  <2>1. NextEvent(ts)
    BY <1>1 DEF Switch, Wakeup, Exit, FutexWait, IoIssue, IoComplete, UnknownType
  <2>2. CoreInv'
    <3>1. CASE Switch(ts)
      BY <1>0, <3>1, SwitchInv DEF Switch
    <3>2. CASE Wakeup(ts)
      BY <1>0, <3>2, WakeupInv DEF Wakeup
    <3>3. CASE Exit(ts)
      BY <1>0, <3>3, ExitInv DEF Exit
    <3>4. CASE FutexWait(ts)
      BY <1>0, <3>4, FutexWaitInv DEF FutexWait
    <3>5. CASE IoIssue(ts)
      BY <1>0, <3>5, IoIssueInv DEF IoIssue
    <3>6. CASE IoComplete(ts)
      BY <1>0, <3>6, IoCompleteInv DEF IoComplete
    <3>7. CASE UnknownType(ts)
      BY <1>0, <3>7, UnknownInv DEF UnknownType
    <3> QED BY <1>1, <3>1, <3>2, <3>3, <3>4, <3>5, <3>6, <3>7
  <2> QED BY <2>1, <2>2 DEF CorrInv, NextEvent
<1>2. CASE EndOfEvents \/ UNCHANGED corrVars
  BY <1>2 DEF EndOfEvents, corrVars, tables, CorrInv, CoreInv, DataOK,
              OffCpuOrDeferred, WaitConservation, IoConservation, IoPairs
<1>3. CASE DrainPendingEdge
  BY <1>0, <1>3, DrainInv DEF CorrInv, DrainPendingEdge
<1>4. CASE Return
  BY <1>0, <1>4, ReturnInv DEF CorrInv, Return
<1> QED BY <1>1, <1>2, <1>3, <1>4 DEF Next

\* The inductive invariant holds of every stream.
THEOREM CorrelateInvariant == Spec => []CorrInv
BY InitCorrInv, NextCorrInv, PTL DEF Spec

\* The tables of correlate_events hold records of their structs only; no idle
\* task is ever a waker, a waiter or a submitter.
THEOREM TypeCorrect == Spec => []TypeOK
<1>1. CorrInv => TypeOK
  BY DEF CorrInv, CoreInv, DataOK, TypeOK
<1> QED BY <1>1, CorrelateInvariant, PTL

\* No thread is off-CPU and has a deferred edge at once, so the insertion into
\* pending_edges in handle_switch never overwrites an edge.
THEOREM NoEdgeOverwritten == Spec => []OffCpuOrDeferred
<1>1. CorrInv => OffCpuOrDeferred
  BY DEF CorrInv, CoreInv
<1> QED BY <1>1, CorrelateInvariant, PTL

\* Every switch-in of every stream is unmatched, without a waker, filtered,
\* deferred or an edge, and is counted once.
THEOREM WaitsConserved == Spec => []WaitConservation
<1>1. CorrInv => WaitConservation
  BY DEF CorrInv, CoreInv
<1> QED BY <1>1, CorrelateInvariant, PTL

\* Every IoIssue of every stream is paired, pending or counted as a collision.
THEOREM RequestsConserved == Spec => []IoConservation
<1>1. CorrInv => IoConservation
  BY DEF CorrInv, CoreInv
<1> QED BY <1>1, CorrelateInvariant, PTL

-----------------------------------------------------------------------------
\* handle_switch commits or filters the deferred edge it removes.
LEMMA SwitchFate ==
  ASSUME CoreInv, NEW ts \in Ts, NEW prev_tid \in Tid, NEW prev_state \in Nat,
         NEW next_tid \in Tid, handle_switch(ts, prev_tid, prev_state, next_tid),
         NEW t \in Keys(pending_edges)
  PROVE  EdgeFate(t)
<1> DEFINE out   == SwitchOut(ts, prev_tid, prev_state)
           kept  == IF Resolves(prev_tid)
                    THEN [pending_edges EXCEPT ![prev_tid] = None]
                    ELSE pending_edges
           woken == Woken(ts, prev_tid, prev_state, next_tid)
<1>1. /\ off_cpu \in [Tid -> OffCpuRecord \cup {None}]
      /\ pending_edges \in [Tid -> PendingEdge \cup {None}]
      /\ t \in Tid /\ pending_edges[t] # None /\ off_cpu[t] = None /\ t # Idle
  BY DEF CoreInv, DataOK, OffCpuOrDeferred, Keys
<1>2. CASE t = prev_tid
  <2>1. Resolves(t)
    BY <1>1, <1>2 DEF Resolves
  <2>2. CASE Spurious(ts, prev_tid, prev_state)
    <3>1. stats.false_wakeup_filtered_count \in Nat
          /\ stats'.false_wakeup_filtered_count =
               stats.false_wakeup_filtered_count
                 + Bump(Filters(ts, prev_tid, prev_state))
      BY SwitchCounted, LawTypes DEF SwitchCounts, CoreInv
    <3>2. Bump(Filters(ts, prev_tid, prev_state)) = 1
      BY <1>2, <2>1, <2>2 DEF Bump, Filters
    <3> QED BY <3>1, <3>2 DEF EdgeFate
  <2>3. CASE ~Spurious(ts, prev_tid, prev_state)
    BY <1>2, <2>1, <2>3 DEF handle_switch, EdgeFate
  <2> QED BY <2>2, <2>3
<1>3. CASE t # prev_tid
  <2>1. kept[t] = pending_edges[t] /\ out[t] = None
    BY <1>1, <1>3 DEF SwitchOut
  <2>2. woken => next_tid # t
    BY <2>1 DEF Woken, Matched
  <2>3. \/ pending_edges' = kept
        \/ /\ woken
           /\ pending_edges' = [kept EXCEPT ![next_tid] =
                                  DeferredEdge(ts, next_tid, out[next_tid])]
    BY DEF handle_switch, Woken, Matched
  <2>4. kept \in [Tid -> PendingEdge \cup {None}]
    BY <1>1
  <2> HIDE DEF kept, woken, out
  <2>5. pending_edges'[t] = pending_edges[t]
    BY <1>1, <2>1, <2>2, <2>3, <2>4
  <2> QED BY <2>5 DEF EdgeFate
<1> QED BY <1>2, <1>3

\* A deferred edge leaves the table only into the graph or into the count of
\* filtered wakeups, in a step of whichever handler.
THEOREM NoDeferredEdgeLost == Spec => DeferredEdgeFate
<1>1. ASSUME CorrInv, [Next]_corrVars
      PROVE  [\A t \in Keys(pending_edges) : EdgeFate(t)]_corrVars
  <2> SUFFICES ASSUME Next, NEW t \in Keys(pending_edges) PROVE EdgeFate(t)
    BY <1>1
  <2>0. /\ CoreInv /\ t \in Tid /\ pending_edges[t] # None
        /\ pending_edges \in [Tid -> PendingEdge \cup {None}]
    BY <1>1 DEF CorrInv, CoreInv, DataOK, Keys
  <2>1. CASE \E ts \in Ts : Switch(ts)
    BY <2>0, <2>1, SwitchFate DEF Switch
  <2>2. CASE \E ts \in Ts : Exit(ts)
    <3>1. PICK tid \in Tid : handle_exit(tid)
      BY <2>2 DEF Exit
    <3>2. CASE t = tid
      BY <2>0, <3>1, <3>2 DEF handle_exit, EdgeFate
    <3>3. CASE t # tid
      BY <2>0, <3>1, <3>3 DEF handle_exit, EdgeFate
    <3> QED BY <3>2, <3>3
  <2>3. CASE DrainPendingEdge
    <3>1. PICK tid \in Keys(pending_edges) :
            /\ edges' = Append(edges, add_edge_from_pending(pending_edges[tid]))
            /\ pending_edges' = [pending_edges EXCEPT ![tid] = None]
      BY <2>3 DEF DrainPendingEdge
    <3>2. CASE t = tid
      BY <3>1, <3>2 DEF EdgeFate
    <3>3. CASE t # tid
      BY <2>0, <3>1, <3>3 DEF EdgeFate
    <3> QED BY <3>2, <3>3
  <2>4. CASE \/ \E ts \in Ts : \/ Wakeup(ts) \/ FutexWait(ts) \/ IoIssue(ts)
                               \/ IoComplete(ts) \/ UnknownType(ts)
             \/ EndOfEvents \/ Return
    <3>1. pending_edges' = pending_edges
      BY <2>4 DEF Wakeup, FutexWait, IoIssue, IoComplete, UnknownType, EndOfEvents,
                  Return, handle_wakeup, handle_futex_wait, handle_io_issue,
                  handle_io_complete, handle_unknown, tables
    <3> QED BY <3>1 DEF EdgeFate
  <2> QED BY <2>1, <2>2, <2>3, <2>4 DEF Next
<1> QED BY <1>1, CorrelateInvariant, PTL DEF Spec, DeferredEdgeFate

-----------------------------------------------------------------------------
(***************************************************************************)
(* When correlate_events returns, it has accounted for every edge.         *)
(***************************************************************************)
LeftInv ==
  /\ Len(edges) = stats.edges_created
  /\ phase = "done" =>
       /\ Keys(pending_edges) = {}
       /\ stats.io_pending_at_end_count = Cardinality(Keys(pending_io))

\* One edge is added, and counted as one.
LEMMA EdgeCounted ==
  ASSUME edges \in Seq(Edge), NEW e \in Edge, NEW b, Len(edges) = stats.edges_created,
         edges' = (IF b THEN Append(edges, e) ELSE edges),
         stats'.edges_created = stats.edges_created + Bump(b)
  PROVE  Len(edges') = stats'.edges_created
<1>1. Len(Append(edges, e)) = Len(edges) + 1 /\ Len(edges) \in Nat
  OBVIOUS
<1> QED BY <1>1 DEF Bump

\* The elements of two sequences put together
LEMMA ConcatElements ==
  ASSUME NEW S, NEW s \in Seq(S), NEW u \in Seq(S)
  PROVE  /\ s \o u \in Seq(S) /\ Len(s \o u) = Len(s) + Len(u)
         /\ DOMAIN (s \o u) = 1 .. (Len(s) + Len(u))
         /\ DOMAIN s = 1 .. Len(s) /\ DOMAIN u = 1 .. Len(u)
         /\ Len(s) \in Nat /\ Len(u) \in Nat
         /\ \A i \in DOMAIN s : (s \o u)[i] = s[i]
         /\ \A i \in 1 .. Len(u) : (s \o u)[Len(s) + i] = u[i]
OBVIOUS

\* The handler of every event counts the edges it adds.
LEMMA NextLeft ==
  ASSUME CorrInv, LeftInv, [Next]_corrVars
  PROVE  LeftInv'
<1>0. /\ DataOK /\ edges \in Seq(Edge) /\ stats \in [Counter -> Nat]
      /\ stats.edges_created \in Nat /\ Len(edges) \in Nat
      /\ Len(edges) = stats.edges_created
      /\ pending_edges \in [Tid -> PendingEdge \cup {None}]
  BY LawTypes DEF CorrInv, CoreInv, DataOK, LeftInv
<1>1. ASSUME NEW ts \in Ts,
             \/ Switch(ts) \/ Wakeup(ts) \/ Exit(ts) \/ FutexWait(ts)
             \/ IoIssue(ts) \/ IoComplete(ts) \/ UnknownType(ts)
      PROVE  LeftInv'
  <2>1. phase' = "events"
    BY <1>1 DEF Switch, Wakeup, Exit, FutexWait, IoIssue, IoComplete, UnknownType,
                NextEvent
  <2>2. Len(edges') = stats'.edges_created
    <3>1. ASSUME NEW prev_tid \in Tid, NEW next_tid \in Tid,
                 NEW prev_state \in {TASK_RUNNING, 1},
                 handle_switch(ts, prev_tid, prev_state, next_tid)
          PROVE  Len(edges') = stats'.edges_created
      <4> DEFINE commits == Commits(ts, prev_tid, prev_state)
                 e == add_edge_from_pending(pending_edges[prev_tid])
      <4>1. stats'.edges_created = stats.edges_created + Bump(commits)
        BY <1>0, <3>1, SwitchCounted DEF SwitchCounts
      <4>2. edges' = IF commits THEN Append(edges, e) ELSE edges
        BY <3>1, Zenon DEF handle_switch, Commits, Filters
      <4>3. commits => e \in Edge
        BY <1>0, EdgeOfPending DEF Commits, Resolves
      <4> HIDE DEF commits, e
      <4>4. CASE commits
        BY <1>0, <4>1, <4>2, <4>3, <4>4, EdgeCounted
      <4>5. CASE ~commits
        BY <1>0, <4>1, <4>2, <4>5 DEF Bump
      <4> QED BY <4>4, <4>5
    <3>2. ASSUME NEW tid \in Tid, handle_exit(tid)
          PROVE  Len(edges') = stats'.edges_created
      <4> DEFINE commits == pending_edges[tid] # None
                 e == add_edge_from_pending(pending_edges[tid])
      <4>1. stats'.edges_created = stats.edges_created + Bump(commits)
        <5>1. Bump(commits) \in Nat
          BY DEF Bump
        <5>2. stats' = Counted([events_processed |-> 1,
                                edges_created |-> Bump(commits)])
          BY <3>2 DEF handle_exit
        <5> HIDE DEF commits
        <5> QED BY <1>0, <5>1, <5>2, CountCommit
      <4>2. edges' = IF commits THEN Append(edges, e) ELSE edges
        BY <3>2 DEF handle_exit
      <4>3. commits => e \in Edge
        BY <1>0, EdgeOfPending
      <4> HIDE DEF commits, e
      <4>4. CASE commits
        BY <1>0, <4>1, <4>2, <4>3, <4>4, EdgeCounted
      <4>5. CASE ~commits
        BY <1>0, <4>1, <4>2, <4>5 DEF Bump
      <4> QED BY <4>4, <4>5
    <3>3. ASSUME NEW key \in IoKey, handle_io_complete(ts, key)
          PROVE  Len(edges') = stats'.edges_created
      <4> DEFINE paired == pending_io[key] # None
      <4>1. stats'.edges_created = stats.edges_created + 2 * Bump(paired)
        <5>1. 2 * Bump(paired) \in Nat /\ Bump(~paired) \in Nat
          BY DEF Bump
        <5>2. stats' = Counted([events_processed |-> 1,
                                edges_created |-> 2 * Bump(paired),
                                io_orphan_complete_count |-> Bump(~paired)])
          BY <3>3 DEF handle_io_complete
        <5> HIDE DEF paired
        <5> QED BY <1>0, <5>1, <5>2, CountIoComplete
      <4>2. edges' = IF paired THEN edges \o IoEdges(pending_io[key], ts) ELSE edges
        BY <3>3 DEF handle_io_complete
      <4>3. CASE paired
        <5>1. pending_io[key] \in PendingIo
          BY <1>0, <4>3 DEF DataOK
        <5>2. IoEdges(pending_io[key], ts) \in Seq(Edge)
              /\ Len(IoEdges(pending_io[key], ts)) = 2
          BY <5>1, IoEdgesType DEF IoEdges
        <5>3. Len(edges') = Len(edges) + 2
          <6>1. edges' = edges \o IoEdges(pending_io[key], ts)
            BY <4>2, <4>3, Zenon
          <6>2. Len(edges') = Len(edges) + Len(IoEdges(pending_io[key], ts))
            BY <1>0, <5>2, <6>1, ConcatElements, Zenon
          <6> QED BY <5>2, <6>2
        <5>4. Bump(paired) = 1
          BY <4>3 DEF Bump
        <5> QED BY <1>0, <4>1, <5>3, <5>4
      <4>4. CASE ~paired
        BY <1>0, <4>1, <4>2, <4>4 DEF Bump
      <4> QED BY <4>3, <4>4
    <3>4. ASSUME NEW target \in Tid, NEW source \in Tid, handle_wakeup(target, source)
          PROVE  Len(edges') = stats'.edges_created
      <4>1. PICK b \in Nat :
              stats' = Counted([events_processed |-> 1, unmatched_wakeup_count |-> b])
        BY <3>4 DEF handle_wakeup, Bump
      <4> QED BY <1>0, <3>4, <4>1, CountOther DEF handle_wakeup
    <3>5. ASSUME NEW tid \in Thread, NEW op \in FutexOp, handle_futex_wait(ts, tid, op)
          PROVE  Len(edges') = stats'.edges_created
      BY <1>0, <3>5, CountOther DEF handle_futex_wait
    <3>6. ASSUME NEW tid \in Thread, NEW key \in IoKey, handle_io_issue(ts, tid, key)
          PROVE  Len(edges') = stats'.edges_created
      <4>1. PICK b \in Nat :
              stats' = Counted([events_processed |-> 1,
                                io_userspace_pair_collision_count |-> b])
        BY <3>6 DEF handle_io_issue, Bump
      <4> QED BY <1>0, <3>6, <4>1, CountIoIssue DEF handle_io_issue
    <3>7. CASE handle_unknown
      BY <1>0, <3>7, CountOther DEF handle_unknown
    <3> QED BY <1>1, <3>1, <3>2, <3>3, <3>4, <3>5, <3>6, <3>7
            DEF Switch, Wakeup, Exit, FutexWait, IoIssue, IoComplete, UnknownType
  <2> QED BY <2>1, <2>2 DEF LeftInv
<1>2. CASE EndOfEvents \/ UNCHANGED corrVars
  BY <1>2 DEF EndOfEvents, corrVars, tables, LeftInv
<1>3. CASE DrainPendingEdge
  <2>1. PICK tid \in Keys(pending_edges) :
          /\ edges' = Append(edges, add_edge_from_pending(pending_edges[tid]))
          /\ stats' = Counted([edges_created |-> 1])
          /\ phase' = "drain"
    BY <1>3 DEF DrainPendingEdge
  <2>2. add_edge_from_pending(pending_edges[tid]) \in Edge
    BY <1>0, EdgeOfPending DEF Keys
  <2>3. stats'.edges_created = stats.edges_created + 1
    BY <1>0, <2>1, CountCommit
  <2>4. Len(edges') = Len(edges) + 1
    BY <1>0, <2>1, <2>2
  <2> QED BY <1>0, <2>1, <2>3, <2>4 DEF LeftInv
<1>4. CASE Return
  BY <1>0, <1>4 DEF Return, LeftInv, tables, Counter
<1> QED BY <1>1, <1>2, <1>3, <1>4 DEF Next

\* correlate_events returns a graph with the edges it counted, no deferred edge
\* left behind, and the requests that never completed counted.
THEOREM NothingIsLeftBehind == Spec => []NothingLeftBehind
<1>1. Init => LeftInv
  BY DEF Init, LeftInv, Counter
<1>2. LeftInv => NothingLeftBehind
  BY DEF LeftInv, NothingLeftBehind
<1> QED BY <1>1, <1>2, NextLeft, CorrelateInvariant, PTL DEF Spec

-----------------------------------------------------------------------------
(***************************************************************************)
(* The waits of a thread follow one another.  Waits are committed in the   *)
(* order in which they happened; what is deferred comes after what is      *)
(* committed, and what goes on comes after both.                           *)
(***************************************************************************)
\* An edge of es that is a wait of thread t for a thread
IsWait(e, t) == e.src = t /\ e.dst # Disk

\* The committed waits of t end at ms or before.
WaitsBefore(es, t, ms) ==
  \A i \in DOMAIN es : IsWait(es[i], t) => es[i].window.end_ms <= ms

WaitsOrdered(es, t) ==
  \A i, j \in DOMAIN es : i < j /\ IsWait(es[i], t) /\ IsWait(es[j], t)
    => es[i].window.end_ms <= es[j].window.start_ms

WaitsInv ==
  \A t \in Thread :
    /\ WaitsOrdered(edges, t)
    /\ WaitsBefore(edges, t, last_ts \div NsPerMs)
    /\ off_cpu[t] # None =>
         /\ off_cpu[t].switch_out_ns <= last_ts
         /\ WaitsBefore(edges, t, off_cpu[t].switch_out_ns \div NsPerMs)
    /\ pending_edges[t] # None =>
         /\ pending_edges[t].src = t
         /\ pending_edges[t].window.start_ms <= pending_edges[t].window.end_ms
         /\ pending_edges[t].window.end_ms <= last_ts \div NsPerMs
         /\ WaitsBefore(edges, t, pending_edges[t].window.start_ms)

\* Rounding to milliseconds keeps the order.
LEMMA DivMono ==
  ASSUME NEW a \in Nat, NEW b \in Nat, a <= b
  PROVE  a \div NsPerMs <= b \div NsPerMs
BY CorrelateAssumption

\* The start and the length of a wait are rounded down, each for itself: the
\* window ends no later than the millisecond of the switch-in.
LEMMA SchedWindowEnds ==
  ASSUME NEW a \in Ts, NEW b \in Ts, a <= b
  PROVE  /\ SchedWindow(a, b).start_ms = a \div NsPerMs
         /\ SchedWindow(a, b).start_ms <= SchedWindow(a, b).end_ms
         /\ SchedWindow(a, b).end_ms <= b \div NsPerMs
<1> DEFINE m == NsPerMs
           p == a \div m
           q == (b - a) \div m
           r == b \div m
<1>1. a \in Nat /\ b \in Nat /\ b - a \in Nat /\ m \in Nat \ {0}
  BY TsNat, CorrelateAssumption
<1>2. p \in Nat /\ q \in Nat /\ r \in Nat
  BY <1>1, DivType
<1>3. SchedWindow(a, b) = [start_ms |-> p, end_ms |-> p + q]
  BY <1>1 DEF SchedWindow, SaturatingSub
<1>4. m * p <= a /\ m * q <= b - a /\ b < m * (r + 1)
  BY <1>1
<1> HIDE DEF m, p, q, r
<1>5. m * p \in Nat /\ m * q \in Nat /\ m * (p + q) = m * p + m * q
  BY <1>1, <1>2
<1>6. m * (p + q) < m * (r + 1)
  BY <1>1, <1>2, <1>4, <1>5
<1>7. p + q < r + 1
  BY <1>1, <1>2, <1>6
<1>8. p + q <= r
  BY <1>2, <1>7
<1> QED BY <1>2, <1>3, <1>8 DEF p, r, m

\* What a step does to the committed waits: nothing (also when it adds the edges
\* of a request), or it commits the deferred edge of thread u.
Quiet ==
  \A t \in Thread :
    /\ WaitsOrdered(edges, t) => WaitsOrdered(edges', t)
    /\ \A ms \in Nat : WaitsBefore(edges, t, ms) => WaitsBefore(edges', t, ms)
CommitsOf(u) ==
  /\ pending_edges[u] # None
  /\ edges' = Append(edges, add_edge_from_pending(pending_edges[u]))
Adds(u) == (u = None /\ Quiet) \/ (u \in Thread /\ CommitsOf(u))

\* What a step does to the wait that thread t is in: nothing, it ends, or it
\* starts now.
OffStep(t) ==
  off_cpu'[t] # None =>
    \/ off_cpu[t] # None /\ off_cpu'[t].switch_out_ns = off_cpu[t].switch_out_ns
    \/ off_cpu'[t].switch_out_ns = last_ts'

\* What a step that commits the edge of u does to the deferred edge of t: nothing
\* (unless t is u), it is removed, or the wait that t was in, or that starts now,
\* becomes one.
PendingStep(t, u) ==
  pending_edges'[t] # None =>
    \/ pending_edges'[t] = pending_edges[t] /\ t # u
    \/ \E out \in Ts :
         /\ \/ out = last_ts'
            \/ off_cpu[t] # None /\ out = off_cpu[t].switch_out_ns
         /\ pending_edges'[t].src = t
         /\ pending_edges'[t].window = SchedWindow(out, last_ts')

\* Committing the deferred edge of a thread adds it after that thread's waits,
\* and leaves the waits of the others alone.
LEMMA CommitWaits ==
  ASSUME DataOK, WaitsInv, last_ts \in Ts, NEW u \in Thread, CommitsOf(u)
  PROVE  \A t \in Thread :
           /\ WaitsOrdered(edges', t)
           /\ WaitsBefore(edges', t, last_ts \div NsPerMs)
           /\ t # u => \A ms \in Nat : WaitsBefore(edges, t, ms)
                                         => WaitsBefore(edges', t, ms)
<1> DEFINE e == add_edge_from_pending(pending_edges[u])
           n == Len(edges) + 1
<1>1. /\ edges \in Seq(Edge) /\ pending_edges[u] \in PendingEdge
      /\ e \in Edge /\ edges' = Append(edges, e)
  BY EdgeOfPending DEF DataOK, CommitsOf, Tid
<1>2. e.src = u /\ e.window = pending_edges[u].window
  BY <1>1 DEF WaitsInv, CommitsOf, add_edge_from_pending
<1>3. /\ DOMAIN edges' = DOMAIN edges \cup {n} /\ edges'[n] = e
      /\ \A i \in DOMAIN edges : i \in Nat /\ i < n /\ edges'[i] = edges[i]
      /\ n \in Nat
  BY <1>1
<1> HIDE DEF e, n
<1> SUFFICES ASSUME NEW t \in Thread
             PROVE  /\ WaitsOrdered(edges', t)
                    /\ WaitsBefore(edges', t, last_ts \div NsPerMs)
                    /\ t # u => \A ms \in Nat : WaitsBefore(edges, t, ms)
                                                  => WaitsBefore(edges', t, ms)
  OBVIOUS
<1>4. t # u => ~IsWait(e, t)
  BY <1>2 DEF IsWait
<1>5. WaitsOrdered(edges', t)
  <2>1. WaitsOrdered(edges, t)
    BY DEF WaitsInv
  <2>2. t = u => WaitsBefore(edges, t, e.window.start_ms)
    BY <1>2 DEF WaitsInv, CommitsOf
  <2> SUFFICES ASSUME NEW i \in DOMAIN edges', NEW j \in DOMAIN edges', i < j,
                      IsWait(edges'[i], t), IsWait(edges'[j], t)
               PROVE  edges'[i].window.end_ms <= edges'[j].window.start_ms
    BY DEF WaitsOrdered
  <2>3. i \in DOMAIN edges
    BY <1>3
  <2>4. CASE j \in DOMAIN edges
    BY <1>3, <2>1, <2>3, <2>4 DEF WaitsOrdered
  <2>5. CASE j = n
    BY <1>3, <1>4, <2>2, <2>3, <2>5 DEF WaitsBefore
  <2> QED BY <1>3, <2>4, <2>5
<1>6. WaitsBefore(edges', t, last_ts \div NsPerMs)
  <2>1. WaitsBefore(edges, t, last_ts \div NsPerMs)
    BY DEF WaitsInv
  <2>2. t = u => e.window.end_ms <= last_ts \div NsPerMs
    BY <1>2 DEF WaitsInv, CommitsOf
  <2> QED BY <1>3, <1>4, <2>1, <2>2 DEF WaitsBefore
<1>7. t # u => \A ms \in Nat : WaitsBefore(edges, t, ms) => WaitsBefore(edges', t, ms)
  BY <1>3, <1>4 DEF WaitsBefore
<1> QED BY <1>5, <1>6, <1>7

\* The types the order of the waits is about
LEMMA WaitTypes ==
  ASSUME DataOK
  PROVE  /\ \A i \in DOMAIN edges : /\ edges[i].window.start_ms \in Nat
                                    /\ edges[i].window.end_ms \in Nat
         /\ \A t \in Thread : off_cpu[t] # None => off_cpu[t].switch_out_ns \in Ts
         /\ \A t \in Thread : pending_edges[t] # None =>
              /\ pending_edges[t].window.start_ms \in Nat
              /\ pending_edges[t].window.end_ms \in Nat
              /\ pending_edges[t].dst \in Thread
<1>1. \A i \in DOMAIN edges : edges[i] \in Edge
  BY DEF DataOK
<1>2. \A t \in Thread : /\ off_cpu[t] # None => off_cpu[t] \in OffCpuRecord
                        /\ pending_edges[t] # None => pending_edges[t] \in PendingEdge
  BY DEF DataOK, Tid
<1> QED BY <1>1, <1>2 DEF Edge, OffCpuRecord, PendingEdge, TimeWindow

\* Waits that end before one millisecond end before a later one.
LEMMA WaitsBeforeLater ==
  ASSUME NEW es \in Seq(Edge), NEW t, NEW a \in Nat, NEW b \in Nat, a <= b,
         WaitsBefore(es, t, a)
  PROVE  WaitsBefore(es, t, b)
<1>1. \A i \in DOMAIN es : es[i] \in Edge
  OBVIOUS
<1>2. \A i \in DOMAIN es : es[i].window.end_ms \in Nat
  BY <1>1 DEF Edge, TimeWindow
<1> QED BY <1>2 DEF WaitsBefore

\* A step that does such things keeps the order of the waits.
LEMMA WaitStep ==
  ASSUME DataOK, DataOK', OffCpuOrDeferred, WaitsInv, last_ts \in Ts, last_ts' \in Ts,
         last_ts <= last_ts', NEW u, Adds(u),
         \A t \in Thread : OffStep(t) /\ PendingStep(t, u)
  PROVE  WaitsInv'
<1> SUFFICES ASSUME NEW t \in Thread
    PROVE /\ WaitsOrdered(edges', t)
          /\ WaitsBefore(edges', t, last_ts' \div NsPerMs)
          /\ off_cpu'[t] # None =>
               /\ off_cpu'[t].switch_out_ns <= last_ts'
               /\ WaitsBefore(edges', t, off_cpu'[t].switch_out_ns \div NsPerMs)
          /\ pending_edges'[t] # None =>
               /\ pending_edges'[t].src = t
               /\ pending_edges'[t].window.start_ms <= pending_edges'[t].window.end_ms
               /\ pending_edges'[t].window.end_ms <= last_ts' \div NsPerMs
               /\ WaitsBefore(edges', t, pending_edges'[t].window.start_ms)
  BY DEF WaitsInv
<1> DEFINE now == last_ts \div NsPerMs
           then == last_ts' \div NsPerMs
<1>1. /\ now \in Nat /\ then \in Nat /\ now <= then
      /\ last_ts \in Nat /\ last_ts' \in Nat
  BY DivType, DivMono, TsNat
<1>2. /\ WaitsOrdered(edges, t) /\ WaitsBefore(edges, t, now)
      /\ off_cpu[t] # None =>
           /\ off_cpu[t].switch_out_ns <= last_ts
           /\ WaitsBefore(edges, t, off_cpu[t].switch_out_ns \div NsPerMs)
      /\ pending_edges[t] # None =>
           /\ pending_edges[t].src = t
           /\ pending_edges[t].window.start_ms <= pending_edges[t].window.end_ms
           /\ pending_edges[t].window.end_ms <= now
           /\ WaitsBefore(edges, t, pending_edges[t].window.start_ms)
  BY DEF WaitsInv
<1> HIDE DEF now, then
<1>3. /\ WaitsOrdered(edges', t) /\ WaitsBefore(edges', t, now)
      /\ t # u => \A ms \in Nat : WaitsBefore(edges, t, ms)
                                    => WaitsBefore(edges', t, ms)
  <2>1. CASE Quiet
    BY <1>1, <1>2, <2>1 DEF Quiet
  <2>2. CASE u \in Thread /\ CommitsOf(u)
    BY <2>2, CommitWaits DEF now
  <2> QED BY <2>1, <2>2 DEF Adds
<1>4. WaitsBefore(edges', t, then)
  BY <1>1, <1>3, WaitsBeforeLater DEF DataOK
<1>5. off_cpu[t] # None => /\ t # u /\ off_cpu[t].switch_out_ns \in Ts
                           /\ off_cpu[t].switch_out_ns \div NsPerMs \in Nat
  <2>1. off_cpu[t] # None => t # u
    BY CorrelateAssumption DEF OffCpuOrDeferred, Adds, CommitsOf, Tid
  <2> QED BY <2>1, WaitTypes, DivType, TsNat
<1>6. ASSUME off_cpu'[t] # None
      PROVE  /\ off_cpu'[t].switch_out_ns <= last_ts'
             /\ WaitsBefore(edges', t, off_cpu'[t].switch_out_ns \div NsPerMs)
  <2>1. CASE off_cpu'[t].switch_out_ns = last_ts'
    BY <1>1, <1>4, <2>1 DEF then
  <2>2. CASE off_cpu[t] # None /\ off_cpu'[t].switch_out_ns = off_cpu[t].switch_out_ns
    <3>1. off_cpu[t].switch_out_ns \in Nat /\ off_cpu[t].switch_out_ns <= last_ts
      BY <1>2, <1>5, <2>2, TsNat
    <3> QED BY <1>1, <1>2, <1>3, <1>5, <2>2, <3>1
  <2> QED BY <1>6, <2>1, <2>2 DEF OffStep
<1>7. ASSUME pending_edges'[t] # None
      PROVE  /\ pending_edges'[t].src = t
             /\ pending_edges'[t].window.start_ms <= pending_edges'[t].window.end_ms
             /\ pending_edges'[t].window.end_ms <= then
             /\ WaitsBefore(edges', t, pending_edges'[t].window.start_ms)
  <2>1. CASE pending_edges'[t] = pending_edges[t] /\ t # u
    <3>1. /\ pending_edges[t].window.start_ms \in Nat
          /\ pending_edges[t].window.end_ms \in Nat
      BY <1>7, <2>1, WaitTypes
    <3> QED BY <1>1, <1>2, <1>3, <1>7, <2>1, <3>1
  <2>2. ASSUME NEW out \in Ts,
               \/ out = last_ts'
               \/ off_cpu[t] # None /\ out = off_cpu[t].switch_out_ns,
               pending_edges'[t].src = t,
               pending_edges'[t].window = SchedWindow(out, last_ts')
        PROVE  /\ pending_edges'[t].src = t
               /\ pending_edges'[t].window.start_ms <= pending_edges'[t].window.end_ms
               /\ pending_edges'[t].window.end_ms <= then
               /\ WaitsBefore(edges', t, pending_edges'[t].window.start_ms)
    <3>1. out <= last_ts' /\ out \in Nat
      BY <1>1, <1>2, <2>2, TsNat
    <3>2. /\ SchedWindow(out, last_ts').start_ms = out \div NsPerMs
          /\ SchedWindow(out, last_ts').start_ms <= SchedWindow(out, last_ts').end_ms
          /\ SchedWindow(out, last_ts').end_ms <= then
      BY <3>1, SchedWindowEnds DEF then
    <3>3. WaitsBefore(edges', t, out \div NsPerMs)
      <4>1. CASE out = last_ts'
        BY <1>4, <4>1 DEF then
      <4>2. CASE off_cpu[t] # None /\ out = off_cpu[t].switch_out_ns
        BY <1>2, <1>3, <1>5, <4>2
      <4> QED BY <2>2, <4>1, <4>2
    <3> QED BY <2>2, <3>2, <3>3
  <2> QED BY <1>7, <2>1, <2>2 DEF PendingStep
<1> QED BY <1>3, <1>4, <1>6, <1>7 DEF then

\* A step that adds no edge is quiet.
LEMMA SameEdgesQuiet == edges' = edges => Quiet
BY DEF Quiet, WaitsOrdered, WaitsBefore

\* A completion adds the two edges of its request after the others, or nothing.
LEMMA IoEdgesAdded ==
  ASSUME DataOK, NEW ts \in Ts, NEW key \in IoKey, handle_io_complete(ts, key)
  PROVE  \A i \in DOMAIN edges' :
           \/ i \in DOMAIN edges /\ edges'[i] = edges[i]
           \/ /\ pending_io[key] # None
              /\ \/ edges'[i] = IoEdges(pending_io[key], ts)[1]
                 \/ edges'[i] = IoEdges(pending_io[key], ts)[2]
<1>1. CASE pending_io[key] = None
  BY <1>1 DEF handle_io_complete
<1>2. CASE pending_io[key] # None
  <2> DEFINE io == IoEdges(pending_io[key], ts)
             n  == Len(edges)
  <2>1. edges' = edges \o io
    BY <1>2, Zenon DEF handle_io_complete
  <2>2. pending_io[key] \in PendingIo /\ edges \in Seq(Edge)
    BY <1>2 DEF DataOK
  <2>3. io \in Seq(Edge) /\ Len(io) = 2
    BY <2>2, IoEdgesType DEF IoEdges
  <2> HIDE DEF io
  <2>4. \A u \in Seq(Edge) :
          /\ DOMAIN (edges \o u) = 1 .. (n + Len(u)) /\ DOMAIN edges = 1 .. n
          /\ n \in Nat /\ \A i \in DOMAIN edges : (edges \o u)[i] = edges[i]
          /\ \A i \in 1 .. Len(u) : (edges \o u)[n + i] = u[i]
    BY <2>2, ConcatElements
  <2>5. /\ DOMAIN edges' = 1 .. (n + Len(io)) /\ DOMAIN edges = 1 .. n
        /\ n \in Nat /\ \A i \in DOMAIN edges : edges'[i] = edges[i]
        /\ \A i \in 1 .. Len(io) : edges'[n + i] = io[i]
    BY <2>1, <2>3, <2>4, Zenon
  <2>6. edges'[n + 1] = io[1] /\ edges'[n + 2] = io[2]
    BY <2>3, <2>5
  <2>7. \A i \in DOMAIN edges' : i \in DOMAIN edges \/ i = n + 1 \/ i = n + 2
    BY <2>3, <2>5
  <2> QED BY <1>2, <2>5, <2>6, <2>7 DEF io
<1> QED BY <1>1, <1>2

\* They are no waits of a thread for a thread.
LEMMA IoQuiet ==
  ASSUME DataOK, NEW ts \in Ts, NEW key \in IoKey, handle_io_complete(ts, key)
  PROVE  Quiet
<1> DEFINE io == IoEdges(pending_io[key], ts)
<1>1. io[1].dst = Disk /\ io[2].src = Disk
  BY DEF IoEdges
<1>2. \A t \in Thread : ~IsWait(io[1], t) /\ ~IsWait(io[2], t)
  BY <1>1, CorrelateAssumption DEF IsWait, Tid
<1> HIDE DEF io
<1>3. \A t \in Thread, i \in DOMAIN edges' :
        IsWait(edges'[i], t) => i \in DOMAIN edges /\ edges'[i] = edges[i]
  BY <1>2, IoEdgesAdded DEF io
<1> QED BY <1>3 DEF Quiet, WaitsOrdered, WaitsBefore

\* A switch commits at most the deferred edge of the thread it takes off the CPU.
\* The wait of that thread starts now, the wait of the thread it puts on the CPU
\* ends and may become a deferred edge.
LEMMA SwitchWaits ==
  ASSUME DataOK, OffCpuOrDeferred, NEW ts \in Ts, NEW prev_tid \in Tid,
         NEW prev_state \in Nat, NEW next_tid \in Tid, last_ts' = ts,
         handle_switch(ts, prev_tid, prev_state, next_tid)
  PROVE  \E u : Adds(u) /\ \A t \in Thread : OffStep(t) /\ PendingStep(t, u)
<1> DEFINE out   == SwitchOut(ts, prev_tid, prev_state)
           kept  == IF Resolves(prev_tid)
                    THEN [pending_edges EXCEPT ![prev_tid] = None]
                    ELSE pending_edges
           woken == Woken(ts, prev_tid, prev_state, next_tid)
           edge  == DeferredEdge(ts, next_tid, out[next_tid])
<1>1. /\ off_cpu \in [Tid -> OffCpuRecord \cup {None}]
      /\ pending_edges \in [Tid -> PendingEdge \cup {None}]
      /\ out \in [Tid -> OffCpuRecord \cup {None}]
      /\ kept \in [Tid -> PendingEdge \cup {None}]
  BY SwitchOutType DEF DataOK
<1>2. /\ off_cpu' = IF next_tid # Idle THEN [out EXCEPT ![next_tid] = None] ELSE out
      /\ pending_edges' = IF woken THEN [kept EXCEPT ![next_tid] = edge] ELSE kept
  BY DEF handle_switch, Woken, Matched
<1>3. edges' = edges \/ (Resolves(prev_tid) /\ CommitsOf(prev_tid))
  BY DEF handle_switch, CommitsOf, Resolves
<1>4. PICK u : Adds(u) /\ u \in {None, prev_tid}
  BY <1>3, SameEdgesQuiet DEF Resolves, Adds, Tid
<1>5. \A t \in Tid : out[t] # None =>
        \/ out[t] = off_cpu[t]
        \/ t = prev_tid /\ out[t].switch_out_ns = ts
  BY <1>1 DEF SwitchOut
<1>6. woken => next_tid # Idle /\ out[next_tid] # None
  BY DEF Woken, Matched
<1>7. ASSUME NEW t \in Thread PROVE OffStep(t)
  <2> HIDE DEF out, kept, woken, edge
  <2>1. t \in Tid /\ (off_cpu'[t] # None => off_cpu'[t] = out[t])
    BY <1>1, <1>2 DEF Tid
  <2> QED BY <1>5, <2>1 DEF OffStep
<1>8. ASSUME NEW t \in Thread PROVE PendingStep(t, u)
  <2>0. t \in Tid /\ Idle \notin Thread
    BY CorrelateAssumption DEF Tid
  <2>1. CASE woken /\ t = next_tid
    <3>1. pending_edges'[t] = edge
      BY <1>1, <1>2, <2>0, <2>1
    <3>2. out[t] \in OffCpuRecord
      BY <1>1, <1>6, <2>0, <2>1
    <3>3. out[t].switch_out_ns \in Ts
      BY <3>2 DEF OffCpuRecord
    <3>4. /\ pending_edges'[t].src = t
          /\ pending_edges'[t].window = SchedWindow(out[t].switch_out_ns, ts)
      BY <2>1, <3>1 DEF DeferredEdge
    <3>5. \/ out[t].switch_out_ns = ts
          \/ off_cpu[t] # None /\ out[t].switch_out_ns = off_cpu[t].switch_out_ns
      BY <1>5, <1>6, <2>0, <2>1
    <3> HIDE DEF out, woken, edge
    <3> QED BY <3>3, <3>4, <3>5 DEF PendingStep
  <2>2. CASE ~(woken /\ t = next_tid)
    <3> HIDE DEF out, woken, edge
    <3>1. pending_edges'[t] = kept[t]
      BY <1>1, <1>2, <2>0, <2>2
    <3>2. CASE t = prev_tid
      <4>1. kept[t] = None
        BY <1>1, <2>0, <3>2 DEF Resolves
      <4> QED BY <3>1, <4>1 DEF PendingStep
    <3>3. CASE t # prev_tid
      <4>1. kept[t] = pending_edges[t]
        BY <1>1, <2>0, <3>3
      <4>2. t # u
        BY <1>4, <2>0, <3>3, CorrelateAssumption
      <4> QED BY <3>1, <4>1, <4>2 DEF PendingStep
    <3> QED BY <3>2, <3>3
  <2> QED BY <2>1, <2>2
<1> QED BY <1>4, <1>7, <1>8

\* A step that touches neither graph nor tables of the waits
LEMMA SameWaitTables ==
  ASSUME UNCHANGED <<off_cpu, pending_edges>>, Quiet
  PROVE  Adds(None) /\ \A t \in Thread : OffStep(t) /\ PendingStep(t, None)
BY CorrelateAssumption DEF Adds, OffStep, PendingStep, Tid

\* Every step of correlate_events keeps the order of the waits.
LEMMA NextWaits ==
  ASSUME CorrInv, CorrInv', WaitsInv, [Next]_corrVars
  PROVE  WaitsInv'
<1>0. /\ DataOK /\ DataOK' /\ OffCpuOrDeferred /\ last_ts \in Ts /\ last_ts' \in Ts
      /\ off_cpu \in [Tid -> OffCpuRecord \cup {None}]
      /\ pending_edges \in [Tid -> PendingEdge \cup {None}]
      /\ Thread \subseteq Tid /\ None \notin Thread
  BY CorrelateAssumption DEF CorrInv, CoreInv, DataOK, Tid
<1>1. last_ts <= last_ts'
  <2>1. last_ts <= last_ts
    BY <1>0, TsNat
  <2> QED BY <2>1 DEF Next, Switch, Wakeup, Exit, FutexWait, IoIssue, IoComplete,
                      UnknownType, NextEvent, EndOfEvents, DrainPendingEdge, Return,
                      corrVars
<1>2. ASSUME NEW ts \in Ts, Switch(ts)
      PROVE  \E u : Adds(u) /\ \A t \in Thread : OffStep(t) /\ PendingStep(t, u)
  <2>1. PICK prev_tid \in Tid, next_tid \in Tid, prev_state \in {TASK_RUNNING, 1} :
          last_ts' = ts /\ handle_switch(ts, prev_tid, prev_state, next_tid)
    BY <1>2 DEF Switch, NextEvent
  <2>2. prev_state \in Nat
    OBVIOUS
  <2> QED BY <1>0, <2>1, <2>2, SwitchWaits
<1>3. ASSUME NEW ts \in Ts, Wakeup(ts)
      PROVE  \E u : Adds(u) /\ \A t \in Thread : OffStep(t) /\ PendingStep(t, u)
  <2>1. PICK target \in Tid, source \in Tid : handle_wakeup(target, source)
    BY <1>3 DEF Wakeup
  <2>2. UNCHANGED <<edges, pending_edges>>
    BY <2>1 DEF handle_wakeup
  <2>3. Adds(None) /\ \A t \in Thread : PendingStep(t, None)
    BY <1>0, <2>2, SameEdgesQuiet DEF Adds, PendingStep
  <2>4. ASSUME NEW t \in Thread PROVE OffStep(t)
    <3>1. CASE off_cpu'[t] = off_cpu[t]
      BY <3>1 DEF OffStep
    <3>2. CASE off_cpu'[t] # off_cpu[t]
      <4>1. /\ t = target /\ off_cpu[t] # None
            /\ off_cpu'[t] = [off_cpu[t] EXCEPT !.waker_tid = source]
        BY <1>0, <2>1, <3>2 DEF handle_wakeup
      <4>2. off_cpu[t] \in OffCpuRecord
        BY <1>0, <4>1
      <4>3. off_cpu'[t].switch_out_ns = off_cpu[t].switch_out_ns
        BY <4>1, <4>2 DEF OffCpuRecord
      <4> QED BY <4>1, <4>3 DEF OffStep
    <3> QED BY <3>1, <3>2
  <2> QED BY <2>3, <2>4
<1>4. ASSUME NEW ts \in Ts, Exit(ts)
      PROVE  \E u : Adds(u) /\ \A t \in Thread : OffStep(t) /\ PendingStep(t, u)
  <2>1. PICK tid \in Tid : handle_exit(tid)
    BY <1>4 DEF Exit
  <2>2. /\ off_cpu' = [off_cpu EXCEPT ![tid] = None]
        /\ pending_edges' = [pending_edges EXCEPT ![tid] = None]
    BY <2>1 DEF handle_exit
  <2>3. PICK u : Adds(u) /\ u \in {None, tid}
    <3>1. CASE pending_edges[tid] = None
      <4>1. Quiet
        BY <2>1, <3>1, SameEdgesQuiet DEF handle_exit
      <4> QED BY <4>1 DEF Adds
    <3>2. CASE pending_edges[tid] # None
      <4>1. tid \in Thread
        BY <1>0, <3>2 DEF OffCpuOrDeferred, Tid
      <4>2. CommitsOf(tid)
        BY <2>1, <3>2 DEF handle_exit, CommitsOf
      <4> QED BY <4>1, <4>2 DEF Adds
    <3> QED BY <3>1, <3>2
  <2>4. ASSUME NEW t \in Thread PROVE OffStep(t) /\ PendingStep(t, u)
    BY <1>0, <2>2, <2>3 DEF OffStep, PendingStep
  <2> QED BY <2>3, <2>4
<1>5. ASSUME NEW ts \in Ts, IoComplete(ts)
      PROVE  \E u : Adds(u) /\ \A t \in Thread : OffStep(t) /\ PendingStep(t, u)
  <2>1. PICK key \in IoKey : handle_io_complete(ts, key)
    BY <1>5 DEF IoComplete
  <2>2. UNCHANGED <<off_cpu, pending_edges>>
    BY <2>1 DEF handle_io_complete
  <2> QED BY <1>0, <2>1, <2>2, IoQuiet, SameWaitTables
<1>6. ASSUME \/ \E ts \in Ts : FutexWait(ts) \/ IoIssue(ts) \/ UnknownType(ts)
             \/ EndOfEvents \/ Return \/ UNCHANGED corrVars
      PROVE  \E u : Adds(u) /\ \A t \in Thread : OffStep(t) /\ PendingStep(t, u)
  <2>1. UNCHANGED <<off_cpu, pending_edges, edges>>
    BY <1>6 DEF FutexWait, IoIssue, UnknownType, EndOfEvents, Return,
                handle_futex_wait, handle_io_issue, handle_unknown, corrVars, tables
  <2> QED BY <2>1, SameEdgesQuiet, SameWaitTables
<1>7. ASSUME DrainPendingEdge
      PROVE  \E u : Adds(u) /\ \A t \in Thread : OffStep(t) /\ PendingStep(t, u)
  <2>1. PICK tid \in Keys(pending_edges) :
          /\ edges' = Append(edges, add_edge_from_pending(pending_edges[tid]))
          /\ pending_edges' = [pending_edges EXCEPT ![tid] = None]
          /\ UNCHANGED off_cpu
    BY <1>7 DEF DrainPendingEdge
  <2>2. tid \in Thread /\ CommitsOf(tid)
    BY <1>0, <2>1 DEF Keys, OffCpuOrDeferred, Tid, CommitsOf
  <2>3. ASSUME NEW t \in Thread PROVE OffStep(t) /\ PendingStep(t, tid)
    BY <1>0, <2>1, <2>2 DEF OffStep, PendingStep
  <2> QED BY <2>2, <2>3 DEF Adds
<1>8. \E u : Adds(u) /\ \A t \in Thread : OffStep(t) /\ PendingStep(t, u)
  BY <1>2, <1>3, <1>4, <1>5, <1>6, <1>7 DEF Next
<1> QED BY <1>0, <1>1, <1>8, WaitStep

\* What follows one another does not overlap.
LEMMA OrderedAreDisjoint == CorrInv /\ WaitsInv => WaitsOfAThreadDisjoint
<1> SUFFICES ASSUME CorrInv, WaitsInv, NEW t \in Thread
             PROVE  /\ \A v, w \in WaitWindows(t) :
                         v = w \/ v.end_ms <= w.start_ms \/ w.end_ms <= v.start_ms
                    /\ off_cpu[t] # None =>
                         \A w \in WaitWindows(t) :
                           w.end_ms <= off_cpu[t].switch_out_ns \div NsPerMs
  BY DEF WaitsOfAThreadDisjoint
<1>1. /\ DataOK /\ edges \in Seq(Edge)
      /\ t \in Tid /\ DOMAIN pending_edges = Tid
      /\ off_cpu[t] = None \/ pending_edges[t] = None
  BY DEF CorrInv, CoreInv, DataOK, OffCpuOrDeferred, Tid
<1>2. /\ WaitsOrdered(edges, t)
      /\ off_cpu[t] # None =>
           WaitsBefore(edges, t, off_cpu[t].switch_out_ns \div NsPerMs)
      /\ pending_edges[t] # None =>
           WaitsBefore(edges, t, pending_edges[t].window.start_ms)
  BY DEF WaitsInv
<1>3. \A w \in WaitWindows(t) :
        \/ \E i \in DOMAIN edges : IsWait(edges[i], t) /\ w = edges[i].window
        \/ pending_edges[t] # None /\ w = pending_edges[t].window
  BY DEF WaitWindows, Keys, IsWait
<1>4. \A i, j \in DOMAIN edges : i < j \/ i = j \/ j < i
  BY <1>1
<1>5. ASSUME NEW v \in WaitWindows(t), NEW w \in WaitWindows(t)
      PROVE  v = w \/ v.end_ms <= w.start_ms \/ w.end_ms <= v.start_ms
  BY <1>2, <1>3, <1>4, <1>5 DEF WaitsOrdered, WaitsBefore
<1>6. ASSUME off_cpu[t] # None, NEW w \in WaitWindows(t)
      PROVE  w.end_ms <= off_cpu[t].switch_out_ns \div NsPerMs
  BY <1>1, <1>2, <1>3, <1>6 DEF WaitsBefore
<1> QED BY <1>5, <1>6

\* Two waits of one thread never overlap in the graph, whatever was lost from the
\* stream and whatever NsPerMs rounds away.
THEOREM WaitsAreDisjoint == Spec => []WaitsOfAThreadDisjoint
<1>1. Init => WaitsInv
  <2> SUFFICES ASSUME Init, NEW t \in Thread
      PROVE /\ WaitsOrdered(edges, t)
            /\ WaitsBefore(edges, t, last_ts \div NsPerMs)
            /\ off_cpu[t] = None /\ pending_edges[t] = None
    BY DEF WaitsInv
  <2> QED BY DEF Init, WaitsOrdered, WaitsBefore, Tid
<1> QED BY <1>1, NextWaits, OrderedAreDisjoint, CorrelateInvariant, PTL DEF Spec
=============================================================================
