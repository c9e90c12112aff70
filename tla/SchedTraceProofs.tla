-------------------------- MODULE SchedTraceProofs --------------------------
(***************************************************************************)
(* SchedTrace for every number of CPUs and threads, every set of sleep     *)
(* states and every number of lost events.                                 *)
(***************************************************************************)
EXTENDS SchedTrace, CorrelateProofs

USE DEF TASK_RUNNING

\* Types of the kernel's variables
KernelTypeOK ==
  /\ clock \in Ts
  /\ cur \in [Cpu -> Tid]
  /\ state \in [Thread -> Nat]
  /\ futex \in [Thread -> FutexCall \cup {None}]
  /\ wait \in [Thread -> KernelWait \cup {None}]
  /\ IsFiniteSet(waits)
  /\ \A w \in wakes : w.ts \in Nat
  /\ complete \in BOOLEAN /\ exact \in BOOLEAN

\* What was recorded, was recorded in the past.
RecordedInThePast ==
  /\ \A t \in Thread : off_cpu[t] # None => off_cpu[t].switch_out_ns <= clock
  /\ \A t \in Thread : futex[t] # None => futex[t].ts <= clock
  /\ \A w \in waits : w.in \in Ts /\ w.in <= clock

\* The off-CPU table knows nothing of wperf's threads.
SelfUnknown ==
  \A t \in Thread : off_cpu[t] # None =>
    t \notin SelfThread /\ off_cpu[t].waker_tid \notin SelfThread

\* There is no block I/O in this trace.
NoIo == seen.io_complete = 0 /\ stats.io_orphan_complete_count = 0

\* A futex call a thread has not slept in is the one pending_futex holds.
FutexMirrored ==
  \A t \in Thread : futex[t] # None =>
    /\ pending_futex[t] # None
    /\ pending_futex[t].timestamp_ns = futex[t].ts
    /\ pending_futex[t].wait_type = futex_op_to_wait_type(futex[t].op)

\* The off-CPU table holds the waits that go on.
WaitMirrored(t) ==
  /\ off_cpu[t] = None <=> wait[t] = None
  /\ off_cpu[t] # None =>
       /\ off_cpu[t].switch_out_ns = wait[t].since
       /\ off_cpu[t].waker_tid = wait[t].waker
       /\ wait[t].cause \in {None, off_cpu[t].wait_type}

\* An edge is a wait that happened.
Happened(e, ws) ==
  \E w \in ws : /\ e.src = w.src /\ e.dst = w.dst
                /\ e.window = SchedWindow(w.out, w.in)
                /\ w.cause \in {None, e.wait_type}

\* A wait with a waker is a switch-in that is neither unmatched nor without one.
WaitsCounted ==
  seen.switch_in = stats.unmatched_switch_in_count
                     + stats.switch_in_without_waker_count + Cardinality(waits)

\* What the correlator knows is true while no event is missing or inexact.
Truth ==
  /\ FutexMirrored
  /\ \A t \in Thread : WaitMirrored(t)
  /\ \A e \in SchedEdges : Happened(e, waits)
  /\ WaitsCounted

TraceInv ==
  /\ CorrInv /\ LeftInv /\ KernelTypeOK /\ RecordedInThePast /\ SelfUnknown /\ NoIo
  /\ EveryEdgeHasItsWakeup
  /\ complete /\ exact => Truth
-----------------------------------------------------------------------------
(***************************************************************************)
(* The correlator of this trace is the correlator of Correlate.            *)
(***************************************************************************)
\* handle_switch tells a prev_state of 0 from the others, and no more.
LEMMA OnlyZeroIsTold ==
  ASSUME NEW ts, NEW p, NEW n, NEW s \in Nat, s # 0, handle_switch(ts, p, s, n)
  PROVE  handle_switch(ts, p, 1, n)
<1>1. /\ Spurious(ts, p, s) = Spurious(ts, p, 1)
      /\ Sleeps(p, s) = Sleeps(p, 1)
  BY DEF Spurious, Sleeps
<1>2. SwitchOut(ts, p, s) = SwitchOut(ts, p, 1)
  BY <1>1 DEF SwitchOut
<1> QED BY <1>1, <1>2, Zenon DEF handle_switch

\* The state the probe reads is a number.
LEMMA PrevStateType ==
  ASSUME KernelTypeOK, NEW c \in Cpu
  PROVE  cur[c] \in Tid /\ PrevState(cur[c]) \in Nat
<1>1. cur[c] \in Tid
  BY DEF KernelTypeOK
<1>2. cur[c] # Idle => state[cur[c]] \in Nat
  BY <1>1 DEF KernelTypeOK, Tid
<1> QED BY <1>1, <1>2 DEF PrevState

\* Every event the probes deliver is an event of a stream of Correlate.
LEMMA TraceSteps == KernelTypeOK /\ TraceNext => [Next]_corrVars
<1> SUFFICES ASSUME KernelTypeOK, TraceNext PROVE [Next]_corrVars
  OBVIOUS
<1>1. ASSUME NEW c \in Cpu, NEW next \in Tid, NEW preempt \in BOOLEAN, NEW ts \in Ts,
             Schedule(c, next, preempt, ts)
      PROVE  [Next]_corrVars
  <2>1. \/ UNCHANGED corrVars
        \/ NextEvent(ts) /\ handle_switch(ts, cur[c], PrevState(cur[c]), next)
    BY <1>1, Zenon DEF Schedule, Missed
  <2>2. cur[c] \in Tid /\ PrevState(cur[c]) \in Nat
    BY PrevStateType
  <2>3. ASSUME NextEvent(ts), handle_switch(ts, cur[c], PrevState(cur[c]), next)
        PROVE  Switch(ts)
    <3>1. \E s \in {TASK_RUNNING, 1} : handle_switch(ts, cur[c], s, next)
      BY <2>2, <2>3, OnlyZeroIsTold
    <3> QED BY <2>2, <2>3, <3>1 DEF Switch
  <2> QED BY <2>1, <2>3 DEF Next
<1>2. ASSUME NEW c \in Cpu, NEW t \in Thread, NEW ts \in Ts, TryToWakeUp(c, t, ts)
      PROVE  [Next]_corrVars
  <2>1. \/ UNCHANGED corrVars
        \/ NextEvent(ts) /\ handle_wakeup(t, cur[c])
    BY <1>2, Zenon DEF TryToWakeUp, Missed
  <2>2. t \in Tid /\ cur[c] \in Tid
    BY PrevStateType DEF Tid
  <2> QED BY <2>1, <2>2 DEF Next, Wakeup
<1>3. ASSUME NEW c \in Cpu, NEW op \in FutexOp, NEW ts \in Ts,
             handle_sys_enter_futex(c, op, ts)
      PROVE  [Next]_corrVars
  <2>1. /\ cur[c] # Idle
        /\ \/ UNCHANGED corrVars
           \/ NextEvent(ts) /\ handle_futex_wait(ts, cur[c], op)
    BY <1>3, Zenon DEF handle_sys_enter_futex, Missed
  <2>2. cur[c] \in Thread
    BY <2>1, PrevStateType DEF Tid
  <2> QED BY <2>1, <2>2 DEF Next, FutexWait
<1>4. ASSUME NEW c \in Cpu,
             \/ \E s \in SleepState \cup {TASK_RUNNING} : SetCurrentState(c, s)
             \/ FutexReturns(c)
      PROVE  [Next]_corrVars
  BY <1>4 DEF SetCurrentState, FutexReturns
<1>5. CASE Finish
  BY <1>5 DEF Next, Finish
<1> QED BY <1>1, <1>2, <1>3, <1>4, <1>5 DEF TraceNext

-----------------------------------------------------------------------------
(***************************************************************************)
(* What the handlers do, as far as the invariant is concerned.             *)
(***************************************************************************)
\* Committing a deferred edge makes no edge known that was not known before.
LEMMA CommitAddsNothing ==
  ASSUME edges \in Seq(Edge),
         \/ edges' = edges
         \/ \E t \in Keys(pending_edges) :
              edges' = Append(edges, add_edge_from_pending(pending_edges[t]))
  PROVE  \A i \in DOMAIN edges' : edges'[i] \in SchedEdges
<1>1. CASE edges' = edges
  BY <1>1 DEF SchedEdges
<1>2. ASSUME NEW t \in Keys(pending_edges),
             edges' = Append(edges, add_edge_from_pending(pending_edges[t]))
      PROVE  \A i \in DOMAIN edges' : edges'[i] \in SchedEdges
  <2> DEFINE x == add_edge_from_pending(pending_edges[t])
  <2>1. x \in SchedEdges /\ \A i \in DOMAIN edges : edges[i] \in SchedEdges
    BY DEF SchedEdges
  <2> HIDE DEF x
  <2>2. edges' = Append(edges, x)
    BY <1>2 DEF x
  <2>3. \A i \in DOMAIN edges' : edges'[i] = x \/ (i \in DOMAIN edges /\ edges'[i] = edges[i])
    BY <2>2
  <2> QED BY <2>1, <2>3
<1> QED BY <1>1, <1>2

\* The thread switched in was off-CPU, and somebody had woken it.
WasWoken(t) == t # Idle /\ off_cpu[t] # None /\ off_cpu[t].waker_tid # None

\* The record of a thread that is switched out
SwitchedOut(ts, t) ==
  [switch_out_ns |-> ts, waker_tid |-> None, wait_type |-> FutexCause(ts, t)]

\* handle_switch, between two different tasks.
LEMMA SwitchStep ==
  ASSUME CoreInv, NoIo, NEW ts \in Ts, NEW prev \in Tid, NEW ps \in Nat, NEW next \in Tid,
         next # prev, handle_switch(ts, prev, ps, next)
  PROVE  /\ \A t \in Thread :
              /\ t = next => off_cpu'[t] = None
              /\ t # next /\ t = prev /\ ps # 0 => off_cpu'[t] = SwitchedOut(ts, prev)
              /\ t # next /\ ~(t = prev /\ ps # 0) => off_cpu'[t] = off_cpu[t]
              /\ t = prev /\ ps # 0 => pending_futex'[t] = None
              /\ ~(t = prev /\ ps # 0) => pending_futex'[t] = pending_futex[t]
         /\ \A e \in SchedEdges' :
              \/ e \in SchedEdges
              \/ /\ WasWoken(next)
                 /\ e = add_edge_from_pending(DeferredEdge(ts, next, off_cpu[next]))
         /\ seen'.switch_in = seen.switch_in + Bump(next # Idle)
         /\ stats'.unmatched_switch_in_count = stats.unmatched_switch_in_count
              + Bump(next # Idle /\ off_cpu[next] = None)
         /\ stats'.switch_in_without_waker_count = stats.switch_in_without_waker_count
              + Bump(next # Idle /\ off_cpu[next] # None /\ ~WasWoken(next))
         /\ NoIo'
<1> DEFINE out   == SwitchOut(ts, prev, ps)
           kept  == IF Resolves(prev) THEN [pending_edges EXCEPT ![prev] = None]
                    ELSE pending_edges
           woken == Woken(ts, prev, ps, next)
           edge  == DeferredEdge(ts, next, out[next])
           rec   == SwitchedOut(ts, prev)
<1>1. /\ off_cpu \in [Tid -> OffCpuRecord \cup {None}] /\ DataOK
      /\ pending_edges \in [Tid -> PendingEdge \cup {None}]
      /\ pending_futex \in [Tid -> PendingFutex \cup {None}]
      /\ edges \in Seq(Edge) /\ seen \in Seen
      /\ Thread \subseteq Tid /\ Idle \notin Thread
      /\ out \in [Tid -> OffCpuRecord \cup {None}]
  BY CorrelateAssumption, SwitchOutType DEF CoreInv, DataOK, Tid
<1>2. out = IF ps # 0 /\ prev # Idle THEN [off_cpu EXCEPT ![prev] = rec] ELSE off_cpu
  BY DEF SwitchOut, Sleeps, SwitchedOut
<1>3. /\ off_cpu' = IF next # Idle THEN [out EXCEPT ![next] = None] ELSE out
      /\ pending_edges' = IF woken THEN [kept EXCEPT ![next] = edge] ELSE kept
      /\ pending_futex' = IF ps # 0 /\ prev # Idle
                          THEN [pending_futex EXCEPT ![prev] = None]
                          ELSE pending_futex
      /\ seen' = [seen EXCEPT !.switch_in = @ + Bump(next # Idle)]
  BY DEF handle_switch, Woken, Matched, Sleeps
<1>4. out[next] = off_cpu[next]
  BY <1>1, <1>2
<1>5. ASSUME NEW t \in Thread
      PROVE  /\ t = next => off_cpu'[t] = None
             /\ t # next /\ t = prev /\ ps # 0 => off_cpu'[t] = rec
             /\ t # next /\ ~(t = prev /\ ps # 0) => off_cpu'[t] = off_cpu[t]
             /\ t = prev /\ ps # 0 => pending_futex'[t] = None
             /\ ~(t = prev /\ ps # 0) => pending_futex'[t] = pending_futex[t]
  <2> HIDE DEF out, kept, woken, edge, rec
  <2> QED BY <1>1, <1>2, <1>3
<1>6. woken <=> WasWoken(next)
  BY <1>4 DEF Woken, Matched, WasWoken
<1>7. \A e \in SchedEdges' :
        \/ e \in SchedEdges
        \/ /\ WasWoken(next)
           /\ e = add_edge_from_pending(DeferredEdge(ts, next, off_cpu[next]))
  <2>1. \A i \in DOMAIN edges' : edges'[i] \in SchedEdges
    <3>1. Resolves(prev) => prev \in Keys(pending_edges)
      BY <1>1 DEF Resolves, Keys
    <3>2. \/ edges' = edges
          \/ /\ Resolves(prev)
             /\ edges' = Append(edges, add_edge_from_pending(pending_edges[prev]))
      BY Zenon DEF handle_switch
    <3> QED BY <1>1, <3>1, <3>2, CommitAddsNothing
  <2>2. ASSUME NEW t \in Keys(pending_edges')
        PROVE  \/ t \in Keys(pending_edges) /\ pending_edges'[t] = pending_edges[t]
               \/ woken /\ t = next /\ pending_edges'[t] = edge
    <3> HIDE DEF woken, edge, out
    <3>1. DOMAIN pending_edges' = Tid /\ t \in Tid /\ pending_edges'[t] # None
      BY <1>1, <1>3 DEF Keys
    <3> QED BY <1>1, <1>3, <3>1 DEF Keys
  <2>3. \A t \in Keys(pending_edges') :
          \/ add_edge_from_pending(pending_edges'[t]) \in SchedEdges
          \/ /\ WasWoken(next)
             /\ add_edge_from_pending(pending_edges'[t])
                  = add_edge_from_pending(DeferredEdge(ts, next, off_cpu[next]))
    <3> HIDE DEF woken
    <3> QED BY <1>4, <1>6, <2>2, Zenon DEF SchedEdges
  <2> QED BY <2>1, <2>3, Zenon DEF SchedEdges
<1>8. /\ stats'.unmatched_switch_in_count = stats.unmatched_switch_in_count
           + Bump(next # Idle /\ off_cpu[next] = None)
      /\ stats'.switch_in_without_waker_count = stats.switch_in_without_waker_count
           + Bump(next # Idle /\ off_cpu[next] # None /\ ~WasWoken(next))
      /\ SameIo
  <2>1. SwitchCounts(ts, prev, ps, next)
    BY <1>1, SwitchCounted
  <2>2. Matched(ts, prev, ps, next) <=> (next # Idle /\ off_cpu[next] # None)
    BY <1>4 DEF Matched
  <2>3. /\ Bump(Matched(ts, prev, ps, next) /\ ~Woken(ts, prev, ps, next))
             = Bump(next # Idle /\ off_cpu[next] # None /\ ~WasWoken(next))
        /\ Bump(next # Idle /\ ~Matched(ts, prev, ps, next))
             = Bump(next # Idle /\ off_cpu[next] = None)
    BY <1>6, <2>2 DEF Bump
  <2> QED BY <2>1, <2>3 DEF SwitchCounts
<1>9. seen'.switch_in = seen.switch_in + Bump(next # Idle) /\ NoIo'
  BY <1>1, <1>3, <1>8 DEF Seen, SameIo, NoIo
<1> HIDE DEF woken, edge, out, kept
<1> QED BY <1>5, <1>7, <1>8, <1>9

\* An edge or a record keeps its wakeup, and its wait, when more happens.
LEMMA EvidenceStays ==
  ASSUME EveryEdgeHasItsWakeup, UNCHANGED corrVars, wakes \subseteq wakes'
  PROVE  EveryEdgeHasItsWakeup'
<1>1. UNCHANGED <<off_cpu, edges, pending_edges>>
  BY DEF corrVars, tables
<1>2. SchedEdges' = SchedEdges
  BY <1>1 DEF SchedEdges
<1> QED BY <1>1, <1>2 DEF EveryEdgeHasItsWakeup

\* A step that is not delivered leaves only the kernel's truth to check.
LEMMA UndeliveredInv ==
  ASSUME TraceInv, CorrInv', LeftInv', KernelTypeOK', UNCHANGED corrVars,
         clock <= clock', wakes \subseteq wakes', ~complete',
         \A t \in Thread : futex'[t] # None => futex'[t].ts <= clock',
         \A w \in waits' : w.in \in Ts /\ w.in <= clock'
  PROVE  TraceInv'
<1>1. UNCHANGED <<off_cpu, stats, seen>>
  BY DEF corrVars, tables
<1>2. \A t \in Thread : off_cpu[t] # None => off_cpu[t].switch_out_ns \in Ts
  BY WaitTypes DEF TraceInv, CorrInv, CoreInv
<1>3. clock \in Nat /\ clock' \in Nat
  BY TsNat DEF TraceInv, KernelTypeOK
<1>4. ASSUME NEW t \in Thread, off_cpu'[t] # None
      PROVE  off_cpu'[t].switch_out_ns <= clock'
  <2>1. off_cpu[t].switch_out_ns \in Nat /\ off_cpu[t].switch_out_ns <= clock
    BY <1>1, <1>2, <1>4, TsNat DEF TraceInv, RecordedInThePast
  <2> QED BY <1>1, <1>3, <2>1
<1>5. RecordedInThePast'
  BY <1>4 DEF RecordedInThePast
<1>6. SelfUnknown' /\ NoIo'
  BY <1>1 DEF TraceInv, SelfUnknown, NoIo
<1>7. EveryEdgeHasItsWakeup'
  BY EvidenceStays DEF TraceInv
<1> QED BY <1>5, <1>6, <1>7 DEF TraceInv

\* The wait that a switch ends, as the kernel saw it
EndedWait(next, ts) ==
  [src |-> next, dst |-> wait[next].waker, out |-> wait[next].since, in |-> ts,
   cause |-> wait[next].cause]

\* __schedule, whatever the probe makes of it.
LEMMA ScheduleTypes ==
  ASSUME KernelTypeOK, RecordedInThePast, NEW c \in Cpu, NEW next \in Tid,
         NEW preempt \in BOOLEAN, NEW ts \in Ts, Schedule(c, next, preempt, ts)
  PROVE  /\ cur[c] \in Tid /\ PrevState(cur[c]) \in Nat /\ next # cur[c]
         /\ clock \in Nat /\ clock' = ts /\ clock < ts /\ wakes' = wakes
         /\ KernelTypeOK'
         /\ \A t \in Thread : futex'[t] # None =>
              futex'[t] = futex[t] /\ futex'[t].ts <= clock'
         /\ \A w \in waits' : w.in \in Ts /\ w.in <= clock'
<1> DEFINE prev == cur[c]
           sleeps == prev # Idle /\ ~preempt /\ state[prev] # TASK_RUNNING
           new(t) == [since |-> ts, waker |-> None, cause |-> Cause(t, ts)]
<1>1. prev \in Tid /\ PrevState(prev) \in Nat
  BY PrevStateType
<1>2. /\ clock \in Nat /\ clock' = ts /\ clock < ts /\ wakes' = wakes
      /\ next # prev /\ clock \in Ts /\ state' = state /\ ts \in Nat
  BY TsNat DEF Schedule, KernelTypeOK
<1>3. cur' \in [Cpu -> Tid]
  BY DEF Schedule, KernelTypeOK
<1>4. ASSUME NEW t \in Thread PROVE new(t) \in KernelWait
  <2>1. Cause(t, ts) \in WaitType \cup {None}
    BY FutexType DEF Cause
  <2> QED BY <2>1 DEF KernelWait
<1>5. wait' = [t \in Thread |-> IF t = next THEN None
                              ELSE IF t = prev /\ sleeps THEN new(t) ELSE wait[t]]
  BY DEF Schedule
<1>6. wait' \in [Thread -> KernelWait \cup {None}]
  <2> HIDE DEF new
  <2> QED BY <1>4, <1>5 DEF KernelTypeOK
<1>7. /\ futex' \in [Thread -> FutexCall \cup {None}]
      /\ \A t \in Thread : futex'[t] # None => futex'[t] = futex[t]
  BY DEF Schedule, KernelTypeOK
<1>8. waits' = waits \/ waits' = waits \cup {EndedWait(next, ts)}
  BY DEF Schedule, EndedWait
<1>9. IsFiniteSet(waits')
  BY <1>8, FS_AddElement DEF KernelTypeOK
<1>10. complete' \in BOOLEAN /\ exact' \in BOOLEAN
  BY Zenon DEF Schedule, Missed, KernelTypeOK
<1>11. KernelTypeOK'
  BY <1>2, <1>3, <1>6, <1>7, <1>9, <1>10 DEF KernelTypeOK
<1>12. \A w \in waits' : w.in \in Ts /\ w.in <= clock'
  <2>1. EndedWait(next, ts).in = ts
    BY DEF EndedWait
  <2>2. \A w \in waits : w.in \in Ts /\ w.in <= clock
    BY DEF RecordedInThePast
  <2>3. ASSUME NEW w \in waits PROVE w.in \in Nat /\ w.in <= ts
    <3>1. w.in \in Nat /\ w.in <= clock
      BY <2>2, TsNat
    <3> QED BY <1>2, <3>1
  <2> QED BY <1>2, <1>8, <2>1, <2>2, <2>3
<1>13. ASSUME NEW t \in Thread, futex'[t] # None PROVE futex'[t].ts <= clock'
  <2>1. futex'[t] = futex[t] /\ futex[t] # None /\ futex[t] \in FutexCall
    BY <1>7, <1>13 DEF KernelTypeOK
  <2>2. futex[t].ts \in Nat /\ futex[t].ts <= clock
    BY <2>1, TsNat DEF FutexCall, RecordedInThePast
  <2> QED BY <1>2, <2>1, <2>2
<1> QED BY <1>1, <1>2, <1>7, <1>11, <1>12, <1>13

\* A switch that is delivered: the thread it puts on the CPU becomes the source of
\* at most one edge, and somebody had woken it since its wait began.
LEMMA SwitchEvidence ==
  ASSUME TraceInv, KernelTypeOK', NEW ts \in Ts, NEW prev \in Tid, NEW ps \in Nat,
         NEW next \in Tid, next # prev, {prev, next} \cap SelfThread = {},
         handle_switch(ts, prev, ps, next), clock' = ts, clock < ts, wakes' = wakes
  PROVE  /\ \A t \in Thread : off_cpu'[t] # None => off_cpu'[t].switch_out_ns <= clock'
         /\ SelfUnknown' /\ EveryEdgeHasItsWakeup'
<1> DEFINE rec == SwitchedOut(ts, prev)
           edge == add_edge_from_pending(DeferredEdge(ts, next, off_cpu[next]))
<1>0. /\ CoreInv /\ NoIo /\ DataOK /\ SelfUnknown /\ RecordedInThePast
      /\ EveryEdgeHasItsWakeup /\ Idle \notin Thread /\ None \notin SelfThread
      /\ clock \in Nat /\ ts \in Nat
  BY TsNat, CorrelateAssumption, SchedTraceAssumption
     DEF TraceInv, CorrInv, CoreInv, KernelTypeOK, Tid
<1>1. ASSUME NEW t \in Thread, off_cpu'[t] # None
      PROVE  off_cpu'[t] = off_cpu[t] \/ (t = prev /\ off_cpu'[t] = rec)
  BY <1>0, <1>1, SwitchStep
<1>2. rec.switch_out_ns = ts /\ rec.waker_tid = None
  BY DEF SwitchedOut
<1> HIDE DEF rec
<1>3. ASSUME NEW t \in Thread, off_cpu'[t] # None
      PROVE  /\ off_cpu'[t].switch_out_ns <= clock'
             /\ t \notin SelfThread /\ off_cpu'[t].waker_tid \notin SelfThread
             /\ off_cpu'[t].waker_tid # None =>
                  \E w \in wakes' : /\ w.wakee = t /\ w.waker = off_cpu'[t].waker_tid
                                    /\ off_cpu'[t].switch_out_ns <= w.ts
  <2>1. CASE t = prev /\ off_cpu'[t] = rec
    BY <1>0, <1>2, <2>1
  <2>2. CASE off_cpu'[t] = off_cpu[t]
    <3>1. off_cpu[t].switch_out_ns \in Nat /\ off_cpu[t].switch_out_ns <= clock
      BY <1>0, <1>3, <2>2, WaitTypes, TsNat DEF RecordedInThePast
    <3>2. off_cpu[t].switch_out_ns <= clock'
      BY <1>0, <3>1
    <3> QED BY <1>0, <1>3, <2>2, <3>2 DEF SelfUnknown, EveryEdgeHasItsWakeup
  <2> QED BY <1>1, <1>3, <2>1, <2>2
<1>4. ASSUME NEW e \in SchedEdges'
      PROVE  /\ {e.src, e.dst} \cap SelfThread = {}
             /\ \E w \in wakes' : /\ w.wakee = e.src /\ w.waker = e.dst
                                  /\ e.window.start_ms <= w.ts \div NsPerMs
  <2>1. CASE e \in SchedEdges
    BY <1>0, <2>1 DEF EveryEdgeHasItsWakeup
  <2>2. CASE WasWoken(next) /\ e = edge
    <3>1. next \in Thread /\ off_cpu[next] \in OffCpuRecord
      BY <1>0, <2>2 DEF WasWoken, Tid, DataOK
    <3>2. /\ off_cpu[next] # None /\ off_cpu[next].waker_tid # None
          /\ off_cpu[next].switch_out_ns \in Ts
      BY <2>2, <3>1 DEF WasWoken, OffCpuRecord
    <3>3. /\ e.src = next /\ e.dst = off_cpu[next].waker_tid
          /\ e.window = SchedWindow(off_cpu[next].switch_out_ns, ts)
      BY <2>2 DEF add_edge_from_pending, DeferredEdge
    <3>4. PICK w \in wakes : /\ w.wakee = next /\ w.waker = off_cpu[next].waker_tid
                             /\ off_cpu[next].switch_out_ns <= w.ts
      BY <1>0, <3>1, <3>2 DEF EveryEdgeHasItsWakeup
    <3>5. e.window.start_ms = off_cpu[next].switch_out_ns \div NsPerMs
      BY <3>3 DEF SchedWindow
    <3>6. w.ts \in Nat
      BY DEF TraceInv, KernelTypeOK
    <3>7. off_cpu[next].switch_out_ns \div NsPerMs <= w.ts \div NsPerMs
      BY <3>2, <3>4, <3>6, DivMono, TsNat
    <3>8. {next, off_cpu[next].waker_tid} \cap SelfThread = {}
      BY <1>0, <3>1, <3>2 DEF SelfUnknown
    <3> QED BY <3>3, <3>4, <3>5, <3>7, <3>8
  <2> QED BY <1>0, <2>1, <2>2, SwitchStep
<1>5. SelfUnknown'
  BY <1>3 DEF SelfUnknown
<1>6. EveryEdgeHasItsWakeup'
  BY <1>3, <1>4 DEF EveryEdgeHasItsWakeup
<1> QED BY <1>3, <1>5, <1>6

\* The wait type FutexCause finds for a thread that goes to sleep is the one of
\* the futex call the thread is in.
LEMMA CauseIsFound ==
  ASSUME KernelTypeOK, RecordedInThePast, FutexMirrored, NEW t \in Thread, NEW ts \in Ts,
         clock < ts
  PROVE  Cause(t, ts) \in {None, FutexCause(ts, t)}
<1>1. CASE futex[t] # None /\ ts - futex[t].ts <= FUTEX_CORRELATION_WINDOW_NS
  <2>1. futex[t] \in FutexCall /\ clock \in Nat /\ ts \in Nat
    BY <1>1, TsNat DEF KernelTypeOK
  <2>2. futex[t].ts \in Nat /\ futex[t].ts <= clock
    BY <1>1, <2>1, TsNat DEF FutexCall, RecordedInThePast
  <2>3. /\ pending_futex[t] # None
        /\ pending_futex[t].timestamp_ns = futex[t].ts
        /\ pending_futex[t].wait_type = futex_op_to_wait_type(futex[t].op)
    BY <1>1 DEF FutexMirrored
  <2>4. SaturatingSub(ts, futex[t].ts) = ts - futex[t].ts
    BY <2>1, <2>2 DEF SaturatingSub
  <2>5. FutexCause(ts, t) = futex_op_to_wait_type(futex[t].op)
    BY <1>1, <2>3, <2>4 DEF FutexCause
  <2> QED BY <1>1, <2>5 DEF Cause
<1>2. CASE ~(futex[t] # None /\ ts - futex[t].ts <= FUTEX_CORRELATION_WINDOW_NS)
  BY <1>2 DEF Cause
<1> QED BY <1>1, <1>2

\* A switch that is delivered and exact keeps the correlator's tables true: a wait
\* begins and ends in both at once.
LEMMA SwitchTruth ==
  ASSUME TraceInv, Truth, NEW c \in Cpu, NEW next \in Tid, NEW preempt \in BOOLEAN,
         NEW ts \in Ts, Schedule(c, next, preempt, ts), exact',
         handle_switch(ts, cur[c], PrevState(cur[c]), next)
  PROVE  Truth'
<1> DEFINE prev == cur[c]
           ps == PrevState(prev)
           sleeps == prev # Idle /\ ~preempt /\ state[prev] # TASK_RUNNING
           ended == next # Idle /\ wait[next] # None /\ wait[next].waker # None
           new(t) == [since |-> ts, waker |-> None, cause |-> Cause(t, ts)]
           edge == add_edge_from_pending(DeferredEdge(ts, next, off_cpu[next]))
           w == EndedWait(next, ts)
<1>0. /\ CoreInv /\ NoIo /\ DataOK /\ DataOK' /\ RecordedInThePast /\ KernelTypeOK
      /\ Idle \notin Thread /\ Thread \subseteq Tid /\ ts \in Nat /\ IsFiniteSet(waits)
      /\ prev \in Tid /\ ps \in Nat /\ next # prev /\ clock < ts
  <2>1. CoreInv /\ NoIo /\ DataOK /\ RecordedInThePast /\ KernelTypeOK
    BY DEF TraceInv, CorrInv, CoreInv
  <2>2. prev \in Tid /\ ps \in Nat /\ next # prev /\ clock < ts
    BY <2>1, ScheduleTypes
  <2>3. DataOK'
    BY <2>1, <2>2, SwitchType
  <2> QED BY <2>1, <2>2, <2>3, TsNat, CorrelateAssumption DEF KernelTypeOK, Tid
<1>1. sleeps <=> ps # 0
  BY DEF Schedule
<1>2. /\ wait' = [t \in Thread |-> IF t = next THEN None
                                 ELSE IF t = prev /\ sleeps THEN new(t) ELSE wait[t]]
      /\ futex' = [t \in Thread |-> IF t = prev /\ sleeps THEN None ELSE futex[t]]
      /\ waits' = IF ended THEN waits \cup {w} ELSE waits
  BY DEF Schedule, EndedWait
<1> HIDE DEF sleeps, ps, w
<1>3. FutexMirrored'
  <2> SUFFICES ASSUME NEW t \in Thread, futex'[t] # None
               PROVE  /\ pending_futex'[t] # None
                      /\ pending_futex'[t].timestamp_ns = futex'[t].ts
                      /\ pending_futex'[t].wait_type
                           = futex_op_to_wait_type(futex'[t].op)
    BY DEF FutexMirrored
  <2>1. futex'[t] = futex[t] /\ ~(t = prev /\ ps # 0)
    BY <1>1, <1>2
  <2>2. pending_futex'[t] = pending_futex[t]
    BY <1>0, <2>1, SwitchStep DEF ps
  <2> QED BY <2>1, <2>2 DEF Truth, FutexMirrored
<1>4. ASSUME NEW t \in Thread PROVE WaitMirrored(t)'
  <2>1. CASE t = next
    <3>1. wait'[t] = None /\ off_cpu'[t] = None
      BY <1>0, <1>2, <2>1, SwitchStep DEF ps
    <3> QED BY <3>1 DEF WaitMirrored
  <2>2. CASE t # next /\ t = prev /\ sleeps
    <3>1. wait'[t] = new(t)
      BY <1>2, <2>2
    <3>2. off_cpu'[t] = SwitchedOut(ts, t)
      BY <1>0, <1>1, <2>2, SwitchStep DEF ps
    <3>3. wait'[t] # None /\ off_cpu'[t] # None
      <4>1. Cause(t, ts) \in WaitType \cup {None}
        BY FutexType DEF Cause
      <4>2. new(t) \in KernelWait
        BY <4>1 DEF KernelWait
      <4>3. SwitchedOut(ts, t) \in OffCpuRecord
        BY <1>0, FutexCauseType DEF SwitchedOut, OffCpuRecord
      <4> HIDE DEF new
      <4> QED BY <3>1, <3>2, <4>2, <4>3, SchedTraceAssumption, NoneAssumption
    <3>4. Cause(t, ts) \in {None, FutexCause(ts, t)}
      BY <1>0, CauseIsFound DEF Truth
    <3>5. /\ wait'[t].since = ts /\ wait'[t].waker = None /\ wait'[t].cause = Cause(t, ts)
          /\ off_cpu'[t].switch_out_ns = ts /\ off_cpu'[t].waker_tid = None
          /\ off_cpu'[t].wait_type = FutexCause(ts, t)
      BY <3>1, <3>2 DEF SwitchedOut
    <3> QED BY <3>3, <3>4, <3>5 DEF WaitMirrored
  <2>3. CASE t # next /\ ~(t = prev /\ sleeps)
    <3>1. wait'[t] = wait[t]
      BY <1>2, <2>3
    <3>2. off_cpu'[t] = off_cpu[t]
      BY <1>0, <1>1, <2>3, SwitchStep DEF ps
    <3> QED BY <3>1, <3>2 DEF Truth, WaitMirrored
  <2> QED BY <2>1, <2>2, <2>3
<1>5. next # Idle => next \in Thread /\ WaitMirrored(next)
  BY DEF Tid, Truth
<1>6. ended <=> WasWoken(next)
  BY <1>5 DEF WaitMirrored, WasWoken
<1>7. ASSUME NEW e \in SchedEdges' PROVE Happened(e, waits')
  <2>1. CASE e \in SchedEdges
    BY <1>2, <2>1 DEF Truth, Happened
  <2>2. CASE WasWoken(next) /\ e = edge
    <3>1. w \in waits'
      BY <1>2, <1>6, <2>2
    <3>2. /\ e.src = next /\ e.dst = off_cpu[next].waker_tid
          /\ e.window = SchedWindow(off_cpu[next].switch_out_ns, ts)
          /\ e.wait_type = off_cpu[next].wait_type
      BY <2>2 DEF add_edge_from_pending, DeferredEdge
    <3>3. /\ w.src = next /\ w.dst = wait[next].waker /\ w.out = wait[next].since
          /\ w.in = ts /\ w.cause = wait[next].cause
      BY DEF w, EndedWait
    <3>4. /\ off_cpu[next].switch_out_ns = wait[next].since
          /\ off_cpu[next].waker_tid = wait[next].waker
          /\ wait[next].cause \in {None, off_cpu[next].wait_type}
      BY <1>5, <2>2 DEF WaitMirrored, WasWoken
    <3> QED BY <3>1, <3>2, <3>3, <3>4 DEF Happened
  <2> QED BY <1>0, <2>1, <2>2, SwitchStep DEF ps
<1>8. WaitsCounted'
  <2>1. Cardinality(waits') = Cardinality(waits) + Bump(ended)
    <3>1. CASE ended
      <4>1. w \notin waits
        <5>1. w.in = ts
          BY DEF w, EndedWait
        <5>2. ASSUME NEW v \in waits PROVE v.in # ts
          <6>1. v.in \in Nat /\ v.in <= clock /\ clock \in Nat
            BY <1>0, TsNat DEF RecordedInThePast, KernelTypeOK
          <6> QED BY <1>0, <6>1
        <5> QED BY <5>1, <5>2
      <4>2. Cardinality(waits \cup {w}) = Cardinality(waits) + 1
        BY <1>0, <4>1, FS_AddElement
      <4> QED BY <1>2, <3>1, <4>2 DEF Bump
    <3>2. CASE ~ended
      <4>1. Cardinality(waits) \in Nat
        BY <1>0, FS_CardinalityType
      <4> QED BY <1>2, <3>2, <4>1 DEF Bump
    <3> QED BY <3>1, <3>2
  <2>2. Bump(next # Idle) = Bump(next # Idle /\ off_cpu[next] = None)
          + Bump(next # Idle /\ off_cpu[next] # None /\ ~WasWoken(next)) + Bump(ended)
    BY <1>6 DEF Bump, WasWoken
  <2>3. /\ seen'.switch_in = seen.switch_in + Bump(next # Idle)
        /\ stats'.unmatched_switch_in_count = stats.unmatched_switch_in_count
             + Bump(next # Idle /\ off_cpu[next] = None)
        /\ stats'.switch_in_without_waker_count = stats.switch_in_without_waker_count
             + Bump(next # Idle /\ off_cpu[next] # None /\ ~WasWoken(next))
    BY <1>0, SwitchStep DEF ps
  <2>4. /\ seen.switch_in \in Nat /\ stats.unmatched_switch_in_count \in Nat
        /\ stats.switch_in_without_waker_count \in Nat /\ Cardinality(waits) \in Nat
    BY <1>0, LawTypes, FS_CardinalityType
  <2>5. seen.switch_in = stats.unmatched_switch_in_count
          + stats.switch_in_without_waker_count + Cardinality(waits)
    BY DEF Truth, WaitsCounted
  <2> DEFINE a == Bump(next # Idle)
             b == Bump(next # Idle /\ off_cpu[next] = None)
             d == Bump(next # Idle /\ off_cpu[next] # None /\ ~WasWoken(next))
             f == Bump(ended)
  <2>6. a \in Nat /\ b \in Nat /\ d \in Nat /\ f \in Nat
    BY DEF Bump
  <2> HIDE DEF a, b, d, f, ended
  <2>7. seen.switch_in + a = (stats.unmatched_switch_in_count + b)
          + (stats.switch_in_without_waker_count + d) + (Cardinality(waits) + f)
    BY <2>2, <2>4, <2>5, <2>6 DEF a, b, d, f
  <2> QED BY <2>1, <2>3, <2>7 DEF WaitsCounted, a, b, d, f
<1> QED BY <1>3, <1>4, <1>7, <1>8 DEF Truth

\* __schedule and its probe.
LEMMA ScheduleInv ==
  ASSUME TraceInv, CorrInv', LeftInv', NEW c \in Cpu, NEW next \in Tid,
         NEW preempt \in BOOLEAN, NEW ts \in Ts, Schedule(c, next, preempt, ts)
  PROVE  TraceInv'
<1> DEFINE prev == cur[c]
           ps == PrevState(prev)
<1>0. KernelTypeOK /\ RecordedInThePast /\ CoreInv /\ NoIo
  BY DEF TraceInv, CorrInv
<1>1. /\ prev \in Tid /\ ps \in Nat /\ next # prev
      /\ clock \in Nat /\ clock' = ts /\ clock < ts /\ wakes' = wakes
      /\ KernelTypeOK'
      /\ \A t \in Thread : futex'[t] # None => futex'[t].ts <= clock'
      /\ \A w \in waits' : w.in \in Ts /\ w.in <= clock'
  BY <1>0, ScheduleTypes
<1>2. CASE UNCHANGED corrVars /\ ~complete'
  <2>1. clock <= clock'
    BY <1>1, TsNat
  <2> QED BY <1>1, <1>2, <2>1, UndeliveredInv
<1>3. CASE /\ {prev, next} \cap SelfThread = {}
           /\ handle_switch(ts, prev, ps, next) /\ complete' = complete
  <2>1. /\ \A t \in Thread : off_cpu'[t] # None => off_cpu'[t].switch_out_ns <= clock'
        /\ SelfUnknown' /\ EveryEdgeHasItsWakeup'
    BY <1>1, <1>3, SwitchEvidence
  <2>2. RecordedInThePast'
    BY <1>1, <2>1 DEF RecordedInThePast
  <2>3. NoIo'
    BY <1>0, <1>1, <1>3, SwitchStep
  <2>4. ASSUME complete', exact' PROVE Truth'
    <3>1. Truth
      BY <1>3, <2>4 DEF TraceInv, Schedule
    <3> QED BY <1>3, <2>4, <3>1, SwitchTruth
  <2> QED BY <1>1, <2>1, <2>2, <2>3, <2>4 DEF TraceInv
<1> QED BY <1>2, <1>3, Zenon DEF Schedule, Missed, Skipped

\* A step that changes neither the tables of the waits nor the kernel's truth
LEMMA QuietInv ==
  ASSUME TraceInv, CorrInv', LeftInv', KernelTypeOK', \A e \in SchedEdges' : e \in SchedEdges,
         UNCHANGED <<off_cpu, pending_futex, seen, clock, wait, waits, wakes, complete,
                     exact>>,
         \A t \in Thread : futex'[t] # None => futex'[t] = futex[t],
         SameWaits, SameIo
  PROVE  TraceInv'
<1>1. RecordedInThePast' /\ SelfUnknown' /\ NoIo'
  BY DEF TraceInv, RecordedInThePast, SelfUnknown, NoIo, SameIo
<1>2. EveryEdgeHasItsWakeup'
  BY DEF TraceInv, EveryEdgeHasItsWakeup
<1>3. ASSUME complete', exact' PROVE Truth'
  <2>1. Truth
    BY <1>3 DEF TraceInv
  <2>2. FutexMirrored' /\ \A t \in Thread : WaitMirrored(t)'
    BY <2>1 DEF Truth, FutexMirrored, WaitMirrored
  <2>3. \A e \in SchedEdges' : Happened(e, waits')
    BY <2>1 DEF Truth
  <2>4. WaitsCounted'
    BY <2>1 DEF Truth, WaitsCounted, SameWaits
  <2> QED BY <2>2, <2>3, <2>4 DEF Truth
<1> QED BY <1>1, <1>2, <1>3 DEF TraceInv

\* set_current_state and the return of a futex call are seen by no probe.
LEMMA UnseenInv ==
  ASSUME TraceInv, CorrInv', LeftInv', NEW c \in Cpu,
         \/ \E s \in SleepState \cup {TASK_RUNNING} : SetCurrentState(c, s)
         \/ FutexReturns(c)
  PROVE  TraceInv'
<1>1. /\ UNCHANGED <<off_cpu, pending_futex, pending_edges, edges, seen, stats>>
      /\ UNCHANGED <<clock, cur, wait, waits, wakes, complete, exact>>
  BY DEF SetCurrentState, FutexReturns, corrVars, tables
<1>2. KernelTypeOK /\ cur[c] \in Tid
  BY PrevStateType DEF TraceInv
<1>3. /\ state' \in [Thread -> Nat]
      /\ futex' \in [Thread -> FutexCall \cup {None}]
      /\ \A t \in Thread : futex'[t] # None => futex'[t] = futex[t]
  <2>1. CASE FutexReturns(c)
    BY <1>2, <2>1 DEF FutexReturns, KernelTypeOK
  <2>2. ASSUME NEW s \in SleepState \cup {TASK_RUNNING}, SetCurrentState(c, s)
        PROVE  /\ state' \in [Thread -> Nat]
               /\ futex' \in [Thread -> FutexCall \cup {None}]
               /\ \A t \in Thread : futex'[t] # None => futex'[t] = futex[t]
    <3>1. s \in Nat
      BY SchedTraceAssumption
    <3> QED BY <1>2, <2>2, <3>1 DEF SetCurrentState, KernelTypeOK
  <2> QED BY <2>1, <2>2
<1>4. KernelTypeOK'
  BY <1>1, <1>2, <1>3 DEF KernelTypeOK
<1>5. SchedEdges' = SchedEdges /\ SameWaits /\ SameIo
  BY <1>1 DEF SchedEdges, SameWaits, SameIo
<1> QED BY <1>1, <1>3, <1>4, <1>5, QuietInv

\* The end of the stream: the deferred edges are committed.
LEMMA FinishInv ==
  ASSUME TraceInv, CorrInv', LeftInv', UNCHANGED kernelVars,
         EndOfEvents \/ DrainPendingEdge \/ Return \/ UNCHANGED corrVars
  PROVE  TraceInv'
<1>1. /\ UNCHANGED <<clock, cur, state, futex, wait, waits, wakes, complete, exact>>
      /\ KernelTypeOK'
  BY DEF kernelVars, TraceInv, KernelTypeOK
<1>2. /\ DataOK /\ stats \in [Counter -> Nat] /\ edges \in Seq(Edge)
      /\ pending_edges \in [Tid -> PendingEdge \cup {None}]
  BY DEF TraceInv, CorrInv, CoreInv, DataOK
<1>3. CASE UNCHANGED <<tables, edges, seen>> /\ SameWaits /\ SameIo
  <2>1. SchedEdges' = SchedEdges
    BY <1>3 DEF SchedEdges, tables
  <2> QED BY <1>1, <1>3, <2>1, QuietInv DEF tables
<1>4. CASE EndOfEvents \/ UNCHANGED corrVars
  BY <1>3, <1>4 DEF EndOfEvents, corrVars, SameWaits, SameIo
<1>5. CASE Return
  <2>1. SameWaits /\ SameIo
    BY <1>2, <1>5 DEF Return, SameWaits, SameIo, Counter
  <2> QED BY <1>3, <1>5, <2>1 DEF Return
<1>6. CASE DrainPendingEdge
  <2>1. PICK tid \in Keys(pending_edges) :
          /\ edges' = Append(edges, add_edge_from_pending(pending_edges[tid]))
          /\ pending_edges' = [pending_edges EXCEPT ![tid] = None]
          /\ stats' = Counted([edges_created |-> 1])
          /\ UNCHANGED <<off_cpu, pending_futex, pending_io, last_ts, phase, seen>>
    BY <1>6 DEF DrainPendingEdge
  <2>2. SameWaits /\ SameIo
    BY <1>2, <2>1, CountCommit
  <2>3. \A i \in DOMAIN edges' : edges'[i] \in SchedEdges
    BY <1>2, <2>1, CommitAddsNothing
  <2>4. \A t \in Keys(pending_edges') :
          t \in Keys(pending_edges) /\ pending_edges'[t] = pending_edges[t]
    BY <1>2, <2>1 DEF Keys
  <2>5. \A t \in Keys(pending_edges') :
          add_edge_from_pending(pending_edges'[t]) \in SchedEdges
    BY <2>4, Zenon DEF SchedEdges
  <2>6. \A e \in SchedEdges' : e \in SchedEdges
    BY <2>3, <2>5, Zenon DEF SchedEdges
  <2> QED BY <1>1, <2>1, <2>2, <2>6, QuietInv
<1> QED BY <1>4, <1>5, <1>6

\* try_to_wake_up, whatever the probe makes of it.
LEMMA WakeTypes ==
  ASSUME KernelTypeOK, RecordedInThePast, NEW c \in Cpu, NEW t \in Thread, NEW ts \in Ts,
         TryToWakeUp(c, t, ts)
  PROVE  /\ cur[c] \in Tid /\ KernelTypeOK'
         /\ clock \in Nat /\ ts \in Nat /\ clock' = ts /\ clock < ts
         /\ wakes' = wakes \cup {[wakee |-> t, waker |-> cur[c], ts |-> ts]}
         /\ UNCHANGED <<futex, waits, exact>>
         /\ \A u \in Thread : futex[u] # None => futex[u].ts <= ts
         /\ \A w \in waits : w.in \in Ts /\ w.in <= ts
         /\ \A u \in Thread : u # t => wait'[u] = wait[u]
         /\ wait'[t] = IF wait[t] # None /\ cur[c] # Idle
                       THEN [wait[t] EXCEPT !.waker = cur[c]] ELSE wait[t]
<1> DEFINE source == cur[c]
           woken == [wait[t] EXCEPT !.waker = source]
           wake == [wakee |-> t, waker |-> source, ts |-> ts]
<1>1. source \in Tid
  BY PrevStateType
<1>2. /\ clock \in Nat /\ ts \in Nat /\ clock' = ts /\ clock < ts
      /\ wakes' = wakes \cup {wake}
      /\ UNCHANGED <<cur, futex, waits, exact>>
      /\ state' = [state EXCEPT ![t] = TASK_RUNNING]
  BY TsNat DEF TryToWakeUp, KernelTypeOK
<1>3. wait' = IF wait[t] # None /\ source # Idle
              THEN [wait EXCEPT ![t] = woken] ELSE wait
  BY DEF TryToWakeUp
<1>4. wait[t] # None /\ source # Idle => woken \in KernelWait
  BY <1>1 DEF KernelTypeOK, KernelWait, Tid
<1> HIDE DEF woken
<1>5. /\ wait' \in [Thread -> KernelWait \cup {None}]
      /\ \A u \in Thread : u # t => wait'[u] = wait[u]
      /\ wait'[t] = IF wait[t] # None /\ source # Idle THEN woken ELSE wait[t]
  BY <1>3, <1>4 DEF KernelTypeOK
<1>6. \A w \in wakes' : w.ts \in Nat
  <2>1. wake.ts = ts
    OBVIOUS
  <2> QED BY <1>2, <2>1 DEF KernelTypeOK
<1>7. complete' \in BOOLEAN
  BY Zenon DEF TryToWakeUp, Missed, KernelTypeOK
<1>8. KernelTypeOK'
  BY <1>2, <1>5, <1>6, <1>7 DEF KernelTypeOK
<1>9. ASSUME NEW u \in Thread, futex[u] # None PROVE futex[u].ts <= ts
  <2>1. futex[u].ts \in Nat /\ futex[u].ts <= clock
    BY <1>9, TsNat DEF KernelTypeOK, FutexCall, RecordedInThePast
  <2> QED BY <1>2, <2>1
<1>10. ASSUME NEW w \in waits PROVE w.in \in Ts /\ w.in <= ts
  <2>1. w.in \in Ts /\ w.in \in Nat /\ w.in <= clock
    BY TsNat DEF RecordedInThePast
  <2> QED BY <1>2, <2>1
<1> QED BY <1>1, <1>2, <1>5, <1>8, <1>9, <1>10 DEF woken

\* try_to_wake_up and its probe: the last waker of a wait is the same in the
\* table as in the kernel, and woke the thread after its wait began.
LEMMA WakeInv ==
  ASSUME TraceInv, CorrInv', LeftInv', NEW c \in Cpu, NEW t \in Thread, NEW ts \in Ts,
         TryToWakeUp(c, t, ts)
  PROVE  TraceInv'
<1> DEFINE source == cur[c]
           wake == [wakee |-> t, waker |-> source, ts |-> ts]
<1>0. /\ KernelTypeOK /\ RecordedInThePast /\ DataOK /\ SelfUnknown /\ NoIo
      /\ EveryEdgeHasItsWakeup /\ stats \in [Counter -> Nat]
      /\ off_cpu \in [Tid -> OffCpuRecord \cup {None}] /\ Thread \subseteq Tid
  BY DEF TraceInv, CorrInv, CoreInv, DataOK, Tid
<1>1. /\ source \in Tid /\ KernelTypeOK'
      /\ clock \in Nat /\ ts \in Nat /\ clock' = ts /\ clock < ts
      /\ wakes' = wakes \cup {wake}
      /\ UNCHANGED <<futex, waits, exact>>
      /\ \A u \in Thread : futex[u] # None => futex[u].ts <= ts
      /\ \A w \in waits : w.in \in Ts /\ w.in <= ts
      /\ \A u \in Thread : u # t => wait'[u] = wait[u]
      /\ wait'[t] = IF wait[t] # None /\ source # Idle
                    THEN [wait[t] EXCEPT !.waker = source] ELSE wait[t]
  BY <1>0, WakeTypes
<1>2. CASE UNCHANGED corrVars /\ ~complete'
  <2>1. clock <= clock' /\ wakes \subseteq wakes'
    BY <1>1
  <2> QED BY <1>1, <1>2, <2>1, UndeliveredInv
<1>3. CASE /\ {source, t} \cap SelfThread = {}
           /\ handle_wakeup(t, source) /\ complete' = complete
  <2> DEFINE hit == source # Idle /\ off_cpu[t] # None
             rec == [off_cpu[t] EXCEPT !.waker_tid = source]
  <2>1. /\ off_cpu' = IF hit THEN [off_cpu EXCEPT ![t] = rec] ELSE off_cpu
        /\ UNCHANGED <<pending_futex, pending_edges, edges, seen>>
    BY <1>3 DEF handle_wakeup
  <2>2. SameWaits /\ SameIo
    <3>1. PICK b \in Nat : stats' = Counted([events_processed |-> 1,
                                             unmatched_wakeup_count |-> b])
      BY <1>3 DEF handle_wakeup, Bump
    <3> QED BY <1>0, <3>1, CountOther
  <2>3. SchedEdges' = SchedEdges
    BY <2>1 DEF SchedEdges
  <2>4. hit => /\ rec.waker_tid = source /\ rec.switch_out_ns = off_cpu[t].switch_out_ns
               /\ rec.wait_type = off_cpu[t].wait_type /\ rec \in OffCpuRecord
    BY <1>0, <1>1 DEF OffCpuRecord, Tid
  <2>5. wake.wakee = t /\ wake.waker = source /\ wake.ts = ts
    OBVIOUS
  <2> HIDE DEF rec, wake
  <2>6. /\ \A u \in Thread : u # t => off_cpu'[u] = off_cpu[u]
        /\ off_cpu'[t] = IF hit THEN rec ELSE off_cpu[t]
    BY <1>0, <2>1
  <2>7. ASSUME NEW u \in Thread, off_cpu'[u] # None
        PROVE  /\ off_cpu[u] # None
               /\ off_cpu'[u].switch_out_ns = off_cpu[u].switch_out_ns
               /\ off_cpu[u].switch_out_ns <= ts
    <3>1. /\ off_cpu[u] # None
          /\ off_cpu'[u].switch_out_ns = off_cpu[u].switch_out_ns
      BY <2>4, <2>6, <2>7
    <3>2. off_cpu[u].switch_out_ns \in Nat /\ off_cpu[u].switch_out_ns <= clock
      BY <1>0, <3>1, WaitTypes, TsNat DEF RecordedInThePast
    <3> QED BY <1>1, <3>1, <3>2
  <2>8. RecordedInThePast'
    BY <1>1, <2>7 DEF RecordedInThePast
  <2>9. SelfUnknown' /\ NoIo'
    BY <1>0, <1>3, <2>1, <2>2, <2>4, <2>6 DEF SelfUnknown, NoIo, SameIo
  <2>10. EveryEdgeHasItsWakeup'
    <3>1. ASSUME NEW u \in Thread, off_cpu'[u] # None, off_cpu'[u].waker_tid # None
          PROVE  \E w \in wakes' : /\ w.wakee = u /\ w.waker = off_cpu'[u].waker_tid
                                   /\ off_cpu'[u].switch_out_ns <= w.ts
      <4>1. CASE u = t /\ hit
        BY <1>1, <2>4, <2>5, <2>6, <2>7, <3>1, <4>1
      <4>2. CASE ~(u = t /\ hit)
        <5>1. off_cpu'[u] = off_cpu[u]
          BY <2>6, <4>2
        <5> QED BY <1>0, <1>1, <3>1, <5>1 DEF EveryEdgeHasItsWakeup
      <4> QED BY <4>1, <4>2
    <3>2. ASSUME NEW e \in SchedEdges'
          PROVE  /\ {e.src, e.dst} \cap SelfThread = {}
                 /\ \E w \in wakes' : /\ w.wakee = e.src /\ w.waker = e.dst
                                      /\ e.window.start_ms <= w.ts \div NsPerMs
      BY <1>0, <1>1, <2>3 DEF EveryEdgeHasItsWakeup
    <3> QED BY <3>1, <3>2 DEF EveryEdgeHasItsWakeup
  <2>11. ASSUME complete', exact' PROVE Truth'
    <3>1. Truth
      BY <1>1, <1>3, <2>11 DEF TraceInv
    <3>2. FutexMirrored'
      BY <1>1, <2>1, <3>1 DEF Truth, FutexMirrored
    <3>3. ASSUME NEW u \in Thread PROVE WaitMirrored(u)'
      <4>1. WaitMirrored(u)
        BY <3>1 DEF Truth
      <4>2. CASE u # t
        BY <1>1, <2>6, <4>1, <4>2 DEF WaitMirrored
      <4>3. CASE u = t /\ ~hit
        <5>1. off_cpu'[t] = off_cpu[t] /\ wait'[t] = wait[t]
          BY <1>1, <2>6, <4>1, <4>3 DEF WaitMirrored
        <5> QED BY <4>1, <4>3, <5>1 DEF WaitMirrored
      <4>4. CASE u = t /\ hit
        <5>1. wait[t] # None /\ wait[t] \in KernelWait
          BY <1>0, <4>1, <4>4 DEF WaitMirrored, KernelTypeOK
        <5> DEFINE v == [wait[t] EXCEPT !.waker = source]
        <5>2. v.waker = source /\ v.since = wait[t].since /\ v.cause = wait[t].cause
          BY <5>1 DEF KernelWait
        <5>3. v \in KernelWait
          BY <1>1, <4>4, <5>1 DEF KernelWait, Tid
        <5>4. wait'[t] = v /\ off_cpu'[t] = rec
          BY <1>1, <2>6, <4>4, <5>1
        <5> HIDE DEF v
        <5>5. wait'[t] # None /\ off_cpu'[t] # None
          BY <2>4, <4>4, <5>3, <5>4, SchedTraceAssumption, NoneAssumption
        <5> QED BY <2>4, <4>1, <4>4, <5>1, <5>2, <5>4, <5>5 DEF WaitMirrored
      <4> QED BY <4>2, <4>3, <4>4
    <3>4. \A e \in SchedEdges' : Happened(e, waits')
      BY <1>1, <2>3, <3>1 DEF Truth
    <3>5. WaitsCounted'
      BY <1>1, <2>1, <2>2, <3>1 DEF Truth, WaitsCounted, SameWaits
    <3> QED BY <3>2, <3>3, <3>4, <3>5 DEF Truth
  <2> QED BY <1>1, <2>8, <2>9, <2>10, <2>11 DEF TraceInv
<1> QED BY <1>2, <1>3, Zenon DEF TryToWakeUp, Missed, Skipped

\* A thread enters a futex call, and the probe records it.
LEMMA FutexInv ==
  ASSUME TraceInv, CorrInv', LeftInv', NEW c \in Cpu, NEW op \in FutexOp, NEW ts \in Ts,
         handle_sys_enter_futex(c, op, ts)
  PROVE  TraceInv'
<1> DEFINE t == cur[c]
           call == [op |-> op, ts |-> ts]
<1>0. /\ KernelTypeOK /\ RecordedInThePast /\ DataOK /\ SelfUnknown /\ NoIo
      /\ EveryEdgeHasItsWakeup /\ stats \in [Counter -> Nat]
      /\ pending_futex \in [Tid -> PendingFutex \cup {None}] /\ Thread \subseteq Tid
  BY DEF TraceInv, CorrInv, CoreInv, DataOK, Tid
<1>1. /\ t \in Thread /\ clock \in Nat /\ ts \in Nat /\ clock < ts /\ clock' = ts
      /\ futex' = [futex EXCEPT ![t] = call]
      /\ UNCHANGED <<cur, state, wait, waits, wakes, exact>>
  <2>1. t \in Tid
    BY <1>0, PrevStateType
  <2> QED BY <1>0, <2>1, TsNat DEF handle_sys_enter_futex, KernelTypeOK, Tid
<1>2. call \in FutexCall /\ call.ts = ts /\ call.op = op
  BY DEF FutexCall
<1> HIDE DEF call, t
<1>3. /\ futex' \in [Thread -> FutexCall \cup {None}] /\ futex'[t] = call
      /\ \A u \in Thread : u # t => futex'[u] = futex[u]
  BY <1>0, <1>1, <1>2 DEF KernelTypeOK
<1>4. complete' \in BOOLEAN
  BY <1>0, Zenon DEF handle_sys_enter_futex, Missed, KernelTypeOK
<1>5. KernelTypeOK'
  BY <1>0, <1>1, <1>3, <1>4 DEF KernelTypeOK
<1>6. ASSUME NEW u \in Thread, futex'[u] # None PROVE futex'[u].ts <= clock'
  <2>1. CASE u = t
    BY <1>1, <1>2, <1>3, <2>1
  <2>2. CASE u # t
    <3>1. futex'[u] = futex[u] /\ futex[u].ts \in Nat /\ futex[u].ts <= clock
      BY <1>0, <1>3, <1>6, <2>2, TsNat DEF KernelTypeOK, FutexCall, RecordedInThePast
    <3> QED BY <1>1, <3>1
  <2> QED BY <2>1, <2>2
<1>7. ASSUME NEW w \in waits' PROVE w.in \in Ts /\ w.in <= clock'
  <2>1. w.in \in Ts /\ w.in \in Nat /\ w.in <= clock
    BY <1>0, <1>1, TsNat DEF RecordedInThePast
  <2> QED BY <1>1, <2>1
<1>8. CASE UNCHANGED corrVars /\ ~complete'
  <2>1. clock <= clock' /\ wakes \subseteq wakes'
    BY <1>1
  <2> QED BY <1>5, <1>6, <1>7, <1>8, <2>1, UndeliveredInv
<1>9. CASE handle_futex_wait(ts, t, op) /\ complete' = complete
  <2> DEFINE pf == [timestamp_ns |-> ts, wait_type |-> futex_op_to_wait_type(op)]
  <2>1. /\ pending_futex' = [pending_futex EXCEPT ![t] = pf]
        /\ UNCHANGED <<off_cpu, pending_edges, edges, seen>>
    BY <1>9 DEF handle_futex_wait
  <2>2. SameWaits /\ SameIo
    BY <1>0, <1>9, CountOther DEF handle_futex_wait
  <2>3. SchedEdges' = SchedEdges
    BY <2>1 DEF SchedEdges
  <2>4. /\ pf \in PendingFutex /\ pf.timestamp_ns = ts
        /\ pf.wait_type = futex_op_to_wait_type(op)
    BY FutexType DEF PendingFutex
  <2> HIDE DEF pf
  <2>5. /\ pending_futex'[t] = pf /\ pf # None
        /\ \A u \in Thread : u # t => pending_futex'[u] = pending_futex[u]
    BY <1>0, <1>1, <2>1, <2>4, NoneAssumption
  <2>6. RecordedInThePast'
    <3>1. ASSUME NEW u \in Thread, off_cpu'[u] # None
          PROVE  off_cpu'[u].switch_out_ns <= clock'
      <4>1. off_cpu[u].switch_out_ns \in Nat /\ off_cpu[u].switch_out_ns <= clock
        BY <1>0, <2>1, <3>1, WaitTypes, TsNat DEF RecordedInThePast
      <4> QED BY <1>1, <2>1, <4>1
    <3> QED BY <1>6, <1>7, <3>1 DEF RecordedInThePast
  <2>7. SelfUnknown' /\ NoIo'
    BY <1>0, <2>1, <2>2 DEF SelfUnknown, NoIo, SameIo
  <2>8. EveryEdgeHasItsWakeup'
    BY <1>0, <1>1, <2>1, <2>3 DEF EveryEdgeHasItsWakeup
  <2>9. ASSUME complete', exact' PROVE Truth'
    <3>1. Truth
      BY <1>1, <1>9, <2>9 DEF TraceInv
    <3>2. FutexMirrored'
      BY <1>2, <1>3, <2>4, <2>5, <3>1 DEF Truth, FutexMirrored
    <3>3. \A u \in Thread : WaitMirrored(u)'
      BY <1>1, <2>1, <3>1 DEF Truth, WaitMirrored
    <3>4. \A e \in SchedEdges' : Happened(e, waits')
      BY <1>1, <2>3, <3>1 DEF Truth
    <3>5. WaitsCounted'
      BY <1>1, <2>1, <2>2, <3>1 DEF Truth, WaitsCounted, SameWaits
    <3> QED BY <3>2, <3>3, <3>4, <3>5 DEF Truth
  <2> QED BY <1>5, <2>6, <2>7, <2>8, <2>9 DEF TraceInv
<1> QED BY <1>8, <1>9, Zenon DEF handle_sys_enter_futex, Missed, t

\* Nothing is recorded before the probes are attached; waits may be going on then.
LEMMA InitTraceInv == TraceInit => TraceInv
<1> SUFFICES ASSUME TraceInit PROVE TraceInv
  OBVIOUS
<1>1. Init /\ CorrInv /\ LeftInv
  <2>1. Init /\ CorrInv
    BY InitCorrInv DEF TraceInit
  <2> QED BY <2>1 DEF Init, LeftInv, Counter
<1>2. KernelTypeOK
  <2>1. state \in [Thread -> Nat]
    <3>1. (CHOOSE s \in SleepState : TRUE) \in Nat
      BY SchedTraceAssumption
    <3> QED BY <3>1 DEF TraceInit
  <2>2. cur \in [Cpu -> Tid] /\ IsFiniteSet(waits) /\ 0 \in Ts
    BY FS_EmptySet, CorrelateAssumption DEF TraceInit, Ts
  <2> QED BY <2>1, <2>2 DEF TraceInit, KernelTypeOK
<1>3. /\ \A t \in Thread : off_cpu[t] = None /\ pending_futex[t] = None
      /\ edges = << >> /\ Keys(pending_edges) = {} /\ Thread \subseteq Tid
      /\ seen.switch_in = 0 /\ seen.io_complete = 0
      /\ \A k \in Counter : stats[k] = 0
  BY <1>1 DEF Init, Tid, Keys
<1>4. /\ stats.unmatched_switch_in_count = 0 /\ stats.switch_in_without_waker_count = 0
      /\ stats.io_orphan_complete_count = 0
  BY <1>3 DEF Counter
<1>5. /\ \A t \in Thread : futex[t] = None /\ wait[t] = None
      /\ waits = {} /\ SchedEdges = {}
  BY <1>3 DEF TraceInit, SchedEdges
<1>6. RecordedInThePast /\ SelfUnknown /\ NoIo /\ EveryEdgeHasItsWakeup
  BY <1>3, <1>4, <1>5 DEF RecordedInThePast, SelfUnknown, NoIo, EveryEdgeHasItsWakeup
<1>7. Cardinality(waits) = 0
  BY <1>5, FS_EmptySet
<1>8. Truth
  BY <1>3, <1>4, <1>5, <1>7 DEF Truth, FutexMirrored, WaitMirrored, WaitsCounted
<1> QED BY <1>1, <1>2, <1>6, <1>8 DEF TraceInv

\* Every step of the kernel, the probes and the correlator
LEMMA NextTraceInv == TraceInv /\ [TraceNext]_vars => TraceInv'
<1> SUFFICES ASSUME TraceInv, [TraceNext]_vars PROVE TraceInv'
  OBVIOUS
<1>1. [Next]_corrVars
  BY TraceSteps DEF TraceInv, vars
<1>2. CorrInv' /\ LeftInv'
  BY <1>1, NextCorrInv, NextLeft DEF TraceInv
<1>3. ASSUME NEW c \in Cpu, NEW next \in Tid, NEW preempt \in BOOLEAN, NEW ts \in Ts,
             Schedule(c, next, preempt, ts)
      PROVE  TraceInv'
  BY <1>2, <1>3, ScheduleInv
<1>4. ASSUME NEW c \in Cpu, NEW t \in Thread, NEW ts \in Ts, TryToWakeUp(c, t, ts)
      PROVE  TraceInv'
  BY <1>2, <1>4, WakeInv
<1>5. ASSUME NEW c \in Cpu, NEW op \in FutexOp, NEW ts \in Ts,
             handle_sys_enter_futex(c, op, ts)
      PROVE  TraceInv'
  BY <1>2, <1>5, FutexInv
<1>6. ASSUME NEW c \in Cpu,
             \/ \E s \in SleepState \cup {TASK_RUNNING} : SetCurrentState(c, s)
             \/ FutexReturns(c)
      PROVE  TraceInv'
  BY <1>2, <1>6, UnseenInv
<1>7. CASE Finish \/ UNCHANGED vars
  BY <1>2, <1>7, FinishInv DEF Finish, vars
<1> QED BY <1>3, <1>4, <1>5, <1>6, <1>7 DEF TraceNext

\* The inductive invariant holds in every state.
THEOREM SchedTraceInvariant == TraceSpec => []TraceInv
BY InitTraceInv, NextTraceInv, PTL DEF TraceSpec

\* What the probes deliver is one of the streams of Correlate: correlate_events
\* does on it what is proved there for every stream.
THEOREM TraceIsAStream == TraceSpec => Spec
<1>1. TraceInit => Init
  BY DEF TraceInit
<1>2. TraceInv /\ [TraceNext]_vars => [Next]_corrVars
  BY TraceSteps DEF TraceInv, vars
<1> QED BY <1>1, <1>2, SchedTraceInvariant, PTL DEF TraceSpec, Spec

\* While no event is missing and every event is exact, the off-CPU table holds
\* the waits that go on, with their start, their waker and the futex call.
THEOREM TableIsTheKernels == TraceSpec => []TableMirrorsKernel
<1>1. TraceInv => TableMirrorsKernel
  BY DEF TraceInv, Truth, WaitMirrored, TableMirrorsKernel
<1> QED BY <1>1, SchedTraceInvariant, PTL

\* Whatever was lost, an edge of the graph names a thread that woke the waiter
\* during that wait, and never a thread of wperf.
THEOREM EdgesHaveTheirWakeups == TraceSpec => []EveryEdgeHasItsWakeup
<1>1. TraceInv => EveryEdgeHasItsWakeup
  BY DEF TraceInv
<1> QED BY <1>1, SchedTraceInvariant, PTL

\* While no event is missing and every event is exact, each edge is a wait that
\* happened, and each wait is an edge, deferred or counted as filtered.
THEOREM EdgesAreWaits == TraceSpec => []EdgesAreTheWaits
<1>1. TraceInv => EdgesAreTheWaits
  <2> SUFFICES ASSUME TraceInv, complete, exact
               PROVE  /\ \A e \in SchedEdges : Happened(e, waits)
                      /\ Cardinality(waits) =
                           Len(edges) + Cardinality(Keys(pending_edges))
                             + stats.false_wakeup_filtered_count
    BY DEF EdgesAreTheWaits, Happened
  <2>1. /\ Truth /\ DataOK /\ NoIo /\ WaitConservation
        /\ Len(edges) = stats.edges_created
    BY DEF TraceInv, CorrInv, CoreInv, LeftInv
  <2>2. /\ seen.switch_in \in Nat /\ stats.unmatched_switch_in_count \in Nat
        /\ stats.switch_in_without_waker_count \in Nat
        /\ stats.false_wakeup_filtered_count \in Nat /\ stats.edges_created \in Nat
        /\ Cardinality(Keys(pending_edges)) \in Nat /\ Cardinality(waits) \in Nat
    BY <2>1, LawTypes, PendingSizes, FS_CardinalityType DEF TraceInv, KernelTypeOK
  <2>3. IoPairs = 0
    BY <2>1 DEF NoIo, IoPairs
  <2>4. seen.switch_in = stats.unmatched_switch_in_count
          + stats.switch_in_without_waker_count + Cardinality(waits)
    BY <2>1 DEF Truth, WaitsCounted
  <2>5. seen.switch_in = stats.unmatched_switch_in_count
          + stats.switch_in_without_waker_count + stats.false_wakeup_filtered_count
          + Cardinality(Keys(pending_edges)) + stats.edges_created
    BY <2>1, <2>2, <2>3 DEF WaitConservation
  <2>6. Cardinality(waits) = stats.edges_created + Cardinality(Keys(pending_edges))
                               + stats.false_wakeup_filtered_count
    <3> DEFINE n == seen.switch_in
               a == stats.unmatched_switch_in_count
               b == stats.switch_in_without_waker_count
               f == stats.false_wakeup_filtered_count
               p == Cardinality(Keys(pending_edges))
               e == stats.edges_created
               k == Cardinality(waits)
    <3>1. /\ a \in Nat /\ b \in Nat /\ f \in Nat /\ p \in Nat /\ e \in Nat /\ k \in Nat
          /\ n = a + b + k /\ n = a + b + f + p + e
      BY <2>2, <2>4, <2>5
    <3> HIDE DEF n, a, b, f, p, e, k
    <3>2. k = e + p + f
      BY <3>1
    <3> QED BY <3>2 DEF n, a, b, f, p, e, k
  <2> QED BY <2>1, <2>6 DEF Truth
<1> QED BY <1>1, SchedTraceInvariant, PTL
=============================================================================
