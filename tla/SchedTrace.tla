----------------------------- MODULE SchedTrace -----------------------------
(***************************************************************************)
(* Correlate fed by a kernel.  The scheduler is external code, modelled    *)
(* from what the sched_switch, sched_wakeup and futex probes of            *)
(* src/bpf/wperf.bpf.c read of it; the probes and the correlator are the   *)
(* program.  Here the events are no arbitrary stream: they are what the    *)
(* probes make of what the threads really do, minus the events that are    *)
(* lost (reserve_buf failed) or skipped (wperf itself takes part).         *)
(*                                                                         *)
(* Ground truth is kept beside the correlator's tables, so a wait in the   *)
(* graph can be compared with the wait that happened.  Timestamps of two   *)
(* events differ.                                                          *)
(***************************************************************************)
EXTENDS Correlate

CONSTANTS
  Cpu,
  SelfThread,  \* the threads of wperf itself (tgid = self_tgid)
  SleepState,  \* values of task_struct.__state other than TASK_RUNNING
  MaxLost      \* bound: events lost to a full buffer

\* A wait as it happens, and the futex call a thread is in
KernelWait ==
  [since : Ts, waker : Thread \cup {None}, cause : WaitType \cup {None}]
FutexCall  == [op : FutexOp, ts : Ts]

ASSUME SchedTraceAssumption ==
  /\ SelfThread \subseteq Thread
  /\ SleepState \subseteq Nat \ {TASK_RUNNING} /\ SleepState # {}
  /\ MaxLost \in Nat
  /\ None \notin KernelWait \cup FutexCall

VARIABLES
  clock,     \* bpf_ktime_get_ns of the last event
  cur,       \* the task on each CPU
  state,     \* task_struct.__state
  on_rq,     \* is the thread on a run queue (running or runnable)?
  futex,     \* the futex call a thread is in and has not slept in yet
  wait,      \* truth: the wait a thread is in, since it was dequeued
  waits,     \* truth: the waits that ended, with the thread that ended them
  wakes,     \* truth: every wakeup, as [wakee, waker, ts]
  lost,      \* number of events reserve_buf failed for
  complete,  \* no event was lost or skipped so far
  exact      \* every event so far said what the scheduler did

kernelVars == <<clock, cur, state, on_rq, futex, wait, waits, wakes, lost, complete,
                exact>>
vars == <<corrVars, kernelVars>>
-----------------------------------------------------------------------------
TraceInit ==
  /\ Init
  /\ clock = 0
  /\ cur \in {f \in [Cpu -> Tid] :
                \A c, d \in Cpu : c = d \/ f[c] # f[d] \/ f[c] = Idle}
  /\ on_rq \in {f \in [Thread -> BOOLEAN] :
                  \A c \in Cpu : cur[c] = Idle \/ f[cur[c]]}
  /\ state = [t \in Thread |->
                IF on_rq[t] THEN TASK_RUNNING ELSE CHOOSE s \in SleepState : TRUE]
  /\ futex = [t \in Thread |-> None]
  /\ wait = [t \in Thread |-> None]   \* waits that began before attach
  /\ waits = {} /\ wakes = {}
  /\ lost = 0 /\ complete = TRUE /\ exact = TRUE

Runnable(t) == on_rq[t] /\ \A c \in Cpu : cur[c] # t

\* e->prev_state = (__u8)get_task_state(prev)
PrevState(task) == IF task = Idle THEN TASK_RUNNING ELSE state[task] % 256

\* The probes skip every event in which wperf takes part.
Skipped(a, b) == {a, b} \cap SelfThread # {}

\* No event reaches the file, because it is skipped or because it is lost.
Missed(skipped) ==
  /\ lost' = IF skipped THEN lost ELSE lost + 1
  /\ lost' <= MaxLost
  /\ complete' = FALSE
  /\ UNCHANGED corrVars

\* The futex call in which a thread goes to sleep, if it entered it recently
\* enough for the correlator to connect the two
Cause(t, ts) ==
  IF futex[t] # None /\ ts - futex[t].ts <= FUTEX_CORRELATION_WINDOW_NS
  THEN futex_op_to_wait_type(futex[t].op) ELSE None

\* __schedule on CPU c: prev stays queued when it is preempted, or when its
\* state is TASK_RUNNING, and leaves the run queue otherwise.
Schedule(c, next, preempt, ts) ==
  LET prev    == cur[c]
      sleeps  == prev # Idle /\ ~preempt /\ state[prev] # TASK_RUNNING
      ended   == next # Idle /\ wait[next] # None /\ wait[next].waker # None
      skipped == Skipped(prev, next)
  IN  /\ next # prev
      /\ next # Idle => Runnable(next)
      /\ prev = Idle => ~preempt
      /\ clock < ts
      /\ clock' = ts
      /\ cur' = [cur EXCEPT ![c] = next]
      /\ on_rq' = [t \in Thread |-> on_rq[t] /\ ~(t = prev /\ sleeps)]
      /\ futex' = [t \in Thread |->
                     IF t = prev /\ sleeps THEN None ELSE futex[t]]
      /\ wait' = [t \in Thread |->
                    IF t = next THEN None
                    ELSE IF t = prev /\ sleeps
                         THEN [since |-> ts, waker |-> None,
                               cause |-> Cause(t, ts)]
                         ELSE wait[t]]
      /\ waits' = IF ended
                  THEN waits \cup {[src |-> next, dst |-> wait[next].waker,
                                    out |-> wait[next].since, in |-> ts,
                                    cause |-> wait[next].cause]}
                  ELSE waits
      /\ exact' = (exact /\ (sleeps <=> PrevState(prev) # TASK_RUNNING))
      /\ \/ /\ ~skipped
            /\ NextEvent(ts) /\ handle_switch(ts, prev, PrevState(prev), next)
            /\ UNCHANGED <<lost, complete>>
         \/ Missed(skipped)
      /\ UNCHANGED <<state, wakes>>

\* try_to_wake_up by the task on CPU c, or by an interrupt that hit it: only a
\* thread that is not TASK_RUNNING is woken, so a second wakeup is no event.
TryToWakeUp(c, t, ts) ==
  LET source  == cur[c]
      skipped == Skipped(source, t)
  IN  /\ state[t] # TASK_RUNNING
      /\ clock < ts
      /\ clock' = ts
      /\ state' = [state EXCEPT ![t] = TASK_RUNNING]
      /\ on_rq' = [on_rq EXCEPT ![t] = TRUE]
      /\ wait' = IF wait[t] # None /\ source # Idle
                 THEN [wait EXCEPT ![t].waker = source] ELSE wait
      /\ wakes' = wakes \cup {[wakee |-> t, waker |-> source, ts |-> ts]}
      /\ \/ /\ ~skipped
            /\ NextEvent(ts) /\ handle_wakeup(t, source)
            /\ UNCHANGED <<lost, complete>>
         \/ Missed(skipped)
      /\ UNCHANGED <<cur, futex, waits, exact>>

\* set_current_state: a running thread announces a sleep, or takes it back.
SetCurrentState(c, s) ==
  /\ cur[c] # Idle
  /\ state[cur[c]] # s
  /\ s # TASK_RUNNING => state[cur[c]] = TASK_RUNNING
  /\ state' = [state EXCEPT ![cur[c]] = s]
  /\ UNCHANGED <<corrVars, clock, cur, on_rq, futex, wait, waits, wakes, lost,
                 complete, exact>>

\* The futex operations that may wait; all others the probe leaves alone.
WaitOps ==
  {"FUTEX_WAIT", "FUTEX_WAIT_BITSET", "FUTEX_LOCK_PI", "FUTEX_WAIT_REQUEUE_PI"}

\* sys_enter_futex, and its probe; wperf's own calls are left alone as well.
handle_sys_enter_futex(c, op, ts) ==
  LET t == cur[c]
  IN  /\ t # Idle /\ t \notin SelfThread /\ op \in WaitOps
      /\ state[t] = TASK_RUNNING /\ futex[t] = None
      /\ clock < ts
      /\ clock' = ts
      /\ futex' = [futex EXCEPT ![t] = [op |-> op, ts |-> ts]]
      /\ \/ /\ NextEvent(ts) /\ handle_futex_wait(ts, t, op)
            /\ UNCHANGED <<lost, complete>>
         \/ Missed(FALSE)
      /\ UNCHANGED <<cur, state, on_rq, wait, waits, wakes, exact>>

\* The call returns, perhaps without having waited.  There is no probe for it.
FutexReturns(c) ==
  /\ cur[c] # Idle
  /\ futex[cur[c]] # None
  /\ state[cur[c]] = TASK_RUNNING
  /\ futex' = [futex EXCEPT ![cur[c]] = None]
  /\ UNCHANGED <<corrVars, clock, cur, state, on_rq, wait, waits, wakes, lost,
                 complete, exact>>

\* The capture ends and is analysed to its end.
Finish ==
  /\ EndOfEvents \/ DrainPendingEdge \/ Return
  /\ UNCHANGED kernelVars

TraceNext ==
  \/ /\ phase = "events"
     /\ \E c \in Cpu :
          \/ \E next \in Tid, preempt \in BOOLEAN, ts \in Ts :
               Schedule(c, next, preempt, ts)
          \/ \E t \in Thread, ts \in Ts : TryToWakeUp(c, t, ts)
          \/ \E s \in SleepState \cup {TASK_RUNNING} : SetCurrentState(c, s)
          \/ \E op \in FutexOp, ts \in Ts : handle_sys_enter_futex(c, op, ts)
          \/ FutexReturns(c)
  \/ Finish

TraceSpec == TraceInit /\ [][TraceNext]_vars
-----------------------------------------------------------------------------
(***************************************************************************)
(* Properties                                                              *)
(***************************************************************************)
\* As long as every event was delivered and every event was exact, the off-CPU
\* table is the truth: it holds exactly the threads in a wait, with the time
\* the wait began and the thread that ended it; and the first sleep in a futex
\* call has the type of that call, also after a preemption in between.
TableMirrorsKernel ==
  complete /\ exact =>
    \A t \in Thread :
      /\ off_cpu[t] = None <=> wait[t] = None
      /\ off_cpu[t] # None =>
           /\ off_cpu[t].switch_out_ns = wait[t].since
           /\ off_cpu[t].waker_tid = wait[t].waker
           /\ wait[t].cause \in {None, off_cpu[t].wait_type}

\* The scheduler edges known to the correlator: in the graph or deferred
SchedEdges ==
  {edges[i] : i \in DOMAIN edges}
    \cup {add_edge_from_pending(pending_edges[t]) : t \in Keys(pending_edges)}

\* ... and then the graph is the truth too: each edge is a wait that happened,
\* and each wait is an edge of the graph, deferred, or counted as filtered.
EdgesAreTheWaits ==
  complete /\ exact =>
    /\ \A e \in SchedEdges : \E w \in waits :
         /\ e.src = w.src /\ e.dst = w.dst
         /\ e.window = SchedWindow(w.out, w.in)
         /\ w.cause \in {None, e.wait_type}
    /\ Cardinality(waits) =
         Len(edges) + Cardinality(Keys(pending_edges))
           + stats.false_wakeup_filtered_count

\* Whatever was lost or skipped, an edge names a thread that really woke the
\* waiter, and not before the wait the edge records began: a waker recorded for
\* one wait is never charged with a later one.  wperf is at neither end, although
\* its threads sleep, wake others and are woken between the events of the others.
EveryEdgeHasItsWakeup ==
  /\ \A t \in Thread :
       off_cpu[t] # None /\ off_cpu[t].waker_tid # None =>
         \E w \in wakes :
           /\ w.wakee = t /\ w.waker = off_cpu[t].waker_tid
           /\ off_cpu[t].switch_out_ns <= w.ts
  /\ \A e \in SchedEdges :
       /\ {e.src, e.dst} \cap SelfThread = {}
       /\ \E w \in wakes :
            /\ w.wakee = e.src /\ w.waker = e.dst
            /\ e.window.start_ms <= w.ts \div NsPerMs

\* Documented: "prev_state == 0 means the thread was preempted (still
\* runnable)".  The probe keeps the low byte of __state only, and the states
\* 0x1000 (TASK_RTLOCK_WAIT) and 0x8000 (TASK_FROZEN) have none: such a thread
\* sleeps and is not in the table although no event is missing.
SleepersAreTracked ==
  complete => \A t \in Thread : wait[t] # None => off_cpu[t] # None
=============================================================================
