------------------------------ MODULE PerfArray ------------------------------
(***************************************************************************)
(* `wperf record` over per-CPU perf buffers: poll_perfarray of             *)
(* src/record.rs feeding the ReorderBuf and the writer.                    *)
(*                                                                         *)
(* The perf buffers are external: a record that does not fit is counted,   *)
(* and the count is put into the buffer as a LOST record in front of the   *)
(* next one that fits.  perf.poll() is external too: epoll names CPUs with *)
(* data, and their buffers are read one after the other, each as a whole,  *)
(* while the probes on every CPU go on.                                    *)
(***************************************************************************)
EXTENDS ReorderBuf, FiniteSets

CONSTANTS
  NumCpus,
  BufCap,  \* records a per-CPU buffer holds
  NoEvent

ASSUME PerfArrayAssumption ==
  NumCpus \in Nat /\ BufCap \in Nat \ {0} /\ NoEvent \notin Event

VARIABLES
  now,         \* bpf_ktime_get_ns
  stamped,     \* the event a CPU has stamped and not yet output, or NoEvent
  cpu_buf,     \* the per-CPU perf buffers
  kernel_lost, \* lost records of a CPU not yet put into its buffer
  happened,    \* history: number of events so far
  stop,        \* stop_requested, or the deadline has passed
  perf_pc,
  ready,       \* CPUs perf.poll() still has to read
  pending,     \* the Vec the sample callback fills
  lost_count,  \* sum of what lost_cb was told
  perf_write_err,
  discarded,   \* history: events the callback ignored after a write failed
  perf_footer

perfKernelVars == <<now, stamped, cpu_buf, kernel_lost, happened>>
pollVars   == <<perf_pc, ready, pending, lost_count, perf_footer>>
perfVars == <<reorderVars, perfKernelVars, pollVars, stop, perf_write_err,
              discarded>>
-----------------------------------------------------------------------------
Cpu == 1 .. NumCpus

\* A buffer holds samples, each for sample_cb, and LOST records, each for
\* lost_cb.  The two callbacks share nothing, so the order between the two
\* kinds is left out, and of the LOST records only their sum is kept.
EmptyBuffer == [samples |-> << >>, lost |-> 0, records |-> 0]

PerfInit ==
  /\ ReorderInit
  /\ now = 0
  /\ stamped = [c \in Cpu |-> NoEvent]
  /\ cpu_buf = [c \in Cpu |-> EmptyBuffer]
  /\ kernel_lost = [c \in Cpu |-> 0]
  /\ happened = 0
  /\ stop = FALSE
  /\ perf_pc = "check"
  /\ ready = {}
  /\ pending = << >>
  /\ lost_count = 0
  /\ perf_write_err = FALSE
  /\ discarded = 0
  /\ perf_footer = NoEvent

Tick ==
  /\ now < MaxTs
  /\ now' = now + 1
  /\ UNCHANGED <<reorderVars, stamped, cpu_buf, kernel_lost, happened,
                 pollVars, stop, perf_write_err, discarded>>

\* A probe stamps its event in the per-CPU heap entry (reserve_buf,
\* fill_timestamp_and_cpu) ...
Stamp(c) ==
  /\ stamped[c] = NoEvent
  /\ happened < MaxEvents
  /\ happened' = happened + 1
  /\ stamped' = [stamped EXCEPT ![c] = [ts |-> now, id |-> happened + 1]]
  /\ UNCHANGED <<reorderVars, now, cpu_buf, kernel_lost, pollVars, stop,
                 perf_write_err, discarded>>

\* ... and outputs it (submit_buf).
Output(c) ==
  LET lost    == kernel_lost[c]
      records == cpu_buf[c].records + (IF lost > 0 THEN 2 ELSE 1)
      fits    == records <= BufCap
      filled  == [samples |-> Append(cpu_buf[c].samples, stamped[c]),
                  lost    |-> cpu_buf[c].lost + lost,
                  records |-> records]
  IN  /\ stamped[c] # NoEvent
      /\ stamped' = [stamped EXCEPT ![c] = NoEvent]
      /\ cpu_buf' = IF fits THEN [cpu_buf EXCEPT ![c] = filled] ELSE cpu_buf
      /\ kernel_lost' = [kernel_lost EXCEPT ![c] = IF fits THEN 0 ELSE @ + 1]
      /\ UNCHANGED <<reorderVars, now, happened, pollVars, stop,
                     perf_write_err, discarded>>

Stop ==
  /\ ~stop
  /\ stop' = TRUE
  /\ UNCHANGED <<reorderVars, perfKernelVars, pollVars, perf_write_err,
                 discarded>>
-----------------------------------------------------------------------------
(***************************************************************************)
(* poll_perfarray.                                                         *)
(***************************************************************************)
PerfCheckStop ==
  /\ perf_pc = "check"
  /\ perf_pc' = IF stop THEN "final" ELSE "poll"
  /\ UNCHANGED <<reorderVars, perfKernelVars, ready, pending, lost_count,
                 perf_footer, stop, perf_write_err, discarded>>

\* epoll_wait returns the CPUs with data, or none after 500 ms.
PerfPoll ==
  /\ perf_pc = "poll"
  /\ ready' = {c \in Cpu : cpu_buf[c].records > 0}
  /\ perf_pc' = "read"
  /\ UNCHANGED <<reorderVars, perfKernelVars, pending, lost_count, perf_footer,
                 stop, perf_write_err, discarded>>

\* Mutant: there is no lost_cb.
ReadCpuUncounted(c) ==
  /\ perf_pc = "read" /\ c \in ready
  /\ ready' = ready \ {c}
  /\ pending' = pending \o cpu_buf[c].samples
  /\ cpu_buf' = [cpu_buf EXCEPT ![c] = EmptyBuffer]
  /\ UNCHANGED <<reorderVars, now, stamped, kernel_lost, happened, perf_pc,
                 lost_count, perf_footer, stop, perf_write_err, discarded>>

\* One buffer is read up to its head: sample_cb and lost_cb run.
ReadCpu(c) ==
  /\ perf_pc = "read" /\ c \in ready
  /\ ready' = ready \ {c}
  /\ pending' = pending \o cpu_buf[c].samples
  /\ lost_count' = lost_count + cpu_buf[c].lost
  /\ cpu_buf' = [cpu_buf EXCEPT ![c] = EmptyBuffer]
  /\ UNCHANGED <<reorderVars, now, stamped, kernel_lost, happened, perf_pc,
                 perf_footer, stop, perf_write_err, discarded>>

PollReturns ==
  /\ perf_pc = "read" /\ ready = {}
  /\ perf_pc' = "push"
  /\ UNCHANGED <<reorderVars, perfKernelVars, ready, pending, lost_count,
                 perf_footer, stop, perf_write_err, discarded>>

\* for event in pending.drain(..): reorder.push(event, write_cb)
PushPending ==
  /\ perf_pc \in {"push", "final"}
  /\ pending # << >>
  /\ push(Head(pending))
  /\ pending' = Tail(pending)
  /\ UNCHANGED <<out, perfKernelVars, perf_pc, ready, lost_count, perf_footer,
                 stop, perf_write_err, discarded>>

\* write_cb: write the event, unless a write failed before.
write_cb(e) ==
  \/ /\ ~perf_write_err
     /\ out' = Append(out, e)
     /\ UNCHANGED <<perf_write_err, discarded>>
  \/ perf_write_err' = TRUE /\ discarded' = discarded + 1 /\ UNCHANGED out

\* The steps of push and drain inside ReorderBuf
Reorder ==
  /\ \/ \E e \in heap : (flush_expired(e) \/ drain_pop(e)) /\ write_cb(e)
     \/ flush_done /\ UNCHANGED <<out, perf_write_err, discarded>>
     \/ drain_done /\ UNCHANGED <<out, perf_write_err, discarded>>
  /\ UNCHANGED <<perfKernelVars, pollVars, stop>>

Pushed == pending = << >> /\ mode = "idle"

\* The end of a turn of the loop
LoopTurn ==
  /\ perf_pc = "push" /\ Pushed
  /\ perf_pc' = IF perf_write_err THEN "failed" ELSE "check"
  /\ UNCHANGED <<reorderVars, perfKernelVars, ready, pending, lost_count,
                 perf_footer, stop, perf_write_err, discarded>>

\* After the loop: what is left in pending was pushed, and the heap is drained.
FinalDrain ==
  /\ perf_pc = "final" /\ Pushed
  /\ IF perf_write_err THEN perf_pc' = "failed" /\ UNCHANGED bufVars
     ELSE perf_pc' = "finish" /\ drain
  /\ UNCHANGED <<out, perfKernelVars, ready, pending, lost_count, perf_footer,
                 stop, perf_write_err, discarded>>

\* record_impl: bpf_drops is 0 on this transport, transport_lost is lost_count.
PerfFinish ==
  /\ perf_pc = "finish" /\ mode # "drain"
  /\ IF perf_write_err
     THEN perf_pc' = "failed" /\ UNCHANGED perf_footer
     ELSE /\ perf_pc' = "done"
          /\ perf_footer' = [events |-> Len(out), drops |-> lost_count]
  /\ UNCHANGED <<reorderVars, perfKernelVars, ready, pending, lost_count,
                 stop, perf_write_err, discarded>>

PerfNext ==
  \/ Tick \/ Stop
  \/ \E c \in Cpu : Stamp(c) \/ Output(c) \/ ReadCpu(c)
  \/ PerfCheckStop \/ PerfPoll \/ PollReturns \/ PushPending \/ Reorder
  \/ LoopTurn \/ FinalDrain \/ PerfFinish

PerfSpec == PerfInit /\ [][PerfNext]_perfVars
-----------------------------------------------------------------------------
(***************************************************************************)
(* Properties                                                              *)
(***************************************************************************)
\* f[1] + ... + f[n]
SumTo(f, n) ==
  LET Sum[i \in 0 .. n] == IF i = 0 THEN 0 ELSE Sum[i - 1] + f[i]
  IN  Sum[n]

\* The events of one CPU that no callback has been told of
InKernel(c) ==
  kernel_lost[c] + (IF stamped[c] = NoEvent THEN 0 ELSE 1)
    + cpu_buf[c].lost + Len(cpu_buf[c].samples)
KernelSum == SumTo([c \in Cpu |-> InKernel(c)], NumCpus)

\* ... and those some callback has
RecorderSum ==
  Len(pending) + Cardinality(heap) + Len(out) + discarded + lost_count

\* Every event is in exactly one place, whatever order the buffers are read in
\* and whenever the recorder is stopped or a write fails.
PerfEventsAccounted == happened = KernelSum + RecorderSum
=============================================================================
