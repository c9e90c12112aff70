------------------------------ MODULE Recorder ------------------------------
(***************************************************************************)
(* `wperf record` over the BPF ring buffer: the probes of                  *)
(* src/bpf/wperf.bpf.c produce (reserve_buf, fill_timestamp_and_cpu,       *)
(* submit_buf of compat.bpf.h), poll_ringbuf of src/record.rs consumes and *)
(* writes, record_impl finishes the file.                                  *)
(*                                                                         *)
(* A probe is three steps that the probes on other CPUs interleave with:   *)
(* it reserves a record, stamps it, and submits it.  The ring buffer and   *)
(* ring_buffer__consume are external: a ring keeps records in the order of *)
(* reservation, and consume stops at the first one that is not submitted.  *)
(* The probes stay attached until the process ends.                        *)
(***************************************************************************)
EXTENDS Integers, Sequences, FiniteSets

CONSTANTS
  Context,   \* the contexts a probe runs in: CPUs, and interrupts on them
  RingCap,   \* records the ring holds
  MaxFired, \* bound: how often a probe fires
  None

ASSUME RecorderAssumption ==
  /\ IsFiniteSet(Context)
  /\ RingCap \in Nat \ {0}
  /\ MaxFired \in Nat
  /\ None \notin Nat /\ None \notin [events : Nat, drops : Nat]

VARIABLES
  \* kernel
  clock,           \* bpf_ktime_get_ns
  ring,            \* records from consumer to producer position
  probe,           \* where the probe of each context is
  drop_counter,    \* BSS: failed reservations
  fired,           \* history: number of events so far
  \* poll_ringbuf and record_impl
  stop_requested,  \* set by SIGINT and SIGTERM
  deadline,        \* has --duration elapsed?
  pc,
  written,         \* the records given to the writer, in order
  write_err,       \* the error the callback kept
  progress,        \* did this consume() deliver an event?
  footer           \* EVENT_COUNT and DROP_COUNT, when finish was called

kernelVars == <<clock, ring, probe, drop_counter, fired>>
userVars   == <<stop_requested, deadline, pc, written, write_err, progress,
                footer>>
vars == <<kernelVars, userVars>>
-----------------------------------------------------------------------------
Init ==
  /\ clock = 0
  /\ ring = << >>
  /\ probe = [c \in Context |-> "idle"]
  /\ drop_counter = 0
  /\ fired = 0
  /\ stop_requested = FALSE
  /\ deadline = FALSE
  /\ pc = "check"
  /\ written = << >>
  /\ write_err = FALSE
  /\ progress = FALSE
  /\ footer = None

(***************************************************************************)
(* The probes.                                                             *)
(***************************************************************************)
\* The record of context c that is not submitted yet
Mine(c) == CHOOSE i \in DOMAIN ring : ring[i].by = c /\ ring[i].busy

\* Mutant: a drop is not counted.
reserve_buf_uncounted(c) ==
  /\ probe[c] = "idle"
  /\ fired < MaxFired
  /\ fired' = fired + 1
  /\ IF Len(ring) < RingCap
     THEN /\ ring' = Append(ring, [by |-> c, ts |-> None, busy |-> TRUE])
          /\ probe' = [probe EXCEPT ![c] = "reserved"]
     ELSE UNCHANGED <<ring, probe>>
  /\ UNCHANGED <<clock, drop_counter, userVars>>

reserve_buf(c) ==
  /\ probe[c] = "idle"
  /\ fired < MaxFired
  /\ fired' = fired + 1
  /\ IF Len(ring) < RingCap
     THEN /\ ring' = Append(ring, [by |-> c, ts |-> None, busy |-> TRUE])
          /\ probe' = [probe EXCEPT ![c] = "reserved"]
          /\ UNCHANGED drop_counter
     ELSE /\ drop_counter' = drop_counter + 1
          /\ UNCHANGED <<ring, probe>>
  /\ UNCHANGED <<clock, userVars>>

fill_timestamp_and_cpu(c) ==
  /\ probe[c] = "reserved"
  /\ clock' = clock + 1
  /\ ring' = [ring EXCEPT ![Mine(c)].ts = clock + 1]
  /\ probe' = [probe EXCEPT ![c] = "stamped"]
  /\ UNCHANGED <<drop_counter, fired, userVars>>

\* Mutant: the record is submitted before it is stamped.
submit_buf_unstamped(c) ==
  /\ probe[c] = "reserved"
  /\ ring' = [ring EXCEPT ![Mine(c)].busy = FALSE]
  /\ probe' = [probe EXCEPT ![c] = "idle"]
  /\ UNCHANGED <<clock, drop_counter, fired, userVars>>

submit_buf(c) ==
  /\ probe[c] = "stamped"
  /\ ring' = [ring EXCEPT ![Mine(c)].busy = FALSE]
  /\ probe' = [probe EXCEPT ![c] = "idle"]
  /\ UNCHANGED <<clock, drop_counter, fired, userVars>>
-----------------------------------------------------------------------------
(***************************************************************************)
(* The recorder.                                                           *)
(***************************************************************************)
\* SIGINT or SIGTERM: the handler sets the flag at any time.
Signal ==
  /\ ~stop_requested
  /\ stop_requested' = TRUE
  /\ UNCHANGED <<kernelVars, deadline, pc, written, write_err, progress, footer>>

DeadlinePasses ==
  /\ ~deadline
  /\ deadline' = TRUE
  /\ UNCHANGED <<kernelVars, stop_requested, pc, written, write_err, progress,
                 footer>>

\* Mutant: the deadline is not looked at.
CheckStopSignalOnly ==
  /\ pc = "check"
  /\ pc' = IF stop_requested THEN "final" ELSE "consume"
  /\ progress' = FALSE
  /\ UNCHANGED <<kernelVars, stop_requested, deadline, written, write_err,
                 footer>>

\* The head of the loop: leave it, or consume.
CheckStop ==
  /\ pc = "check"
  /\ pc' = IF stop_requested \/ deadline THEN "final" ELSE "consume"
  /\ progress' = FALSE
  /\ UNCHANGED <<kernelVars, stop_requested, deadline, written, write_err,
                 footer>>

\* The consumer looks at the first record.
Ready == ring # << >> /\ ~Head(ring).busy

\* One iteration of ringbuf.consume(): the callback writes the event ...
ConsumeRecord ==
  /\ pc \in {"consume", "final"} /\ ~write_err
  /\ Ready
  /\ written' = Append(written, Head(ring))
  /\ ring' = Tail(ring)
  /\ progress' = TRUE
  /\ UNCHANGED <<clock, probe, drop_counter, fired, stop_requested, deadline,
                 pc, write_err, footer>>

\* Mutant: the error is not kept.
ConsumeFailsSilently ==
  /\ pc \in {"consume", "final"} /\ ~write_err
  /\ Ready
  /\ ring' = Tail(ring)
  /\ UNCHANGED <<clock, probe, drop_counter, fired, stop_requested, deadline,
                 pc, written, write_err, progress, footer>>

\* ... or fails, keeps the error and makes consume() return.
ConsumeFails ==
  /\ pc \in {"consume", "final"} /\ ~write_err
  /\ Ready
  /\ write_err' = TRUE
  /\ ring' = Tail(ring)
  /\ UNCHANGED <<clock, probe, drop_counter, fired, stop_requested, deadline,
                 pc, written, progress, footer>>

\* consume() returns: the ring is empty, its head is not submitted, or the
\* callback failed.
ConsumeReturns ==
  /\ pc \in {"consume", "final"}
  /\ write_err \/ ~Ready
  /\ pc' = IF write_err THEN "failed"
           ELSE IF pc = "final" THEN "finish"
           ELSE IF progress THEN "check" ELSE "sleep"
  /\ UNCHANGED <<kernelVars, stop_requested, deadline, written, write_err,
                 progress, footer>>

\* Mutant: the recorder sleeps until it is stopped.
SleepUntilStopped ==
  /\ pc = "sleep" /\ stop_requested
  /\ pc' = "check"
  /\ UNCHANGED <<kernelVars, stop_requested, deadline, written, write_err,
                 progress, footer>>

\* 50 ms without an event
Sleep ==
  /\ pc = "sleep"
  /\ pc' = "check"
  /\ UNCHANGED <<kernelVars, stop_requested, deadline, written, write_err,
                 progress, footer>>

\* record_impl reads drop_counter and calls writer.finish.
Finish ==
  /\ pc = "finish"
  /\ footer' = [events |-> Len(written), drops |-> drop_counter]
  /\ pc' = "done"
  /\ UNCHANGED <<kernelVars, stop_requested, deadline, written, write_err,
                 progress>>

FinishFails ==
  /\ pc = "finish"
  /\ pc' = "failed"
  /\ UNCHANGED <<kernelVars, stop_requested, deadline, written, write_err,
                 progress, footer>>

Probes == \E c \in Context :
  reserve_buf(c) \/ fill_timestamp_and_cpu(c) \/ submit_buf(c)
Consume == ConsumeRecord \/ ConsumeFails \/ ConsumeReturns
Poll == CheckStop \/ Consume \/ Sleep \/ Finish \/ FinishFails

Next == Probes \/ Signal \/ DeadlinePasses \/ Poll

Spec == Init /\ [][Next]_vars

\* A probe that reserved a record runs to its end (it cannot block), and the
\* recorder is a process the scheduler lets run.  Nobody has to send a signal,
\* and no event has to happen.
Fairness ==
  /\ WF_vars(Poll)
  /\ \A c \in Context : WF_vars(fill_timestamp_and_cpu(c) \/ submit_buf(c))
FairSpec == Spec /\ Fairness
-----------------------------------------------------------------------------
(***************************************************************************)
(* Properties                                                              *)
(***************************************************************************)
Ended == pc \in {"done", "failed"}

\* Every event is in exactly one place: counted as dropped, still in the ring,
\* written, or the one whose write failed.
EveryEventAccounted ==
  fired = drop_counter + Len(ring) + Len(written) + (IF write_err THEN 1 ELSE 0)

\* The consumer never passes a record its probe has not stamped and submitted, a
\* probe never loses the record it is filling to the consumer, and the events of
\* one context are in the file in the order they happened, each once.
ContextOrder ==
  /\ \A i \in DOMAIN written : written[i].ts # None /\ ~written[i].busy
  /\ \A c \in Context :
       (probe[c] # "idle") <=> \E i \in DOMAIN ring : ring[i].by = c /\ ring[i].busy
  /\ \A i, j \in DOMAIN written :
       i < j /\ written[i].by = written[j].by => written[i].ts < written[j].ts

\* A recording ends with a footer exactly when it ends without an error, and
\* the footer counts the events that are in the file; what it does not count
\* is still in the ring or was dropped after drop_counter was read.
FooterIsTrue ==
  /\ (footer # None) <=> (pc = "done")
  /\ write_err => pc \in {"consume", "final", "failed"}
  /\ footer # None =>
       /\ footer.events = Len(written)
       /\ footer.drops <= drop_counter
       /\ fired - footer.events - footer.drops
            = Len(ring) + (drop_counter - footer.drops)

\* A signal or the deadline ends the recording, provided the events end: consume
\* returns only when it has caught up with the probes.
StopEndsRecording == (stop_requested \/ deadline) ~> Ended

\* No submitted record stays in the ring while the recorder runs.
RingIsDrained == (ring # << >>) ~> (ring = << >> \/ Ended)
=============================================================================
