------------------------------ MODULE BlockIo ------------------------------
(***************************************************************************)
(* The block-I/O probes (handle_block_rq_issue, handle_block_rq_complete   *)
(* of src/bpf/wperf.bpf.c) feeding the correlator.  A request is paired    *)
(* twice: in the kernel by the address of its struct request, in userspace *)
(* by its (dev, sector, nr_sector).  The block layer is external: a        *)
(* request is issued, perhaps again by another task (requeue), completes   *)
(* in one or several parts, between which the rest may be issued again,    *)
(* and then its struct is used for another.                                *)
(***************************************************************************)
EXTENDS Correlate

CONSTANTS
  Rq,         \* addresses of struct request
  Kthread,    \* kernel threads that issue requests (PF_KTHREAD)
  SelfThread, \* the threads of wperf itself
  MaxPending, \* max_entries of the pending_io map
  MaxLost     \* bound: events lost to a full ring buffer

\* A value of the pending_io map, and a request in the device: by whom and when
\* it was last issued, the issues that the probes skip or were not attached for
\* aside, and whether a part of it completed since
PendingRq  == [submitter_tid : Thread, key : IoKey]
RqInFlight ==
  [key : IoKey, by : Thread \cup {None}, issued : Ts, done : BOOLEAN]

ASSUME BlockIoAssumption ==
  /\ IsFiniteSet(Rq)
  /\ Kthread \cap Thread = {}
  /\ SelfThread \subseteq Thread
  /\ MaxPending \in Nat /\ MaxLost \in Nat
  /\ None \notin PendingRq \cup RqInFlight

IoCounter == {"KTHREAD_SKIP", "PENDING_DROP", "ORPHAN_COMPLETE",
              "COMPLETION_LOCALITY"}

VARIABLES
  clock,
  bpf_pending,   \* the pending_io map: submitter and key by request
  io_counters,   \* the per-CPU io_counters, summed
  drop_counter,  \* failed reservations
  in_flight,     \* truth: key, issuer and time of each request in the device
  requests       \* truth: requests by their first completion

probeVars == <<clock, bpf_pending, io_counters, drop_counter, in_flight,
               requests>>
vars == <<corrVars, probeVars>>
-----------------------------------------------------------------------------
\* Requests may be in flight when the probes are attached: by is None for them.
IoInit ==
  /\ Init
  /\ clock = 0
  /\ bpf_pending = [r \in Rq |-> None]
  /\ io_counters = [c \in IoCounter |-> 0]
  /\ drop_counter = 0
  /\ in_flight \in [Rq -> {None} \cup
       [key : IoKey, by : {None}, issued : {0}, done : {FALSE}]]
  /\ requests = {}

\* reserve_buf: the event is emitted, or it is lost and counted.
Lost ==
  /\ drop_counter < MaxLost
  /\ drop_counter' = drop_counter + 1
  /\ UNCHANGED corrVars

\* bpf_map_update_elem(&pending_io, .., BPF_ANY) finds no room
MapFull(rq) ==
  bpf_pending[rq] = None /\ Cardinality(Keys(bpf_pending)) >= MaxPending

\* Mutant: the entry outlives its request.
RemovedNever(rq) == bpf_pending

\* current->flags & PF_KTHREAD
IsKthread(task) == task \in Kthread
\* self_tgid is the tgid of the current task
IsSelf(task) == task \in SelfThread

\* bpf_map_delete_elem(&pending_io, ..)
Removed(rq) == [bpf_pending EXCEPT ![rq] = None]

\* The probe at block_rq_issue, in the context of the task that issues
handle_block_rq_issue(rq, key, task, ts) ==
  \/ /\ IsKthread(task)
     /\ io_counters' = [io_counters EXCEPT !["KTHREAD_SKIP"] = @ + 1]
     /\ UNCHANGED <<corrVars, bpf_pending, drop_counter>>
  \/ /\ ~IsKthread(task) /\ IsSelf(task)
     /\ UNCHANGED <<corrVars, bpf_pending, drop_counter, io_counters>>
  \/ /\ ~IsKthread(task) /\ ~IsSelf(task)
     /\ MapFull(rq)
     /\ io_counters' = [io_counters EXCEPT !["PENDING_DROP"] = @ + 1]
     /\ UNCHANGED <<corrVars, bpf_pending, drop_counter>>
  \/ /\ ~IsKthread(task) /\ ~IsSelf(task)
     /\ ~MapFull(rq)
     /\ bpf_pending' = [bpf_pending EXCEPT ![rq] =
                          [submitter_tid |-> task, key |-> key]]
     /\ \/ Lost
        \/ /\ NextEvent(ts) /\ handle_io_issue(ts, task, key)
           /\ UNCHANGED drop_counter
     /\ UNCHANGED io_counters

\* The probe at block_rq_complete, in the context of whatever task cur was
\* interrupted
handle_block_rq_complete(rq, cur, ts) ==
  LET val == bpf_pending[rq]
  IN  \/ /\ val = None
         /\ io_counters' = [io_counters EXCEPT !["ORPHAN_COMPLETE"] = @ + 1]
         /\ UNCHANGED <<corrVars, bpf_pending, drop_counter>>
      \/ /\ val # None
         /\ io_counters' = [io_counters EXCEPT !["COMPLETION_LOCALITY"] =
                              @ + Bump(cur # val.submitter_tid)]
         /\ bpf_pending' = Removed(rq)
         /\ \/ Lost
            \/ /\ NextEvent(ts) /\ handle_io_complete(ts, val.key)
               /\ UNCHANGED drop_counter
-----------------------------------------------------------------------------
(***************************************************************************)
(* The block layer.                                                        *)
(***************************************************************************)
\* The device after task issued request r: an issue that is skipped is none
\* of the truth's, but it starts a new request or the rest of a completed part.
Issued(r, key, task, ts) ==
  IF ~IsKthread(task) /\ ~IsSelf(task)
  THEN [key |-> key, by |-> task, issued |-> ts, done |-> FALSE]
  ELSE IF r # None /\ ~r.done THEN r
  ELSE [key |-> key, by |-> None, issued |-> 0, done |-> FALSE]

\* Any task issues a free request, or one in flight again: for the same sectors,
\* or, once a part of it completed, for the rest.
Issue(rq, key, task, ts) ==
  /\ clock < ts
  /\ clock' = ts
  /\ in_flight[rq] # None /\ ~in_flight[rq].done => in_flight[rq].key = key
  /\ in_flight' = [in_flight EXCEPT ![rq] = Issued(@, key, task, ts)]
  /\ handle_block_rq_issue(rq, key, task, ts)
  /\ UNCHANGED requests

\* A request completes, in part or (last) as a whole.
Complete(rq, cur, last, ts) ==
  LET r == in_flight[rq]
  IN  /\ r # None
      /\ clock < ts
      /\ clock' = ts
      /\ in_flight' = [in_flight EXCEPT ![rq] =
                         IF last THEN None ELSE [r EXCEPT !.done = TRUE]]
      /\ requests' = IF r.done \/ r.by = None THEN requests
                     ELSE requests \cup {[key |-> r.key, by |-> r.by,
                                          issued |-> r.issued, completed |-> ts]}
      /\ handle_block_rq_complete(rq, cur, ts)

IoNext ==
  \/ /\ phase = "events"
     /\ \E rq \in Rq, ts \in Ts :
          \/ \E key \in IoKey, task \in Thread \cup Kthread :
               Issue(rq, key, task, ts)
          \/ \E cur \in Tid, last \in BOOLEAN : Complete(rq, cur, last, ts)
  \/ /\ EndOfEvents \/ Return
     /\ UNCHANGED probeVars

IoSpec == IoInit /\ [][IoNext]_vars
-----------------------------------------------------------------------------
(***************************************************************************)
(* Properties                                                              *)
(***************************************************************************)
\* An entry of the pending_io map belongs to a request in flight that no
\* completion was seen of since: completions always give their entry back, also
\* when the event cannot be emitted, so the map fills up with live requests
\* only.  It names the thread that issued the request last, kernel threads and
\* wperf aside, whoever dispatched it again.
PendingIsInFlight ==
  /\ Cardinality(Keys(bpf_pending)) <= MaxPending
  /\ \A rq \in Keys(bpf_pending) :
       /\ in_flight[rq] # None /\ ~in_flight[rq].done
       /\ in_flight[rq].by = bpf_pending[rq].submitter_tid
       /\ in_flight[rq].key = bpf_pending[rq].key

\* Kernel threads and wperf are never charged.  With no event lost and no
\* collision counted, an edge to the disk is that of a request, charged to the
\* thread that issued it last (kernel threads and wperf aside), over the time
\* from that issue to the first completion after it.
IoEdgesAreRequests ==
  \A i \in DOMAIN edges :
    edges[i].dst = Disk =>
      /\ edges[i].src \in Thread \ SelfThread
      /\ drop_counter = 0 /\ stats.io_userspace_pair_collision_count = 0 =>
           \E r \in requests :
             /\ r.by = edges[i].src
             /\ edges[i].window = IoWindow(r.issued, r.completed)

\* Both pairings agree when nothing was lost and nothing collided: a request is
\* pending in userspace exactly when it is pending in the kernel, and
\* userspace meets no orphan.
PairingsAgree ==
  drop_counter = 0 /\ stats.io_userspace_pair_collision_count = 0 =>
    /\ stats.io_orphan_complete_count = 0
    /\ \A k \in IoKey :
         pending_io[k] # None <=> \E rq \in Keys(bpf_pending) : bpf_pending[rq].key = k
=============================================================================
