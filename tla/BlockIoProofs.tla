---------------------------- MODULE BlockIoProofs ----------------------------
(***************************************************************************)
(* BlockIo for every set of requests, keys and threads, every size of the  *)
(* pending_io map and every number of lost events.                         *)
(***************************************************************************)
EXTENDS BlockIo, CorrelateProofs

\* Types of the probes' variables; wperf and kernel threads submit nothing.
ProbeTypeOK ==
  /\ clock \in Nat
  /\ bpf_pending \in [Rq -> PendingRq \cup {None}]
  /\ \A rq \in Keys(bpf_pending) : bpf_pending[rq].submitter_tid \notin SelfThread
  /\ \A k \in Keys(pending_io) : pending_io[k].submitter_tid \notin SelfThread
  /\ drop_counter \in Nat
  /\ in_flight \in [Rq -> RqInFlight \cup {None}]

\* No event was lost, and no two requests with one key were pending at once.
Clean == drop_counter = 0 /\ stats.io_userspace_pair_collision_count = 0

\* The two pairings, entry by entry: every entry of the map has its entry in
\* the correlator's table, with its issue, and no two share one.
Paired ==
  /\ \A rq \in Keys(bpf_pending) :
       /\ pending_io[bpf_pending[rq].key] # None
       /\ pending_io[bpf_pending[rq].key].submitter_tid = bpf_pending[rq].submitter_tid
       /\ pending_io[bpf_pending[rq].key].issue_ts_ns = in_flight[rq].issued
  /\ \A k \in IoKey : pending_io[k] # None =>
       \E rq \in Keys(bpf_pending) : bpf_pending[rq].key = k
  /\ \A p, q \in Keys(bpf_pending) : bpf_pending[p].key = bpf_pending[q].key => p = q
  /\ stats.io_orphan_complete_count = 0

IoInv ==
  CorrInv /\ ProbeTypeOK /\ PendingIsInFlight /\ (Clean => Paired) /\ IoEdgesAreRequests
-----------------------------------------------------------------------------
\* The correlator of this module takes steps of Correlate only.
LEMMA CorrelatorSteps == ProbeTypeOK /\ IoNext => [Next]_corrVars
<1> SUFFICES ASSUME ProbeTypeOK, IoNext PROVE [Next]_corrVars
  OBVIOUS
<1>1. ASSUME NEW rq \in Rq, NEW ts \in Ts, NEW key \in IoKey,
             NEW task \in Thread \cup Kthread, Issue(rq, key, task, ts)
      PROVE  [Next]_corrVars
  <2>1. UNCHANGED corrVars \/ (~IsKthread(task) /\ NextEvent(ts)
                                 /\ handle_io_issue(ts, task, key))
    BY <1>1, Zenon DEF Issue, handle_block_rq_issue, Lost
  <2>2. ~IsKthread(task) => task \in Thread
    BY DEF IsKthread
  <2> QED BY <2>1, <2>2 DEF Next, IoIssue
<1>2. ASSUME NEW rq \in Rq, NEW ts \in Ts, NEW cur \in Tid, NEW last \in BOOLEAN,
             Complete(rq, cur, last, ts)
      PROVE  [Next]_corrVars
  <2>1. \/ UNCHANGED corrVars
        \/ /\ bpf_pending[rq] # None
           /\ NextEvent(ts) /\ handle_io_complete(ts, bpf_pending[rq].key)
    BY <1>2, Zenon DEF Complete, handle_block_rq_complete, Lost
  <2>2. bpf_pending[rq] # None => bpf_pending[rq].key \in IoKey
    BY DEF ProbeTypeOK, PendingRq
  <2> QED BY <2>1, <2>2 DEF Next, IoComplete
<1>3. CASE EndOfEvents \/ Return
  BY <1>3 DEF Next
<1> QED BY <1>1, <1>2, <1>3 DEF IoNext

\* A run starts with empty tables.
LEMMA InitIoInv == IoInit => IoInv
<1> SUFFICES ASSUME IoInit PROVE IoInv
  OBVIOUS
<1>1. CorrInv
  BY InitCorrInv DEF IoInit
<1>2. /\ bpf_pending = [r \in Rq |-> None] /\ pending_io = [k \in IoKey |-> None]
      /\ edges = << >> /\ clock = 0 /\ drop_counter = 0
      /\ stats = [c \in Counter |-> 0]
      /\ in_flight \in [Rq -> {None} \cup
           [key : IoKey, by : {None}, issued : {0}, done : {FALSE}]]
  BY DEF IoInit, Init
<1>3. Keys(bpf_pending) = {} /\ Keys(pending_io) = {}
  BY <1>2 DEF Keys
<1>4. ProbeTypeOK
  <2>1. [key : IoKey, by : {None}, issued : {0}, done : {FALSE}] \subseteq RqInFlight
    <3>1. 0 \in Ts
      BY CorrelateAssumption DEF Ts
    <3> SUFFICES ASSUME NEW r \in [key : IoKey, by : {None}, issued : {0},
                                   done : {FALSE}]
                 PROVE  r \in RqInFlight
      OBVIOUS
    <3> QED BY <3>1 DEF RqInFlight
  <2> QED BY <1>2, <1>3, <2>1 DEF ProbeTypeOK
<1>5. PendingIsInFlight
  BY <1>3, FS_EmptySet, BlockIoAssumption DEF PendingIsInFlight
<1>6. stats.io_orphan_complete_count = 0
  BY <1>2 DEF Counter
<1>7. Paired
  BY <1>2, <1>3, <1>6 DEF Paired
<1>8. IoEdgesAreRequests
  BY <1>2 DEF IoEdgesAreRequests
<1> QED BY <1>1, <1>4, <1>5, <1>7, <1>8 DEF IoInv

\* An entry of the map is one of a request that a thread issued.
LEMMA PendingTypes ==
  ASSUME ProbeTypeOK, NEW rq \in Keys(bpf_pending)
  PROVE  /\ rq \in Rq /\ bpf_pending[rq] # None
         /\ bpf_pending[rq].submitter_tid \in Thread \ SelfThread
         /\ bpf_pending[rq].key \in IoKey
<1>1. rq \in Rq /\ bpf_pending[rq] # None /\ bpf_pending[rq] \in PendingRq
  BY DEF ProbeTypeOK, Keys
<1> QED BY <1>1 DEF ProbeTypeOK, PendingRq

\* Once an event was lost or a collision was counted, that stays so.
LEMMA CleanBefore ==
  ASSUME drop_counter \in Nat, NEW m \in Nat, NEW n \in Nat,
         stats.io_userspace_pair_collision_count \in Nat,
         drop_counter' = drop_counter + m,
         stats'.io_userspace_pair_collision_count =
           stats.io_userspace_pair_collision_count + n,
         Clean'
  PROVE  Clean /\ m = 0 /\ n = 0
<1> DEFINE c == stats.io_userspace_pair_collision_count
<1>1. drop_counter + m = 0 /\ c + n = 0
  BY DEF Clean
<1>2. c \in Nat
  OBVIOUS
<1> HIDE DEF c
<1>3. drop_counter = 0 /\ m = 0 /\ c = 0 /\ n = 0
  BY <1>1, <1>2
<1> QED BY <1>3 DEF Clean, c

\* The device after an issue: one that is skipped leaves a request in flight as
\* it is.
LEMMA IssuedTypes ==
  ASSUME NEW key \in IoKey, NEW task \in Thread \cup Kthread, NEW ts \in Ts,
         NEW r \in RqInFlight \cup {None}, NEW new, new = Issued(r, key, task, ts)
  PROVE  /\ new \in RqInFlight
         /\ task \notin Thread \ SelfThread /\ r # None /\ ~r.done => new = r
<1> DEFINE mine == [key |-> key, by |-> task, issued |-> ts, done |-> FALSE]
           noones == [key |-> key, by |-> None, issued |-> 0, done |-> FALSE]
<1>1. noones \in RqInFlight
  <2>1. 0 \in Ts /\ FALSE \in BOOLEAN
    BY CorrelateAssumption DEF Ts
  <2> QED BY <2>1 DEF RqInFlight
<1>2. task \in Thread \ SelfThread => mine \in RqInFlight
  BY DEF RqInFlight
<1>3. new = IF task \in Thread \ SelfThread THEN mine
            ELSE IF r # None /\ ~r.done THEN r ELSE noones
  BY BlockIoAssumption DEF Issued, IsKthread, IsSelf
<1> HIDE DEF mine, noones
<1> QED BY <1>1, <1>2, <1>3

\* The probe of a request that is issued leaves the map alone, and then it has
\* no entry there or stays as it was issued before; or it enters the new issue.
LEMMA IssueSkips ==
  ASSUME ProbeTypeOK, PendingIsInFlight, NEW rq \in Rq, NEW key \in IoKey,
         NEW task \in Thread \cup Kthread, NEW ts \in Ts, Issue(rq, key, task, ts)
  PROVE  \/ /\ UNCHANGED <<corrVars, bpf_pending, drop_counter>>
            /\ bpf_pending[rq] = None \/ in_flight'[rq] = in_flight[rq]
         \/ /\ task \in Thread \ SelfThread
            /\ ~MapFull(rq)
            /\ bpf_pending' = [bpf_pending EXCEPT ![rq] =
                                 [submitter_tid |-> task, key |-> key]]
            /\ Lost \/ (handle_io_issue(ts, task, key) /\ UNCHANGED drop_counter)
<1>1. ASSUME bpf_pending[rq] # None, task \notin Thread \ SelfThread
      PROVE  in_flight'[rq] = in_flight[rq]
  <2> DEFINE r == in_flight[rq]
  <2>1. rq \in Keys(bpf_pending)
    BY <1>1 DEF Keys, ProbeTypeOK
  <2>2. r # None /\ ~r.done
    BY <2>1 DEF PendingIsInFlight
  <2>3. in_flight \in [Rq -> RqInFlight \cup {None}]
    BY DEF ProbeTypeOK
  <2>4. in_flight'[rq] = Issued(r, key, task, ts)
    BY <2>3 DEF Issue
  <2>5. r \in RqInFlight \cup {None}
    BY <2>3
  <2> HIDE DEF r
  <2> DEFINE new == Issued(r, key, task, ts)
  <2>6. new = Issued(r, key, task, ts)
    OBVIOUS
  <2> HIDE DEF new
  <2>7. new = r
    BY <1>1, <2>2, <2>5, <2>6, IssuedTypes
  <2> QED BY <2>4, <2>6, <2>7 DEF r
<1>2. handle_block_rq_issue(rq, key, task, ts)
  BY DEF Issue
<1>3. CASE IsKthread(task)
  BY <1>1, <1>2, <1>3, BlockIoAssumption DEF handle_block_rq_issue, IsKthread
<1>4. CASE ~IsKthread(task) /\ IsSelf(task)
  BY <1>1, <1>2, <1>4 DEF handle_block_rq_issue, IsSelf
<1>5. CASE ~IsKthread(task) /\ ~IsSelf(task) /\ MapFull(rq)
  BY <1>2, <1>5 DEF handle_block_rq_issue, MapFull
<1>6. CASE ~IsKthread(task) /\ ~IsSelf(task) /\ ~MapFull(rq)
  BY <1>2, <1>6 DEF handle_block_rq_issue, IsKthread, IsSelf
<1> QED BY <1>3, <1>4, <1>5, <1>6

\* A request is issued.
LEMMA IssueIoInv ==
  ASSUME IoInv, CorrInv', NEW rq \in Rq, NEW key \in IoKey,
         NEW task \in Thread \cup Kthread, NEW ts \in Ts, Issue(rq, key, task, ts)
  PROVE  IoInv'
<1> DEFINE new == Issued(in_flight[rq], key, task, ts)
           entry == [submitter_tid |-> task, key |-> key]
<1>0. /\ DataOK /\ DataOK' /\ ProbeTypeOK /\ PendingIsInFlight /\ (Clean => Paired)
      /\ IoEdgesAreRequests
      /\ pending_io \in [IoKey -> PendingIo \cup {None}]
      /\ stats \in [Counter -> Nat] /\ ts \in Nat
      /\ stats.io_userspace_pair_collision_count \in Nat
  BY LawTypes, TsNat DEF IoInv, CorrInv, CoreInv, DataOK
<1>1. /\ in_flight' = [in_flight EXCEPT ![rq] = new]
      /\ clock' = ts /\ requests' = requests
      /\ in_flight[rq] # None /\ ~in_flight[rq].done => in_flight[rq].key = key
  BY DEF Issue
<1>2. new \in RqInFlight
  <2> DEFINE r == in_flight[rq]
  <2>1. r \in RqInFlight \cup {None}
    BY <1>0 DEF ProbeTypeOK
  <2>2. new = Issued(r, key, task, ts)
    OBVIOUS
  <2> HIDE DEF new, r
  <2> QED BY <2>1, <2>2, IssuedTypes
<1>3. task \in Thread \ SelfThread =>
        /\ new.key = key /\ new.by = task /\ new.issued = ts /\ new.done = FALSE
        /\ new # None
  <2> SUFFICES ASSUME task \in Thread \ SelfThread
               PROVE  /\ new # None /\ new.key = key /\ new.by = task
                      /\ new.issued = ts /\ new.done = FALSE
    OBVIOUS
  <2> DEFINE mine == [key |-> key, by |-> task, issued |-> ts, done |-> FALSE]
  <2>1. new = mine
    BY BlockIoAssumption DEF Issued, IsKthread, IsSelf
  <2>2. mine.key = key /\ mine.by = task /\ mine.issued = ts /\ mine.done = FALSE
    OBVIOUS
  <2>3. new # None
    BY <1>2, BlockIoAssumption
  <2> QED BY <2>1, <2>2, <2>3
<1> HIDE DEF new
<1>4. /\ in_flight' \in [Rq -> RqInFlight \cup {None}]
      /\ in_flight'[rq] = new /\ \A q \in Rq : q # rq => in_flight'[q] = in_flight[q]
  BY <1>0, <1>1, <1>2 DEF ProbeTypeOK
<1>5. CASE /\ UNCHANGED <<corrVars, bpf_pending, drop_counter>>
           /\ bpf_pending[rq] = None \/ in_flight'[rq] = in_flight[rq]
  <2>1. \A q \in Keys(bpf_pending) : q \in Rq /\ in_flight'[q] = in_flight[q]
    BY <1>0, <1>4, <1>5 DEF Keys, ProbeTypeOK
  <2>2. UNCHANGED <<pending_io, edges, stats>>
    BY <1>5 DEF corrVars, tables
  <2>3. ProbeTypeOK' /\ PendingIsInFlight'
    BY <1>0, <1>1, <1>4, <1>5, <2>1, <2>2, TsNat DEF ProbeTypeOK, PendingIsInFlight
  <2>4. Clean' => Paired'
    BY <1>0, <1>5, <2>1, <2>2 DEF Clean, Paired
  <2>5. IoEdgesAreRequests'
    BY <1>0, <1>1, <1>5, <2>2 DEF IoEdgesAreRequests
  <2> QED BY <2>3, <2>4, <2>5 DEF IoInv
<1>6. CASE /\ task \in Thread \ SelfThread
           /\ ~MapFull(rq)
           /\ bpf_pending' = [bpf_pending EXCEPT ![rq] = entry]
           /\ Lost \/ (handle_io_issue(ts, task, key) /\ UNCHANGED drop_counter)
  <2>1. entry \in PendingRq /\ entry # None
    BY <1>6, BlockIoAssumption DEF PendingRq
  <2>2. entry.submitter_tid = task /\ entry.key = key
    OBVIOUS
  <2> HIDE DEF entry
  <2>3. /\ bpf_pending' \in [Rq -> PendingRq \cup {None}]
        /\ bpf_pending'[rq] = entry
        /\ \A q \in Rq : q # rq => bpf_pending'[q] = bpf_pending[q]
        /\ DOMAIN bpf_pending = Rq /\ DOMAIN bpf_pending' = Rq
    BY <1>0, <1>6, <2>1 DEF ProbeTypeOK
  <2>4. /\ rq \in Keys(bpf_pending')
        /\ \A q \in Keys(bpf_pending') :
             q = rq \/ (q \in Keys(bpf_pending) /\ q # rq /\ q \in Rq)
        /\ \A q \in Keys(bpf_pending) : q \in Keys(bpf_pending')
    BY <2>1, <2>3 DEF Keys
  <2>5. PendingIsInFlight'
    <3>1. Cardinality(Keys(bpf_pending')) <= MaxPending
      <4>0. /\ Cardinality(Keys(bpf_pending)) \in Nat
            /\ Cardinality(Keys(bpf_pending)) <= MaxPending
        BY <1>0, <2>3, BlockIoAssumption, KeysOfTable DEF PendingIsInFlight
      <4>1. CASE bpf_pending[rq] # None
        <5>1. Keys(bpf_pending') = Keys(bpf_pending)
          BY <2>1, <2>3, <4>1 DEF Keys
        <5> QED BY <4>0, <5>1
      <4>2. CASE bpf_pending[rq] = None
        <5>1. Cardinality(Keys(bpf_pending')) = Cardinality(Keys(bpf_pending)) + 1
          BY <2>1, <2>3, <4>2, BlockIoAssumption, KeysInsert
        <5>2. Cardinality(Keys(bpf_pending)) < MaxPending
          BY <1>6, <4>0, <4>2, BlockIoAssumption DEF MapFull
        <5> QED BY <4>0, <5>1, <5>2, BlockIoAssumption
      <4> QED BY <4>1, <4>2
    <3>2. ASSUME NEW q \in Keys(bpf_pending')
          PROVE  /\ in_flight'[q] # None /\ ~in_flight'[q].done
                 /\ in_flight'[q].by = bpf_pending'[q].submitter_tid
                 /\ in_flight'[q].key = bpf_pending'[q].key
      <4>1. CASE q = rq
        BY <1>3, <1>4, <1>6, <2>2, <2>3, <4>1
      <4>2. CASE q # rq
        BY <1>0, <1>4, <2>3, <2>4, <4>2 DEF PendingIsInFlight
      <4> QED BY <4>1, <4>2
    <3> QED BY <3>1, <3>2 DEF PendingIsInFlight
  <2>6. CASE Lost
    <3>1. /\ UNCHANGED <<pending_io, edges, stats>>
          /\ drop_counter' = drop_counter + 1
      BY <2>6 DEF Lost, corrVars, tables
    <3>2. drop_counter \in Nat /\ ~Clean'
      BY <1>0, <3>1 DEF ProbeTypeOK, Clean
    <3>3. ProbeTypeOK'
      <4>1. \A k \in Keys(pending_io') : pending_io'[k].submitter_tid \notin SelfThread
        BY <1>0, <3>1 DEF ProbeTypeOK
      <4>2. \A q \in Keys(bpf_pending') :
              bpf_pending'[q].submitter_tid \notin SelfThread
        BY <1>0, <1>6, <2>2, <2>3, <2>4 DEF ProbeTypeOK
      <4> QED BY <1>0, <1>1, <1>4, <2>3, <3>1, <4>1, <4>2 DEF ProbeTypeOK
    <3>4. IoEdgesAreRequests'
      BY <1>0, <1>1, <3>1, <3>2 DEF IoEdgesAreRequests, Clean
    <3> QED BY <2>5, <3>2, <3>3, <3>4 DEF IoInv
  <2>7. CASE handle_io_issue(ts, task, key) /\ UNCHANGED drop_counter
    <3> DEFINE issue == [submitter_tid |-> task, issue_ts_ns |-> ts]
    <3>1. pending_io' = [pending_io EXCEPT ![key] = issue] /\ edges' = edges
      BY <2>7 DEF handle_io_issue
    <3>2. issue \in PendingIo /\ issue # None
      BY <1>6, NoneAssumption DEF PendingIo
    <3>3. issue.submitter_tid = task /\ issue.issue_ts_ns = ts
      OBVIOUS
    <3> HIDE DEF issue
    <3>4. /\ pending_io'[key] = issue /\ DOMAIN pending_io' = IoKey
          /\ \A k \in IoKey : k # key => pending_io'[k] = pending_io[k]
      BY <1>0, <3>1
    <3>5. PICK b \in Nat : /\ b = Bump(pending_io[key] # None)
                           /\ stats' = Counted([events_processed |-> 1,
                                        io_userspace_pair_collision_count |-> b])
      BY <2>7 DEF handle_io_issue, Bump
    <3>6. /\ stats'.io_userspace_pair_collision_count =
               stats.io_userspace_pair_collision_count + b
          /\ stats'.io_orphan_complete_count = stats.io_orphan_complete_count
      BY <1>0, <3>5, CountIoIssue
    <3>7. ProbeTypeOK'
      <4>1. \A k \in Keys(pending_io') : pending_io'[k].submitter_tid \notin SelfThread
        BY <1>0, <1>6, <3>3, <3>4 DEF ProbeTypeOK, Keys
      <4>2. \A q \in Keys(bpf_pending') :
              bpf_pending'[q].submitter_tid \notin SelfThread
        BY <1>0, <1>6, <2>2, <2>3, <2>4 DEF ProbeTypeOK
      <4> QED BY <1>0, <1>1, <1>4, <2>3, <2>7, <4>1, <4>2 DEF ProbeTypeOK
    <3>8. Clean' => Clean /\ pending_io[key] = None
      <4>1. drop_counter' = drop_counter + 0 /\ drop_counter \in Nat
        BY <1>0, <2>7 DEF ProbeTypeOK
      <4> QED BY <1>0, <3>5, <3>6, <4>1, CleanBefore DEF Bump
    <3>9. ASSUME Clean' PROVE Paired'
      <4>1. Paired /\ pending_io[key] = None
        BY <1>0, <3>8, <3>9
      <4>2. \A q \in Keys(bpf_pending) :
              /\ q \in Rq /\ bpf_pending[q].key # key /\ bpf_pending[q].key \in IoKey
        BY <1>0, <4>1, PendingTypes DEF Paired
      <4>3. bpf_pending[rq] = None
        <5>1. ASSUME bpf_pending[rq] # None PROVE FALSE
          <6>1. rq \in Keys(bpf_pending)
            BY <2>3, <5>1 DEF Keys
          <6>2. in_flight[rq] # None /\ ~in_flight[rq].done
                /\ in_flight[rq].key = bpf_pending[rq].key
            BY <1>0, <6>1 DEF PendingIsInFlight
          <6> QED BY <1>1, <4>2, <6>1, <6>2
        <5> QED BY <5>1
      <4>4. \A q \in Keys(bpf_pending) :
              /\ bpf_pending'[q] = bpf_pending[q] /\ in_flight'[q] = in_flight[q]
              /\ pending_io'[bpf_pending[q].key] = pending_io[bpf_pending[q].key]
        BY <1>4, <2>3, <3>4, <4>2, <4>3 DEF Keys
      <4>5. ASSUME NEW q \in Keys(bpf_pending')
            PROVE  /\ pending_io'[bpf_pending'[q].key] # None
                   /\ pending_io'[bpf_pending'[q].key].submitter_tid
                        = bpf_pending'[q].submitter_tid
                   /\ pending_io'[bpf_pending'[q].key].issue_ts_ns
                        = in_flight'[q].issued
        <5>1. CASE q = rq
          BY <1>3, <1>4, <1>6, <2>2, <2>3, <3>2, <3>3, <3>4, <5>1
        <5>2. CASE q # rq
          BY <2>4, <4>1, <4>4, <5>2 DEF Paired
        <5> QED BY <5>1, <5>2
      <4>6. ASSUME NEW k \in IoKey, pending_io'[k] # None
            PROVE  \E q \in Keys(bpf_pending') : bpf_pending'[q].key = k
        <5>1. CASE k = key
          BY <2>2, <2>3, <2>4, <5>1
        <5>2. CASE k # key
          <6>1. PICK q \in Keys(bpf_pending) : bpf_pending[q].key = k
            BY <3>4, <4>1, <4>6, <5>2 DEF Paired
          <6> QED BY <2>4, <4>4, <6>1
        <5> QED BY <5>1, <5>2
      <4>7. ASSUME NEW p \in Keys(bpf_pending'), NEW q \in Keys(bpf_pending'),
                   bpf_pending'[p].key = bpf_pending'[q].key
            PROVE  p = q
        BY <2>2, <2>3, <2>4, <4>1, <4>2, <4>4, <4>7 DEF Paired
      <4>8. stats'.io_orphan_complete_count = 0
        BY <3>6, <4>1 DEF Paired
      <4> QED BY <4>5, <4>6, <4>7, <4>8 DEF Paired
    <3>10. IoEdgesAreRequests'
      BY <1>0, <1>1, <3>1, <3>8 DEF IoEdgesAreRequests, Clean
    <3> QED BY <2>5, <3>7, <3>9, <3>10 DEF IoInv
  <2> QED BY <1>6, <2>6, <2>7
<1> QED BY <1>0, <1>5, <1>6, IssueSkips

\* The request that completes gives its entry back, whether the event of it is
\* emitted or lost.
LEMMA CompleteTables ==
  ASSUME ProbeTypeOK, PendingIsInFlight, NEW rq \in Rq, NEW cur \in Tid,
         NEW last \in BOOLEAN, NEW ts \in Ts, Complete(rq, cur, last, ts)
  PROVE  /\ bpf_pending' \in [Rq -> PendingRq \cup {None}]
         /\ bpf_pending'[rq] = None
         /\ \A q \in Rq : q # rq => bpf_pending'[q] = bpf_pending[q]
         /\ in_flight' \in [Rq -> RqInFlight \cup {None}]
         /\ \A q \in Rq : q # rq => in_flight'[q] = in_flight[q]
         /\ Keys(bpf_pending') = Keys(bpf_pending) \ {rq}
         /\ PendingIsInFlight'
         /\ \A q \in Keys(bpf_pending') : bpf_pending'[q].submitter_tid \notin SelfThread
         /\ requests \subseteq requests' /\ clock' \in Nat
<1> DEFINE r == in_flight[rq]
           left == IF last THEN None ELSE [r EXCEPT !.done = TRUE]
<1>1. /\ bpf_pending' = [bpf_pending EXCEPT ![rq] = None]
      /\ bpf_pending \in [Rq -> PendingRq \cup {None}]
  <2>1. bpf_pending \in [Rq -> PendingRq \cup {None}]
    BY DEF ProbeTypeOK
  <2>2. \/ bpf_pending[rq] = None /\ bpf_pending' = bpf_pending
        \/ bpf_pending' = Removed(rq)
    BY DEF Complete, handle_block_rq_complete
  <2> QED BY <2>1, <2>2 DEF Removed
<1>2. /\ bpf_pending' \in [Rq -> PendingRq \cup {None}] /\ bpf_pending'[rq] = None
      /\ \A q \in Rq : q # rq => bpf_pending'[q] = bpf_pending[q]
      /\ DOMAIN bpf_pending = Rq /\ DOMAIN bpf_pending' = Rq
  BY <1>1
<1>3. Keys(bpf_pending') = Keys(bpf_pending) \ {rq}
  BY <1>2 DEF Keys
<1>4. left \in RqInFlight \cup {None}
  <2>1. r \in RqInFlight
    BY DEF Complete, ProbeTypeOK
  <2>2. [r EXCEPT !.done = TRUE] \in RqInFlight
    BY <2>1 DEF RqInFlight
  <2> QED BY <2>2
<1>5. in_flight' = [in_flight EXCEPT ![rq] = left]
  BY DEF Complete
<1> HIDE DEF left, r
<1>6. /\ in_flight' \in [Rq -> RqInFlight \cup {None}]
      /\ \A q \in Rq : q # rq => in_flight'[q] = in_flight[q]
  BY <1>4, <1>5 DEF ProbeTypeOK
<1>7. PendingIsInFlight'
  <2>1. /\ Cardinality(Keys(bpf_pending)) \in Nat
        /\ Cardinality(Keys(bpf_pending)) <= MaxPending
    BY <1>2, BlockIoAssumption, KeysOfTable DEF PendingIsInFlight
  <2>2. \/ Cardinality(Keys(bpf_pending')) = Cardinality(Keys(bpf_pending)) - 1
        \/ Cardinality(Keys(bpf_pending')) = Cardinality(Keys(bpf_pending))
    BY <1>2, BlockIoAssumption, KeysRemove
  <2>3. Cardinality(Keys(bpf_pending')) <= MaxPending
    BY <2>1, <2>2, BlockIoAssumption
  <2>4. ASSUME NEW q \in Keys(bpf_pending')
        PROVE  /\ in_flight'[q] # None /\ ~in_flight'[q].done
               /\ in_flight'[q].by = bpf_pending'[q].submitter_tid
               /\ in_flight'[q].key = bpf_pending'[q].key
    <3>1. q \in Keys(bpf_pending) /\ q # rq /\ q \in Rq
      BY <1>2, <1>3 DEF Keys
    <3> QED BY <1>2, <1>6, <3>1 DEF PendingIsInFlight
  <2> QED BY <2>3, <2>4 DEF PendingIsInFlight
<1>8. \A q \in Keys(bpf_pending') : bpf_pending'[q].submitter_tid \notin SelfThread
  BY <1>2, <1>3 DEF ProbeTypeOK, Keys
<1>9. requests \subseteq requests' /\ clock' \in Nat
  BY TsNat DEF Complete
<1> QED BY <1>2, <1>3, <1>6, <1>7, <1>8, <1>9

\* A request completes: its two edges are its submitter's, over its own time.
LEMMA CompleteIoInv ==
  ASSUME IoInv, CorrInv', NEW rq \in Rq, NEW cur \in Tid, NEW last \in BOOLEAN,
         NEW ts \in Ts, Complete(rq, cur, last, ts)
  PROVE  IoInv'
<1> DEFINE r == in_flight[rq]
           val == bpf_pending[rq]
<1>0. /\ DataOK /\ ProbeTypeOK /\ PendingIsInFlight /\ (Clean => Paired)
      /\ IoEdgesAreRequests
      /\ pending_io \in [IoKey -> PendingIo \cup {None}]
      /\ stats \in [Counter -> Nat] /\ drop_counter \in Nat
      /\ stats.io_userspace_pair_collision_count \in Nat
      /\ stats.io_orphan_complete_count \in Nat
  BY LawTypes DEF IoInv, CorrInv, CoreInv, DataOK, ProbeTypeOK
<1>1. /\ bpf_pending' \in [Rq -> PendingRq \cup {None}]
      /\ \A q \in Rq : q # rq => bpf_pending'[q] = bpf_pending[q]
      /\ in_flight' \in [Rq -> RqInFlight \cup {None}]
      /\ \A q \in Rq : q # rq => in_flight'[q] = in_flight[q]
      /\ Keys(bpf_pending') = Keys(bpf_pending) \ {rq}
      /\ PendingIsInFlight'
      /\ \A q \in Keys(bpf_pending') : bpf_pending'[q].submitter_tid \notin SelfThread
      /\ requests \subseteq requests' /\ clock' \in Nat
  BY <1>0, CompleteTables
<1>2. \A q \in Keys(bpf_pending') :
        /\ q \in Keys(bpf_pending) /\ q # rq /\ q \in Rq
        /\ bpf_pending'[q] = bpf_pending[q] /\ in_flight'[q] = in_flight[q]
  BY <1>0, <1>1, PendingTypes
<1>3. CASE val = None
  <2>1. UNCHANGED <<corrVars, bpf_pending, drop_counter>>
    BY <1>3 DEF Complete, handle_block_rq_complete
  <2>2. UNCHANGED <<pending_io, edges, stats>>
    BY <2>1 DEF corrVars, tables
  <2>3. ProbeTypeOK'
    BY <1>0, <1>1, <2>1, <2>2 DEF ProbeTypeOK
  <2>4. Clean' => Paired'
    BY <1>0, <1>2, <2>1, <2>2 DEF Clean, Paired
  <2>5. IoEdgesAreRequests'
    BY <1>0, <1>1, <2>1, <2>2 DEF IoEdgesAreRequests
  <2> QED BY <1>1, <2>3, <2>4, <2>5 DEF IoInv
<1>4. CASE val # None
  <2>1. Lost \/ (handle_io_complete(ts, val.key) /\ UNCHANGED drop_counter)
    BY <1>4 DEF Complete, handle_block_rq_complete
  <2>2. rq \in Keys(bpf_pending)
    BY <1>0, <1>4 DEF Keys, ProbeTypeOK
  <2>3. val.key \in IoKey /\ val.submitter_tid \in Thread \ SelfThread
    BY <1>0, <2>2, PendingTypes
  <2>4. r # None /\ ~r.done /\ r.by = val.submitter_tid /\ r.key = val.key
    BY <1>0, <2>2 DEF PendingIsInFlight
  <2>5. [key |-> r.key, by |-> r.by, issued |-> r.issued, completed |-> ts]
          \in requests'
    <3>1. r.by # None
      BY <2>3, <2>4, CorrelateAssumption DEF Tid
    <3> QED BY <2>4, <3>1 DEF Complete
  <2>6. CASE Lost
    <3>1. /\ UNCHANGED <<pending_io, edges, stats>>
          /\ drop_counter' = drop_counter + 1
      BY <2>6 DEF Lost, corrVars, tables
    <3>2. ~Clean'
      BY <1>0, <3>1 DEF Clean
    <3>3. ProbeTypeOK'
      BY <1>0, <1>1, <3>1 DEF ProbeTypeOK
    <3>4. IoEdgesAreRequests'
      BY <1>0, <3>1, <3>2 DEF IoEdgesAreRequests, Clean
    <3> QED BY <1>1, <3>2, <3>3, <3>4 DEF IoInv
  <2>7. CASE handle_io_complete(ts, val.key) /\ UNCHANGED drop_counter
    <3> DEFINE key == val.key
               pend == pending_io[key]
    <3>1. /\ pending_io' = [pending_io EXCEPT ![key] = None]
          /\ handle_io_complete(ts, key)
      BY <2>7 DEF handle_io_complete
    <3>2. /\ pending_io'[key] = None /\ DOMAIN pending_io' = IoKey
          /\ \A k \in IoKey : k # key => pending_io'[k] = pending_io[k]
      BY <1>0, <2>3, <3>1
    <3>3. PICK b \in Nat, c \in Nat :
            /\ c = Bump(~(pend # None))
            /\ stats' = Counted([events_processed |-> 1, edges_created |-> b,
                                 io_orphan_complete_count |-> c])
      <4>1. 2 * Bump(pend # None) \in Nat /\ Bump(~(pend # None)) \in Nat
        BY DEF Bump
      <4> QED BY <3>1, <4>1, Zenon DEF handle_io_complete
    <3>4. /\ stats'.io_userspace_pair_collision_count =
               stats.io_userspace_pair_collision_count
          /\ stats'.io_orphan_complete_count = stats.io_orphan_complete_count + c
      BY <1>0, <3>3, CountIoComplete
    <3>5. ProbeTypeOK'
      <4>1. \A k \in Keys(pending_io') : pending_io'[k].submitter_tid \notin SelfThread
        BY <1>0, <3>2 DEF ProbeTypeOK, Keys
      <4> QED BY <1>0, <1>1, <2>7, <4>1 DEF ProbeTypeOK
    <3>6. Clean' <=> Clean
      BY <2>7, <3>4 DEF Clean
    <3>7. Clean => /\ pend # None /\ pend.submitter_tid = val.submitter_tid
                   /\ pend.issue_ts_ns = r.issued
      BY <1>0, <2>2 DEF Paired
    <3>8. ASSUME Clean' PROVE Paired'
      <4>1. Paired /\ pend # None
        BY <1>0, <3>6, <3>7, <3>8
      <4>2. \A q \in Keys(bpf_pending) : q # rq =>
              bpf_pending[q].key # key /\ bpf_pending[q].key \in IoKey
        BY <1>0, <2>2, <4>1, PendingTypes DEF Paired
      <4>3. ASSUME NEW q \in Keys(bpf_pending')
            PROVE  /\ pending_io'[bpf_pending'[q].key] # None
                   /\ pending_io'[bpf_pending'[q].key].submitter_tid
                        = bpf_pending'[q].submitter_tid
                   /\ pending_io'[bpf_pending'[q].key].issue_ts_ns
                        = in_flight'[q].issued
        BY <1>2, <3>2, <4>1, <4>2 DEF Paired
      <4>4. ASSUME NEW k \in IoKey, pending_io'[k] # None
            PROVE  \E q \in Keys(bpf_pending') : bpf_pending'[q].key = k
        <5>1. k # key /\ pending_io[k] # None
          BY <3>2, <4>4
        <5>2. PICK q \in Keys(bpf_pending) : bpf_pending[q].key = k
          BY <4>1, <5>1 DEF Paired
        <5>3. q \in Keys(bpf_pending')
          BY <1>1, <5>1, <5>2
        <5> QED BY <1>2, <5>2, <5>3
      <4>5. ASSUME NEW p \in Keys(bpf_pending'), NEW q \in Keys(bpf_pending'),
                   bpf_pending'[p].key = bpf_pending'[q].key
            PROVE  p = q
        BY <1>2, <4>1, <4>5 DEF Paired
      <4>6. stats'.io_orphan_complete_count = 0
        <5>1. c = 0
          BY <3>3, <4>1 DEF Bump
        <5> QED BY <3>4, <4>1, <5>1 DEF Paired
      <4> QED BY <4>3, <4>4, <4>5, <4>6 DEF Paired
    <3>9. IoEdgesAreRequests'
      <4> SUFFICES ASSUME NEW i \in DOMAIN edges', edges'[i].dst = Disk
                   PROVE  /\ edges'[i].src \in Thread \ SelfThread
                          /\ Clean' => \E q \in requests' :
                               /\ q.by = edges'[i].src
                               /\ edges'[i].window = IoWindow(q.issued, q.completed)
        BY DEF IoEdgesAreRequests, Clean
      <4>1. CASE i \in DOMAIN edges /\ edges'[i] = edges[i]
        BY <1>0, <1>1, <3>6, <4>1 DEF IoEdgesAreRequests, Clean
      <4>2. CASE pend # None /\ edges'[i] = IoEdges(pend, ts)[1]
        <5>1. /\ edges'[i].src = pend.submitter_tid
              /\ edges'[i].window = IoWindow(pend.issue_ts_ns, ts)
          BY <4>2 DEF IoEdges
        <5>2. pend.submitter_tid \in Thread \ SelfThread
          <6>1. key \in Keys(pending_io) /\ pend \in PendingIo
            BY <1>0, <2>3, <4>2 DEF Keys
          <6> QED BY <1>0, <6>1 DEF ProbeTypeOK, PendingIo
        <5>3. ASSUME Clean'
              PROVE  \E q \in requests' :
                       /\ q.by = edges'[i].src
                       /\ edges'[i].window = IoWindow(q.issued, q.completed)
          BY <2>4, <2>5, <3>6, <3>7, <5>1, <5>3
        <5> QED BY <5>1, <5>2, <5>3
      <4>3. CASE pend # None /\ edges'[i] = IoEdges(pend, ts)[2]
        <5>1. edges'[i].dst = pend.submitter_tid
          BY <4>3 DEF IoEdges
        <5>2. pend.submitter_tid \in Thread
          BY <1>0, <2>3, <4>3 DEF PendingIo
        <5> QED BY <5>1, <5>2, CorrelateAssumption DEF Tid
      <4> QED BY <1>0, <2>3, <3>1, <4>1, <4>2, <4>3, IoEdgesAdded
    <3> QED BY <1>1, <3>5, <3>8, <3>9 DEF IoInv
  <2> QED BY <2>1, <2>6, <2>7
<1> QED BY <1>3, <1>4

\* The end of the stream changes no table, and no counter of the pairings.
LEMMA EndIoInv ==
  ASSUME IoInv, CorrInv', UNCHANGED probeVars,
         UNCHANGED <<pending_io, edges, stats>> \/ Return
  PROVE  IoInv'
<1>0. stats \in [Counter -> Nat] /\ ProbeTypeOK /\ PendingIsInFlight
      /\ (Clean => Paired) /\ IoEdgesAreRequests
  BY DEF IoInv, CorrInv, CoreInv, DataOK
<1>1. /\ UNCHANGED <<pending_io, edges>>
      /\ stats'.io_userspace_pair_collision_count =
           stats.io_userspace_pair_collision_count
      /\ stats'.io_orphan_complete_count = stats.io_orphan_complete_count
  BY <1>0 DEF Return, tables, Counter
<1>2. UNCHANGED <<clock, bpf_pending, drop_counter, in_flight, requests>>
  BY DEF probeVars
<1>3. ProbeTypeOK' /\ PendingIsInFlight'
  BY <1>0, <1>1, <1>2 DEF ProbeTypeOK, PendingIsInFlight
<1>4. Clean' => Paired'
  BY <1>0, <1>1, <1>2 DEF Clean, Paired
<1>5. IoEdgesAreRequests'
  BY <1>0, <1>1, <1>2 DEF IoEdgesAreRequests
<1> QED BY <1>3, <1>4, <1>5 DEF IoInv

\* Every step of the probes and of the correlator
LEMMA NextIoInv == IoInv /\ [IoNext]_vars => IoInv'
<1> SUFFICES ASSUME IoInv, [IoNext]_vars PROVE IoInv'
  OBVIOUS
<1>1. [Next]_corrVars
  BY CorrelatorSteps DEF IoInv, vars
<1>2. CorrInv'
  BY <1>1, NextCorrInv DEF IoInv
<1>3. CASE UNCHANGED vars
  BY <1>2, <1>3, EndIoInv DEF vars, corrVars, tables
<1>4. ASSUME NEW rq \in Rq, NEW ts \in Ts, NEW key \in IoKey,
             NEW task \in Thread \cup Kthread, Issue(rq, key, task, ts)
      PROVE  IoInv'
  BY <1>2, <1>4, IssueIoInv
<1>5. ASSUME NEW rq \in Rq, NEW ts \in Ts, NEW cur \in Tid, NEW last \in BOOLEAN,
             Complete(rq, cur, last, ts)
      PROVE  IoInv'
  BY <1>2, <1>5, CompleteIoInv
<1>6. CASE (EndOfEvents \/ Return) /\ UNCHANGED probeVars
  BY <1>2, <1>6, EndIoInv DEF EndOfEvents, tables
<1> QED BY <1>3, <1>4, <1>5, <1>6 DEF IoNext

\* The inductive invariant holds in every state.
THEOREM BlockIoInvariant == IoSpec => []IoInv
BY InitIoInv, NextIoInv, PTL DEF IoSpec

\* The correlator fed by the probes is the correlator of Correlate, on some of
\* its streams: what is proved of it for every stream holds here.
THEOREM ProbesFeedTheCorrelator == IoSpec => Spec
<1>1. IoInit => Init
  BY DEF IoInit
<1>2. IoInv /\ [IoNext]_vars => [Next]_corrVars
  BY CorrelatorSteps DEF IoInv, vars
<1> QED BY <1>1, <1>2, BlockIoInvariant, PTL DEF IoSpec, Spec

\* The pending_io map of the probes never holds more than its limit, and only
\* entries of requests in flight, each with the thread that issued it last,
\* kernel threads and wperf aside: handle_block_rq_complete gives every entry
\* back, whether its event is emitted or lost.
THEOREM PendingAreInFlight == IoSpec => []PendingIsInFlight
<1>1. IoInv => PendingIsInFlight
  BY DEF IoInv
<1> QED BY <1>1, BlockIoInvariant, PTL

\* An edge to the disk is charged to the thread that issued the request last,
\* kernel threads and wperf aside, over the time from that issue to the first
\* completion after it, unless an event was lost or two requests collided.
THEOREM IoEdgesAreOfRequests == IoSpec => []IoEdgesAreRequests
<1>1. IoInv => IoEdgesAreRequests
  BY DEF IoInv
<1> QED BY <1>1, BlockIoInvariant, PTL

\* The pairing by address in the kernel and the pairing by (dev, sector,
\* nr_sector) in userspace agree unless an event was lost or two requests
\* collided.
THEOREM PairingsDoAgree == IoSpec => []PairingsAgree
<1>1. IoInv => PairingsAgree
  BY PendingTypes DEF IoInv, PairingsAgree, Clean, Paired
<1> QED BY <1>1, BlockIoInvariant, PTL
=============================================================================
