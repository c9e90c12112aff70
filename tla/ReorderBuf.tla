----------------------------- MODULE ReorderBuf -----------------------------
(***************************************************************************)
(* ReorderBuf (src/transport/reorder.rs): a min-heap that holds events     *)
(* back until they are window_ns older than the newest one pushed.         *)
(*                                                                         *)
(* push inserts and then flush_expired pops one event per step; drain pops *)
(* the rest.  The heap is a set, and popping takes any of its oldest       *)
(* events.                                                                 *)
(***************************************************************************)
EXTENDS Integers, Sequences

CONSTANTS
  window_ns,
  MaxTs,     \* bound: largest timestamp
  MaxEvents  \* bound: number of events pushed

ASSUME ReorderBufAssumption ==
  window_ns \in Nat /\ MaxTs \in Nat /\ MaxEvents \in Nat

VARIABLES
  heap,
  newest_ts,
  mode,    \* "idle", or in flush_expired, or in drain
  out,     \* what the callback was given, in order
  pushed,  \* history: number of events pushed
  late     \* history: an event was pushed more than window_ns behind newest_ts

bufVars == <<heap, newest_ts, mode, pushed, late>>
reorderVars == <<bufVars, out>>
-----------------------------------------------------------------------------
Ts    == 0 .. MaxTs
Event == [ts : Ts, id : 1 .. MaxEvents]

ReorderInit ==
  /\ heap = {}
  /\ newest_ts = 0
  /\ mode = "idle"
  /\ out = << >>
  /\ pushed = 0
  /\ late = FALSE

\* Mutant: the window is one nanosecond too short.
CutoffShort == IF newest_ts >= window_ns THEN newest_ts - window_ns + 1 ELSE 0

\* newest_ts.saturating_sub(window_ns)
Cutoff == IF newest_ts >= window_ns THEN newest_ts - window_ns ELSE 0

Oldest(e) == e \in heap /\ \A f \in heap : e.ts <= f.ts

push(e) ==
  /\ mode = "idle"
  /\ newest_ts' = IF e.ts > newest_ts THEN e.ts ELSE newest_ts
  /\ heap' = heap \cup {e}
  /\ mode' = "flush"
  /\ pushed' = pushed + 1
  /\ late' = (late \/ e.ts + window_ns < newest_ts)

\* Mutant: the event is looked at and not popped.
flush_expired_peeks(e) ==
  /\ mode = "flush"
  /\ Oldest(e) /\ e.ts <= Cutoff
  /\ UNCHANGED bufVars

\* One turn of the loop of flush_expired: e is popped and handed on ...
flush_expired(e) ==
  /\ mode = "flush"
  /\ Oldest(e) /\ e.ts <= Cutoff
  /\ heap' = heap \ {e}
  /\ UNCHANGED <<newest_ts, mode, pushed, late>>

\* ... until the oldest one is inside the window.
flush_done ==
  /\ mode = "flush"
  /\ \A e \in heap : e.ts > Cutoff
  /\ mode' = "idle"
  /\ UNCHANGED <<heap, newest_ts, pushed, late>>

drain ==
  /\ mode = "idle"
  /\ mode' = "drain"
  /\ UNCHANGED <<heap, newest_ts, pushed, late>>

drain_pop(e) ==
  /\ mode = "drain"
  /\ Oldest(e)
  /\ heap' = heap \ {e}
  /\ UNCHANGED <<newest_ts, mode, pushed, late>>

\* newest_ts is reset, so the buffer could be used again; the recorder does not.
drain_done ==
  /\ mode = "drain"
  /\ heap = {}
  /\ newest_ts' = 0
  /\ mode' = "drained"
  /\ UNCHANGED <<heap, pushed, late>>
-----------------------------------------------------------------------------
\* A callback that only collects
ReorderNext ==
  \/ /\ pushed < MaxEvents
     /\ \E ts \in Ts : push([ts |-> ts, id |-> pushed + 1])
     /\ UNCHANGED out
  \/ \E e \in heap : /\ flush_expired(e) \/ drain_pop(e)
                     /\ out' = Append(out, e)
  \/ (flush_done \/ drain \/ drain_done) /\ UNCHANGED out

ReorderSpec == ReorderInit /\ [][ReorderNext]_reorderVars
-----------------------------------------------------------------------------
\* Type invariant of the buffer
ReorderTypeOK ==
  /\ heap \subseteq Event
  /\ newest_ts \in Ts
  /\ mode \in {"idle", "flush", "drain", "drained"}
  /\ out \in Seq(Event)
  /\ pushed \in 0 .. MaxEvents
  /\ late \in BOOLEAN

Sorted(s) == \A i, j \in DOMAIN s : i < j => s[i].ts <= s[j].ts

\* If no event is pushed more than window_ns behind the newest one, push and
\* drain hand the events on in timestamp order.
InWindowMeansSorted == ~late => Sorted(out)

\* Nothing is duplicated: what was handed on is no longer held back.
HeldOrHandedOn ==
  /\ \A i \in DOMAIN out : out[i] \notin heap
  /\ \A i, j \in DOMAIN out : i # j => out[i] # out[j]
=============================================================================
