----------------------------- MODULE MCWprfFile -----------------------------
(***************************************************************************)
(* WprfFile for TLC: events all of whose fields differ, most of which need *)
(* more than one byte.                                                     *)
(***************************************************************************)
EXTENDS WprfFile

MCEvent(i) ==
  [timestamp_ns |-> Base * Base + i, pid |-> Base + i, tid |-> 2 * Base + i,
   prev_tid |-> 3 * Base + i, next_tid |-> 4 * Base + i,
   prev_pid |-> 5 * Base + i, next_pid |-> 6 * Base + i, cpu |-> Base + 1 + i,
   event_type |-> 1 + (i % 7), prev_state |-> 2, flags |-> 7 * Base + i]

MCTrace == [i \in 1 .. 9 |-> MCEvent(i)]
MCShortTrace == [i \in 1 .. 5 |-> MCEvent(i)]
=============================================================================
