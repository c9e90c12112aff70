------------------------------ MODULE EventLog ------------------------------
(***************************************************************************)
(* What a .wperf file promises, without buffers, offsets or headers: a log *)
(* of events that only grows, of which a reader sees some prefix at every  *)
(* moment, and that is sealed once, when the reader sees all of it.        *)
(***************************************************************************)
EXTENDS Naturals

CONSTANTS
  NoCount,   \* the file has no metadata
  MaxEvents  \* bound: number of events written

VARIABLES
  accepted,    \* number of events the writer returned Ok for
  recoverable, \* number of events a reader of the file gets
  sealed       \* the EVENT_COUNT in the footer, or NoCount

logVars == <<accepted, recoverable, sealed>>

Init == accepted = 0 /\ recoverable = 0 /\ sealed = NoCount

\* An event is accepted; it need not be recoverable yet.
Accept ==
  /\ sealed = NoCount
  /\ accepted < MaxEvents
  /\ accepted' = accepted + 1
  /\ UNCHANGED <<recoverable, sealed>>

\* Accepted events become recoverable, in the order they were accepted.
Persist ==
  /\ sealed = NoCount
  /\ recoverable' \in recoverable + 1 .. accepted
  /\ UNCHANGED <<accepted, sealed>>

\* The file is finished: its footer counts what its reader gets.
Seal ==
  /\ sealed = NoCount
  /\ recoverable' = accepted
  /\ sealed' = accepted
  /\ UNCHANGED accepted

Next == Accept \/ Persist \/ Seal
Spec == Init /\ [][Next]_logVars
=============================================================================
