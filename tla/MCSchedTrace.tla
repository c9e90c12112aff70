---------------------------- MODULE MCSchedTrace ----------------------------
(* SchedTrace for TLC. *)
EXTENDS SchedTrace, TLC

\* wperf's own thread is told from the others.
TraceSymmetry == Permutations(Thread \ SelfThread) \cup Permutations(Cpu)
=============================================================================
