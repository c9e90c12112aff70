---------------------------- MODULE MCCorrelate ----------------------------
(***************************************************************************)
(* Correlate for TLC.  Time is scaled: NsPerMs, the futex window and the   *)
(* spurious threshold are small numbers in the proportions that matter.    *)
(***************************************************************************)
EXTENDS Correlate, TLC

ThreadSymmetry == Permutations(Thread)
=============================================================================
