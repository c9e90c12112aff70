------------------------------ MODULE MCBlockIo ------------------------------
(* BlockIo for TLC. *)
EXTENDS BlockIo, TLC

IoSymmetry ==
  Permutations(Rq) \cup Permutations(Thread \ SelfThread) \cup Permutations(IoKey)
=============================================================================
