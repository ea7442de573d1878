---------------------------- MODULE MCThreadPoolC ----------------------------
(* Instances of ThreadPoolC for TLC.                                       *)
EXTENDS ThreadPoolC, TLC

Symmetry == Permutations(Tasks)
=============================================================================
