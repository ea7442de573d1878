--------------------------- MODULE MCThreadPoolCpp ---------------------------
(* Instances of ThreadPoolCpp for TLC.                                     *)
EXTENDS ThreadPoolCpp, TLC

Symmetry == Permutations(Tasks)
=============================================================================
