---------------------------- MODULE MCConnectPool ----------------------------
(* Instances of ConnectPool for TLC.                                       *)
EXTENDS ConnectPool, TLC

Symmetry == Permutations(Conns) \cup Permutations(Clients)
=============================================================================
