--------------------------- MODULE MCEpollReactor ----------------------------
(* Instances of EpollReactor for TLC.                                      *)
EXTENDS EpollReactor, TLC

Symmetry == Permutations(Clients)
=============================================================================
