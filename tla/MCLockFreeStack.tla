--------------------------- MODULE MCLockFreeStack ---------------------------
(* The instance of LockFreeStack for TLC.                                  *)
EXTENDS LockFreeStack

(* Once a pop has deleted a node that another has loaded the program's     *)
(* state is undefined: TLC goes as far as that step.                       *)
Defined == ~ stale
=============================================================================
