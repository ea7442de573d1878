---------------------------- MODULE AbstractStack ----------------------------
(***************************************************************************)
(* What a concurrent stack promises: every push and every pop takes effect *)
(* in one step, last in, first out, and a value is popped once.            *)
(***************************************************************************)
EXTENDS Sequences

CONSTANT Values

VARIABLES stack,   \* first element is the top
          used     \* values that were pushed

vars == <<stack, used>>

Init == stack = <<>> /\ used = {}

Push(v) ==
  /\ v \in Values \ used
  /\ stack' = <<v>> \o stack
  /\ used' = used \cup {v}

Pop ==
  /\ stack # <<>>
  /\ stack' = Tail(stack)
  /\ UNCHANGED used

Next == Pop \/ \E v \in Values : Push(v)

Spec == Init /\ [][Next]_vars
=============================================================================
