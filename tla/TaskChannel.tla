----------------------------- MODULE TaskChannel -----------------------------
(***************************************************************************)
(* What every thread pool of the repository promises its clients, with no  *)
(* threads, locks or condition variables in it: a task is submitted once,  *)
(* tasks are started in the order in which they were submitted, and a      *)
(* started task is executed and finished exactly once.                     *)
(***************************************************************************)
EXTENDS Sequences, FiniteSets

CONSTANT Tasks

VARIABLES pending,   \* submitted and not yet started, oldest first
          running,   \* started and not yet finished
          finished   \* executed to the end

vars == <<pending, running, finished>>

Queued == {pending[i] : i \in DOMAIN pending}

TypeOK ==
  /\ pending \in Seq(Tasks)
  /\ running \in SUBSET Tasks
  /\ finished \in SUBSET Tasks

Init ==
  /\ pending = <<>>
  /\ running = {}
  /\ finished = {}

Submit(t) ==
  /\ t \notin Queued \cup running \cup finished
  /\ pending' = Append(pending, t)
  /\ UNCHANGED <<running, finished>>

Start ==
  /\ pending # <<>>
  /\ running' = running \cup {Head(pending)}
  /\ pending' = Tail(pending)
  /\ UNCHANGED finished

Finish(t) ==
  /\ t \in running
  /\ running' = running \ {t}
  /\ finished' = finished \cup {t}
  /\ UNCHANGED pending

Next ==
  \/ \E t \in Tasks : Submit(t) \/ Finish(t)
  \/ Start

Spec == Init /\ [][Next]_vars
=============================================================================
