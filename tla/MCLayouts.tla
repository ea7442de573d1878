----------------------------- MODULE MCLayouts ------------------------------
(* The serialisation stream and the stack on the memory pool lay data out  *)
(* in bytes and words of their own.  They share nothing; a behaviour is    *)
(* one of one of them, chosen by `which'.  The values the stream writes    *)
(* are chosen so that their bytes look like tags and like lengths.         *)
EXTENDS DataStream, StackAlloc

CONSTANT Kinds   \* the types the program uses

One == <<1, 0, 0, 0>>
Three == <<3, 0, 0, 0>>

Samples ==
  {[type |-> t, val |-> [i \in 1 .. Width[t] |-> b]] : t \in Scalars, b \in {0, 7}}
  \cup {[type |-> "string", val |-> v] : v \in {<<>>, <<7>>, <<3, 1, 0>>}}
  \cup {[type |-> t, val |-> v] : t \in {"vector", "list", "set"},
                                 v \in {<<>>, <<One>>, <<One, Three>>}}
  \cup {[type |-> "map", val |-> v] : v \in {<<>>, <<One, Three, Three, One>>}}

KindItems == {x \in Samples : x.type \in Kinds}

VARIABLE which

Init ==
  /\ which \in {"stream", "stack"}
  /\ StreamInit /\ StackInit
  /\ which = "stream" => Range(mem) = {CHOOSE v \in Values : TRUE}

Next ==
  /\ which' = which
  /\ \/ which = "stream" /\ StreamNext /\ UNCHANGED stackVars
     \/ which = "stack" /\ StackNext /\ UNCHANGED streamVars

(* display and clear, once called, run on.                                 *)
Spec ==
  /\ Init /\ [][Next]_<<which, streamVars, stackVars>>
  /\ WF_streamVars(which = "stream" /\ DisplayStep /\ UNCHANGED stackVars)
  /\ WF_stackVars(which = "stack" /\ ClearStep /\ UNCHANGED streamVars)
  /\ WF_stackVars(which = "stack" /\ ClearEnds /\ UNCHANGED streamVars)

-----------------------------------------------------------------------------
(* The loops over the layouts end: display at the end of the buffer unless *)
(* a container is in it, clear with an empty stack.                        *)
LoopsEnd == DisplayEnds /\ ClearTerminates
=============================================================================
