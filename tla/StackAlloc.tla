----------------------------- MODULE StackAlloc ------------------------------
(***************************************************************************)
(* The stack of MemoryPool/*/StackAlloc.h on top of the memory pool, as    *)
(* MemoryPool/src/test.cpp uses it.  A node is two words of a slot: its    *)
(* data, which the pool overwrites with the next pointer when the node is  *)
(* given back, and prev.                                                   *)
(***************************************************************************)
EXTENDS MemoryPool, Sequences

VARIABLES head_,
          clearing,  \* clear is in its loop; curr of the code is head_
          used       \* history: values pushed

stackVars == <<poolVars, head_, clearing, used>>

ASSUME NodeAssumption == SlotSize >= 2 * PtrSize

StackType ==
  /\ PoolType
  /\ head_ \in Words
  /\ clearing \in BOOLEAN
  /\ used \in SUBSET Values

StackInit ==
  /\ PoolInit
  /\ head_ = 0
  /\ clearing = FALSE
  /\ used = {}

PrevOf(p) == p + PtrSize

(* Each value is pushed once, so that the runs can tell them apart.        *)
Node(m, p, v) == [construct(m, p, v) EXCEPT ![p] = v, ![PrevOf(p)] = head_]

push(v) ==
  /\ ~ clearing
  /\ v \notin used
  /\ \E r \in allocate :
       /\ Allocated(r, Node(r.mem, r.slot, v))
       /\ head_' = r.slot
  /\ used' = used \cup {v}
  /\ UNCHANGED clearing

(* pop and each round of clear save prev before the node is given back.    *)
Mut_Saved == mem'[head_]
Saved == mem[PrevOf(head_)]

Unlink ==
  /\ head_ # 0
  /\ deallocate(head_)
  /\ head_' = Saved
  /\ UNCHANGED used

pop == ~ clearing /\ Unlink /\ UNCHANGED clearing

clear ==
  /\ ~ clearing
  /\ clearing' = TRUE
  /\ UNCHANGED <<poolVars, head_, used>>

ClearStep == clearing /\ Unlink /\ UNCHANGED clearing

ClearEnds ==
  /\ clearing
  /\ head_ = 0
  /\ clearing' = FALSE
  /\ UNCHANGED <<poolVars, head_, used>>

StackNext ==
  \/ \E v \in Values : push(v)
  \/ pop \/ clear \/ ClearStep \/ ClearEnds

-----------------------------------------------------------------------------
(* The nodes from head_ on, at most one for each slot.                     *)
Nodes ==
  LET w[k \in 0 .. MaxSlots] ==
        IF k = 0 THEN head_
        ELSE IF w[k - 1] \in Words \ {0} THEN mem[PrevOf(w[k - 1])] ELSE 0
      n == Cardinality({k \in 0 .. MaxSlots : w[k] # 0})
  IN  [i \in 1 .. n |-> w[i - 1]]

(* The nodes of the stack are the slots that the stack holds: no slot is   *)
(* lost, given back twice or given back while it is in the stack.          *)
NodesAreHeld == StackType /\ Range(Nodes) = inUse

(* The memory pool's arithmetic on addresses is right, the free list and   *)
(* the block list kept in the managed memory are intact whatever the       *)
(* client writes into its slots, and the nodes of the stack are exactly    *)
(* the slots it holds.                                                     *)
MemorySound == SlotsSound /\ ListsIntact /\ NodesAreHeld

(* In spite of the reuse of a node's first word for the free list, the     *)
(* stack returns what was pushed, last in, first out.                      *)
Abs == INSTANCE AbstractStack
         WITH stack <- [i \in DOMAIN Nodes |-> mem[Nodes[i]]]
ImplementsStack == Abs!Spec

(* clear ends, and with an empty stack.                                    *)
ClearTerminates == clearing ~> ~ clearing /\ head_ = 0
=============================================================================
