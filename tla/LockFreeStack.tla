---------------------------- MODULE LockFreeStack ----------------------------
(***************************************************************************)
(* The lock-free stack of compare_exchange_weak_cpp/(thread stack)CAS.cpp  *)
(* and of the atomics chapter (atomic_no_lock_demo09.cpp): push and pop    *)
(* are loops around a compare-and-swap of head, and pop deletes the node   *)
(* it unlinked.                                                            *)
(*                                                                         *)
(* An action is one access to shared memory.  The heap is explicit: new    *)
(* returns any address that is not in use, delete makes it available       *)
(* again.  A spurious failure of compare_exchange_weak reloads the value   *)
(* it compared with, so it changes nothing and is a stuttering step; the   *)
(* weak and the strong variant are the same model.                         *)
(*                                                                         *)
(* Pushers and Poppers say which threads call which operation.  The        *)
(* programs in the repository use: many pushers, then the main thread pops *)
(* (demo09, and every destructor); producers and consumers (simple_test1); *)
(* threads that each push and pop (simple_test).                           *)
(*                                                                         *)
(* Nothing keeps a pop from deleting a node that another pop has loaded as *)
(* its old_head.  stale records that this has happened.  What follows is   *)
(* undefined: a deleted node reads as anything, and a node at the same     *)
(* address may pass for the one that was loaded.                           *)
(***************************************************************************)
EXTENDS Integers, FiniteSets, Sequences, SequencesExt

CONSTANTS Threads, Pushers, Poppers,
          Addr, Null,
          Values       \* bound: the values pushed, each once

ASSUME ThreadsAssumption == Pushers \subseteq Threads /\ Poppers \subseteq Threads
ASSUME NullAssumption == Null \notin Addr
ASSUME AddrAssumption == IsFiniteSet(Addr)

VARIABLES
  head,     \* std::atomic<Node*> head
  mem,      \* the heap: for each address its node, live from new to delete
  pc,
  ref,      \* new_node of a push, old_head of a pop
  nxt,      \* old_head->next, read before the compare-and-swap of a pop
  chain,    \* history: addresses in the stack in the order of their swaps
  used,     \* history: values passed to push
  popped,   \* history: how often pop returned each value: 0, 1 or more (2)
  stale     \* history: a node was deleted while another pop had it loaded

vars == <<head, mem, pc, ref, nxt, chain, used, popped, stale>>

Pointer == Addr \cup {Null}
Node == [live : BOOLEAN, data : Values, next : Pointer]

TypeOK ==
  /\ head \in Pointer
  /\ mem \in [Addr -> Node]
  /\ pc \in [Threads -> {"idle", "load", "cas", "next", "popcas", "data", "delete"}]
  /\ ref \in [Threads -> Pointer]
  /\ nxt \in [Threads -> Pointer]
  /\ chain \in Seq(Addr)
  /\ used \in SUBSET Values
  /\ popped \in [Values -> 0 .. 2]
  /\ stale \in BOOLEAN
  /\ \A t \in Threads : pc[t] # "idle" => ref[t] # Null

(* new sets a node before anything reads it, so what is in the heap at     *)
(* first does not matter.                                                  *)
Init ==
  /\ head = Null
  /\ \E v \in Values :
       mem = [a \in Addr |-> [live |-> FALSE, data |-> v, next |-> Null]]
  /\ pc = [t \in Threads |-> "idle"]
  /\ ref = [t \in Threads |-> Null]
  /\ nxt = [t \in Threads |-> Null]
  /\ chain = <<>>
  /\ used = {}
  /\ popped = [v \in Values |-> 0]
  /\ stale = FALSE

Step(t, from, to) == pc[t] = from /\ pc' = [pc EXCEPT ![t] = to]

-----------------------------------------------------------------------------
(* push                                                                    *)
PushNew(t) ==
  /\ t \in Pushers
  /\ Step(t, "idle", "load")
  /\ \E v \in Values \ used, a \in {b \in Addr : ~ mem[b].live} :
       /\ mem' = [mem EXCEPT ![a] = [live |-> TRUE, data |-> v, next |-> Null]]
       /\ ref' = [ref EXCEPT ![t] = a]
       /\ used' = used \cup {v}
  /\ UNCHANGED <<head, nxt, chain, popped, stale>>

PushLoad(t) ==
  /\ Step(t, "load", "cas")
  /\ mem' = [mem EXCEPT ![ref[t]].next = head]
  /\ UNCHANGED <<head, ref, nxt, chain, used, popped, stale>>

Mut_PushFails(t) ==
  /\ Step(t, "cas", "idle")
  /\ head # mem[ref[t]].next
  /\ UNCHANGED <<head, mem, ref, nxt, chain, used, popped, stale>>

PushFails(t) ==
  /\ pc[t] = "cas"
  /\ head # mem[ref[t]].next
  /\ mem' = [mem EXCEPT ![ref[t]].next = head]
  /\ UNCHANGED <<head, pc, ref, nxt, chain, used, popped, stale>>

Mut_PushExpects(t) == TRUE
PushExpects(t) == head = mem[ref[t]].next

PushSwaps(t) ==
  /\ Step(t, "cas", "idle")
  /\ PushExpects(t)
  /\ head' = ref[t]
  /\ chain' = <<ref[t]>> \o chain
  /\ UNCHANGED <<mem, ref, nxt, used, popped, stale>>

-----------------------------------------------------------------------------
(* pop.  With a null old_head it returns false.                            *)
Loaded(t) ==
  /\ ref' = [ref EXCEPT ![t] = head]
  /\ pc' = [pc EXCEPT ![t] = IF head = Null THEN "idle" ELSE "next"]

PopLoad(t) ==
  /\ t \in Poppers
  /\ pc[t] = "idle"
  /\ Loaded(t)
  /\ UNCHANGED <<head, mem, nxt, chain, used, popped, stale>>

(* Reading a deleted node may give any pointer.                            *)
PopReadsNext(t) ==
  /\ Step(t, "next", "popcas")
  /\ \E p \in IF mem[ref[t]].live THEN {mem[ref[t]].next} ELSE Pointer :
       nxt' = [nxt EXCEPT ![t] = p]
  /\ UNCHANGED <<head, mem, ref, chain, used, popped, stale>>

PopFails(t) ==
  /\ pc[t] = "popcas"
  /\ head # ref[t]
  /\ Loaded(t)
  /\ UNCHANGED <<head, mem, nxt, chain, used, popped, stale>>

NewHead(t) == nxt[t]

PopSwaps(t) ==
  /\ Step(t, "popcas", "data")
  /\ head = ref[t]
  /\ head' = NewHead(t)
  /\ chain' = SubSeq(chain, 2, Len(chain))
  /\ UNCHANGED <<mem, ref, nxt, used, popped, stale>>

PopReadsData(t) ==
  /\ Step(t, "data", "delete")
  /\ \E v \in IF mem[ref[t]].live THEN {mem[ref[t]].data} ELSE Values :
       popped' = [popped EXCEPT ![v] = IF @ = 0 THEN 1 ELSE 2]
  /\ UNCHANGED <<head, mem, ref, nxt, chain, used, stale>>

Mut_Deleted(t) == mem
Deleted(t) == [mem EXCEPT ![ref[t]].live = FALSE]

(* Another pop has loaded the node that pop deletes.                       *)
LoadedElsewhere(t) ==
  \E u \in Threads \ {t} : pc[u] \in {"next", "popcas"} /\ ref[u] = ref[t]

PopDeletes(t) ==
  /\ Step(t, "delete", "idle")
  /\ mem' = Deleted(t)
  /\ stale' = (stale \/ LoadedElsewhere(t))
  /\ UNCHANGED <<head, ref, nxt, chain, used, popped>>

-----------------------------------------------------------------------------
ThreadStep(t) ==
  \/ PushNew(t) \/ PushLoad(t) \/ PushFails(t) \/ PushSwaps(t)
  \/ PopLoad(t) \/ PopReadsNext(t) \/ PopFails(t) \/ PopSwaps(t)
  \/ PopReadsData(t) \/ PopDeletes(t)

Next == \E t \in Threads : ThreadStep(t)

Spec == Init /\ [][Next]_vars

(* The operating system runs every thread.                                 *)
FairSpec == Spec /\ \A t \in Threads : WF_vars(ThreadStep(t))

-----------------------------------------------------------------------------
Owned(t) == pc[t] \in {"load", "cas", "data", "delete"}

(* The memory reachable from head is the stack: its nodes are live,        *)
(* distinct and linked in the order in which their pushes took effect, and *)
(* the last one ends the list.                                             *)
StackIsLinked ==
  /\ head = IF chain = <<>> THEN Null ELSE chain[1]
  /\ IsInjective(chain)
  /\ \A i \in 1 .. Len(chain) :
       /\ mem[chain[i]].live
       /\ mem[chain[i]].next = IF i = Len(chain) THEN Null ELSE chain[i + 1]

(* No thread dereferences or deletes a node that another thread deleted.   *)
NoUseAfterFree ==
  \A t \in Threads : pc[t] \in {"next", "data", "delete"} => mem[ref[t]].live

(* Every live node is in the stack or belongs to exactly one push or pop   *)
(* under way: nothing leaks, and no node is given to two threads.          *)
NodesAreOwned ==
  \A a \in Addr : mem[a].live =>
    \/ /\ a \in ToSet(chain)
       /\ \A t \in Threads : Owned(t) => ref[t] # a
    \/ \E t \in Threads :
         /\ Owned(t) /\ ref[t] = a
         /\ \A u \in Threads \ {t} : Owned(u) => ref[u] # a

(* pop never returns a value twice, nor one that is still in the stack.    *)
PoppedOnce ==
  /\ \A v \in Values : popped[v] <= IF v \in used THEN 1 ELSE 0
  /\ \A i \in 1 .. Len(chain) : popped[mem[chain[i]].data] = 0

Sound == StackIsLinked /\ NoUseAfterFree /\ NodesAreOwned /\ PoppedOnce

(* However many threads push and pop, and although the allocator reuses    *)
(* addresses, the heap is sound (the list is linked and no node is lost,   *)
(* shared, used after its deletion or popped twice) until a pop deletes a  *)
(* node that another pop has loaded: no other schedule of push and pop     *)
(* goes wrong.                                                             *)
HeapSound == TypeOK /\ (stale \/ Sound)

(* Until then the list in memory implements the abstract stack: a push     *)
(* takes effect when its swap succeeds, a pop when its swap does, and no   *)
(* other step changes what is reachable from head.                         *)
Walk ==
  LET w[k \in 0 .. Cardinality(Addr)] ==
        IF k = 0 THEN head
        ELSE IF w[k - 1] = Null THEN Null ELSE mem[w[k - 1]].next
  IN  w
Depth == Cardinality({k \in 0 .. Cardinality(Addr) : Walk[k] # Null})
InFlight ==
  {mem[ref[t]].data : t \in {u \in Threads : pc[u] \in {"load", "cas"}}}
Abs == INSTANCE AbstractStack
         WITH stack <- [i \in 1 .. Depth |-> mem[Walk[i - 1]].data],
              used <- used \ InFlight
ImplementsStack == Abs!Init /\ [][stale \/ Abs!Next]_Abs!vars

(* Until then threads that keep popping get every value that is pushed.    *)
EveryValueIsPopped == \A v \in Values : v \in used ~> (stale \/ popped[v] = 1)
=============================================================================
