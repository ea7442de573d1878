--------------------------- MODULE ContainerProofs ---------------------------
(***************************************************************************)
(* TLAPS proofs about LockFreeStack, for any threads that push and pop,    *)
(* any addresses and any values; about Logger and Json; and about the      *)
(* vectors MyVector and StdVector, for any number of them, any elements    *)
(* and any sequence of calls.                                              *)
(***************************************************************************)
EXTENDS StdVector, MyVector, Json, Logger, LockFreeStack, ProofLemmas

(* Who owns a node: the stack, or one operation under way.                 *)
Ownership ==
  /\ \A t \in Threads : Owned(t) => mem[ref[t]].live /\ ref[t] \notin ToSet(chain)
  /\ \A t, u \in Threads : Owned(t) /\ Owned(u) /\ ref[t] = ref[u] => t = u
  /\ \A a \in Addr : mem[a].live =>
       a \in ToSet(chain) \/ \E t \in Threads : Owned(t) /\ ref[t] = a

(* The node a pop has loaded is in the stack, or is being returned by the  *)
(* pop that unlinked it; what was read as its next node still is.          *)
Returning == {ref[t] : t \in {u \in Threads : pc[u] \in {"data", "delete"}}}
Loadable == ToSet(chain) \cup Returning
PopsAreCurrent ==
  \A t \in Threads :
    /\ pc[t] \in {"next", "popcas"} => ref[t] \in Loadable
    /\ pc[t] = "popcas" => nxt[t] = mem[ref[t]].next

(* The nodes whose values were pushed and not yet returned.                *)
Holders ==
  ToSet(chain) \cup
    {ref[t] : t \in {u \in Threads : pc[u] \in {"load", "cas", "data"}}}

ValuesOnce ==
  /\ \A a \in Holders : mem[a].data \in used /\ popped[mem[a].data] = 0
  /\ \A a, b \in Holders : mem[a].data = mem[b].data => a = b
  /\ \A v \in Values : popped[v] = 0 \/ (popped[v] = 1 /\ v \in used)

Orderly == StackIsLinked /\ Ownership /\ PopsAreCurrent /\ ValuesOnce

IInv == TypeOK /\ (stale \/ Orderly)

-----------------------------------------------------------------------------
(* A thread that is pushing or popping has an address.                     *)
LEMMA Refs ==
  ASSUME TypeOK, NEW t \in Threads, pc[t] # "idle"
  PROVE  ref[t] \in Addr
  BY DEF TypeOK, Pointer

LEMMA ChainSet ==
  ASSUME TypeOK
  PROVE  /\ chain \in Seq(Addr) /\ Len(chain) \in Nat /\ DOMAIN chain = 1 .. Len(chain)
         /\ ToSet(chain) = {chain[i] : i \in 1 .. Len(chain)}
         /\ ToSet(chain) \in SUBSET Addr
  BY DEF TypeOK, ToSet

(* What a push and a pop do to the set of the nodes in the stack.          *)
LEMMA ChainPush ==
  ASSUME TypeOK, NEW a \in Addr, chain' = <<a>> \o chain
  PROVE  /\ chain' \in Seq(Addr) /\ Len(chain') = Len(chain) + 1
         /\ chain'[1] = a /\ chain' # <<>>
         /\ \A i \in 2 .. Len(chain') : i - 1 \in 1 .. Len(chain) /\ chain'[i] = chain[i - 1]
         /\ ToSet(chain') = ToSet(chain) \cup {a}
  <1> DEFINE s == <<a>> \o chain
  <1>1. /\ s \in Seq(Addr) /\ Len(chain) \in Nat /\ Len(s) = Len(chain) + 1
        /\ DOMAIN s = 1 .. (Len(chain) + 1) /\ DOMAIN chain = 1 .. Len(chain)
        /\ s[1] = a
        /\ \A i \in 1 .. Len(chain) : s[i + 1] = chain[i]
        /\ \A i \in 2 .. (Len(chain) + 1) : i - 1 \in 1 .. Len(chain) /\ s[i] = chain[i - 1]
        BY PushFront DEF TypeOK
  <1> HIDE DEF s
  <1>2. \A i \in 1 .. (Len(chain) + 1) : i = 1 \/ i \in 2 .. (Len(chain) + 1)
        BY <1>1
  <1>3. \A i \in 1 .. Len(chain) : i + 1 \in 1 .. (Len(chain) + 1)
        BY <1>1
  <1>4. {s[i] : i \in 1 .. (Len(chain) + 1)} = {chain[i] : i \in 1 .. Len(chain)} \cup {a}
    <2>1. 1 \in 1 .. (Len(chain) + 1)
          BY <1>1
    <2>2. ASSUME NEW i \in 1 .. (Len(chain) + 1)
          PROVE  s[i] = a \/ \E j \in 1 .. Len(chain) : s[i] = chain[j]
          BY <1>1, <1>2
    <2>3. \A j \in 1 .. Len(chain) : \E i \in 1 .. (Len(chain) + 1) : chain[j] = s[i]
          BY <1>1, <1>3
    <2>4. \E i \in 1 .. (Len(chain) + 1) : a = s[i]
          BY <1>1, <2>1
    <2> DEFINE A == {s[i] : i \in 1 .. (Len(chain) + 1)}
               B == {chain[i] : i \in 1 .. Len(chain)}
    <2>5. A \subseteq B \cup {a}
          BY <2>2
    <2>6. B \subseteq A /\ a \in A
          BY <2>3, <2>4
    <2>7. QED
          BY <2>5, <2>6
  <1>5. ToSet(s) = ToSet(chain) \cup {a}
        BY <1>1, <1>4 DEF ToSet
  <1>6. s # <<>>
        BY <1>1
  <1>7. chain' = s
        BY DEF s
  <1>8. QED
        BY <1>1, <1>5, <1>6, <1>7

LEMMA ChainPop ==
  ASSUME TypeOK, StackIsLinked, chain # <<>>, chain' = SubSeq(chain, 2, Len(chain))
  PROVE  /\ chain' \in Seq(Addr) /\ Len(chain') = Len(chain) - 1
         /\ Len(chain) \in Nat \ {0}
         /\ \A i \in 1 .. Len(chain') : i + 1 \in 2 .. Len(chain) /\ chain'[i] = chain[i + 1]
         /\ chain[1] \in ToSet(chain)
         /\ ToSet(chain') = ToSet(chain) \ {chain[1]}
  <1> DEFINE s == SubSeq(chain, 2, Len(chain))
  <1>1. /\ chain \in Seq(Addr) /\ Len(chain) \in Nat \ {0} /\ DOMAIN chain = 1 .. Len(chain)
        BY DEF TypeOK
  <1>2. /\ s \in Seq(Addr) /\ Len(s) = Len(chain) - 1 /\ DOMAIN s = 1 .. (Len(chain) - 1)
        /\ \A i \in 1 .. (Len(chain) - 1) : s[i] = chain[i + 1]
    <2>1. 1 \in 0 .. Len(chain)
          BY <1>1
    <2>2. QED
          BY <1>1, <2>1, DropFront
  <1> HIDE DEF s
  <1>3. \A i \in 1 .. (Len(chain) - 1) : i + 1 \in 2 .. Len(chain) /\ i + 1 \in 1 .. Len(chain)
        BY <1>1
  <1>4. \A i \in 1 .. Len(chain) : i # 1 => i - 1 \in 1 .. (Len(chain) - 1) /\ (i - 1) + 1 = i
        BY <1>1
  <1>5. \A i, j \in 1 .. Len(chain) : chain[i] = chain[j] => i = j
        BY <1>1 DEF StackIsLinked, IsInjective
  <1>6. {s[i] : i \in 1 .. (Len(chain) - 1)} = {chain[i] : i \in 1 .. Len(chain)} \ {chain[1]}
    <2>1. ASSUME NEW i \in 1 .. (Len(chain) - 1)
          PROVE  s[i] \in {chain[j] : j \in 1 .. Len(chain)} /\ s[i] # chain[1]
      <3>1. 1 \in 1 .. Len(chain) /\ i + 1 # 1
            BY <1>1
      <3>2. QED
            BY <1>2, <1>3, <1>5, <3>1
    <2>2. ASSUME NEW i \in 1 .. Len(chain), chain[i] # chain[1]
          PROVE  \E j \in 1 .. (Len(chain) - 1) : chain[i] = s[j]
          BY <1>2, <1>4, <2>2
    <2>3. QED
          BY <2>1, <2>2
  <1>7. ToSet(s) = ToSet(chain) \ {chain[1]}
        BY <1>1, <1>2, <1>6 DEF ToSet
  <1>8. chain[1] \in ToSet(chain)
    <2>1. 1 \in DOMAIN chain
          BY <1>1
    <2>2. QED
          BY <2>1 DEF ToSet
  <1>9. chain' = s
        BY DEF s
  <1>10. QED
         BY <1>1, <1>2, <1>3, <1>7, <1>8, <1>9

(* The list stays linked when the nodes in it keep their links.            *)
LEMMA LinkKept ==
  ASSUME TypeOK, StackIsLinked, UNCHANGED <<head, chain>>,
         \A a \in ToSet(chain) : mem'[a].live = mem[a].live /\ mem'[a].next = mem[a].next
  PROVE  StackIsLinked'
  <1>1. \A i \in 1 .. Len(chain) : chain[i] \in ToSet(chain)
        BY ChainSet
  <1>2. QED
        BY <1>1 DEF StackIsLinked

LEMMA NodesLive ==
  ASSUME TypeOK, StackIsLinked, Ownership
  PROVE  /\ \A a \in ToSet(chain) : a \in Addr /\ mem[a].live
         /\ \A a \in Holders : a \in Addr /\ mem[a].live
         /\ \A a \in Loadable : a \in Addr /\ mem[a].live
  <1>1. \A a \in ToSet(chain) : a \in Addr /\ mem[a].live
    <2>1. \A i \in 1 .. Len(chain) : mem[chain[i]].live
          BY DEF StackIsLinked
    <2>2. QED
          BY <2>1, ChainSet
  <1>2. ASSUME NEW t \in Threads, Owned(t)
        PROVE  ref[t] \in Addr /\ mem[ref[t]].live
        BY <1>2, Refs DEF Ownership, Owned
  <1>3. QED
        BY <1>1, <1>2 DEF Holders, Loadable, Returning, Owned

(* The top of the stack, when a pop finds one.                             *)
LEMMA TopOfStack ==
  ASSUME TypeOK, StackIsLinked, head # Null
  PROVE  chain # <<>> /\ head = chain[1] /\ head \in ToSet(chain)
  <1>1. chain # <<>> /\ head = chain[1]
        BY DEF StackIsLinked
  <1>2. 1 \in 1 .. Len(chain)
        BY <1>1, ChainSet
  <1>3. QED
        BY <1>1, <1>2, ChainSet

LEMMA ValuesKept ==
  ASSUME ValuesOnce, UNCHANGED <<used, popped>>, Holders' \subseteq Holders,
         \A a \in Holders : mem'[a].data = mem[a].data
  PROVE  ValuesOnce'
  BY DEF ValuesOnce

(* The pops under way that another thread's step leaves alone.             *)
LEMMA PopsKept ==
  ASSUME PopsAreCurrent,
         \A u \in Threads : pc'[u] \in {"next", "popcas"} =>
           pc'[u] = pc[u] /\ ref'[u] = ref[u] /\ nxt'[u] = nxt[u],
         \A u \in Threads : pc[u] \in {"next", "popcas"} /\ ref[u] \in Loadable =>
           ref[u] \in Loadable' /\ mem'[ref[u]].next = mem[ref[u]].next
  PROVE  PopsAreCurrent'
  BY DEF PopsAreCurrent

(* No step leaves the types, not even one that follows a stale pointer.    *)
LEMMA TypeKept ==
  ASSUME TypeOK, NEW t \in Threads, ThreadStep(t)
  PROVE  TypeOK'
  <1> DEFINE PC == {"idle", "load", "cas", "next", "popcas", "data", "delete"}
  <1>1. ASSUME NEW q \in PC, pc' = [pc EXCEPT ![t] = q]
        PROVE  pc' \in [Threads -> PC]
        BY <1>1 DEF TypeOK
  <1>2. /\ head \in Pointer /\ nxt[t] \in Pointer /\ ref[t] \in Pointer
        /\ pc[t] # "idle" => ref[t] \in Addr
        BY Refs DEF TypeOK
  <1>3. CASE PushNew(t)
    <2>1. PICK v \in Values \ used, a \in {b \in Addr : ~ mem[b].live} :
            /\ mem' = [mem EXCEPT ![a] = [live |-> TRUE, data |-> v, next |-> Null]]
            /\ ref' = [ref EXCEPT ![t] = a]
            /\ used' = used \cup {v}
          BY <1>3 DEF PushNew
    <2>2. mem' \in [Addr -> Node] /\ ref' \in [Threads -> Pointer] /\ ref'[t] # Null
          BY <2>1, NullAssumption DEF TypeOK, Node, Pointer
    <2>3. used' \in SUBSET Values
          BY <2>1 DEF TypeOK
    <2>4. QED
          BY <1>1, <1>3, <2>1, <2>2, <2>3 DEF PushNew, Step, TypeOK
  <1>4. CASE PushLoad(t) \/ PushFails(t)
    <2>1. mem' = [mem EXCEPT ![ref[t]].next = head] /\ ref[t] \in Addr
          BY <1>2, <1>4 DEF PushLoad, PushFails, Step
    <2>2. mem' \in [Addr -> Node]
          BY <1>2, <2>1 DEF TypeOK, Node
    <2>3. QED
          BY <1>1, <1>4, <2>2 DEF PushLoad, PushFails, Step, TypeOK
  <1>5. CASE PushSwaps(t)
    <2>1. ref[t] \in Addr /\ chain' = <<ref[t]>> \o chain
          BY <1>2, <1>5 DEF PushSwaps, Step
    <2>2. chain' \in Seq(Addr)
          BY <2>1, ChainPush
    <2>3. QED
          BY <1>1, <1>2, <1>5, <2>2 DEF PushSwaps, Step, TypeOK
  <1>6. CASE PopLoad(t) \/ PopFails(t)
    <2>1. /\ ref' = [ref EXCEPT ![t] = head]
          /\ pc' = [pc EXCEPT ![t] = IF head = Null THEN "idle" ELSE "next"]
          BY <1>6 DEF PopLoad, PopFails, Loaded
    <2>2. pc' \in [Threads -> PC] /\ ref' \in [Threads -> Pointer]
          BY <1>2, <2>1 DEF TypeOK
    <2>3. \A u \in Threads : pc'[u] # "idle" => ref'[u] # Null
          BY <2>1 DEF TypeOK
    <2>4. QED
          BY <1>6, <2>2, <2>3 DEF PopLoad, PopFails, TypeOK
  <1>7. CASE PopReadsNext(t)
    <2>1. PICK p \in Pointer : nxt' = [nxt EXCEPT ![t] = p]
          BY <1>2, <1>7 DEF PopReadsNext, Step, TypeOK, Node
    <2>2. nxt' \in [Threads -> Pointer]
          BY <2>1 DEF TypeOK
    <2>3. QED
          BY <1>1, <1>7, <2>2 DEF PopReadsNext, Step, TypeOK
  <1>8. CASE PopSwaps(t)
    <2>1. SubSeq(chain, 2, Len(chain)) \in Seq(Addr)
          BY DEF TypeOK
    <2>2. QED
          BY <1>1, <1>2, <1>8, <2>1 DEF PopSwaps, Step, NewHead, TypeOK
  <1>9. CASE PopReadsData(t)
    <2>1. PICK v : popped' = [popped EXCEPT ![v] = IF @ = 0 THEN 1 ELSE 2]
          BY <1>9 DEF PopReadsData
    <2>2. 1 \in 0 .. 2 /\ 2 \in 0 .. 2
          OBVIOUS
    <2>3. popped' \in [Values -> 0 .. 2]
          BY <2>1, <2>2 DEF TypeOK
    <2>4. QED
          BY <1>1, <1>9, <2>3 DEF PopReadsData, Step, TypeOK
  <1>10. CASE PopDeletes(t)
    <2>1. mem' = [mem EXCEPT ![ref[t]].live = FALSE] /\ ref[t] \in Addr
          BY <1>2, <1>10 DEF PopDeletes, Deleted, Step
    <2>2. mem' \in [Addr -> Node]
          BY <2>1 DEF TypeOK, Node
    <2>3. stale' \in BOOLEAN
          BY <1>10 DEF PopDeletes, TypeOK
    <2>4. QED
          BY <1>1, <1>10, <2>2, <2>3 DEF PopDeletes, Step, TypeOK
  <1>11. QED
         BY <1>3, <1>4, <1>5, <1>6, <1>7, <1>8, <1>9, <1>10 DEF ThreadStep

-----------------------------------------------------------------------------
(* Operation by operation.                                                 *)
LEMMA PushNewKeeps ==
  ASSUME TypeOK, Orderly, NEW t \in Threads, PushNew(t)
  PROVE  Orderly'
  <1> USE DEF Orderly
  <1>1. PICK v \in Values \ used, a \in {b \in Addr : ~ mem[b].live} :
          /\ mem' = [mem EXCEPT ![a] = [live |-> TRUE, data |-> v, next |-> Null]]
          /\ ref' = [ref EXCEPT ![t] = a]
          /\ used' = used \cup {v}
        BY DEF PushNew
  <1>2. /\ pc[t] = "idle" /\ pc' = [pc EXCEPT ![t] = "load"]
        /\ UNCHANGED <<head, nxt, chain, popped>>
        BY DEF PushNew, Step
  <1>3. a \in Addr /\ a # Null /\ a \notin ToSet(chain) /\ a \notin Holders
        BY NodesLive, NullAssumption
  <1>4. /\ pc' \in [Threads -> {"idle", "load", "cas", "next", "popcas", "data", "delete"}]
        /\ mem' \in [Addr -> Node] /\ ref' \in [Threads -> Pointer]
        /\ mem'[a] = [live |-> TRUE, data |-> v, next |-> Null]
        /\ \A b \in Addr : b # a => mem'[b] = mem[b]
        /\ \A u \in Threads : u # t => pc'[u] = pc[u] /\ ref'[u] = ref[u]
        /\ pc'[t] = "load" /\ ref'[t] = a
        BY <1>1, <1>2 DEF TypeOK, Node, Pointer
  <1>5. StackIsLinked'
        BY <1>2, <1>3, <1>4, ChainSet, LinkKept
  <1>6. \A u \in Threads : Owned(u) => ref[u] # a /\ ref[u] \in Addr
        BY <1>1, Refs DEF Ownership, Owned
  <1>7. Ownership'
    <2>1. /\ \A u \in Threads : u # t => (Owned(u)' <=> Owned(u))
          /\ Owned(t)' /\ ~ Owned(t)
          BY <1>2, <1>4 DEF Owned
    <2>2. \A u \in Threads : Owned(u)' => mem'[ref'[u]].live /\ ref'[u] \notin ToSet(chain')
          BY <1>2, <1>3, <1>4, <1>6, <2>1 DEF Ownership
    <2>3. \A u, w \in Threads : Owned(u)' /\ Owned(w)' /\ ref'[u] = ref'[w] => u = w
          BY <1>4, <1>6, <2>1 DEF Ownership
    <2>4. \A b \in Addr : mem'[b].live =>
            b \in ToSet(chain') \/ \E u \in Threads : Owned(u)' /\ ref'[u] = b
          BY <1>2, <1>4, <2>1 DEF Ownership
    <2>5. QED
          BY <2>2, <2>3, <2>4 DEF Ownership
  <1>8. PopsAreCurrent'
    <2>1. \A b \in Loadable : b \in Addr /\ b # a
          BY NodesLive
    <2>2. Loadable \subseteq Loadable'
          BY <1>2, <1>4 DEF Loadable, Returning
    <2>3. QED
          BY <1>2, <1>4, <2>1, <2>2, PopsKept
  <1>9. ValuesOnce'
    <2>1. Holders' \subseteq Holders \cup {a}
          BY <1>2, <1>4 DEF Holders
    <2>2. v \notin used /\ v \in Values /\ popped[v] = 0
          BY DEF ValuesOnce
    <2>3. \A b \in Holders : mem'[b].data = mem[b].data /\ mem[b].data # v
          BY <1>3, <1>4, <2>2, NodesLive DEF ValuesOnce
    <2>4. mem'[a].data = v
          BY <1>4
    <2>5. QED
          BY <1>1, <1>2, <2>1, <2>2, <2>3, <2>4 DEF ValuesOnce
  <1>10. QED
         BY <1>5, <1>7, <1>8, <1>9

(* A push links its own node only.                                         *)
LEMMA PushLinks ==
  ASSUME TypeOK, Orderly, NEW t \in Threads, PushLoad(t) \/ PushFails(t)
  PROVE  Orderly'
  <1> USE DEF Orderly
  <1> DEFINE a == ref[t]
  <1>1. /\ pc[t] \in {"load", "cas"} /\ pc' = [pc EXCEPT ![t] = "cas"]
        /\ mem' = [mem EXCEPT ![a].next = head]
        /\ UNCHANGED <<head, ref, nxt, chain, used, popped>>
        BY DEF PushLoad, PushFails, Step, TypeOK
  <1>2. a \in Addr /\ a \notin ToSet(chain)
        BY <1>1, Refs DEF Ownership, Owned
  <1> HIDE DEF a
  <1>3. /\ pc' \in [Threads -> {"idle", "load", "cas", "next", "popcas", "data", "delete"}]
        /\ mem' \in [Addr -> Node]
        /\ \A b \in Addr : /\ mem'[b].live = mem[b].live /\ mem'[b].data = mem[b].data
                           /\ b # a => mem'[b].next = mem[b].next
        /\ \A u \in Threads : u # t => pc'[u] = pc[u]
        /\ pc'[t] = "cas"
        BY <1>1, <1>2 DEF TypeOK, Node
  <1>4. StackIsLinked'
    <2>1. \A b \in ToSet(chain) : b \in Addr /\ b # a
          BY <1>2, ChainSet
    <2>2. QED
          BY <1>1, <1>3, <2>1, LinkKept
  <1>5. Ownership'
    <2>1. \A u \in Threads : (Owned(u)' <=> Owned(u)) /\ (Owned(u) => ref[u] \in Addr)
          BY <1>1, <1>3, Refs DEF Owned
    <2>2. QED
          BY <1>1, <1>3, <2>1 DEF Ownership
  <1>6. PopsAreCurrent'
    <2>1. \A b \in Loadable : b \in Addr /\ b # a
      <3>1. \A u \in Threads : pc[u] \in {"data", "delete"} => ref[u] # a
            BY <1>1 DEF Ownership, Owned, a
      <3>2. QED
            BY <1>2, <3>1, NodesLive DEF Loadable, Returning
    <2>2. Loadable \subseteq Loadable'
          BY <1>1, <1>3 DEF Loadable, Returning
    <2>3. QED
          BY <1>1, <1>3, <2>1, <2>2, PopsKept
  <1>7. ValuesOnce'
    <2>1. Holders' \subseteq Holders
          BY <1>1, <1>3 DEF Holders
    <2>2. QED
          BY <1>1, <1>3, <2>1, NodesLive, ValuesKept
  <1>8. QED
        BY <1>4, <1>5, <1>6, <1>7

(* The swap of a push: its node becomes the first of the list.             *)
LEMMA PushSwapsKeeps ==
  ASSUME TypeOK, Orderly, NEW t \in Threads, PushSwaps(t)
  PROVE  Orderly'
  <1> USE DEF Orderly
  <1> DEFINE a == ref[t]
  <1>1. /\ pc[t] = "cas" /\ pc' = [pc EXCEPT ![t] = "idle"]
        /\ mem[a].next = head /\ head' = a /\ chain' = <<a>> \o chain
        /\ UNCHANGED <<mem, ref, nxt, used, popped>>
        BY DEF PushSwaps, PushExpects, Step
  <1>2. a \in Addr /\ a \notin ToSet(chain) /\ mem[a].live /\ a # Null
        BY <1>1, Refs, NullAssumption DEF Ownership, Owned
  <1> HIDE DEF a
  <1>3. /\ chain' \in Seq(Addr) /\ Len(chain') = Len(chain) + 1
        /\ chain'[1] = a /\ chain' # <<>>
        /\ \A i \in 2 .. Len(chain') : i - 1 \in 1 .. Len(chain) /\ chain'[i] = chain[i - 1]
        /\ ToSet(chain') = ToSet(chain) \cup {a}
        BY <1>1, <1>2, ChainPush
  <1>4. /\ pc' \in [Threads -> {"idle", "load", "cas", "next", "popcas", "data", "delete"}]
        /\ \A u \in Threads : u # t => pc'[u] = pc[u]
        /\ pc'[t] = "idle"
        BY <1>1 DEF TypeOK
  <1>5. StackIsLinked'
    <2>1. /\ Len(chain) \in Nat /\ DOMAIN chain = 1 .. Len(chain)
          /\ DOMAIN chain' = 1 .. Len(chain')
          /\ \A i \in 1 .. Len(chain) : chain[i] \in ToSet(chain)
          BY <1>3, ChainSet
    <2>2. \A i \in 1 .. Len(chain') : i = 1 \/ i \in 2 .. Len(chain')
          BY <1>3, <2>1
    <2>3. IsInjective(chain')
      <3>1. \A i \in 2 .. Len(chain') : chain'[i] # chain'[1]
            BY <1>2, <1>3, <2>1
      <3>2. \A i, j \in 2 .. Len(chain') : chain'[i] = chain'[j] => i - 1 = j - 1
            BY <1>3, <2>1 DEF StackIsLinked, IsInjective
      <3>3. \A i, j \in 2 .. Len(chain') : i - 1 = j - 1 => i = j
            OBVIOUS
      <3>4. QED
            BY <2>1, <2>2, <3>1, <3>2, <3>3 DEF IsInjective
    <2>4. mem[a].next = IF 1 = Len(chain') THEN Null ELSE chain'[2]
      <3>1. CASE chain = <<>>
            BY <1>1, <1>3, <3>1 DEF StackIsLinked
      <3>2. CASE chain # <<>>
        <4>1. Len(chain) > 0 /\ 2 \in 2 .. Len(chain') /\ 2 - 1 = 1 /\ Len(chain') # 1
              BY <1>3, <2>1, <3>2
        <4>2. chain'[2] = chain[1]
              BY <1>3, <4>1
        <4>3. QED
              BY <1>1, <3>2, <4>1, <4>2 DEF StackIsLinked
      <3>3. QED
            BY <3>1, <3>2
    <2>5. ASSUME NEW i \in 2 .. Len(chain')
          PROVE  /\ mem[chain'[i]].live
                 /\ mem[chain'[i]].next = IF i = Len(chain') THEN Null ELSE chain'[i + 1]
      <3>1. /\ i - 1 \in 1 .. Len(chain) /\ chain'[i] = chain[i - 1]
            /\ i - 1 = Len(chain) <=> i = Len(chain')
            /\ (i - 1) + 1 = i
            BY <1>3, <2>1
      <3>2. /\ mem[chain[i - 1]].live
            /\ mem[chain[i - 1]].next = IF i - 1 = Len(chain) THEN Null ELSE chain[i]
            BY <3>1 DEF StackIsLinked
      <3>3. i # Len(chain') => i + 1 \in 2 .. Len(chain') /\ (i + 1) - 1 = i
            BY <1>3, <2>1
      <3>4. i # Len(chain') => chain'[i + 1] = chain[i]
            BY <1>3, <3>3
      <3>5. QED
            BY <3>1, <3>2, <3>4
    <2>6. QED
          BY <1>1, <1>2, <1>3, <2>2, <2>3, <2>4, <2>5 DEF StackIsLinked
  <1>6. Ownership'
    <2>1. \A u \in Threads : Owned(u)' <=> Owned(u) /\ u # t
          BY <1>1, <1>4 DEF Owned
    <2>2. Owned(t)
          BY <1>1 DEF Owned
    <2>3. \A u \in Threads : Owned(u) /\ u # t => ref[u] # a
          BY <2>2 DEF Ownership, a
    <2>4. QED
          BY <1>1, <1>3, <2>1, <2>2, <2>3 DEF Ownership, a
  <1>7. PopsAreCurrent'
    <2>1. Loadable \subseteq Loadable'
          BY <1>1, <1>3, <1>4 DEF Loadable, Returning
    <2>2. QED
          BY <1>1, <1>4, <2>1, PopsKept
  <1>8. ValuesOnce'
    <2>1. a \in Holders
          BY <1>1 DEF Holders, a
    <2>2. Holders' \subseteq Holders
          BY <1>1, <1>3, <1>4, <2>1 DEF Holders
    <2>3. QED
          BY <1>1, <2>2, ValuesKept
  <1>9. QED
         BY <1>5, <1>6, <1>7, <1>8

-----------------------------------------------------------------------------
(* A pop loads the top of the stack, or finds it empty.                    *)
LEMMA PopLoads ==
  ASSUME TypeOK, Orderly, NEW t \in Threads, PopLoad(t) \/ PopFails(t)
  PROVE  Orderly'
  <1> USE DEF Orderly
  <1>1. /\ pc[t] \in {"idle", "popcas"}
        /\ ref' = [ref EXCEPT ![t] = head]
        /\ pc' = [pc EXCEPT ![t] = IF head = Null THEN "idle" ELSE "next"]
        /\ UNCHANGED <<head, mem, nxt, chain, used, popped>>
        BY DEF PopLoad, PopFails, Loaded
  <1>2. /\ pc' \in [Threads -> {"idle", "load", "cas", "next", "popcas", "data", "delete"}]
        /\ ref' \in [Threads -> Pointer]
        /\ \A u \in Threads : u # t => pc'[u] = pc[u] /\ ref'[u] = ref[u]
        /\ pc'[t] \in {"idle", "next"} /\ ref'[t] = head
        /\ pc'[t] = "next" => head # Null
        BY <1>1 DEF TypeOK
  <1>3. StackIsLinked'
        BY <1>1, LinkKept
  <1>4. Ownership'
    <2>1. \A u \in Threads : /\ Owned(u)' <=> Owned(u)
                             /\ Owned(u) => ref'[u] = ref[u]
          BY <1>1, <1>2 DEF Owned
    <2>2. QED
          BY <1>1, <2>1 DEF Ownership
  <1>5. PopsAreCurrent'
    <2>1. Loadable \subseteq Loadable'
          BY <1>1, <1>2 DEF Loadable, Returning
    <2>2. pc'[t] = "next" => ref'[t] \in Loadable'
          BY <1>1, <1>2, TopOfStack DEF Loadable
    <2>3. QED
          BY <1>1, <1>2, <2>1, <2>2 DEF PopsAreCurrent
  <1>6. ValuesOnce'
    <2>1. Holders' \subseteq Holders
          BY <1>1, <1>2 DEF Holders
    <2>2. QED
          BY <1>1, <2>1, ValuesKept
  <1>7. QED
        BY <1>3, <1>4, <1>5, <1>6

LEMMA PopReadsNextKeeps ==
  ASSUME TypeOK, Orderly, NEW t \in Threads, PopReadsNext(t)
  PROVE  Orderly'
  <1> USE DEF Orderly
  <1>1. mem[ref[t]].live /\ ref[t] \in Addr /\ ref[t] \in Loadable
        BY NodesLive DEF PopReadsNext, Step, PopsAreCurrent
  <1>2. /\ pc[t] = "next" /\ pc' = [pc EXCEPT ![t] = "popcas"]
        /\ nxt' = [nxt EXCEPT ![t] = mem[ref[t]].next]
        /\ UNCHANGED <<head, mem, ref, chain, used, popped>>
        BY <1>1 DEF PopReadsNext, Step
  <1>3. /\ pc' \in [Threads -> {"idle", "load", "cas", "next", "popcas", "data", "delete"}]
        /\ nxt' \in [Threads -> Pointer]
        /\ \A u \in Threads : u # t => pc'[u] = pc[u] /\ nxt'[u] = nxt[u]
        /\ pc'[t] = "popcas" /\ nxt'[t] = mem[ref[t]].next
        BY <1>1, <1>2 DEF TypeOK, Node
  <1>4. StackIsLinked'
        BY <1>2, LinkKept
  <1>5. Ownership'
    <2>1. \A u \in Threads : Owned(u)' <=> Owned(u)
          BY <1>2, <1>3 DEF Owned
    <2>2. QED
          BY <1>2, <2>1 DEF Ownership
  <1>6. PopsAreCurrent'
    <2>1. Loadable' = Loadable
          BY <1>2, <1>3 DEF Loadable, Returning
    <2>2. QED
          BY <1>1, <1>2, <1>3, <2>1 DEF PopsAreCurrent
  <1>7. ValuesOnce'
    <2>1. Holders' \subseteq Holders
          BY <1>2, <1>3 DEF Holders
    <2>2. QED
          BY <1>2, <2>1, ValuesKept
  <1>8. QED
        BY <1>4, <1>5, <1>6, <1>7

(* The swap of a pop: what it read as the next node is still the second of *)
(* the list.                                                               *)
LEMMA PopSwapsTop ==
  ASSUME TypeOK, Orderly, NEW t \in Threads, PopSwaps(t)
  PROVE  /\ chain # <<>> /\ ref[t] = chain[1] /\ ref[t] \in ToSet(chain)
         /\ head' = IF Len(chain) = 1 THEN Null ELSE chain[2]
  <1> USE DEF Orderly
  <1>1. pc[t] = "popcas" /\ head = ref[t] /\ head' = nxt[t]
        BY DEF PopSwaps, Step, NewHead
  <1>2. chain # <<>> /\ ref[t] = chain[1] /\ ref[t] \in ToSet(chain)
        BY <1>1, Refs, NullAssumption, TopOfStack
  <1>3. 1 \in 1 .. Len(chain) /\ 1 + 1 = 2
        BY <1>2, ChainSet
  <1>4. mem[chain[1]].next = IF Len(chain) = 1 THEN Null ELSE chain[2]
        BY <1>3 DEF StackIsLinked
  <1>5. QED
        BY <1>1, <1>2, <1>4 DEF PopsAreCurrent

LEMMA PopSwapsKeeps ==
  ASSUME TypeOK, Orderly, NEW t \in Threads, PopSwaps(t)
  PROVE  Orderly'
  <1> USE DEF Orderly
  <1> DEFINE a == ref[t]
  <1>1. /\ pc[t] = "popcas" /\ pc' = [pc EXCEPT ![t] = "data"]
        /\ chain' = SubSeq(chain, 2, Len(chain))
        /\ UNCHANGED <<mem, ref, nxt, used, popped>>
        BY DEF PopSwaps, Step
  <1>2. /\ chain # <<>> /\ a = chain[1] /\ a \in ToSet(chain)
        /\ head' = IF Len(chain) = 1 THEN Null ELSE chain[2]
        BY PopSwapsTop
  <1>3. a \in Addr /\ mem[a].live
        BY <1>2, NodesLive
  <1> HIDE DEF a
  <1>4. /\ chain' \in Seq(Addr) /\ Len(chain') = Len(chain) - 1
        /\ Len(chain) \in Nat \ {0}
        /\ \A i \in 1 .. Len(chain') : i + 1 \in 2 .. Len(chain) /\ chain'[i] = chain[i + 1]
        /\ ToSet(chain') = ToSet(chain) \ {a}
        BY <1>1, <1>2, ChainPop
  <1>5. /\ pc' \in [Threads -> {"idle", "load", "cas", "next", "popcas", "data", "delete"}]
        /\ \A u \in Threads : u # t => pc'[u] = pc[u]
        /\ pc'[t] = "data"
        BY <1>1 DEF TypeOK
  <1>6. chain' = <<>> <=> Len(chain) = 1
        BY <1>4
  <1>7. Len(chain) # 1 => /\ chain'[1] = chain[2] /\ 2 \in 1 .. Len(chain)
                          /\ 2 \in DOMAIN chain
    <2>1. Len(chain) # 1 => 1 \in 1 .. Len(chain') /\ 1 + 1 = 2
          BY <1>4
    <2>2. QED
          BY <1>4, <2>1, ChainSet
  <1>8. head' \in Pointer
        BY <1>2, <1>7, ChainSet DEF Pointer
  <1>9. StackIsLinked'
    <2>1. DOMAIN chain = 1 .. Len(chain) /\ DOMAIN chain' = 1 .. Len(chain')
          BY <1>4, ChainSet
    <2>2. \A i \in 1 .. Len(chain') : i + 1 \in 1 .. Len(chain)
          BY <1>4
    <2>3. IsInjective(chain')
      <3>1. \A i, j \in 1 .. Len(chain') : chain'[i] = chain'[j] => i + 1 = j + 1
            BY <1>4, <2>1, <2>2 DEF StackIsLinked, IsInjective
      <3>2. \A i, j \in 1 .. Len(chain') : i + 1 = j + 1 => i = j
            OBVIOUS
      <3>3. QED
            BY <2>1, <3>1, <3>2 DEF IsInjective
    <2>4. ASSUME NEW i \in 1 .. Len(chain')
          PROVE  /\ mem[chain'[i]].live
                 /\ mem[chain'[i]].next = IF i = Len(chain') THEN Null ELSE chain'[i + 1]
      <3>1. /\ i + 1 \in 1 .. Len(chain) /\ chain'[i] = chain[i + 1]
            /\ i + 1 = Len(chain) <=> i = Len(chain')
            BY <1>4, <2>2
      <3>2. /\ mem[chain[i + 1]].live
            /\ mem[chain[i + 1]].next
                 = IF i + 1 = Len(chain) THEN Null ELSE chain[(i + 1) + 1]
            BY <3>1 DEF StackIsLinked
      <3>3. i # Len(chain') => i + 1 \in 1 .. Len(chain')
            BY <1>4
      <3>4. i # Len(chain') => chain'[i + 1] = chain[(i + 1) + 1]
            BY <1>4, <3>3
      <3>5. QED
            BY <3>1, <3>2, <3>4
    <2>5. QED
          BY <1>1, <1>2, <1>6, <1>7, <2>3, <2>4 DEF StackIsLinked
  <1>10. Ownership'
    <2>1. \A u \in Threads : Owned(u)' <=> Owned(u) \/ u = t
          BY <1>1, <1>5 DEF Owned
    <2>2. \A u \in Threads : Owned(u) => ref[u] # a
          BY <1>2 DEF Ownership
    <2>3. QED
          BY <1>1, <1>3, <1>4, <2>1, <2>2 DEF Ownership, a
  <1>11. PopsAreCurrent'
    <2>1. Loadable \subseteq Loadable'
          BY <1>1, <1>4, <1>5 DEF Loadable, Returning, a
    <2>2. QED
          BY <1>1, <1>5, <2>1, PopsKept
  <1>12. ValuesOnce'
    <2>1. Holders' \subseteq Holders
          BY <1>1, <1>2, <1>4, <1>5 DEF Holders, a
    <2>2. QED
          BY <1>1, <2>1, ValuesKept
  <1>13. QED
         BY <1>9, <1>10, <1>11, <1>12

LEMMA PopReadsDataKeeps ==
  ASSUME TypeOK, Orderly, NEW t \in Threads, PopReadsData(t)
  PROVE  Orderly'
  <1> USE DEF Orderly
  <1> DEFINE a == ref[t]
             v == mem[a].data
  <1>1. /\ pc[t] = "data" /\ pc' = [pc EXCEPT ![t] = "delete"]
        /\ popped' = [popped EXCEPT ![v] = IF @ = 0 THEN 1 ELSE 2]
        /\ UNCHANGED <<head, mem, ref, nxt, chain, used>>
    <2>1. mem[a].live
          BY DEF PopReadsData, Step, Ownership, Owned
    <2>2. QED
          BY <2>1 DEF PopReadsData, Step
  <1>2. a \in Addr /\ a \in Holders /\ a \notin ToSet(chain)
        BY <1>1, Refs DEF Holders, Ownership, Owned
  <1>3. v \in Values /\ v \in used /\ popped[v] = 0
        BY <1>2 DEF ValuesOnce, TypeOK, Node
  <1>4. /\ pc' \in [Threads -> {"idle", "load", "cas", "next", "popcas", "data", "delete"}]
        /\ \A u \in Threads : u # t => pc'[u] = pc[u]
        /\ pc'[t] = "delete"
        BY <1>1 DEF TypeOK
  <1>5. /\ popped'[v] = 1
        /\ \A w \in Values : w # v => popped'[w] = popped[w]
        BY <1>1, <1>3 DEF TypeOK
  <1>6. StackIsLinked'
        BY <1>1, LinkKept
  <1>7. \A u \in Threads : Owned(u)' <=> Owned(u)
        BY <1>1, <1>4 DEF Owned
  <1>8. Ownership'
        BY <1>1, <1>7 DEF Ownership
  <1>9. PopsAreCurrent'
    <2>1. Loadable \subseteq Loadable'
          BY <1>1, <1>4 DEF Loadable, Returning
    <2>2. QED
          BY <1>1, <1>4, <2>1, PopsKept
  <1>10. ValuesOnce'
    <2>1. ASSUME NEW b \in Holders' PROVE b \in Holders /\ b # a
      <3>1. CASE b \in ToSet(chain)
            BY <1>2, <3>1 DEF Holders
      <3>2. ASSUME NEW u \in Threads, pc'[u] \in {"load", "cas", "data"}, b = ref[u]
            PROVE  b \in Holders /\ b # a
        <4>1. u # t /\ pc[u] \in {"load", "cas", "data"} /\ Owned(u) /\ Owned(t)
              BY <1>1, <1>4, <3>2 DEF Owned
        <4>2. QED
              BY <3>2, <4>1 DEF Ownership, Holders
      <3>3. QED
            BY <1>1, <3>1, <3>2 DEF Holders
    <2>2. \A b \in Holders' : b \in Addr /\ mem[b].data \in Values /\ mem[b].data # v
          BY <1>2, <2>1, NodesLive DEF ValuesOnce, TypeOK, Node
    <2>3. \A b \in Holders' : mem[b].data \in used /\ popped'[mem[b].data] = 0
          BY <1>5, <2>1, <2>2 DEF ValuesOnce
    <2>4. \A b, c \in Holders' : mem[b].data = mem[c].data => b = c
          BY <2>1 DEF ValuesOnce
    <2>5. \A w \in Values : popped'[w] = 0 \/ (popped'[w] = 1 /\ w \in used)
          BY <1>3, <1>5 DEF ValuesOnce
    <2> HIDE DEF v, a
    <2>6. QED
          BY <1>1, <2>3, <2>4, <2>5 DEF ValuesOnce
  <1>11. QED
         BY <1>6, <1>8, <1>9, <1>10

LEMMA PopDeletesKeeps ==
  ASSUME TypeOK, Orderly, NEW t \in Threads, PopDeletes(t)
  PROVE  StackIsLinked' /\ (~ stale' => Orderly')
  <1> USE DEF Orderly
  <1> DEFINE a == ref[t]
  <1>1. /\ pc[t] = "delete" /\ pc' = [pc EXCEPT ![t] = "idle"]
        /\ mem' = [mem EXCEPT ![a].live = FALSE]
        /\ UNCHANGED <<head, ref, nxt, chain, used, popped>>
        /\ ~ stale' => ~ LoadedElsewhere(t)
        BY DEF PopDeletes, Deleted, Step
  <1>2. a \in Addr /\ a \notin ToSet(chain) /\ Owned(t)
        BY <1>1, Refs DEF Ownership, Owned
  <1>3. \A u \in Threads : Owned(u) /\ u # t => ref[u] # a /\ ref[u] \in Addr
        BY <1>2, Refs DEF Ownership, Owned
  <1> HIDE DEF a
  <1>4. /\ pc' \in [Threads -> {"idle", "load", "cas", "next", "popcas", "data", "delete"}]
        /\ mem' \in [Addr -> Node]
        /\ \A b \in Addr : /\ mem'[b].next = mem[b].next /\ mem'[b].data = mem[b].data
                           /\ b # a => mem'[b].live = mem[b].live
        /\ mem'[a].live = FALSE
        /\ \A u \in Threads : u # t => pc'[u] = pc[u]
        /\ pc'[t] = "idle"
        BY <1>1, <1>2 DEF TypeOK, Node
  <1>5. \A b \in ToSet(chain) : b \in Addr /\ b # a
        BY <1>2, ChainSet
  <1>6. StackIsLinked'
        BY <1>1, <1>4, <1>5, LinkKept
  <1>7. Ownership'
    <2>1. \A u \in Threads : Owned(u)' <=> Owned(u) /\ u # t
          BY <1>1, <1>4 DEF Owned
    <2>2. QED
          BY <1>1, <1>3, <1>4, <2>1 DEF Ownership, a
  <1>8. ASSUME ~ stale' PROVE PopsAreCurrent'
    <2>1. \A u \in Threads : u # t /\ pc[u] \in {"next", "popcas"} => ref[u] # a
          BY <1>1, <1>8 DEF LoadedElsewhere, a
    <2>2. \A b \in Loadable : b # a => b \in Loadable'
          BY <1>1, <1>4 DEF Loadable, Returning, a
    <2>3. \A b \in Loadable : b \in Addr
          BY NodesLive
    <2>4. QED
          BY <1>1, <1>4, <2>1, <2>2, <2>3, PopsKept
  <1>9. ValuesOnce'
    <2>1. Holders' \subseteq Holders
          BY <1>1, <1>4 DEF Holders
    <2>2. QED
          BY <1>1, <1>4, <2>1, NodesLive, ValuesKept
  <1>10. QED
         BY <1>6, <1>7, <1>8, <1>9

-----------------------------------------------------------------------------
LEMMA InvInit == Init => IInv
  <1> SUFFICES ASSUME Init PROVE IInv
      OBVIOUS
  <1>1. PICK v \in Values :
          mem = [a \in Addr |-> [live |-> FALSE, data |-> v, next |-> Null]]
        BY DEF Init
  <1>2. /\ \A t \in Threads : pc[t] = "idle" /\ ~ Owned(t)
        /\ \A a \in Addr : ~ mem[a].live
        BY <1>1 DEF Init, Owned
  <1>3. TypeOK
    <2>1. mem \in [Addr -> Node]
          BY <1>1 DEF Node, Pointer
    <2>2. used \in SUBSET Values
          BY Zenon DEF Init
    <2>3. /\ pc \in [Threads -> {"idle", "load", "cas", "next", "popcas", "data", "delete"}]
          /\ ref \in [Threads -> Pointer] /\ nxt \in [Threads -> Pointer]
          /\ head \in Pointer
          BY DEF Init, Pointer
    <2>4. chain \in Seq(Addr)
          BY DEF Init
    <2>5. stale \in BOOLEAN
          BY Zenon DEF Init
    <2>6. popped \in [Values -> 0 .. 2]
      <3>1. 0 \in 0 .. 2
            OBVIOUS
      <3>2. QED
            BY <3>1 DEF Init
    <2>7. QED
          BY <1>2, <2>1, <2>2, <2>3, <2>4, <2>5, <2>6 DEF TypeOK
  <1>4. chain = <<>> /\ DOMAIN chain = {} /\ 1 .. Len(chain) = {} /\ ToSet(chain) = {}
        BY DEF Init, ToSet
  <1>5. StackIsLinked
        BY <1>4 DEF Init, StackIsLinked, IsInjective
  <1>6. Ownership /\ PopsAreCurrent
        BY <1>2 DEF Ownership, PopsAreCurrent
  <1>7. ValuesOnce
    <2>1. Holders = {}
          BY <1>2, <1>4 DEF Holders
    <2>2. QED
          BY <2>1 DEF Init, ValuesOnce
  <1>8. QED
        BY <1>3, <1>5, <1>6, <1>7 DEF IInv, Orderly

LEMMA InvStep ==
  ASSUME IInv, [Next]_vars
  PROVE  IInv'
  <1>1. ASSUME NEW t \in Threads, ThreadStep(t) PROVE IInv'
    <2>1. TypeOK /\ TypeOK'
          BY <1>1, TypeKept DEF IInv
    <2>2. stale => stale'
          BY <1>1 DEF ThreadStep, PushNew, PushLoad, PushFails, PushSwaps, PopLoad,
             PopReadsNext, PopFails, PopSwaps, PopReadsData, PopDeletes
    <2>3. ASSUME ~ stale, ~ stale' PROVE Orderly'
          BY <1>1, <2>1, <2>3, PushNewKeeps, PushLinks, PushSwapsKeeps, PopLoads,
             PopReadsNextKeeps, PopSwapsKeeps, PopReadsDataKeeps, PopDeletesKeeps
             DEF ThreadStep, IInv
    <2>4. QED
          BY <2>1, <2>2, <2>3 DEF IInv
  <1>2. CASE UNCHANGED vars
    <2>1. TypeOK => TypeOK'
          BY <1>2 DEF vars, TypeOK
    <2>2. Orderly => Orderly'
          BY <1>2 DEF vars, Orderly, StackIsLinked, Ownership, Owned, PopsAreCurrent,
             Loadable, Returning, ValuesOnce, Holders
    <2>3. QED
          BY <1>2, <2>1, <2>2 DEF IInv, vars
  <1>3. QED
        BY <1>1, <1>2 DEF Next

(* The step at which it ends leaves the list linked.                       *)
LEMMA StillLinked ==
  ASSUME TypeOK, Orderly, [Next]_vars
  PROVE  StackIsLinked'
  <1>1. ASSUME NEW t \in Threads, ThreadStep(t) PROVE StackIsLinked'
        BY <1>1, PushNewKeeps, PushLinks, PushSwapsKeeps, PopLoads, PopReadsNextKeeps,
           PopSwapsKeeps, PopReadsDataKeeps, PopDeletesKeeps DEF ThreadStep, Orderly
  <1>2. CASE UNCHANGED vars
        BY <1>2 DEF vars, Orderly, StackIsLinked
  <1>3. QED
        BY <1>1, <1>2 DEF Next

(* IInv holds in every state: the operations keep the list in order as     *)
(* long as no pop deletes a node that another pop has loaded.              *)
THEOREM InvCorrect == Spec => []IInv
  <1>1. IInv /\ [Next]_vars => IInv'
        BY InvStep
  <1>2. QED
        BY <1>1, InvInit, PTL DEF Spec

(* However many threads push and pop, and however the allocator reuses     *)
(* addresses, nothing goes wrong before a pop deletes a node that another  *)
(* pop has loaded: the list is linked, no node is lost or owned twice,     *)
(* none is used after its deletion and no value is returned twice.         *)
THEOREM HeapIsSound == Spec => []HeapSound
  <1>1. ASSUME TypeOK, Orderly PROVE Sound
    <2> USE <1>1 DEF Orderly
    <2>1. NoUseAfterFree
      <3>1. ASSUME NEW t \in Threads, pc[t] = "next" PROVE mem[ref[t]].live
            BY <3>1, NodesLive DEF PopsAreCurrent
      <3>2. ASSUME NEW t \in Threads, pc[t] \in {"data", "delete"} PROVE mem[ref[t]].live
            BY <3>2 DEF Ownership, Owned
      <3>3. QED
            BY <3>1, <3>2 DEF NoUseAfterFree
    <2>2. NodesAreOwned
          BY DEF NodesAreOwned, Ownership
    <2>3. PoppedOnce
      <3>1. \A i \in 1 .. Len(chain) : chain[i] \in Holders
            BY ChainSet DEF Holders
      <3>2. \A v \in Values : popped[v] <= IF v \in used THEN 1 ELSE 0
            BY DEF ValuesOnce
      <3>3. QED
            BY <3>1, <3>2 DEF PoppedOnce, ValuesOnce
    <2>4. QED
          BY <2>1, <2>2, <2>3 DEF Sound
  <1>2. IInv => HeapSound
        BY <1>1 DEF IInv, HeapSound
  <1>3. QED
        BY <1>2, InvCorrect, PTL

-----------------------------------------------------------------------------
(* The stack that a walk from head finds, and the stack of the history.    *)
Found == [i \in 1 .. Depth |-> mem[Walk[i - 1]].data]
Held == [i \in 1 .. Len(chain) |-> mem[chain[i]].data]

LEMMA WalkEquation ==
  ASSUME TypeOK, StackIsLinked
  PROVE  LET N == Cardinality(Addr)
         IN  /\ N \in Nat /\ Len(chain) <= N
             /\ Walk = [k \in 0 .. N |->
                          IF k = 0 THEN head
                          ELSE IF Walk[k - 1] = Null THEN Null
                               ELSE mem[Walk[k - 1]].next]
  <1> DEFINE N == Cardinality(Addr)
             g == [k \in 0 .. N |-> IF k < Len(chain) THEN chain[k + 1] ELSE Null]
  <1>1. /\ N \in Nat /\ Len(chain) \in Nat /\ DOMAIN chain = 1 .. Len(chain)
        /\ \A i \in 1 .. Len(chain) : chain[i] \in Addr
        BY AddrAssumption, FS_CardinalityType, ChainSet
  <1>2. Len(chain) <= N
    <2> HIDE DEF g
    <2>1. chain \in [1 .. Len(chain) -> Addr]
          BY ChainSet
    <2>2. chain \in Injection(1 .. Len(chain), Addr)
          BY <1>1, <2>1 DEF StackIsLinked, Injection, IsInjective
    <2>3. Cardinality(1 .. Len(chain)) = Len(chain)
          BY <1>1, CountOfPrefix
    <2>4. QED
          BY <2>2, <2>3, AddrAssumption, FS_Injection
  <1>3. g[0] = head
    <2>1. g[0] = IF 0 < Len(chain) THEN chain[0 + 1] ELSE Null
          BY <1>1
    <2> HIDE DEF g
    <2>2. 0 < Len(chain) <=> chain # <<>>
          BY <1>1, ChainSet
    <2>3. 0 + 1 = 1
          OBVIOUS
    <2>4. QED
          BY <2>1, <2>2, <2>3 DEF StackIsLinked
  <1>4. ASSUME NEW k \in 1 .. N
        PROVE  g[k] = IF g[k - 1] = Null THEN Null ELSE mem[g[k - 1]].next
    <2>1. /\ k \in 0 .. N /\ k - 1 \in 0 .. N /\ (k - 1) + 1 = k /\ k \in Nat
          BY <1>1
    <2>2. CASE k - 1 < Len(chain)
      <3>1. k \in 1 .. Len(chain) /\ (k < Len(chain) <=> k # Len(chain))
        <4>1. k >= 1 /\ k \in Int /\ Len(chain) \in Int /\ k - 1 < Len(chain)
              BY <1>1, <2>1, <2>2
        <4>2. QED
              BY <4>1
      <3>2. g[k - 1] = chain[k] /\ chain[k] # Null
            BY <1>1, <2>1, <2>2, <3>1, NullAssumption
      <3>3. mem[chain[k]].next = IF k = Len(chain) THEN Null ELSE chain[k + 1]
            BY <3>1 DEF StackIsLinked
      <3>4. QED
            BY <2>1, <3>1, <3>2, <3>3
    <2>3. CASE ~ (k - 1 < Len(chain))
          BY <1>1, <2>1, <2>3
    <2>4. QED
          BY <2>2, <2>3
  <1>5. g = [k \in 0 .. N |-> IF k = 0 THEN head
                              ELSE IF g[k - 1] = Null THEN Null ELSE mem[g[k - 1]].next]
    <2>1. \A k \in 0 .. N : k = 0 \/ k \in 1 .. N
          BY <1>1
    <2>2. \A k \in 0 .. N :
            g[k] = IF k = 0 THEN head
                   ELSE IF g[k - 1] = Null THEN Null ELSE mem[g[k - 1]].next
          BY <1>3, <1>4, <2>1
    <2>3. g = [k \in 0 .. N |-> g[k]]
          OBVIOUS
    <2> HIDE DEF g
    <2>4. QED
          BY <2>2, <2>3
  <1>6. \E f : f = [k \in 0 .. N |-> IF k = 0 THEN head
                                     ELSE IF f[k - 1] = Null THEN Null
                                          ELSE mem[f[k - 1]].next]
    <2> HIDE DEF g
    <2>1. QED
          BY <1>5
  <1>7. Walk = [k \in 0 .. N |-> IF k = 0 THEN head
                                 ELSE IF Walk[k - 1] = Null THEN Null
                                      ELSE mem[Walk[k - 1]].next]
        BY <1>6, Zenon DEF Walk
  <1>8. QED
        BY <1>1, <1>2, <1>7

(* The walk visits the nodes of the history in order and then ends.        *)
LEMMA WalkIs ==
  ASSUME TypeOK, StackIsLinked
  PROVE  Found = Held
  <1> DEFINE N == Cardinality(Addr)
             at(k) == IF k < Len(chain) THEN chain[k + 1] ELSE Null
             S == {k \in Nat : k <= N => Walk[k] = at(k)}
  <1>1. /\ N \in Nat /\ Len(chain) \in Nat /\ Len(chain) <= N
        /\ \A i \in 1 .. Len(chain) : chain[i] \in Addr
        BY WalkEquation, ChainSet
  <1>2. Walk = [k \in 0 .. N |-> IF k = 0 THEN head
                                 ELSE IF Walk[k - 1] = Null THEN Null
                                      ELSE mem[Walk[k - 1]].next]
        BY WalkEquation
  <1> HIDE DEF N
  <1>3. 0 \in S
    <2>1. Walk[0] = head
          BY <1>1, <1>2
    <2>2. head = at(0)
      <3>1. (0 < Len(chain) <=> chain # <<>>) /\ 0 + 1 = 1
            BY <1>1, ChainSet
      <3>2. QED
            BY <3>1 DEF StackIsLinked
    <2>3. QED
          BY <2>1, <2>2
  <1>4. ASSUME NEW k \in S PROVE k + 1 \in S
    <2> SUFFICES ASSUME k + 1 <= N PROVE Walk[k + 1] = at(k + 1)
        OBVIOUS
    <2>1. /\ k \in Nat /\ k + 1 \in 0 .. N /\ k + 1 # 0 /\ (k + 1) - 1 = k
          /\ k <= N /\ Walk[k] = at(k)
          BY <1>1
    <2>2. Walk[k + 1] = IF Walk[k] = Null THEN Null ELSE mem[Walk[k]].next
          BY <1>2, <2>1
    <2>3. CASE k < Len(chain)
      <3>1. k + 1 \in 1 .. Len(chain)
            BY <1>1, <2>1, <2>3
      <3>2. Walk[k] = chain[k + 1] /\ chain[k + 1] # Null
            BY <1>1, <2>1, <2>3, <3>1, NullAssumption
      <3>3. mem[chain[k + 1]].next
              = IF k + 1 = Len(chain) THEN Null ELSE chain[(k + 1) + 1]
            BY <3>1 DEF StackIsLinked
      <3>4. k + 1 < Len(chain) <=> k + 1 # Len(chain)
            BY <1>1, <3>1
      <3>5. QED
            BY <2>2, <3>2, <3>3, <3>4
    <2>4. CASE ~ (k < Len(chain))
          BY <1>1, <2>1, <2>2, <2>4
    <2>5. QED
          BY <2>3, <2>4
  <1>5. S = Nat
    <2>1. S \in SUBSET Nat
          OBVIOUS
    <2> HIDE DEF S
    <2>2. QED
          BY <1>3, <1>4, <2>1, SetInduction
  <1>6. \A k \in 0 .. N : Walk[k] = at(k)
    <2>1. \A k \in 0 .. N : k \in S /\ k <= N
          BY <1>1, <1>5
    <2>2. QED
          BY <2>1
  <1>7. Depth = Len(chain)
    <2>1. {k \in 0 .. N : Walk[k] # Null} = 0 .. (Len(chain) - 1)
      <3>1. ASSUME NEW k \in 0 .. N
            PROVE  Walk[k] # Null <=> k \in 0 .. (Len(chain) - 1)
        <4>1. CASE k < Len(chain)
          <5>1. k + 1 \in 1 .. Len(chain) /\ k \in 0 .. (Len(chain) - 1)
                BY <1>1, <4>1
          <5>2. QED
                BY <1>1, <1>6, <4>1, <5>1, NullAssumption
        <4>2. CASE ~ (k < Len(chain))
              BY <1>1, <1>6, <4>2
        <4>3. QED
              BY <4>1, <4>2
      <3>2. 0 .. (Len(chain) - 1) \subseteq 0 .. N
            BY <1>1
      <3>3. QED
            BY <3>1, <3>2
    <2>2. Cardinality(0 .. (Len(chain) - 1)) = Len(chain)
          BY <1>1, CountOfPrefix
    <2>3. QED
          BY <2>1, <2>2 DEF Depth, N
  <1>8. \A i \in 1 .. Len(chain) : Walk[i - 1] = chain[i]
    <2>1. \A i \in 1 .. Len(chain) : /\ i - 1 \in 0 .. N /\ i - 1 < Len(chain)
                                     /\ (i - 1) + 1 = i
          BY <1>1
    <2>2. QED
          BY <1>6, <2>1
  <1>9. QED
        BY <1>7, <1>8 DEF Found, Held

-----------------------------------------------------------------------------
(* What each operation does to the values of the stack, Held, and to the   *)
(* values whose push has taken effect.                                     *)
Pushed == used \ InFlight

LEMMA HeldIs ==
  ASSUME TypeOK
  PROVE  /\ Held \in Seq(Values) /\ Len(Held) = Len(chain)
         /\ \A i \in 1 .. Len(chain) : Held[i] = mem[chain[i]].data
  <1>1. Len(chain) \in Nat /\ \A i \in 1 .. Len(chain) : chain[i] \in Addr
        BY ChainSet
  <1>2. \A i \in 1 .. Len(chain) : mem[chain[i]].data \in Values
        BY <1>1 DEF TypeOK, Node
  <1>3. Held \in [1 .. Len(chain) -> Values]
        BY <1>2 DEF Held
  <1>4. QED
        BY <1>1, <1>3 DEF Held

LEMMA HeldKept ==
  ASSUME TypeOK, UNCHANGED chain, \A a \in ToSet(chain) : mem'[a].data = mem[a].data
  PROVE  Held' = Held
  <1>1. \A i \in 1 .. Len(chain) : chain[i] \in ToSet(chain)
        BY ChainSet
  <1>2. QED
        BY <1>1 DEF Held

LEMMA QuietSteps ==
  ASSUME TypeOK, Orderly, NEW t \in Threads,
         \/ PushNew(t) \/ PushLoad(t) \/ PushFails(t) \/ PopLoad(t) \/ PopFails(t)
         \/ PopReadsNext(t) \/ PopReadsData(t) \/ PopDeletes(t)
  PROVE  UNCHANGED <<Held, Pushed>>
  <1> USE DEF Orderly
  <1> DEFINE pushing == {u \in Threads : pc[u] \in {"load", "cas"}}
  <1>1. CASE PushNew(t)
    <2>1. PICK v \in Values \ used, a \in {b \in Addr : ~ mem[b].live} :
            /\ mem' = [mem EXCEPT ![a] = [live |-> TRUE, data |-> v, next |-> Null]]
            /\ ref' = [ref EXCEPT ![t] = a]
            /\ used' = used \cup {v}
          BY <1>1 DEF PushNew
    <2>2. pc[t] = "idle" /\ pc' = [pc EXCEPT ![t] = "load"] /\ UNCHANGED chain
          BY <1>1 DEF PushNew, Step
    <2>3. /\ \A b \in Addr : b # a => mem'[b] = mem[b]
          /\ mem'[a].data = v
          /\ \A u \in Threads : u # t => pc'[u] = pc[u] /\ ref'[u] = ref[u]
          /\ pc'[t] = "load" /\ ref'[t] = a
          BY <2>1, <2>2 DEF TypeOK
    <2>4. Held' = Held
          BY <2>2, <2>3, NodesLive, HeldKept
    <2>5. \A u \in pushing : ref[u] \in Addr /\ ref[u] # a /\ u # t
          BY <2>1, <2>2, Refs DEF Ownership, Owned
    <2>6. InFlight' = InFlight \cup {v}
      <3>1. InFlight = {mem[ref[u]].data : u \in pushing}
            BY DEF InFlight
      <3>2. {u \in Threads : pc'[u] \in {"load", "cas"}} = pushing \cup {t}
            BY <2>2, <2>3
      <3>3. InFlight' = {mem'[ref'[u]].data : u \in pushing \cup {t}}
            BY <3>2 DEF InFlight
      <3>4. \A u \in pushing : mem'[ref'[u]].data = mem[ref[u]].data
            BY <2>3, <2>5
      <3> HIDE DEF pushing
      <3>5. QED
            BY <2>3, <3>1, <3>3, <3>4
    <2>7. QED
          BY <2>1, <2>4, <2>6 DEF Pushed
  <1>2. ASSUME UNCHANGED <<chain, used>>,
               \A a \in Addr : mem'[a].data = mem[a].data,
               {u \in Threads : pc'[u] \in {"load", "cas"}} = pushing,
               \A u \in pushing : ref'[u] = ref[u]
        PROVE  UNCHANGED <<Held, Pushed>>
    <2>1. Held' = Held
          BY <1>2, ChainSet, HeldKept
    <2>2. \A u \in pushing : mem'[ref'[u]].data = mem[ref[u]].data
          BY <1>2, Refs
    <2>3. InFlight = {mem[ref[u]].data : u \in pushing}
          BY DEF InFlight
    <2>4. InFlight' = {mem'[ref'[u]].data : u \in pushing}
          BY <1>2 DEF InFlight
    <2> HIDE DEF pushing
    <2>5. InFlight' = InFlight
          BY <2>2, <2>3, <2>4
    <2>6. QED
          BY <1>2, <2>1, <2>5 DEF Pushed
  <1>3. CASE PushLoad(t) \/ PushFails(t) \/ PopDeletes(t)
    <2>1. /\ UNCHANGED <<chain, used, ref>> /\ ref[t] \in Addr
          /\ \/ mem' = [mem EXCEPT ![ref[t]].next = head]
             \/ mem' = [mem EXCEPT ![ref[t]].live = FALSE]
          BY <1>3, Refs DEF PushLoad, PushFails, PopDeletes, Deleted, Step
    <2>2. \A a \in Addr : mem'[a].data = mem[a].data
          BY <2>1 DEF TypeOK, Node
    <2>3. {u \in Threads : pc'[u] \in {"load", "cas"}} = pushing
          BY <1>3 DEF PushLoad, PushFails, PopDeletes, Step, TypeOK
    <2>4. QED
          BY <1>2, <2>1, <2>2, <2>3
  <1>4. CASE PopLoad(t) \/ PopFails(t) \/ PopReadsNext(t) \/ PopReadsData(t)
    <2>1. /\ UNCHANGED <<chain, used, mem>> /\ t \notin pushing
          /\ \A u \in Threads : u # t => ref'[u] = ref[u] /\ pc'[u] = pc[u]
          /\ pc'[t] \notin {"load", "cas"}
          BY <1>4 DEF PopLoad, PopFails, Loaded, PopReadsNext, PopReadsData, Step, TypeOK
    <2>2. {u \in Threads : pc'[u] \in {"load", "cas"}} = pushing
          BY <2>1
    <2>3. QED
          BY <1>2, <2>1, <2>2
  <1>5. QED
        BY <1>1, <1>3, <1>4

LEMMA PushEffect ==
  ASSUME TypeOK, Orderly, NEW t \in Threads, PushSwaps(t)
  PROVE  LET v == mem[ref[t]].data
         IN  /\ v \in Values \ Pushed
             /\ Held' = <<v>> \o Held
             /\ Pushed' = Pushed \cup {v}
  <1> USE DEF Orderly
  <1> DEFINE a == ref[t]
             v == mem[a].data
             n == Len(chain) + 1
             pushing == {u \in Threads : pc[u] \in {"load", "cas"}}
  <1>1. /\ pc[t] = "cas" /\ pc' = [pc EXCEPT ![t] = "idle"] /\ chain' = <<a>> \o chain
        /\ UNCHANGED <<mem, ref, nxt, used, popped>>
        BY DEF PushSwaps, Step
  <1>2. a \in Addr /\ a \in Holders /\ t \in pushing
        BY <1>1, Refs DEF Holders
  <1>3. v \in Values /\ v \in used
        BY <1>2 DEF TypeOK, Node, ValuesOnce
  <1>4. \A u \in pushing : mem[ref[u]].data = v => u = t
    <2>1. \A u \in pushing : ref[u] \in Holders /\ Owned(u)
          BY DEF Holders, Owned
    <2>2. \A u \in pushing : mem[ref[u]].data = v => ref[u] = a
          BY <1>2, <2>1 DEF ValuesOnce
    <2>3. QED
          BY <1>2, <2>1, <2>2 DEF Ownership
  <1>5. InFlight = {mem[ref[u]].data : u \in pushing}
        BY DEF InFlight
  <1>6. {u \in Threads : pc'[u] \in {"load", "cas"}} = pushing \ {t}
        BY <1>1 DEF TypeOK
  <1>7. InFlight' = {mem[ref[u]].data : u \in pushing \ {t}}
        BY <1>1, <1>6 DEF InFlight
  <1>8. v \in InFlight /\ InFlight' = InFlight \ {v}
    <2> HIDE DEF pushing
    <2>1. QED
          BY <1>2, <1>4, <1>5, <1>7
  <1>9. /\ Len(chain) \in Nat /\ Len(chain') = n /\ chain'[1] = a
        /\ \A i \in 2 .. n : i - 1 \in 1 .. Len(chain) /\ chain'[i] = chain[i - 1]
        BY <1>1, <1>2, ChainPush, ChainSet
  <1>10. Held' = [i \in 1 .. n |-> IF i = 1 THEN v ELSE Held[i - 1]]
    <2>1. \A i \in 1 .. n : i = 1 \/ i \in 2 .. n
          BY <1>9
    <2>2. \A i \in 2 .. n : mem[chain'[i]].data = Held[i - 1]
          BY <1>9, HeldIs
    <2>3. \A i \in 1 .. n : mem[chain'[i]].data = IF i = 1 THEN v ELSE Held[i - 1]
          BY <1>9, <2>1, <2>2
    <2>4. Held' = [i \in 1 .. n |-> mem[chain'[i]].data]
          BY <1>1, <1>9 DEF Held
    <2> HIDE DEF v, n
    <2>5. QED
          BY <2>3, <2>4
  <1>11. Held' = <<v>> \o Held
    <2>1. Held \in Seq(Values) /\ n \in Nat /\ n = Len(Held) + 1
          BY <1>9, HeldIs
    <2> HIDE DEF v, n
    <2>2. QED
          BY <1>3, <1>10, <2>1, ConsIs
  <1>12. QED
         BY <1>1, <1>3, <1>8, <1>11 DEF Pushed

LEMMA PopEffect ==
  ASSUME TypeOK, Orderly, NEW t \in Threads, PopSwaps(t)
  PROVE  Held # <<>> /\ Held' = Tail(Held) /\ Pushed' = Pushed
  <1> USE DEF Orderly
  <1> DEFINE n == Len(chain) - 1
             pushing == {u \in Threads : pc[u] \in {"load", "cas"}}
  <1>1. /\ pc[t] = "popcas" /\ pc' = [pc EXCEPT ![t] = "data"]
        /\ chain' = SubSeq(chain, 2, Len(chain))
        /\ UNCHANGED <<mem, ref, nxt, used, popped>>
        BY DEF PopSwaps, Step
  <1>2. chain # <<>>
        BY PopSwapsTop
  <1>3. /\ Len(chain) \in Nat \ {0} /\ Len(chain') = n
        /\ \A i \in 1 .. n : i + 1 \in 2 .. Len(chain) /\ chain'[i] = chain[i + 1]
        BY <1>1, <1>2, ChainPop
  <1>4. /\ Held \in Seq(Values) /\ Len(Held) = n + 1 /\ n \in Nat /\ Held # <<>>
        BY <1>3, HeldIs
  <1>5. Held' = [i \in 1 .. n |-> Held[i + 1]]
    <2>1. \A i \in 1 .. n : i + 1 \in 1 .. Len(chain) /\ chain'[i] = chain[i + 1]
          BY <1>3
    <2>2. \A i \in 1 .. n : mem[chain'[i]].data = Held[i + 1]
          BY <2>1, HeldIs
    <2>3. Held' = [i \in 1 .. n |-> mem[chain'[i]].data]
          BY <1>1, <1>3 DEF Held
    <2> HIDE DEF n
    <2>4. QED
          BY <2>2, <2>3
  <1>6. Held' = Tail(Held)
    <2> HIDE DEF n
    <2>1. QED
          BY <1>4, <1>5, TailIs
  <1>7. {u \in Threads : pc'[u] \in {"load", "cas"}} = pushing
        BY <1>1 DEF TypeOK
  <1>8. InFlight' = InFlight
        BY <1>1, <1>7 DEF InFlight
  <1>9. QED
        BY <1>1, <1>4, <1>6, <1>8 DEF Pushed

(* Until a pop deletes a node that another pop has loaded, the list in     *)
(* memory implements the abstract stack: what a walk from head finds       *)
(* changes only at the swaps, which push and pop one value each.           *)
THEOREM ListImplementsStack == Spec => ImplementsStack
  <1> DEFINE Match == TypeOK /\ StackIsLinked => Found = Held
  <1>1. Init => Abs!Init
    <2> SUFFICES ASSUME Init PROVE Abs!Init
        OBVIOUS
    <2>1. Found = Held
      <3>1. TypeOK /\ Orderly
            BY InvInit DEF IInv, Init
      <3>2. QED
            BY <3>1, WalkIs DEF Orderly
    <2>2. Held = <<>>
      <3>1. 1 .. Len(chain) = {}
            BY DEF Init
      <3>2. QED
            BY <3>1 DEF Held
    <2>3. Pushed = {}
          BY DEF Init, Pushed
    <2>4. QED
          BY <2>1, <2>2, <2>3 DEF Abs!Init, Found, Pushed
  <1>2. Match
        BY WalkIs
  <1>3. ASSUME IInv, Match, Match', [Next]_vars, ~ stale
        PROVE  [Abs!Next]_<<Found, Pushed>>
    <2>1. TypeOK /\ Orderly /\ TypeOK' /\ StackIsLinked'
          BY <1>3, InvStep, StillLinked DEF IInv
    <2>2. Found = Held /\ Found' = Held'
          BY <1>3, <2>1 DEF Orderly
    <2>3. ASSUME NEW t \in Threads, PushSwaps(t) PROVE Abs!Next
      <3>1. PICK v \in Values : /\ v \notin Pushed /\ Found' = <<v>> \o Found
                                /\ Pushed' = Pushed \cup {v}
            BY <2>1, <2>2, <2>3, PushEffect
      <3>2. Abs!Push(v)
            BY <3>1 DEF Abs!Push, Found, Pushed
      <3>3. QED
            BY <3>2 DEF Abs!Next
    <2>4. ASSUME NEW t \in Threads, PopSwaps(t) PROVE Abs!Next
      <3>1. Found # <<>> /\ Found' = Tail(Found) /\ Pushed' = Pushed
            BY <2>1, <2>2, <2>4, PopEffect
      <3>2. Abs!Pop
            BY <3>1 DEF Abs!Pop, Found, Pushed
      <3>3. QED
            BY <3>2 DEF Abs!Next
    <2>5. ASSUME NEW t \in Threads, ThreadStep(t), ~ PushSwaps(t), ~ PopSwaps(t)
          PROVE  UNCHANGED <<Found, Pushed>>
          BY <2>1, <2>2, <2>5, QuietSteps DEF ThreadStep
    <2>6. CASE UNCHANGED vars
      <3>1. Held' = Held
            BY <2>6 DEF vars, Held
      <3>2. Pushed' = Pushed
            BY <2>6 DEF vars, Pushed, InFlight
      <3>3. QED
            BY <2>2, <3>1, <3>2
    <2>7. QED
          BY <1>3, <2>3, <2>4, <2>5, <2>6 DEF Next
  <1>4. IInv /\ Match /\ Match' /\ [Next]_vars => [stale \/ Abs!Next]_Abs!vars
        BY <1>3 DEF Abs!vars, Found, Pushed
  <1>5. QED
        BY <1>1, <1>2, <1>4, InvCorrect, PTL DEF Spec, ImplementsStack

-----------------------------------------------------------------------------
(* The logger *)

LogTypes ==
    /\ logfile \in Seq(Nat) /\ archive \in [1 .. MaxTime -> Seq(Nat)]
    /\ clock \in 1 .. MaxTime /\ written \in Nat /\ logLegal \in BOOLEAN

\* A file holds only numbers of lines that were written.
Numbered ==
    \A n : /\ InFile(n, logfile) => n \in 1 .. written
           /\ \A t \in 1 .. MaxTime : InFile(n, archive[t]) => n \in 1 .. written

\* No two files hold the same line.
FilesApart ==
    \A n : \A t \in 1 .. MaxTime :
        InFile(n, archive[t]) =>
            /\ ~InFile(n, logfile)
            /\ \A u \in 1 .. MaxTime : InFile(n, archive[u]) => u = t

\* The line n is in some file.
LineHeld(n) == InFile(n, logfile) \/ \E t \in 1 .. MaxTime : InFile(n, archive[t])

\* A second rotation within a second does lose a line: the one it replaced
\* was not empty.
HeldIffLegal ==
    /\ logLegal => \A n \in 1 .. written : LineHeld(n)
    /\ ~logLegal => \E n \in 1 .. written : ~LineHeld(n)

LogInv == LogTypes /\ Numbered /\ FilesApart /\ HeldIffLegal

LEMMA InAppended ==
    ASSUME NEW s \in Seq(Nat), NEW m \in Nat
    PROVE  /\ Append(s, m) \in Seq(Nat)
           /\ \A n : InFile(n, Append(s, m)) <=> InFile(n, s) \/ n = m
<1> DEFINE k == Len(s)  a == Append(s, m)
<1>1. k \in Nat /\ Len(a) = k + 1 /\ a \in Seq(Nat) /\ a[k + 1] = m
  OBVIOUS
<1>2. \A i \in 1 .. k : a[i] = s[i]
  OBVIOUS
<1> HIDE DEF a, k
<1>3. ASSUME NEW n PROVE InFile(n, a) <=> InFile(n, s) \/ n = m
  <2>1. ASSUME InFile(n, a) PROVE InFile(n, s) \/ n = m
    <3>1. PICK i \in 1 .. Len(a) : a[i] = n
      BY <2>1 DEF InFile
    <3>2. i \in 1 .. k \/ i = k + 1
      BY <1>1, <3>1
    <3>3. i \in 1 .. k => InFile(n, s)
      BY <1>2, <3>1 DEF InFile, k
    <3> QED
      BY <1>1, <3>1, <3>2, <3>3
  <2>2. ASSUME InFile(n, s) PROVE InFile(n, a)
    <3>1. PICK i \in 1 .. k : s[i] = n
      BY <2>2 DEF InFile, k
    <3>2. i \in 1 .. Len(a) /\ a[i] = n
      BY <1>1, <1>2, <3>1
    <3> QED
      BY <3>2 DEF InFile
  <2>3. ASSUME n = m PROVE InFile(n, a)
    <3>1. k + 1 \in 1 .. Len(a)
      BY <1>1
    <3> QED
      BY <1>1, <2>3, <3>1 DEF InFile
  <2> QED
    BY <2>1, <2>2, <2>3
<1> QED
  BY <1>1, <1>3 DEF a

LEMMA InEmpty ==
    /\ \A n : ~InFile(n, <<>>)
    /\ \A s \in Seq(Nat) : s # <<>> => InFile(s[1], s)
<1>1. \A n : ~InFile(n, <<>>)
  BY DEF InFile
<1>2. ASSUME NEW s \in Seq(Nat), s # <<>> PROVE 1 \in 1 .. Len(s)
  BY <1>2
<1> QED
  BY <1>1, <1>2 DEF InFile

LEMMA LogInitInv == LogInit => LogInv
<1> SUFFICES ASSUME LogInit PROVE LogInv
  OBVIOUS
<1>1. LogTypes
  BY MaxTimeAssumption DEF LogInit, LogTypes
<1>2. \A n : ~InFile(n, logfile) /\ \A t \in 1 .. MaxTime : ~InFile(n, archive[t])
  BY InEmpty DEF LogInit
<1>3. logLegal /\ 1 .. written = {}
  BY DEF LogInit
<1> QED
  BY <1>1, <1>2, <1>3 DEF LogInv, Numbered, FilesApart, HeldIffLegal

LEMMA LogUnchanged ==
    ASSUME LogInv, UNCHANGED logFiles, clock' \in 1 .. MaxTime
    PROVE  LogInv'
BY DEF LogInv, LogTypes, Numbered, FilesApart, HeldIffLegal, LineHeld, logFiles

\* A line is appended to the log, and the file is not renamed.
LEMMA LogAppends ==
    ASSUME LogInv, logfile' = Append(logfile, written + 1), written' = written + 1,
           archive' = archive, logLegal' = logLegal, clock' = clock
    PROVE  LogInv'
<1> USE DEF LogInv
<1>1. written \in Nat /\ written + 1 \in Nat /\ logfile \in Seq(Nat)
  BY DEF LogTypes
<1>2. /\ logfile' \in Seq(Nat)
      /\ \A n : InFile(n, logfile') <=> InFile(n, logfile) \/ n = written + 1
  BY <1>1, InAppended
<1>3. 1 .. written' = (1 .. written) \cup {written + 1} /\ written + 1 \notin 1 .. written
  BY <1>1
<1>4. LogTypes'
  BY <1>1, <1>2 DEF LogTypes
<1>5. Numbered'
  BY <1>2, <1>3 DEF Numbered
<1>6. FilesApart'
  BY <1>2, <1>3 DEF FilesApart, Numbered
<1>7. \A n : LineHeld(n)' <=> LineHeld(n) \/ n = written + 1
  BY <1>2 DEF LineHeld
<1>8. HeldIffLegal'
  BY <1>3, <1>7 DEF HeldIffLegal
<1> QED
  BY <1>4, <1>5, <1>6, <1>8

\* What the log file held is renamed after the second of the clock.
LEMMA LogRenames ==
    ASSUME LogInv, Renames(logfile), written' = written, clock' = clock
    PROVE  LogInv'
<1> USE DEF LogInv
<1>1. /\ written \in Nat /\ logfile \in Seq(Nat) /\ clock \in 1 .. MaxTime
      /\ archive \in [1 .. MaxTime -> Seq(Nat)] /\ logLegal \in BOOLEAN
  BY DEF LogTypes
<1>2. /\ logfile' = <<>> /\ archive' = [archive EXCEPT ![clock] = logfile]
      /\ logLegal' = (logLegal /\ archive[clock] = <<>>)
  BY DEF Renames, Begun
<1>3. /\ archive' \in [1 .. MaxTime -> Seq(Nat)]
      /\ archive'[clock] = logfile
      /\ \A t \in 1 .. MaxTime : t # clock => archive'[t] = archive[t]
  BY <1>1, <1>2
<1>4. \A n : ~InFile(n, logfile')
  BY <1>2, InEmpty
<1>5. LogTypes'
  BY <1>1, <1>2, <1>3 DEF LogTypes
<1>6. \A n : \A t \in 1 .. MaxTime : InFile(n, archive'[t]) <=>
          \/ t = clock /\ InFile(n, logfile)
          \/ t # clock /\ InFile(n, archive[t])
  BY <1>3
<1>7. Numbered'
  BY <1>4, <1>6 DEF Numbered
<1>8. FilesApart'
  BY <1>4, <1>6 DEF FilesApart
<1>9. \A n : LineHeld(n)' <=> \/ InFile(n, logfile)
                           \/ \E t \in 1 .. MaxTime : t # clock /\ InFile(n, archive[t])
  BY <1>1, <1>4, <1>6 DEF LineHeld
<1>10. CASE archive[clock] = <<>>
  <2>1. \A n : ~InFile(n, archive[clock])
    BY <1>10, InEmpty
  <2>2. \A n : LineHeld(n)' <=> LineHeld(n)
    BY <1>9, <2>1 DEF LineHeld
  <2>3. logLegal' = logLegal
    BY <1>1, <1>2, <1>10
  <2>4. HeldIffLegal'
    BY <2>2, <2>3 DEF HeldIffLegal
  <2> QED
    BY <1>5, <1>7, <1>8, <2>4
<1>11. CASE archive[clock] # <<>>
  <2>1. PICK m : InFile(m, archive[clock])
    BY <1>1, <1>11, InEmpty
  <2>2. m \in 1 .. written /\ ~InFile(m, logfile)
    BY <1>1, <2>1 DEF Numbered, FilesApart
  <2>3. \A t \in 1 .. MaxTime : t # clock => ~InFile(m, archive[t])
    BY <1>1, <2>1 DEF FilesApart
  <2>4. ~LineHeld(m)' /\ m \in 1 .. written'
    BY <1>9, <2>2, <2>3
  <2>5. HeldIffLegal'
    BY <1>2, <1>11, <2>4 DEF HeldIffLegal
  <2> QED
    BY <1>5, <1>7, <1>8, <2>5
<1> QED
  BY <1>10, <1>11

\* A line is appended and the file renamed after the second of the clock.
LEMMA LogRotates ==
    ASSUME LogInv, Renames(Append(logfile, written + 1)), written' = written + 1, clock' = clock
    PROVE  LogInv'
<1> USE DEF LogInv
<1> DEFINE lines == Append(logfile, written + 1)
<1>1. /\ written \in Nat /\ written + 1 \in Nat /\ logfile \in Seq(Nat)
      /\ clock \in 1 .. MaxTime /\ archive \in [1 .. MaxTime -> Seq(Nat)]
      /\ logLegal \in BOOLEAN
  BY DEF LogTypes
<1>2. /\ lines \in Seq(Nat)
      /\ \A n : InFile(n, lines) <=> InFile(n, logfile) \/ n = written + 1
  BY <1>1, InAppended
<1> HIDE DEF lines
<1>3. 1 .. written' = (1 .. written) \cup {written + 1} /\ written + 1 \notin 1 .. written
  BY <1>1
<1>0. /\ logfile' = <<>> /\ archive' = [archive EXCEPT ![clock] = lines]
      /\ logLegal' = (logLegal /\ archive[clock] = <<>>)
  BY DEF Renames, Begun, lines
<1>4. /\ archive' \in [1 .. MaxTime -> Seq(Nat)]
      /\ archive'[clock] = lines
      /\ \A t \in 1 .. MaxTime : t # clock => archive'[t] = archive[t]
  BY <1>0, <1>1, <1>2
<1>5. \A n : ~InFile(n, logfile')
  BY <1>0, InEmpty
<1>6. LogTypes'
  BY <1>0, <1>1, <1>4 DEF LogTypes
<1>7. \A n : \A t \in 1 .. MaxTime : InFile(n, archive'[t]) <=>
          \/ t = clock /\ (InFile(n, logfile) \/ n = written + 1)
          \/ t # clock /\ InFile(n, archive[t])
  BY <1>2, <1>4
<1>8. Numbered'
  BY <1>3, <1>5, <1>7 DEF Numbered
<1>9. FilesApart'
  <2>1. \A n : \A t, u \in 1 .. MaxTime :
            InFile(n, archive'[t]) /\ InFile(n, archive'[u]) => u = t
    <3> SUFFICES ASSUME NEW n, NEW t \in 1 .. MaxTime, NEW u \in 1 .. MaxTime,
                        InFile(n, archive'[t]), InFile(n, archive'[u]), u # t
                 PROVE  FALSE
      OBVIOUS
    <3>1. n = written + 1 => t = clock /\ u = clock
      BY <1>3, <1>7 DEF Numbered
    <3>2. n # written + 1
      BY <3>1
    <3> QED
      BY <1>7, <3>2 DEF FilesApart
  <2> QED
    BY <1>5, <2>1 DEF FilesApart
<1>10. \A n : LineHeld(n)' <=> \/ InFile(n, logfile) \/ n = written + 1
                           \/ \E t \in 1 .. MaxTime : t # clock /\ InFile(n, archive[t])
  BY <1>1, <1>5, <1>7 DEF LineHeld
<1>11. CASE archive[clock] = <<>>
  <2>1. \A n : ~InFile(n, archive[clock])
    BY <1>11, InEmpty
  <2>2. \A n : LineHeld(n)' <=> LineHeld(n) \/ n = written + 1
    BY <1>10, <2>1 DEF LineHeld
  <2>3. logLegal' = logLegal
    BY <1>0, <1>1, <1>11
  <2>4. HeldIffLegal'
    BY <1>3, <2>2, <2>3 DEF HeldIffLegal
  <2> QED
    BY <1>6, <1>8, <1>9, <2>4
<1>12. CASE archive[clock] # <<>>
  <2>1. PICK m : InFile(m, archive[clock])
    BY <1>1, <1>12, InEmpty
  <2>2. m \in 1 .. written /\ ~InFile(m, logfile)
    BY <1>1, <2>1 DEF Numbered, FilesApart
  <2>3. \A t \in 1 .. MaxTime : t # clock => ~InFile(m, archive[t])
    BY <1>1, <2>1 DEF FilesApart
  <2>4. ~LineHeld(m)' /\ m \in 1 .. written'
    BY <1>3, <1>10, <2>2, <2>3
  <2>5. HeldIffLegal'
    BY <1>0, <1>12, <2>4 DEF HeldIffLegal
  <2> QED
    BY <1>6, <1>8, <1>9, <2>5
<1> QED
  BY <1>11, <1>12

LEMMA LogNextInv == LogInv /\ [LogNext]_logVars => LogInv'
<1> SUFFICES ASSUME LogInv, [LogNext]_logVars PROVE LogInv'
  OBVIOUS
<1>0. clock \in 1 .. MaxTime /\ MaxTime \in Nat /\ logLegal \in BOOLEAN
  BY MaxTimeAssumption DEF LogInv, LogTypes
<1>1. CASE open_log
  BY <1>0, <1>1, LogUnchanged DEF open_log
<1>2. CASE close_log
  BY <1>0, <1>2, LogUnchanged DEF close_log
<1>3. CASE Second
  <2>1. clock' \in 1 .. MaxTime
    BY <1>0, <1>3 DEF Second
  <2> QED
    BY <1>3, <2>1, LogUnchanged DEF Second
<1>4. ASSUME NEW l \in Levels, setLevel(l) PROVE LogInv'
  BY <1>0, <1>4, LogUnchanged DEF setLevel
<1>5. ASSUME NEW l \in Levels, log(l) PROVE LogInv'
  <2>1. /\ written' = written + 1 /\ clock' = clock
        /\ \/ Renames(Append(logfile, written + 1))
           \/ logfile' = Append(logfile, written + 1) /\ archive' = archive /\ logLegal' = logLegal
    BY <1>5, Zenon DEF log
  <2> QED
    BY <2>1, LogRotates, LogAppends
<1>6. ASSUME \/ rotate
             \/ \E l \in Levels : log_unopened(l)
      PROVE  LogInv'
  <2>1. /\ written' = written /\ clock' = clock
        /\ \/ Renames(logfile)
           \/ logfile' = logfile /\ archive' = archive /\ logLegal' = logLegal
    BY <1>6, Zenon DEF rotate, log_unopened
  <2> QED
    BY <1>0, <2>1, LogRenames, LogUnchanged DEF logFiles
<1>7. ASSUME NEW n \in SizeLimits, set_log_max(n) PROVE LogInv'
  BY <1>0, <1>7, LogUnchanged DEF set_log_max
<1>8. CASE UNCHANGED logVars
  <2>1. UNCHANGED logFiles /\ clock' = clock
    BY <1>8 DEF logVars, logFiles
  <2> QED
    BY <1>0, <2>1, LogUnchanged
<1> QED
  BY <1>1, <1>2, <1>3, <1>4, <1>5, <1>6, <1>7, <1>8 DEF LogNext

LEMMA LogInvKept == LogInv => LogKept
<1> SUFFICES ASSUME LogInv PROVE LogKept
  OBVIOUS
<1>1. \A n : LineHeld(n) <=>
        IF InFile(n, logfile) THEN \A t \in 1 .. MaxTime : ~InFile(n, archive[t])
        ELSE \E t \in 1 .. MaxTime : InFile(n, archive[t]) /\ \A u \in 1 .. MaxTime \ {t} : ~InFile(n, archive[u])
  BY DEF LogInv, FilesApart, LineHeld
<1>2. logLegal <=> \A n \in 1 .. written : LineHeld(n)
  BY DEF LogInv, HeldIffLegal
<1> QED
  BY <1>1, <1>2 DEF LogKept

\* The logger keeps every line in exactly one file, whatever is called and in
\* which state of the stream, unless a file is renamed over one of the same
\* second that held lines -- and then it really loses one.
THEOREM LinesAreKept == LogInit /\ [][LogNext]_logVars => []LogKept
<1> QED
  BY LogInitInv, LogNextInv, LogInvKept, PTL

-----------------------------------------------------------------------------
(* Json documents *)

JsonShape(s) ==
    /\ s = [at |-> s.at, blocks |-> s.blocks, ok |-> s.ok]
    /\ s.blocks \in [Blocks -> BlockTypes \cup {"free"}]

\* What a place holds, and what it stands in.
PlaceSound(s, p) ==
    /\ s.at[p].type # Unset
    /\ s.at[p].type \in BlockTypes =>
         /\ s.at[p].ptr \in Blocks /\ s.blocks[s.at[p].ptr] = s.at[p].type
         /\ p[1] # s.at[p].ptr
    /\ s.at[p].type \notin BlockTypes => s.at[p].ptr = Nil
    /\ p[1] # Nil => p[1] \in Blocks /\ s.blocks[p[1]] = "object"

\* Nobody points to the block c.
Orphan(s, c) == c \in Blocks /\ s.blocks[c] # "free" /\ \A p \in DOMAIN s.at : s.at[p].ptr # c

JsonSound(s) ==
    /\ JsonShape(s) /\ s.ok
    /\ \A d \in Docs : Var(d) \in DOMAIN s.at
    /\ \A p \in DOMAIN s.at : PlaceSound(s, p)
    /\ \A p, q \in DOMAIN s.at : s.at[p].ptr = s.at[q].ptr /\ s.at[p].ptr # Nil => p = q
    /\ \A c \in Blocks : ~Orphan(s, c)

JsonBroken(s) == \/ ~s.ok
                 \/ \E p \in DOMAIN s.at : s.at[p].type = Unset
                 \/ \E c \in Blocks : Orphan(s, c)

\* A call that works leaves a sound document, any other one a broken one.
JsonInv == /\ jsonLegal \in BOOLEAN
           /\ jsonLegal => JsonSound(json)
           /\ ~jsonLegal => JsonBroken(json)

LEMMA BlockFacts ==
    /\ Blocks \in SUBSET Nat /\ Nil \notin Blocks
    /\ "free" \notin BlockTypes /\ "null" \notin BlockTypes /\ Unset \notin BlockTypes
    /\ "object" \in BlockTypes /\ "array" \in BlockTypes /\ "string" \in BlockTypes
    /\ NullJson.type = "null" /\ NullJson.ptr = Nil /\ "null" # Unset
    /\ \A t \in ScalarTypes : t \notin BlockTypes /\ t # Unset
BY JsonAssumption DEF Blocks, Nil, BlockTypes, Unset, NullJson

LEMMA JsonInvOwnership == JsonInv => JsonOwnership
<1> SUFFICES ASSUME JsonInv PROVE JsonOwnership
  OBVIOUS
<1> DEFINE owners(b) == {p \in Places : json.at[p].ptr = b}
<1>1. CASE jsonLegal
  <2>1. JsonSound(json)
    BY <1>1 DEF JsonInv
  <2>2. /\ json.ok
        /\ \A p \in Places : json.at[p].type # Unset
        /\ \A p \in Places : HasBlock(json, p) => json.blocks[json.at[p].ptr] = json.at[p].type
    BY <2>1 DEF JsonSound, PlaceSound, Places, HasBlock
  <2>3. ASSUME NEW b \in Blocks, json.blocks[b] = "free" PROVE owners(b) = {}
    BY <2>1, <2>3, BlockFacts DEF JsonSound, PlaceSound, Places
  <2>4. ASSUME NEW b \in Blocks, json.blocks[b] # "free" PROVE \E p : owners(b) = {p}
    <3>1. PICK p \in Places : json.at[p].ptr = b
      BY <2>1, <2>4 DEF JsonSound, Orphan, Places
    <3>2. \A q \in Places : json.at[q].ptr = b => q = p
      BY <2>1, <3>1, BlockFacts DEF JsonSound, Places
    <3> QED
      BY <3>1, <3>2
  <2>5. \A b \in Blocks : Cardinality(owners(b)) = IF json.blocks[b] = "free" THEN 0 ELSE 1
    BY <2>3, <2>4, FS_EmptySet, FS_Singleton
  <2> QED
    BY <1>1, <2>2, <2>5 DEF JsonOwnership
<1>2. CASE ~jsonLegal
  <2>1. JsonBroken(json)
    BY <1>2 DEF JsonInv
  <2>2. ASSUME NEW c \in Blocks, Orphan(json, c)
        PROVE  Cardinality(owners(c)) = 0 /\ json.blocks[c] # "free"
    <3>1. owners(c) = {}
      BY <2>2 DEF Orphan, Places
    <3> QED
      BY <2>2, <3>1, FS_EmptySet DEF Orphan
  <2>3. SUFFICES ASSUME json.ok, \A p \in Places : json.at[p].type # Unset,
                        \A b \in Blocks : Cardinality(owners(b)) = IF json.blocks[b] = "free" THEN 0 ELSE 1
                 PROVE  FALSE
    BY <1>2, Zenon DEF JsonOwnership
  <2>4. CASE \E p \in DOMAIN json.at : json.at[p].type = Unset
    BY <2>3, <2>4 DEF Places
  <2>5. CASE \E c \in Blocks : Orphan(json, c)
    <3>1. PICK c \in Blocks : Orphan(json, c)
      BY <2>5
    <3>2. Cardinality(owners(c)) = 0 /\ Cardinality(owners(c)) = 1
      BY <2>2, <2>3, <3>1
    <3> QED
      BY <3>2
  <2> QED
    BY <2>1, <2>3, <2>4, <2>5 DEF JsonBroken
<1> QED
  BY <1>1, <1>2 DEF JsonInv

-----------------------------------------------------------------------------
\* t is s, with j at the place p.
HasPut(s, p, j, t) ==
    /\ JsonShape(t) /\ t.blocks = s.blocks /\ t.ok = s.ok
    /\ DOMAIN t.at = DOMAIN s.at \cup {p} /\ t.at[p] = j
    /\ \A q \in DOMAIN s.at : q # p => t.at[q] = s.at[q]

LEMMA PutIs ==
    ASSUME NEW s, JsonShape(s), NEW p, NEW j
    PROVE  HasPut(s, p, j, Put(s, p, j))
<1> SUFFICES ASSUME NEW t, t = Put(s, p, j) PROVE HasPut(s, p, j, t)
  OBVIOUS
<1>1. s = [at |-> s.at, blocks |-> s.blocks, ok |-> s.ok]
  BY DEF JsonShape
<1>2. t = [at |-> [q \in DOMAIN s.at \cup {p} |-> IF q = p THEN j ELSE s.at[q]],
           blocks |-> s.blocks, ok |-> s.ok]
  BY <1>1 DEF Put
<1> QED
  BY <1>2 DEF JsonShape, HasPut

\* t is s, with the new block b of the kind k at the place p.
HasNew(s, p, k, b, t) ==
    /\ s.blocks[b] = "free"
    /\ JsonShape(t) /\ t.ok = s.ok
    /\ t.blocks[b] = k
    /\ \A c \in Blocks : c # b => t.blocks[c] = s.blocks[c]
    /\ DOMAIN t.at = DOMAIN s.at \cup {p} /\ t.at[p] = [type |-> k, ptr |-> b]
    /\ \A q \in DOMAIN s.at : q # p => t.at[q] = s.at[q]

\* The least free block is taken.
LEMMA NewIs ==
    ASSUME NEW s, JsonShape(s), SomeFree(s), NEW p, NEW k \in BlockTypes
    PROVE  \E b \in Blocks : HasNew(s, p, k, b, New(s, p, k))
<1> SUFFICES ASSUME NEW t, t = New(s, p, k) PROVE \E b \in Blocks : HasNew(s, p, k, b, t)
  OBVIOUS
<1> DEFINE F == {b \in Blocks : s.blocks[b] = "free"}
           least(x) == s.blocks[x] = "free" /\ \A c \in Blocks : s.blocks[c] = "free" => x <= c
           b == CHOOSE x \in Blocks : least(x)
           r == [s EXCEPT !.blocks[b] = k]
<1>1. F \in SUBSET Nat /\ F # {}
  BY BlockFacts DEF SomeFree
<1>2. PICK x \in F : \A y \in F : x <= y
  BY <1>1, LeastElement
<1>3. x \in Blocks /\ least(x)
  BY <1>2
<1>4. b \in Blocks /\ least(b)
  BY <1>3
<1>5. t = Put(r, p, [type |-> k, ptr |-> b])
  BY DEF New
<1> HIDE DEF b
<1>6. s = [at |-> s.at, blocks |-> s.blocks, ok |-> s.ok] /\ s.blocks \in [Blocks -> BlockTypes \cup {"free"}]
  BY DEF JsonShape
<1>7. r = [at |-> s.at, blocks |-> [s.blocks EXCEPT ![b] = k], ok |-> s.ok]
  BY <1>6
<1>8. /\ JsonShape(r) /\ r.at = s.at /\ r.ok = s.ok /\ r.blocks[b] = k
      /\ \A c \in Blocks : c # b => r.blocks[c] = s.blocks[c]
  <2>1. [s.blocks EXCEPT ![b] = k] \in [Blocks -> BlockTypes \cup {"free"}]
    BY <1>4, <1>6
  <2>2. r.at = s.at /\ r.ok = s.ok /\ r.blocks = [s.blocks EXCEPT ![b] = k]
    BY <1>7
  <2> HIDE DEF r
  <2> QED
    BY <1>4, <1>6, <1>7, <2>1, <2>2 DEF JsonShape, r
<1> HIDE DEF r
<1>9. HasPut(r, p, [type |-> k, ptr |-> b], t)
  BY <1>5, <1>8, PutIs
<1>10. s.blocks[b] = "free"
  BY <1>4
<1> QED
  BY <1>4, <1>8, <1>9, <1>10 DEF HasPut, HasNew

FlatAt(s, p) == HasBlock(s, p) => \A e \in ElementsOf(s, s.at[p].ptr) : ~HasBlock(s, e)

LEMMA FreeBlockIs ==
    ASSUME NEW s, s = [at |-> s.at, blocks |-> s.blocks, ok |-> s.ok], NEW b \in Blocks
    PROVE  FreeBlock(s, b) = [at |-> [q \in DOMAIN s.at \ ElementsOf(s, b) |-> s.at[q]],
                              blocks |-> [s.blocks EXCEPT ![b] = "free"], ok |-> s.ok]
<1> DEFINE E == ElementsOf(s, b)
<1> HIDE DEF E
<1>1. FreeBlock(s, b) = [[s EXCEPT !.at = [q \in DOMAIN s.at \ E |-> s.at[q]]] EXCEPT !.blocks = [s.blocks EXCEPT ![b] = "free"]]
  BY DEF FreeBlock, E
<1>2. [s EXCEPT !.at = [q \in DOMAIN s.at \ E |-> s.at[q]]] = [at |-> [q \in DOMAIN s.at \ E |-> s.at[q]], blocks |-> s.blocks, ok |-> s.ok]
  OBVIOUS
<1> QED
  BY <1>1, <1>2 DEF E

\* t is s after clear() of the place p.
Cleared(s, p, t) ==
    /\ JsonShape(t) /\ t.ok
    /\ t.at[p] = NullJson /\ p \in DOMAIN t.at
    /\ DOMAIN t.at = IF HasBlock(s, p) THEN {q \in DOMAIN s.at : q[1] # s.at[p].ptr} ELSE DOMAIN s.at
    /\ \A q \in DOMAIN t.at : q # p => t.at[q] = s.at[q]
    /\ \A c \in Blocks : t.blocks[c] = IF HasBlock(s, p) /\ c = s.at[p].ptr THEN "free" ELSE s.blocks[c]

LEMMA ClearIs ==
    ASSUME NEW s, JsonSound(s), NEW p \in DOMAIN s.at
    PROVE  Cleared(s, p, ClearJson(s, p))
<1> SUFFICES ASSUME NEW t, t = ClearJson(s, p) PROVE Cleared(s, p, t)
  OBVIOUS
<1> DEFINE b == s.at[p].ptr
           r == FreeBlock(s, b)
<1> HIDE DEF b, r
<1>1. JsonShape(s) /\ s.ok
  BY DEF JsonSound
<1>2. CASE HasBlock(s, p)
  <2>1. b \in Blocks /\ p[1] # b
    BY <1>2 DEF JsonSound, PlaceSound, HasBlock, b
  <2>2. s = [at |-> s.at, blocks |-> s.blocks, ok |-> s.ok] /\ s.blocks \in [Blocks -> BlockTypes \cup {"free"}]
    BY <1>1 DEF JsonShape
  <2>3. r = [at |-> [q \in DOMAIN s.at \ ElementsOf(s, b) |-> s.at[q]],
             blocks |-> [s.blocks EXCEPT ![b] = "free"], ok |-> s.ok]
    BY <2>1, <2>2, FreeBlockIs DEF r
  <2>4. DOMAIN s.at \ ElementsOf(s, b) = {q \in DOMAIN s.at : q[1] # b}
    BY DEF ElementsOf
  <2>5. t = Put(r, p, NullJson)
    BY <1>2 DEF ClearJson, r, b
  <2>6. /\ r.ok /\ DOMAIN r.at = {q \in DOMAIN s.at : q[1] # b}
        /\ \A q \in DOMAIN r.at : r.at[q] = s.at[q]
        /\ r.blocks = [s.blocks EXCEPT ![b] = "free"]
    BY <1>1, <2>3, <2>4
  <2>7. JsonShape(r)
    BY <2>1, <2>2, <2>3, <2>6 DEF JsonShape
  <2>8. HasPut(r, p, NullJson, t)
    BY <2>5, <2>7, PutIs
  <2>9. \A c \in Blocks : t.blocks[c] = IF c = b THEN "free" ELSE s.blocks[c]
    BY <2>1, <2>2, <2>6, <2>8 DEF HasPut
  <2>10. DOMAIN t.at = {q \in DOMAIN s.at : q[1] # b} /\ p \in DOMAIN t.at
    BY <2>1, <2>6, <2>8 DEF HasPut
  <2> QED
    BY <1>2, <2>6, <2>8, <2>9, <2>10 DEF b, HasPut, Cleared
<1>3. CASE ~HasBlock(s, p)
  <2>1. t = Put(s, p, NullJson)
    BY <1>3 DEF ClearJson
  <2>2. HasPut(s, p, NullJson, t)
    BY <1>1, <2>1, PutIs
  <2> QED
    BY <1>1, <1>3, <2>2 DEF HasPut, Cleared
<1> QED
  BY <1>2, <1>3

\* A document whose block holds no blocks can be cleared.
LEMMA ClearSound ==
    ASSUME NEW s, JsonSound(s), NEW p \in DOMAIN s.at, FlatAt(s, p)
    PROVE  JsonSound(ClearJson(s, p))
<1> SUFFICES ASSUME NEW t, t = ClearJson(s, p) PROVE JsonSound(t)
  OBVIOUS
<1>1. /\ JsonShape(t) /\ t.ok
      /\ t.at[p] = NullJson /\ p \in DOMAIN t.at
      /\ DOMAIN t.at = IF HasBlock(s, p) THEN {q \in DOMAIN s.at : q[1] # s.at[p].ptr} ELSE DOMAIN s.at
      /\ \A q \in DOMAIN t.at : q # p => t.at[q] = s.at[q]
      /\ \A c \in Blocks : t.blocks[c] = IF HasBlock(s, p) /\ c = s.at[p].ptr THEN "free" ELSE s.blocks[c]
  <2>1. Cleared(s, p, t)
    BY ClearIs
  <2> QED
    BY <2>1 DEF Cleared
<1>2. ASSUME NEW q \in DOMAIN t.at PROVE q \in DOMAIN s.at /\ (HasBlock(s, p) => q[1] # s.at[p].ptr)
  BY <1>1, <1>2
<1>3. \A d \in Docs : Var(d) \in DOMAIN t.at
  <2> SUFFICES ASSUME NEW d \in Docs PROVE Var(d) \in DOMAIN t.at
    OBVIOUS
  <2>1. Var(d) \in DOMAIN s.at /\ Var(d)[1] = Nil
    BY DEF JsonSound, Var
  <2>2. HasBlock(s, p) => s.at[p].ptr # Nil
    BY BlockFacts DEF JsonSound, PlaceSound, HasBlock
  <2> QED
    BY <1>1, <2>1, <2>2
<1>4. ASSUME NEW q \in DOMAIN t.at PROVE PlaceSound(t, q)
  <2>1. PlaceSound(s, q) /\ q \in DOMAIN s.at
    BY <1>2, <1>4 DEF JsonSound
  <2>2. q[1] # Nil => q[1] \in Blocks /\ t.blocks[q[1]] = "object"
    BY <1>1, <1>2, <1>4, <2>1 DEF PlaceSound
  <2>3. CASE q = p
    BY <1>1, <2>2, <2>3, BlockFacts DEF PlaceSound
  <2>4. CASE q # p
    <3>1. t.at[q] = s.at[q]
      BY <1>1, <2>4
    <3>2. HasBlock(s, p) /\ s.at[q].type \in BlockTypes => s.at[q].ptr # s.at[p].ptr
      BY <2>1, <2>4, BlockFacts DEF JsonSound, PlaceSound, HasBlock
    <3>3. s.at[q].type \in BlockTypes => t.blocks[s.at[q].ptr] = s.blocks[s.at[q].ptr]
      BY <1>1, <2>1, <3>2 DEF PlaceSound
    <3> QED
      BY <2>1, <2>2, <3>1, <3>3 DEF PlaceSound
  <2> QED
    BY <2>3, <2>4
<1>5. ASSUME NEW q \in DOMAIN t.at, NEW r \in DOMAIN t.at, t.at[q].ptr = t.at[r].ptr, t.at[q].ptr # Nil
      PROVE  q = r
  <2>1. q # p /\ r # p
    BY <1>1, <1>5, BlockFacts
  <2> QED
    BY <1>1, <1>2, <1>5, <2>1 DEF JsonSound
<1>6. ASSUME NEW c \in Blocks, Orphan(t, c) PROVE FALSE
  <2>1. s.blocks[c] # "free" /\ (HasBlock(s, p) => c # s.at[p].ptr)
    BY <1>1, <1>6 DEF Orphan
  <2>2. PICK q \in DOMAIN s.at : s.at[q].ptr = c
    BY <2>1 DEF JsonSound, Orphan
  <2>3. HasBlock(s, q)
    BY <2>2, BlockFacts DEF JsonSound, PlaceSound, HasBlock
  <2>4. q # p
    BY <2>1, <2>2, <2>3
  <2>5. q \in DOMAIN t.at
    BY <1>1, <2>3 DEF FlatAt, ElementsOf
  <2> QED
    BY <1>1, <1>6, <2>2, <2>4, <2>5 DEF Orphan
<1> QED
  BY <1>1, <1>3, <1>4, <1>5, <1>6 DEF JsonSound

\* Clearing any other leaves a block to nobody.
LEMMA ClearOrphans ==
    ASSUME NEW s, JsonSound(s), NEW p \in DOMAIN s.at, ~FlatAt(s, p)
    PROVE  \E c \in Blocks : Orphan(ClearJson(s, p), c)
<1> SUFFICES ASSUME NEW t, t = ClearJson(s, p) PROVE \E c \in Blocks : Orphan(t, c)
  OBVIOUS
<1>1. /\ JsonShape(t) /\ t.ok
      /\ t.at[p] = NullJson /\ p \in DOMAIN t.at
      /\ DOMAIN t.at = IF HasBlock(s, p) THEN {q \in DOMAIN s.at : q[1] # s.at[p].ptr} ELSE DOMAIN s.at
      /\ \A q \in DOMAIN t.at : q # p => t.at[q] = s.at[q]
      /\ \A c \in Blocks : t.blocks[c] = IF HasBlock(s, p) /\ c = s.at[p].ptr THEN "free" ELSE s.blocks[c]
  <2>1. Cleared(s, p, t)
    BY ClearIs
  <2> QED
    BY <2>1 DEF Cleared
<1>2. PICK e \in DOMAIN s.at : HasBlock(s, p) /\ e[1] = s.at[p].ptr /\ HasBlock(s, e)
  BY DEF FlatAt, ElementsOf
<1> DEFINE c == s.at[e].ptr
<1>3. c \in Blocks /\ s.blocks[c] \in BlockTypes /\ e[1] # c
  BY <1>2 DEF JsonSound, PlaceSound, HasBlock
<1> HIDE DEF c
<1>4. t.blocks[c] # "free"
  BY <1>1, <1>2, <1>3, BlockFacts
<1>5. ASSUME NEW q \in DOMAIN t.at, t.at[q].ptr = c PROVE FALSE
  <2>1. q # p
    BY <1>1, <1>3, <1>5, BlockFacts
  <2>2. q \in DOMAIN s.at /\ s.at[q].ptr = c /\ q[1] # s.at[p].ptr
    BY <1>1, <1>2, <1>5, <2>1
  <2>3. c # Nil
    BY <1>3, BlockFacts
  <2>4. q = e
    BY <2>2, <2>3 DEF JsonSound, c
  <2> QED
    BY <1>2, <2>2, <2>4
<1>6. Orphan(t, c)
  BY <1>3, <1>4, <1>5 DEF Orphan
<1> QED
  BY <1>3, <1>6

\* A null or a number, in a place that owns nothing or in a new key.
LEMMA PutSound ==
    ASSUME NEW s, JsonSound(s), NEW p, NEW j,
           j.type \notin BlockTypes, j.type # Unset, j.ptr = Nil,
           \/ p \in DOMAIN s.at /\ ~HasBlock(s, p)
           \/ p \notin DOMAIN s.at /\ p[1] \in Blocks /\ s.blocks[p[1]] = "object"
    PROVE  JsonSound(Put(s, p, j))
<1> SUFFICES ASSUME NEW t, t = Put(s, p, j) PROVE JsonSound(t)
  OBVIOUS
<1>1. JsonShape(s) /\ s.ok
  BY DEF JsonSound
<1>2. HasPut(s, p, j, t)
  BY <1>1, PutIs
<1>3. /\ JsonShape(t) /\ t.ok /\ t.blocks = s.blocks
      /\ DOMAIN t.at = DOMAIN s.at \cup {p} /\ t.at[p] = j
      /\ \A q \in DOMAIN s.at : q # p => t.at[q] = s.at[q]
  BY <1>1, <1>2 DEF HasPut
<1>4. \A d \in Docs : Var(d) \in DOMAIN t.at
  BY <1>3 DEF JsonSound
<1>5. ASSUME NEW q \in DOMAIN t.at PROVE PlaceSound(t, q)
  <2>1. CASE q = p
    <3>1. q[1] # Nil => q[1] \in Blocks /\ t.blocks[q[1]] = "object"
      BY <1>3, <2>1 DEF JsonSound, PlaceSound
    <3> QED
      BY <1>3, <2>1, <3>1 DEF PlaceSound
  <2>2. CASE q # p
    <3>1. q \in DOMAIN s.at /\ t.at[q] = s.at[q] /\ PlaceSound(s, q)
      BY <1>3, <1>5, <2>2 DEF JsonSound
    <3> QED
      BY <1>3, <3>1 DEF PlaceSound
  <2> QED
    BY <2>1, <2>2
<1>6. ASSUME NEW q \in DOMAIN t.at, NEW r \in DOMAIN t.at, t.at[q].ptr = t.at[r].ptr, t.at[q].ptr # Nil
      PROVE  q = r
  <2>1. q # p /\ r # p
    BY <1>3, <1>6
  <2> QED
    BY <1>3, <1>6, <2>1 DEF JsonSound
<1>7. ASSUME NEW c \in Blocks, Orphan(t, c) PROVE FALSE
  <2>1. PICK q \in DOMAIN s.at : s.at[q].ptr = c
    BY <1>3, <1>7 DEF JsonSound, Orphan
  <2>2. HasBlock(s, q)
    BY <2>1, BlockFacts DEF JsonSound, PlaceSound, HasBlock
  <2>3. q # p
    BY <2>1, <2>2
  <2> QED
    BY <1>3, <1>7, <2>1, <2>3 DEF Orphan
<1> QED
  BY <1>3, <1>4, <1>5, <1>6, <1>7 DEF JsonSound

\* A new block, for a place that owns nothing.
LEMMA NewSound ==
    ASSUME NEW s, JsonSound(s), SomeFree(s), NEW p \in DOMAIN s.at, ~HasBlock(s, p), NEW k \in BlockTypes
    PROVE  JsonSound(New(s, p, k))
<1> SUFFICES ASSUME NEW t, t = New(s, p, k) PROVE JsonSound(t)
  OBVIOUS
<1>1. JsonShape(s) /\ s.ok
  BY DEF JsonSound
<1>0. PICK b \in Blocks : HasNew(s, p, k, b, t)
  BY <1>1, NewIs
<1>2. /\ s.blocks[b] = "free"
      /\ JsonShape(t) /\ t.ok = s.ok
      /\ t.blocks[b] = k
      /\ \A c \in Blocks : c # b => t.blocks[c] = s.blocks[c]
      /\ DOMAIN t.at = DOMAIN s.at \cup {p} /\ t.at[p] = [type |-> k, ptr |-> b]
      /\ \A q \in DOMAIN s.at : q # p => t.at[q] = s.at[q]
  BY <1>0 DEF HasNew
<1>3. DOMAIN t.at = DOMAIN s.at /\ t.at[p].type = k /\ t.at[p].ptr = b
  BY <1>2
<1>4. \A q \in DOMAIN s.at : s.at[q].ptr # b /\ q[1] # b
  BY <1>2, BlockFacts DEF JsonSound, PlaceSound
<1>5. \A d \in Docs : Var(d) \in DOMAIN t.at
  BY <1>3 DEF JsonSound
<1>6. ASSUME NEW q \in DOMAIN t.at PROVE PlaceSound(t, q)
  <2>1. PlaceSound(s, q) /\ q[1] # b
    BY <1>3, <1>4, <1>6 DEF JsonSound
  <2>2. q[1] # Nil => q[1] \in Blocks /\ t.blocks[q[1]] = "object"
    BY <1>2, <2>1 DEF PlaceSound
  <2>3. CASE q = p
    BY <1>2, <1>3, <2>1, <2>2, <2>3, BlockFacts DEF PlaceSound
  <2>4. CASE q # p
    <3>1. t.at[q] = s.at[q] /\ s.at[q].ptr # b
      BY <1>2, <1>3, <1>4, <1>6, <2>4
    <3>2. s.at[q].type \in BlockTypes => t.blocks[s.at[q].ptr] = s.blocks[s.at[q].ptr]
      BY <1>2, <2>1, <3>1 DEF PlaceSound
    <3> QED
      BY <2>1, <2>2, <3>1, <3>2 DEF PlaceSound
  <2> QED
    BY <2>3, <2>4
<1>7. ASSUME NEW q \in DOMAIN t.at, NEW r \in DOMAIN t.at, t.at[q].ptr = t.at[r].ptr, t.at[q].ptr # Nil
      PROVE  q = r
  <2>1. CASE q = p \/ r = p
    BY <1>2, <1>3, <1>4, <1>7, <2>1
  <2>2. CASE q # p /\ r # p
    <3>1. t.at[q] = s.at[q] /\ t.at[r] = s.at[r]
      BY <1>2, <1>3, <2>2
    <3> QED
      BY <1>3, <1>7, <3>1 DEF JsonSound
  <2> QED
    BY <2>1, <2>2
<1>8. ASSUME NEW c \in Blocks, Orphan(t, c) PROVE FALSE
  <2>1. c # b
    BY <1>3, <1>8 DEF Orphan
  <2>2. PICK q \in DOMAIN s.at : s.at[q].ptr = c
    BY <1>2, <1>8, <2>1 DEF JsonSound, Orphan
  <2>3. HasBlock(s, q)
    BY <2>2, BlockFacts DEF JsonSound, PlaceSound, HasBlock
  <2>4. q # p
    BY <2>2, <2>3
  <2> QED
    BY <1>2, <1>3, <1>8, <2>2, <2>4 DEF Orphan
<1> QED
  BY <1>1, <1>2, <1>5, <1>6, <1>7, <1>8 DEF JsonSound

\* What nobody points to stays so, whatever is put or made.
LEMMA OrphanKept ==
    ASSUME NEW s, JsonShape(s), NEW c, Orphan(s, c), NEW p
    PROVE  /\ \A j : j.ptr # c => Orphan(Put(s, p, j), c)
           /\ SomeFree(s) => \A k \in BlockTypes : Orphan(New(s, p, k), c)
<1>1. ASSUME NEW j, j.ptr # c PROVE Orphan(Put(s, p, j), c)
  <2> SUFFICES ASSUME NEW t, t = Put(s, p, j) PROVE Orphan(t, c)
    OBVIOUS
  <2>1. HasPut(s, p, j, t)
    BY PutIs
  <2> QED
    BY <1>1, <2>1 DEF HasPut, Orphan
<1>2. ASSUME SomeFree(s), NEW k \in BlockTypes PROVE Orphan(New(s, p, k), c)
  <2> SUFFICES ASSUME NEW t, t = New(s, p, k) PROVE Orphan(t, c)
    OBVIOUS
  <2>0. PICK b \in Blocks : HasNew(s, p, k, b, t)
    BY <1>2, NewIs
  <2>1. /\ s.blocks[b] = "free"
        /\ \A x \in Blocks : x # b => t.blocks[x] = s.blocks[x]
        /\ DOMAIN t.at = DOMAIN s.at \cup {p} /\ t.at[p].ptr = b
        /\ \A q \in DOMAIN s.at : q # p => t.at[q] = s.at[q]
    BY <2>0 DEF HasNew
  <2>2. c # b /\ c \in Blocks /\ t.blocks[c] # "free"
    BY <2>1 DEF Orphan
  <2>3. \A q \in DOMAIN t.at : t.at[q].ptr # c
    BY <2>1, <2>2 DEF Orphan
  <2> QED
    BY <2>2, <2>3 DEF Orphan
<1> QED
  BY <1>1, <1>2

\* The type is set: soundly, unless that clears what holds blocks.
LEMMA SetTypeIs ==
    ASSUME NEW s, JsonSound(s), NEW p \in DOMAIN s.at, NEW k \in ScalarTypes \cup BlockTypes,
           k \in BlockTypes /\ s.at[p].type # k => SomeFree(ClearJson(s, p)),
           NEW t, t = SetType(s, p, k)
    PROVE  /\ JsonShape(t) /\ p \in DOMAIN t.at /\ t.at[p].type = k
           /\ s.at[p].type = k \/ FlatAt(s, p) => JsonSound(t)
           /\ ~(s.at[p].type = k \/ FlatAt(s, p)) => \E c \in Blocks : Orphan(t, c)
<1> DEFINE r == ClearJson(s, p)
<1>1. JsonShape(r) /\ p \in DOMAIN r.at /\ r.at[p] = NullJson /\ ~HasBlock(r, p)
  <2>1. Cleared(s, p, r)
    BY ClearIs
  <2> HIDE DEF r
  <2> QED
    BY <2>1, BlockFacts DEF Cleared, HasBlock
<1>2. FlatAt(s, p) => JsonSound(r)
  BY ClearSound
<1>3. ~FlatAt(s, p) => \E c \in Blocks : Orphan(r, c)
  BY ClearOrphans
<1>4. CASE s.at[p].type = k
  <2>1. t = s
    BY <1>4 DEF SetType
  <2> QED
    BY <1>4, <2>1 DEF JsonSound
<1>5. CASE s.at[p].type # k /\ k \in BlockTypes
  <2>1. t = New(r, p, k) /\ SomeFree(r)
    BY <1>5 DEF SetType
  <2> HIDE DEF r
  <2>2. PICK b \in Blocks : HasNew(r, p, k, b, t)
    BY <1>1, <1>5, <2>1, NewIs
  <2>3. JsonShape(t) /\ p \in DOMAIN t.at /\ t.at[p].type = k
    BY <2>2 DEF HasNew
  <2>4. FlatAt(s, p) => JsonSound(t)
    BY <1>1, <1>2, <1>5, <2>1, NewSound
  <2>5. ~FlatAt(s, p) => \E c \in Blocks : Orphan(t, c)
    BY <1>1, <1>3, <1>5, <2>1, OrphanKept
  <2> QED
    BY <1>5, <2>3, <2>4, <2>5
<1>6. CASE s.at[p].type # k /\ k \notin BlockTypes
  <2> DEFINE j == [type |-> k, ptr |-> Nil]
  <2>1. t = Put(r, p, j)
    BY <1>6 DEF SetType
  <2>2. k # Unset /\ j.type = k /\ j.ptr = Nil
    BY <1>6, BlockFacts
  <2> HIDE DEF r, j
  <2>3. HasPut(r, p, j, t)
    BY <1>1, <2>1, PutIs
  <2>4. JsonShape(t) /\ p \in DOMAIN t.at /\ t.at[p].type = k
    BY <2>2, <2>3 DEF HasPut
  <2>5. FlatAt(s, p) => JsonSound(t)
    BY <1>1, <1>2, <1>6, <2>1, <2>2, PutSound
  <2>6. ~FlatAt(s, p) => \E c \in Blocks : Orphan(t, c)
    BY <1>1, <1>3, <2>1, <2>2, OrphanKept, BlockFacts
  <2> QED
    BY <1>6, <2>4, <2>5, <2>6
<1> QED
  BY <1>4, <1>5, <1>6

-----------------------------------------------------------------------------
LEMMA JsonInitInv == JsonInit => JsonInv
<1> SUFFICES ASSUME JsonInit PROVE JsonInv
  OBVIOUS
<1>1. /\ json.at = [p \in {Var(d) : d \in Docs} |-> NullJson]
      /\ json.blocks = [b \in Blocks |-> "free"] /\ json.ok = TRUE /\ jsonLegal = TRUE
      /\ JsonShape(json)
  BY DEF JsonInit, JsonShape
<1>2. \A p \in DOMAIN json.at : json.at[p] = NullJson /\ p[1] = Nil
  BY <1>1 DEF Var
<1>3. \A p \in DOMAIN json.at : PlaceSound(json, p)
  BY <1>2, BlockFacts DEF PlaceSound
<1>4. \A c \in Blocks : ~Orphan(json, c)
  BY <1>1 DEF Orphan
<1>5. \A p \in DOMAIN json.at : json.at[p].ptr = Nil
  BY <1>2, BlockFacts
<1>6. \A d \in Docs : Var(d) \in DOMAIN json.at
  BY <1>1
<1>7. JsonSound(json)
  BY <1>1, <1>3, <1>4, <1>5, <1>6 DEF JsonSound
<1> QED
  BY <1>1, <1>7 DEF JsonInv

\* A call leaves what JsonInv asks for.
LEMMA CallInv ==
    ASSUME NEW s, NEW works, JsonCall(s, works), works => JsonSound(s), ~works => JsonBroken(s), works \in BOOLEAN
    PROVE  JsonInv'
<1>1. json' = s /\ jsonLegal' = works
  BY DEF JsonCall
<1>2. jsonLegal' \in BOOLEAN
  BY <1>1
<1>3. jsonLegal' => JsonSound(json')
  BY <1>1
<1>4. ~jsonLegal' => JsonBroken(json')
  BY <1>1
<1> QED
  BY <1>2, <1>3, <1>4 DEF JsonInv

LEMMA ConstructInv ==
    ASSUME JsonSound(json), NEW d \in Docs, NEW t \in ScalarTypes \cup BlockTypes, construct(d, t)
    PROVE  JsonInv'
<1> DEFINE p == Var(d)
           s == SetType(json, p, t)
<1>1. p \in DOMAIN json.at /\ ~HasBlock(json, p) /\ (t \in BlockTypes => SomeFree(json)) /\ JsonCall(s, TRUE)
  BY BlockFacts DEF construct, JsonSound, HasBlock
<1> HIDE DEF p
<1>2. Cleared(json, p, ClearJson(json, p))
  BY <1>1, ClearIs
<1>3. t \in BlockTypes => SomeFree(ClearJson(json, p))
  BY <1>1, <1>2 DEF Cleared, SomeFree
<1>4. FlatAt(json, p)
  BY <1>1 DEF FlatAt
<1>5. JsonSound(s)
  BY <1>1, <1>3, <1>4, SetTypeIs
<1> QED
  BY <1>1, <1>5, CallInv

LEMMA ScopeEndsInv ==
    ASSUME JsonSound(json), NEW d \in Docs, ScopeEnds(d)
    PROVE  JsonInv'
<1> DEFINE p == Var(d)
           s == Put(json, p, NullJson)
<1>1. p \in DOMAIN json.at /\ JsonCall(s, ~HasBlock(json, p)) /\ JsonShape(json)
  BY DEF ScopeEnds, JsonSound
<1>2. HasPut(json, p, NullJson, s)
  BY <1>1, PutIs
<1> HIDE DEF p, s
<1>3. ~HasBlock(json, p) => JsonSound(s)
  BY <1>1, PutSound, BlockFacts DEF s
<1>4. ASSUME HasBlock(json, p) PROVE JsonBroken(s)
  <2> DEFINE c == json.at[p].ptr
  <2>1. c \in Blocks /\ json.blocks[c] # "free" /\ c # Nil
    BY <1>1, <1>4, BlockFacts DEF JsonSound, PlaceSound, HasBlock
  <2>2. \A q \in DOMAIN json.at : q # p => json.at[q].ptr # c
    BY <1>1, <2>1 DEF JsonSound
  <2> HIDE DEF c
  <2>3. Orphan(s, c)
    BY <1>2, <2>1, <2>2, BlockFacts DEF HasPut, Orphan
  <2> QED
    BY <2>1, <2>3 DEF JsonBroken
<1>5. (~HasBlock(json, p)) \in BOOLEAN
  OBVIOUS
<1> QED
  BY <1>1, <1>3, <1>4, <1>5, CallInv

LEMMA ClearInv ==
    ASSUME JsonSound(json), NEW p \in DOMAIN json.at, clear_json(p)
    PROVE  JsonInv'
<1>1. JsonCall(ClearJson(json, p), FlatAt(json, p))
  BY DEF clear_json, Flat, FlatAt
<1>2. FlatAt(json, p) => JsonSound(ClearJson(json, p))
  BY ClearSound
<1>3. ~FlatAt(json, p) => JsonBroken(ClearJson(json, p))
  BY ClearOrphans DEF JsonBroken
<1>4. FlatAt(json, p) \in BOOLEAN
  BY DEF FlatAt
<1> QED
  BY <1>1, <1>2, <1>3, <1>4, CallInv

LEMMA AssignValueInv ==
    ASSUME JsonSound(json), NEW p \in DOMAIN json.at, NEW t \in ScalarTypes \cup {"string"}, assign_value(p, t)
    PROVE  JsonInv'
<1> DEFINE works == json.at[p].type = t \/ FlatAt(json, p)
<1>1. JsonCall(SetType(json, p, t), works)
  BY DEF assign_value, Flat, FlatAt
<1>2. t \in BlockTypes /\ json.at[p].type # t => SomeFree(ClearJson(json, p))
  BY DEF assign_value
<1>3. t \in ScalarTypes \cup BlockTypes
  BY BlockFacts
<1>4. works \in BOOLEAN
  BY DEF FlatAt
<1> HIDE DEF works
<1>5. /\ works => JsonSound(SetType(json, p, t))
      /\ ~works => JsonBroken(SetType(json, p, t))
  BY <1>2, <1>3, SetTypeIs DEF JsonBroken, works
<1> QED
  BY <1>1, <1>4, <1>5, CallInv

LEMMA AtKeyInv ==
    ASSUME JsonSound(json), NEW p \in DOMAIN json.at, NEW k \in Keys, at_key(p, k)
    PROVE  JsonInv'
<1> DEFINE works == json.at[p].type = "object" \/ FlatAt(json, p)
           s == SetType(json, p, "object")
           e == Elem(s.at[p].ptr, k)
           r == IF e \in DOMAIN s.at THEN s ELSE Put(s, e, NullJson)
<1>1. JsonCall(r, works)
  BY DEF at_key, Flat, FlatAt
<1>2. json.at[p].type # "object" => SomeFree(ClearJson(json, p))
  BY DEF at_key
<1>3. works \in BOOLEAN
  BY DEF FlatAt
<1> HIDE DEF works
<1>4. /\ JsonShape(s) /\ p \in DOMAIN s.at /\ s.at[p].type = "object"
      /\ works => JsonSound(s)
      /\ ~works => \E c \in Blocks : Orphan(s, c)
  BY <1>2, SetTypeIs, BlockFacts DEF works
<1> HIDE DEF s
<1>5. e[1] = s.at[p].ptr
  BY DEF Elem
<1> HIDE DEF e
<1>6. ASSUME works PROVE JsonSound(r)
  <2>1. JsonSound(s)
    BY <1>4, <1>6
  <2>2. e[1] \in Blocks /\ s.blocks[e[1]] = "object"
    BY <1>4, <1>5, <2>1, BlockFacts DEF JsonSound, PlaceSound
  <2> QED
    BY <2>1, <2>2, PutSound, BlockFacts
<1>7. ASSUME ~works PROVE JsonBroken(r)
  <2>1. PICK c \in Blocks : Orphan(s, c)
    BY <1>4, <1>7
  <2>2. Orphan(Put(s, e, NullJson), c)
    BY <1>4, <2>1, OrphanKept, BlockFacts
  <2> QED
    BY <2>1, <2>2 DEF JsonBroken
<1> HIDE DEF r
<1> QED
  BY <1>1, <1>3, <1>6, <1>7, CallInv

LEMMA RemoveKeyInv ==
    ASSUME JsonSound(json), NEW p \in DOMAIN json.at, NEW k \in Keys, remove_key(p, k)
    PROVE  JsonInv'
<1> DEFINE e == Elem(json.at[p].ptr, k)
           s == [json EXCEPT !.at = [q \in DOMAIN @ \ {e} |-> @[q]]]
<1>1. e \in DOMAIN json.at /\ JsonCall(s, ~HasBlock(json, e))
  BY DEF remove_key, Places
<1>2. e[1] \in Blocks
  BY BlockFacts DEF remove_key, JsonSound, PlaceSound, Elem
<1> HIDE DEF e
<1>3. JsonShape(json) /\ json.ok
  BY DEF JsonSound
<1>4. s = [at |-> [q \in DOMAIN json.at \ {e} |-> json.at[q]], blocks |-> json.blocks, ok |-> json.ok]
  <2>1. json = [at |-> json.at, blocks |-> json.blocks, ok |-> json.ok]
    BY <1>3 DEF JsonShape
  <2> QED
    BY <2>1
<1>5. /\ JsonShape(s) /\ s.ok /\ s.blocks = json.blocks /\ DOMAIN s.at = DOMAIN json.at \ {e}
      /\ \A q \in DOMAIN s.at : s.at[q] = json.at[q]
  BY <1>3, <1>4 DEF JsonShape
<1> HIDE DEF s
<1>6. ASSUME ~HasBlock(json, e) PROVE JsonSound(s)
  <2>1. \A d \in Docs : Var(d) \in DOMAIN s.at
    BY <1>2, <1>5, BlockFacts DEF JsonSound, Var
  <2>2. \A q \in DOMAIN s.at : PlaceSound(s, q)
    BY <1>5 DEF JsonSound, PlaceSound
  <2>3. \A q, r \in DOMAIN s.at : s.at[q].ptr = s.at[r].ptr /\ s.at[q].ptr # Nil => q = r
    BY <1>5 DEF JsonSound
  <2>4. ASSUME NEW c \in Blocks, Orphan(s, c) PROVE FALSE
    <3>1. PICK q \in DOMAIN json.at : json.at[q].ptr = c
      BY <1>5, <2>4 DEF JsonSound, Orphan
    <3>2. HasBlock(json, q)
      BY <3>1, BlockFacts DEF JsonSound, PlaceSound, HasBlock
    <3> QED
      BY <1>5, <1>6, <2>4, <3>1, <3>2 DEF Orphan
  <2> QED
    BY <1>5, <2>1, <2>2, <2>3, <2>4 DEF JsonSound
<1>7. ASSUME HasBlock(json, e) PROVE JsonBroken(s)
  <2> DEFINE c == json.at[e].ptr
  <2>1. c \in Blocks /\ json.blocks[c] # "free" /\ c # Nil
    BY <1>1, <1>7, BlockFacts DEF JsonSound, PlaceSound, HasBlock
  <2>2. \A q \in DOMAIN json.at : q # e => json.at[q].ptr # c
    BY <1>1, <2>1 DEF JsonSound
  <2> HIDE DEF c
  <2>3. Orphan(s, c)
    BY <1>5, <2>1, <2>2 DEF Orphan
  <2> QED
    BY <2>1, <2>3 DEF JsonBroken
<1>8. (~HasBlock(json, e)) \in BOOLEAN
  OBVIOUS
<1> QED
  BY <1>1, <1>6, <1>7, <1>8, CallInv

LEMMA CopiedIs == \A j : Copied(j).type = Unset /\ Copied(j).ptr = j.ptr
BY DEF Copied

\* Two documents that agree in every place are sound together.
LEMMA SameSound ==
    ASSUME NEW s, JsonSound(s), NEW r, JsonShape(r), r.blocks = s.blocks, r.ok = s.ok,
           DOMAIN r.at = DOMAIN s.at, \A q \in DOMAIN s.at : r.at[q] = s.at[q]
    PROVE  JsonSound(r)
<1>3. \A q \in DOMAIN r.at : PlaceSound(r, q)
  BY DEF JsonSound, PlaceSound
<1>4. \A c \in Blocks : ~Orphan(r, c)
  BY DEF JsonSound, Orphan
<1>5. \A d \in Docs : Var(d) \in DOMAIN r.at
  BY DEF JsonSound
<1>6. \A q, t \in DOMAIN r.at : r.at[q].ptr = r.at[t].ptr /\ r.at[q].ptr # Nil => q = t
  BY DEF JsonSound
<1>7. r.ok
  BY DEF JsonSound
<1> QED
  BY <1>3, <1>4, <1>5, <1>6, <1>7 DEF JsonSound

LEMMA AtIndexInv ==
    ASSUME JsonSound(json), NEW p \in DOMAIN json.at, NEW i \in -1 .. 1, at_index(p, i)
    PROVE  JsonInv'
<1> DEFINE keeps == json.at[p].type = "array" \/ FlatAt(json, p)
           s == SetType(json, p, "array")
           b == s.at[p].ptr
           n == Cardinality(ElementsOf(s, b))
           added == {Elem(b, k) : k \in n .. i}
           r == [s EXCEPT !.at = [q \in DOMAIN @ \cup added |-> IF q \in DOMAIN @ THEN @[q] ELSE Copied(NullJson)]]
<1>1. JsonCall(r, keeps /\ i < n)
  BY DEF at_index, Flat, FlatAt
<1>2. json.at[p].type # "array" => SomeFree(ClearJson(json, p))
  BY DEF at_index
<1>3. keeps \in BOOLEAN
  BY DEF FlatAt
<1> HIDE DEF keeps
<1>4. /\ JsonShape(s) /\ p \in DOMAIN s.at /\ s.at[p].type = "array"
      /\ keeps => JsonSound(s)
      /\ ~keeps => \E c \in Blocks : Orphan(s, c)
  BY <1>2, SetTypeIs, BlockFacts DEF keeps
<1> HIDE DEF s
<1>5. r = [at |-> [q \in DOMAIN s.at \cup added |-> IF q \in DOMAIN s.at THEN s.at[q] ELSE Copied(NullJson)],
           blocks |-> s.blocks, ok |-> s.ok]
  <2>1. s = [at |-> s.at, blocks |-> s.blocks, ok |-> s.ok]
    BY <1>4 DEF JsonShape
  <2> HIDE DEF added
  <2> QED
    BY <2>1
<1> HIDE DEF r, added
<1>6. /\ JsonShape(r) /\ r.blocks = s.blocks /\ r.ok = s.ok
      /\ DOMAIN r.at = DOMAIN s.at \cup added
      /\ \A q \in DOMAIN s.at : r.at[q] = s.at[q]
      /\ \A q \in added : q \notin DOMAIN s.at => r.at[q] = Copied(NullJson)
  BY <1>4, <1>5 DEF JsonShape
<1>7. ASSUME ~keeps PROVE JsonBroken(r)
  <2>1. PICK c \in Blocks : Orphan(s, c)
    BY <1>4, <1>7
  <2>2. ASSUME NEW q \in DOMAIN r.at PROVE r.at[q].ptr # c
    <3>1. CASE q \in DOMAIN s.at
      BY <1>6, <2>1, <3>1 DEF Orphan
    <3>2. CASE q \notin DOMAIN s.at
      BY <1>6, <2>1, <2>2, <3>2, CopiedIs, BlockFacts
    <3> QED
      BY <3>1, <3>2
  <2>3. Orphan(r, c)
    BY <1>6, <2>1, <2>2 DEF Orphan
  <2> QED
    BY <2>3 DEF JsonBroken
<1>8. ASSUME keeps PROVE n = 0 /\ ElementsOf(s, b) = {} /\ JsonSound(s)
  <2>1. JsonSound(s)
    BY <1>4, <1>8
  <2>2. b \in Blocks /\ s.blocks[b] = "array"
    BY <1>4, <2>1, BlockFacts DEF JsonSound, PlaceSound
  <2>3. ASSUME NEW q \in DOMAIN s.at, q[1] = b PROVE FALSE
    <3>1. s.blocks[b] = "object"
      BY <2>1, <2>2, <2>3, BlockFacts DEF JsonSound, PlaceSound
    <3> QED
      BY <2>2, <3>1
  <2>4. ElementsOf(s, b) = {}
    BY <2>3 DEF ElementsOf
  <2> QED
    BY <2>1, <2>4, FS_EmptySet
<1>9. ASSUME keeps, i < n PROVE JsonSound(r)
  <2>1. JsonSound(s) /\ added = {}
    BY <1>8, <1>9 DEF added
  <2>2. DOMAIN r.at = DOMAIN s.at /\ \A q \in DOMAIN s.at : r.at[q] = s.at[q]
    BY <1>6, <2>1
  <2> QED
    BY <1>6, <2>1, <2>2, SameSound
<1>10. ASSUME keeps, ~(i < n) PROVE JsonBroken(r)
  <2> DEFINE q == Elem(b, 0)
  <2>1. 0 \in n .. i
    BY <1>8, <1>10
  <2>2. q \in added
    BY <2>1 DEF added
  <2>3. q \notin DOMAIN s.at
    BY <1>8, <1>10 DEF ElementsOf, Elem
  <2> HIDE DEF q
  <2>4. r.at[q].type = Unset /\ q \in DOMAIN r.at
    BY <1>6, <2>2, <2>3, CopiedIs
  <2> QED
    BY <2>4 DEF JsonBroken
<1>11. (keeps /\ i < n) \in BOOLEAN
  OBVIOUS
<1> HIDE DEF n
<1>12. /\ keeps /\ i < n => JsonSound(r)
       /\ ~(keeps /\ i < n) => JsonBroken(r)
  BY <1>7, <1>9, <1>10
<1> QED
  BY <1>1, <1>11, <1>12, CallInv

LEMMA AppendInv ==
    ASSUME JsonSound(json), NEW p \in DOMAIN json.at, NEW q \in DOMAIN json.at, append(p, q)
    PROVE  JsonInv'
<1> DEFINE s == IF json.at[p].type = "array" THEN json ELSE New(json, p, "array")
           b == s.at[p].ptr
           e == Elem(b, Cardinality(ElementsOf(s, b)))
           r == Put(s, e, Copied(s.at[q]))
<1>1. JsonCall(r, FALSE) /\ (json.at[p].type = "array" \/ SomeFree(json))
  BY DEF append
<1>2. JsonShape(json)
  BY DEF JsonSound
<1>3. JsonShape(s)
  <2>1. CASE json.at[p].type = "array"
    BY <1>2, <2>1
  <2>2. CASE json.at[p].type # "array"
    <3>1. PICK c \in Blocks : HasNew(json, p, "array", c, New(json, p, "array"))
      BY <1>1, <1>2, <2>2, NewIs, BlockFacts
    <3> QED
      BY <2>2, <3>1 DEF HasNew
  <2> QED
    BY <2>1, <2>2
<1> HIDE DEF s, e
<1>4. HasPut(s, e, Copied(s.at[q]), r)
  BY <1>3, PutIs
<1> HIDE DEF r
<1>5. r.at[e].type = Unset /\ e \in DOMAIN r.at
  BY <1>4, CopiedIs DEF HasPut
<1>6. JsonBroken(r)
  BY <1>5 DEF JsonBroken
<1> QED
  BY <1>1, <1>6, CallInv

LEMMA CopyElementsIs ==
    ASSUME NEW u, JsonShape(u), NEW from, NEW to, NEW r, r = CopyElements(u, from, to)
    PROVE  /\ JsonShape(r) /\ r.blocks = u.blocks /\ r.ok = u.ok
           /\ DOMAIN r.at = DOMAIN u.at \cup {Elem(to, x[2]) : x \in ElementsOf(u, from)}
           /\ \A x \in DOMAIN r.at : r.at[x] = IF x[1] = to THEN Copied(u.at[Elem(from, x[2])]) ELSE u.at[x]
<1> DEFINE A == {Elem(to, x[2]) : x \in ElementsOf(u, from)}
<1> HIDE DEF A
<1>1. u = [at |-> u.at, blocks |-> u.blocks, ok |-> u.ok]
  BY DEF JsonShape
<1>2. r = [u EXCEPT !.at = [x \in DOMAIN u.at \cup A |-> IF x[1] = to THEN Copied(u.at[Elem(from, x[2])]) ELSE u.at[x]]]
  BY DEF CopyElements, A
<1>3. r = [at |-> [x \in DOMAIN u.at \cup A |-> IF x[1] = to THEN Copied(u.at[Elem(from, x[2])]) ELSE u.at[x]],
           blocks |-> u.blocks, ok |-> u.ok]
  BY <1>1, <1>2
<1>4. /\ r.blocks = u.blocks /\ r.ok = u.ok /\ DOMAIN r.at = DOMAIN u.at \cup A
      /\ \A x \in DOMAIN r.at : r.at[x] = IF x[1] = to THEN Copied(u.at[Elem(from, x[2])]) ELSE u.at[x]
  BY <1>3
<1>5. JsonShape(r)
  BY <1>3, <1>4 DEF JsonShape
<1> QED
  BY <1>4, <1>5 DEF A

AssignWorks(p, q) == FlatAt(json, p) /\ EmptyHere(q) /\ ~(HasBlock(json, p) /\ q[1] = json.at[p].ptr)

\* After clear() of the left side: the right side is gone, owns nothing, or
\* owns a block.
LEMMA AssignIs ==
    ASSUME JsonSound(json), NEW p \in DOMAIN json.at, NEW q \in DOMAIN json.at, p # q,
           HasBlock(json, q) => SomeFree(ClearJson(json, p)),
           NEW r, r = AssignJson(json, p, q)
    PROVE  /\ AssignWorks(p, q) => JsonSound(r)
           /\ ~AssignWorks(p, q) => JsonBroken(r)
<1> DEFINE t == ClearJson(json, p)
<1>1. Cleared(json, p, t)
  BY ClearIs
<1>2. FlatAt(json, p) => JsonSound(t)
  BY ClearSound
<1>3. ~FlatAt(json, p) => \E c \in Blocks : Orphan(t, c)
  BY ClearOrphans
<1>4. r = IF q \notin DOMAIN t.at THEN [t EXCEPT !.ok = FALSE]
          ELSE IF ~HasBlock(t, q) THEN Put(t, p, t.at[q])
          ELSE CopyElements(New(t, p, t.at[q].type), t.at[q].ptr, New(t, p, t.at[q].type).at[p].ptr)
  BY DEF AssignJson
<1>5. HasBlock(json, q) => SomeFree(t)
  OBVIOUS
<1> HIDE DEF t
<1>6. JsonShape(t) /\ p \in DOMAIN t.at /\ ~HasBlock(t, p)
  BY <1>1, BlockFacts DEF Cleared, HasBlock
<1>7. q \notin DOMAIN t.at <=> HasBlock(json, p) /\ q[1] = json.at[p].ptr
  BY <1>1 DEF Cleared
<1>8. CASE q \notin DOMAIN t.at
  <2>1. ~AssignWorks(p, q)
    BY <1>7, <1>8 DEF AssignWorks
  <2>2. r = [t EXCEPT !.ok = FALSE] /\ t = [at |-> t.at, blocks |-> t.blocks, ok |-> t.ok]
    BY <1>4, <1>6, <1>8 DEF JsonShape
  <2>3. r.ok = FALSE
    BY <2>2
  <2> QED
    BY <2>1, <2>3 DEF JsonBroken
<1>9. CASE q \in DOMAIN t.at /\ ~HasBlock(t, q)
  <2> DEFINE j == json.at[q]
  <2>1. t.at[q] = j /\ ~HasBlock(json, q)
    BY <1>1, <1>9 DEF Cleared, HasBlock
  <2>2. j.type \notin BlockTypes /\ j.type # Unset /\ j.ptr = Nil
    BY <2>1 DEF JsonSound, PlaceSound, HasBlock
  <2>3. AssignWorks(p, q) <=> FlatAt(json, p)
    BY <1>7, <1>9, <2>1 DEF AssignWorks, EmptyHere
  <2>4. r = Put(t, p, j)
    BY <1>4, <1>9, <2>1
  <2> HIDE DEF j
  <2>5. FlatAt(json, p) => JsonSound(r)
    BY <1>2, <1>6, <2>2, <2>4, PutSound
  <2>6. ASSUME ~FlatAt(json, p) PROVE JsonBroken(r)
    <3>1. PICK c \in Blocks : Orphan(t, c)
      BY <1>3, <2>6
    <3>2. Orphan(r, c)
      BY <1>6, <2>2, <2>4, <3>1, OrphanKept, BlockFacts
    <3> QED
      BY <3>2 DEF JsonBroken
  <2> QED
    BY <2>3, <2>5, <2>6
<1>10. CASE q \in DOMAIN t.at /\ HasBlock(t, q)
  <2> DEFINE k == json.at[q].type
             d == json.at[q].ptr
             u == New(t, p, k)
  <2>1. t.at[q] = json.at[q] /\ HasBlock(json, q) /\ k \in BlockTypes
    BY <1>1, <1>10 DEF Cleared, HasBlock
  <2>2. d \in Blocks /\ (HasBlock(json, p) => d # json.at[p].ptr)
    BY <2>1, BlockFacts DEF JsonSound, PlaceSound, HasBlock
  <2>3. SomeFree(t)
    BY <1>5, <2>1
  <2>4. PICK b \in Blocks : HasNew(t, p, k, b, u)
    BY <1>6, <2>1, <2>3, NewIs
  <2>5. FlatAt(json, p) => JsonSound(u)
    BY <1>2, <1>6, <2>1, <2>3, NewSound
  <2>6. ASSUME NEW c, Orphan(t, c) PROVE Orphan(u, c)
    BY <1>6, <2>1, <2>3, <2>6, OrphanKept
  <2> HIDE DEF u, k
  <2>7. /\ JsonShape(u) /\ u.at[p].ptr = b /\ t.blocks[b] = "free"
        /\ DOMAIN u.at = DOMAIN t.at
    BY <1>6, <2>4 DEF HasNew
  <2>8. r = CopyElements(u, d, b)
    BY <1>4, <1>10, <2>1, <2>7 DEF u, k
  <2> HIDE DEF d
  <2>9. /\ JsonShape(r) /\ r.blocks = u.blocks /\ r.ok = u.ok
        /\ DOMAIN r.at = DOMAIN u.at \cup {Elem(b, x[2]) : x \in ElementsOf(u, d)}
        /\ \A x \in DOMAIN r.at : r.at[x] = IF x[1] = b THEN Copied(u.at[Elem(d, x[2])]) ELSE u.at[x]
    BY <2>7, <2>8, CopyElementsIs
  <2>10. ElementsOf(u, d) = ElementsOf(json, d)
    BY <1>1, <2>2, <2>7 DEF Cleared, ElementsOf
  <2>11. EmptyHere(q) <=> ElementsOf(json, d) = {}
    BY <2>1 DEF EmptyHere, d
  <2>12. AssignWorks(p, q) <=> FlatAt(json, p) /\ EmptyHere(q)
    BY <1>7, <1>10 DEF AssignWorks
  <2>13. CASE ~EmptyHere(q)
    <3>1. PICK x \in ElementsOf(u, d) : TRUE
      BY <2>10, <2>11, <2>13
    <3> DEFINE y == Elem(b, x[2])
    <3>2. y[1] = b /\ y \in DOMAIN r.at
      BY <2>9, <3>1 DEF Elem
    <3> HIDE DEF y
    <3>3. r.at[y].type = Unset
      BY <2>9, <3>2, CopiedIs
    <3>4. JsonBroken(r)
      BY <3>2, <3>3 DEF JsonBroken
    <3> QED
      BY <2>12, <2>13, <3>4
  <2>14. CASE EmptyHere(q)
    <3>1. DOMAIN r.at = DOMAIN u.at
      BY <2>9, <2>10, <2>11, <2>14
    <3>2. ASSUME NEW x \in DOMAIN u.at PROVE x[1] # b
      <4>1. x \in DOMAIN json.at /\ PlaceSound(json, x) /\ (HasBlock(json, p) => x[1] # json.at[p].ptr)
        BY <1>1, <2>7, <3>2 DEF Cleared, JsonSound
      <4>2. x[1] # Nil => x[1] \in Blocks /\ t.blocks[x[1]] = "object"
        BY <1>1, <4>1 DEF Cleared, PlaceSound
      <4> QED
        BY <2>7, <4>2, BlockFacts
    <3>3. \A x \in DOMAIN u.at : r.at[x] = u.at[x]
      BY <2>9, <3>1, <3>2
    <3>4. FlatAt(json, p) => JsonSound(r)
      BY <2>5, <2>9, <3>1, <3>3, SameSound
    <3>5. ASSUME ~FlatAt(json, p) PROVE JsonBroken(r)
      <4>1. PICK c \in Blocks : Orphan(t, c)
        BY <1>3, <3>5
      <4>2. Orphan(u, c)
        BY <2>6, <4>1
      <4>3. Orphan(r, c)
        BY <2>9, <3>1, <3>3, <4>2 DEF Orphan
      <4> QED
        BY <4>3 DEF JsonBroken
    <3> QED
      BY <2>12, <2>14, <3>4, <3>5
  <2> QED
    BY <2>13, <2>14
<1> QED
  BY <1>8, <1>9, <1>10

LEMMA AssignInv ==
    ASSUME JsonInv, JsonSound(json), NEW p \in DOMAIN json.at, NEW q \in DOMAIN json.at, assign_json(p, q)
    PROVE  JsonInv'
<1>1. CASE p = q
  <2>1. json' = json /\ jsonLegal' = jsonLegal
    BY <1>1 DEF assign_json, jsonVars
  <2>2. /\ jsonLegal' \in BOOLEAN
        /\ jsonLegal' => JsonSound(json')
        /\ ~jsonLegal' => JsonBroken(json')
    BY <2>1 DEF JsonInv
  <2> QED
    BY <2>2 DEF JsonInv
<1>2. CASE p # q
  <2>1. JsonCall(AssignJson(json, p, q), AssignWorks(p, q))
    BY <1>2 DEF assign_json, AssignWorks, Flat, FlatAt
  <2>2. HasBlock(json, q) => SomeFree(ClearJson(json, p))
    BY DEF assign_json
  <2>3. /\ AssignWorks(p, q) => JsonSound(AssignJson(json, p, q))
        /\ ~AssignWorks(p, q) => JsonBroken(AssignJson(json, p, q))
    BY <1>2, <2>2, AssignIs
  <2>4. AssignWorks(p, q) \in BOOLEAN
    BY DEF AssignWorks
  <2> QED
    BY <2>1, <2>3, <2>4, CallInv
<1> QED
  BY <1>1, <1>2

LEMMA JsonNextInv == JsonInv /\ [JsonNext]_jsonVars => JsonInv'
<1> SUFFICES ASSUME JsonInv, [JsonNext]_jsonVars PROVE JsonInv'
  OBVIOUS
<1>1. CASE UNCHANGED jsonVars
  <2>1. json' = json /\ jsonLegal' = jsonLegal
    BY <1>1 DEF jsonVars
  <2>2. /\ jsonLegal' \in BOOLEAN
        /\ jsonLegal' => JsonSound(json')
        /\ ~jsonLegal' => JsonBroken(json')
    BY <2>1 DEF JsonInv
  <2> QED
    BY <2>2 DEF JsonInv
<1>2. CASE JsonNext
  <2>1. JsonSound(json)
    BY <1>2 DEF JsonNext, JsonInv
  <2>2. ASSUME NEW d \in Docs, ScopeEnds(d) PROVE JsonInv'
    BY <2>1, <2>2, ScopeEndsInv
  <2>3. ASSUME NEW d \in Docs, NEW t \in ScalarTypes \cup BlockTypes, construct(d, t) PROVE JsonInv'
    BY <2>1, <2>3, ConstructInv
  <2>4. ASSUME NEW p \in Places, clear_json(p) PROVE JsonInv'
    BY <2>1, <2>4, ClearInv DEF Places
  <2>5. ASSUME NEW p \in Places, NEW t \in ScalarTypes \cup {"string"}, assign_value(p, t) PROVE JsonInv'
    BY <2>1, <2>5, AssignValueInv DEF Places
  <2>6. ASSUME NEW p \in Places, NEW k \in Keys, at_key(p, k) PROVE JsonInv'
    BY <2>1, <2>6, AtKeyInv DEF Places
  <2>7. ASSUME NEW p \in Places, NEW k \in Keys, remove_key(p, k) PROVE JsonInv'
    BY <2>1, <2>7, RemoveKeyInv DEF Places
  <2>8. ASSUME NEW p \in Places, NEW i \in -1 .. 1, at_index(p, i) PROVE JsonInv'
    BY <2>1, <2>8, AtIndexInv DEF Places
  <2>9. ASSUME NEW p \in Places, NEW q \in Places, append(p, q) PROVE JsonInv'
    BY <2>1, <2>9, AppendInv DEF Places
  <2>10. ASSUME NEW p \in Places, NEW q \in Places, assign_json(p, q) PROVE JsonInv'
    BY <2>1, <2>10, AssignInv DEF Places
  <2> QED
    BY <1>2, <2>2, <2>3, <2>4, <2>5, <2>6, <2>7, <2>8, <2>9, <2>10 DEF JsonNext
<1> QED
  BY <1>1, <1>2

\* Every block of a Json document has one owner, of its kind, exactly as long
\* as only calls are made that copy, clear and leave nothing with blocks of its
\* own; any other call leaves a block to nobody or a Json without a type.
THEOREM BlocksAreOwned == JsonInit /\ [][JsonNext]_jsonVars => []JsonOwnership
<1> QED
  BY JsonInitInv, JsonNextInv, JsonInvOwnership, PTL

-----------------------------------------------------------------------------
(* The vector, version 2 *)

Cells == Elems \cup {Junk}

\* The vector x holds the sequence r in front of its array.
Holds(x, r) ==
    /\ x = [data |-> x.data, size |-> x.size]
    /\ x.data \in Seq(Cells) /\ r \in Seq(Elems)
    /\ x.size = Len(r) /\ x.size <= Len(x.data)
    /\ \A i \in 1 .. Len(r) : x.data[i] = r[i]

VecInv ==
    /\ vecLegal \in BOOLEAN
    /\ vec = [v \in Vectors |-> vec[v]] /\ vecRef = [v \in Vectors |-> vecRef[v]]
    /\ vecLegal => vecOut = vecWant /\ \A v \in Vectors : Holds(vec[v], vecRef[v])
    /\ ~vecLegal => \E v \in Vectors : Contents(vec[v]) # vecRef[v]

LEMMA SeqOfFunction ==
    ASSUME NEW S, NEW n \in Nat, NEW f \in [1 .. n -> S]
    PROVE  f \in Seq(S) /\ Len(f) = n
OBVIOUS

LEMMA SeqIsFunction ==
    ASSUME NEW S, NEW s \in Seq(S)
    PROVE  Len(s) \in Nat /\ s \in [1 .. Len(s) -> S]
OBVIOUS

\* Two sequences of one length that agree everywhere.
LEMMA SeqsAgree ==
    ASSUME NEW S, NEW T, NEW a \in Seq(S), NEW b \in Seq(T), Len(a) = Len(b), \A i \in 1 .. Len(b) : a[i] = b[i]
    PROVE  a = b
<1>1. /\ a = [i \in 1 .. Len(a) |-> a[i]]
      /\ b = [i \in 1 .. Len(b) |-> b[i]]
  OBVIOUS
<1> QED
  BY <1>1

LEMMA HoldsIs ==
    ASSUME NEW d \in Seq(Cells), NEW r \in Seq(Elems), NEW n, n = Len(r), n <= Len(d),
           \A i \in 1 .. n : d[i] = r[i]
    PROVE  Holds([data |-> d, size |-> n], r)
<1> DEFINE x == [data |-> d, size |-> n]
<1>1. x.data = d /\ x.size = n
  OBVIOUS
<1> HIDE DEF x
<1>2. x = [data |-> x.data, size |-> x.size]
  BY <1>1 DEF x
<1>3. Holds(x, r)
  BY <1>1, <1>2 DEF Holds
<1> QED
  BY <1>3 DEF x

LEMMA PrefixIs ==
    ASSUME NEW S, NEW d \in Seq(S), NEW n \in 0 .. Len(d)
    PROVE  /\ SubSeq(d, 1, n) \in Seq(S) /\ Len(SubSeq(d, 1, n)) = n
           /\ \A i \in 1 .. n : SubSeq(d, 1, n)[i] = d[i]
OBVIOUS

LEMMA RestIs ==
    ASSUME NEW S, NEW d \in Seq(S), NEW n \in Nat, n <= Len(d), NEW f \in 0 .. n
    PROVE  /\ SubSeq(d, f + 1, n) \in Seq(S) /\ Len(SubSeq(d, f + 1, n)) = n - f
           /\ \A i \in 1 .. n - f : SubSeq(d, f + 1, n)[i] = d[i + f]
OBVIOUS

\* A cell within the size that differs.
LEMMA DiffersIs ==
    ASSUME NEW d \in Seq(Cells), NEW n \in Nat, n <= Len(d), NEW r, NEW i \in 1 .. n, d[i] # r[i]
    PROVE  Contents([data |-> d, size |-> n]) # r
<1>1. Contents([data |-> d, size |-> n]) = SubSeq(d, 1, n)
  BY DEF Contents
<1>2. SubSeq(d, 1, n)[i] = d[i]
  BY PrefixIs
<1> QED
  BY <1>1, <1>2

LEMMA HoldsContents ==
    ASSUME NEW x, NEW r, Holds(x, r)
    PROVE  Contents(x) = r
<1>1. x.data \in Seq(Cells) /\ r \in Seq(Elems) /\ Len(r) \in Nat /\ x.size \in 0 .. Len(x.data) /\ x.size = Len(r)
  BY DEF Holds
<1>2. /\ Contents(x) \in Seq(Cells) /\ Len(Contents(x)) = Len(r)
      /\ \A i \in 1 .. Len(r) : Contents(x)[i] = x.data[i]
  BY <1>1, PrefixIs DEF Contents
<1>3. \A i \in 1 .. Len(r) : Contents(x)[i] = r[i]
  BY <1>2 DEF Holds
<1> QED
  BY <1>1, <1>2, <1>3, SeqsAgree

LEMMA VecInvMatches == VecInv => VectorMatches
<1> SUFFICES ASSUME VecInv PROVE VectorMatches
  OBVIOUS
<1>1. vecLegal => \A v \in Vectors : Contents(vec[v]) = vecRef[v]
  BY HoldsContents DEF VecInv
<1> QED
  BY <1>1 DEF VecInv, VectorMatches

-----------------------------------------------------------------------------
\* The new capacity is large enough.
GrowStep(c, n) == IF c >= n THEN c ELSE IF c = 0 THEN 1 ELSE 2 * c

\* There is a sequence of m such steps.
GrowsIn(c, n, m) == \E g \in [0 .. m -> Nat] : g[0] = c /\ \A k \in 1 .. m : g[k] = GrowStep(g[k - 1], n)

LEMMA GrowSteps ==
    ASSUME NEW c \in Nat, NEW n \in Nat, NEW m \in Nat
    PROVE  GrowsIn(c, n, m)
<1> DEFINE Good(l) == \E g \in [0 .. l -> Nat] : g[0] = c /\ \A k \in 1 .. l : g[k] = GrowStep(g[k - 1], n)
           S == {l \in Nat : Good(l)}
<1>1. 0 \in S
  <2> DEFINE g == [k \in 0 .. 0 |-> c]
  <2>1. g \in [0 .. 0 -> Nat] /\ g[0] = c /\ \A k \in 1 .. 0 : g[k] = GrowStep(g[k - 1], n)
    OBVIOUS
  <2> QED
    BY <2>1
<1>2. ASSUME NEW l \in S PROVE l + 1 \in S
  <2>1. PICK g \in [0 .. l -> Nat] : g[0] = c /\ \A k \in 1 .. l : g[k] = GrowStep(g[k - 1], n)
    OBVIOUS
  <2> DEFINE h == [k \in 0 .. l + 1 |-> IF k = l + 1 THEN GrowStep(g[l], n) ELSE g[k]]
  <2>2. l \in Nat /\ g[l] \in Nat /\ GrowStep(g[l], n) \in Nat
    BY DEF GrowStep
  <2>3. h \in [0 .. l + 1 -> Nat] /\ h[0] = c
    BY <2>1, <2>2
  <2>4. ASSUME NEW k \in 1 .. l + 1 PROVE h[k] = GrowStep(h[k - 1], n)
    <3>1. CASE k = l + 1
      BY <2>2, <3>1
    <3>2. CASE k # l + 1
      <4>1. k \in 1 .. l /\ k \in 0 .. l + 1 /\ k - 1 \in 0 .. l + 1 /\ k - 1 # l + 1
        BY <2>2, <3>2
      <4>2. h[k] = g[k] /\ h[k - 1] = g[k - 1]
        BY <3>2, <4>1
      <4> QED
        BY <2>1, <4>1, <4>2
    <3> QED
      BY <3>1, <3>2
  <2> HIDE DEF h
  <2>5. Good(l + 1)
    BY <2>3, <2>4
  <2> HIDE DEF Good
  <2> QED
    BY <2>2, <2>5
<1> HIDE DEF Good
<1>3. S = Nat
  BY <1>1, <1>2, SetInduction
<1>4. Good(m)
  BY <1>3
<1> QED
  BY <1>4 DEF Good, GrowsIn

LEMMA GrowIs ==
    ASSUME NEW c \in Nat, NEW n \in Nat
    PROVE  Grow(c, n) \in Nat /\ Grow(c, n) >= n
<1> DEFINE F(g) == [k \in 0 .. n + 1 |-> IF k = 0 THEN c ELSE GrowStep(g[k - 1], n)]
           cap == CHOOSE g : g = F(g)
<1>1. PICK g \in [0 .. n + 1 -> Nat] : g[0] = c /\ \A k \in 1 .. n + 1 : g[k] = GrowStep(g[k - 1], n)
  <2>1. GrowsIn(c, n, n + 1)
    BY GrowSteps
  <2> QED
    BY <2>1 DEF GrowsIn
<1>2. g = F(g)
  <2>1. \A k \in 0 .. n + 1 : g[k] = F(g)[k]
    BY <1>1
  <2> QED
    BY <1>1, <2>1
<1>3. cap = F(cap)
  BY <1>2
<1>4. Grow(c, n) = cap[n + 1]
  BY DEF Grow, GrowStep
<1> HIDE DEF cap
<1>5. cap[0] = c /\ \A k \in 1 .. n + 1 : cap[k] = GrowStep(cap[k - 1], n)
  <2>1. \A k \in 0 .. n + 1 : cap[k] = IF k = 0 THEN c ELSE GrowStep(cap[k - 1], n)
    BY <1>3
  <2> QED
    BY <2>1
<1> DEFINE S == {k \in Nat : k <= n + 1 => cap[k] \in Nat /\ (cap[k] >= n \/ cap[k] >= k)}
<1>6. 0 \in S
  BY <1>5
<1>7. ASSUME NEW k \in S PROVE k + 1 \in S
  <2>1. SUFFICES ASSUME k + 1 <= n + 1 PROVE cap[k + 1] \in Nat /\ (cap[k + 1] >= n \/ cap[k + 1] >= k + 1)
    OBVIOUS
  <2>2. cap[k] \in Nat /\ (cap[k] >= n \/ cap[k] >= k) /\ k \in Nat
    BY <2>1
  <2>3. cap[k + 1] = GrowStep(cap[k], n)
    BY <1>5, <2>1, <2>2
  <2> QED
    BY <2>2, <2>3 DEF GrowStep
<1>8. S = Nat
  <2> HIDE DEF S
  <2>1. S \in SUBSET Nat
    BY DEF S
  <2> QED
    BY <1>6, <1>7, <2>1, SetInduction
<1>9. cap[n + 1] \in Nat /\ (cap[n + 1] >= n \/ cap[n + 1] >= n + 1)
  BY <1>8
<1> QED
  BY <1>4, <1>9

-----------------------------------------------------------------------------
\* An argument for a vector that should hold r: a value, or one of its cells.
ArgFor(arg, r) == \/ arg.cell = 0 /\ arg.value \in Elems
                  \/ arg.cell \in 1 .. Len(r)

LEMMA ArgIs ==
    ASSUME NEW x, NEW r, Holds(x, r), NEW arg, ArgFor(arg, r)
    PROVE  /\ Read(arg, r) \in Elems /\ Read(arg, x.data) = Read(arg, r)
           /\ ReadFreed(arg) \in Cells
           /\ arg.cell = 0 => ReadFreed(arg) = Read(arg, r)
           /\ arg.cell # 0 => ReadFreed(arg) = Junk /\ ReadFreed(arg) # Read(arg, r)
           /\ Read(arg, r) \in Cells
<1>1. r \in Seq(Elems) /\ \A i \in 1 .. Len(r) : x.data[i] = r[i] /\ r[i] \in Elems
  BY DEF Holds
<1>2. CASE arg.cell = 0
  BY <1>2 DEF ArgFor, Read, ReadFreed, Cells
<1>3. CASE arg.cell # 0
  BY <1>1, <1>3, VecAssumption DEF ArgFor, Read, ReadFreed, Cells
<1> QED
  BY <1>2, <1>3

LEMMA HoldsFacts ==
    ASSUME NEW x, NEW r, Holds(x, r)
    PROVE  /\ x.data \in Seq(Cells) /\ r \in Seq(Elems) /\ r \in Seq(Cells)
           /\ Len(r) \in Nat /\ Len(x.data) \in Nat /\ Capacity(x) = Len(x.data)
           /\ x.size = Len(r) /\ Len(r) <= Len(x.data) /\ Contents(x) = r
           /\ \A i \in 1 .. Len(x.data) : x.data[i] \in Cells
           /\ \A i \in 1 .. Len(r) : x.data[i] = r[i] /\ r[i] \in Elems /\ r[i] \in Cells
<1>1. Contents(x) = r
  BY HoldsContents
<1>2. x.data \in Seq(Cells) /\ r \in Seq(Elems) /\ x.size = Len(r) /\ x.size <= Len(x.data)
  BY DEF Holds
<1>3. r \in Seq(Cells)
  BY <1>2 DEF Cells
<1>4. \A i \in 1 .. Len(r) : r[i] \in Elems /\ r[i] \in Cells
  BY <1>2 DEF Cells
<1> QED
  BY <1>1, <1>2, <1>3, <1>4 DEF Holds, Capacity

LEMMA FillIs ==
    ASSUME NEW s \in Seq(Cells), NEW cap \in Nat
    PROVE  /\ Fill(s, cap) \in Seq(Cells) /\ Len(Fill(s, cap)) = cap
           /\ \A i \in 1 .. cap : Fill(s, cap)[i] = IF i <= Len(s) THEN s[i] ELSE Junk
<1>1. \A i \in 1 .. cap : (IF i <= Len(s) THEN s[i] ELSE Junk) \in Cells
  <2>1. \A i \in 1 .. Len(s) : s[i] \in Cells
    OBVIOUS
  <2> QED
    BY <2>1 DEF Cells
<1>2. Fill(s, cap) \in [1 .. cap -> Cells]
  BY <1>1 DEF Fill
<1> QED
  BY <1>2, SeqOfFunction DEF Fill

\* A new array that holds the sequence s, as long as r, in front.
LEMMA FillHolds ==
    ASSUME NEW s \in Seq(Cells), NEW r \in Seq(Elems), NEW n, n = Len(r), Len(s) = n,
           NEW cap \in Nat, cap >= n, \A i \in 1 .. n : s[i] = r[i]
    PROVE  Holds([data |-> Fill(s, cap), size |-> n], r)
<1>1. /\ Fill(s, cap) \in Seq(Cells) /\ Len(Fill(s, cap)) = cap
      /\ \A i \in 1 .. cap : Fill(s, cap)[i] = IF i <= Len(s) THEN s[i] ELSE Junk
  BY FillIs
<1>2. n \in Nat /\ \A i \in 1 .. n : Fill(s, cap)[i] = r[i]
  BY <1>1
<1> QED
  BY <1>1, <1>2, HoldsIs

LEMMA FillDiffers ==
    ASSUME NEW s \in Seq(Cells), NEW n \in Nat, Len(s) = n, NEW r,
           NEW cap \in Nat, cap >= n, NEW i \in 1 .. n, s[i] # r[i]
    PROVE  Contents([data |-> Fill(s, cap), size |-> n]) # r
<1>1. /\ Fill(s, cap) \in Seq(Cells) /\ Len(Fill(s, cap)) = cap
      /\ \A j \in 1 .. cap : Fill(s, cap)[j] = IF j <= Len(s) THEN s[j] ELSE Junk
  BY FillIs
<1>2. Fill(s, cap)[i] # r[i]
  BY <1>1
<1> QED
  BY <1>1, <1>2, DiffersIs

LEMMA PushBackIs ==
    ASSUME NEW x, NEW r, Holds(x, r), NEW arg, ArgFor(arg, r)
    PROVE  LET y == PushBackV(x, arg)
               z == Append(r, Read(arg, r))
           IN  IF arg.cell = 0 \/ x.size < Capacity(x) THEN Holds(y, z) ELSE Contents(y) # z
<1> DEFINE n == Len(r)
           m == Read(arg, r)
           z == Append(r, m)
           d == x.data
<1>1. /\ d \in Seq(Cells) /\ r \in Seq(Elems) /\ r \in Seq(Cells)
      /\ n \in Nat /\ Len(d) \in Nat /\ Capacity(x) = Len(d)
      /\ x.size = n /\ n <= Len(d) /\ Contents(x) = r
      /\ \A i \in 1 .. n : d[i] = r[i] /\ r[i] \in Elems /\ r[i] \in Cells
  BY HoldsFacts
<1>2. /\ m \in Elems /\ m \in Cells /\ Read(arg, d) = m /\ ReadFreed(arg) \in Cells
      /\ arg.cell = 0 => ReadFreed(arg) = m
      /\ arg.cell # 0 => ReadFreed(arg) # m
  BY ArgIs
<1> HIDE DEF m, d
<1>3. z \in Seq(Elems) /\ Len(z) = n + 1 /\ z[n + 1] = m /\ \A i \in 1 .. n : z[i] = r[i]
  BY <1>1, <1>2
<1> HIDE DEF z
<1>4. CASE x.size < Capacity(x)
  <2> DEFINE e == [d EXCEPT ![n + 1] = m]
  <2>1. PushBackV(x, arg) = [data |-> e, size |-> n + 1]
    BY <1>1, <1>2, <1>4 DEF PushBackV, d
  <2>2. e \in Seq(Cells) /\ Len(e) = Len(d) /\ e[n + 1] = m /\ \A i \in 1 .. n : e[i] = d[i]
    BY <1>1, <1>2, <1>4
  <2> HIDE DEF e
  <2>3. \A i \in 1 .. n + 1 : e[i] = z[i]
    BY <1>1, <1>3, <2>2
  <2>4. n + 1 <= Len(e)
    BY <1>1, <1>4, <2>2
  <2>5. Holds([data |-> e, size |-> n + 1], z)
    BY <1>3, <2>2, <2>3, <2>4, HoldsIs
  <2> QED
    BY <1>4, <2>1, <2>5 DEF z, m
<1>5. CASE ~(x.size < Capacity(x))
  <2> DEFINE cap == IF Capacity(x) = 0 THEN 1 ELSE 2 * Capacity(x)
             f == ReadFreed(arg)
             s == Append(r, f)
  <2>1. PushBackV(x, arg) = [data |-> Fill(s, cap), size |-> n + 1]
    BY <1>1, <1>5 DEF PushBackV
  <2>2. cap \in Nat /\ cap >= n + 1
    BY <1>1, <1>5
  <2>3. s \in Seq(Cells) /\ Len(s) = n + 1 /\ s[n + 1] = f /\ \A i \in 1 .. n : s[i] = r[i]
    BY <1>1, <1>2
  <2> HIDE DEF s, cap, f
  <2>4. ASSUME arg.cell = 0 PROVE Holds([data |-> Fill(s, cap), size |-> n + 1], z)
    <3>1. f = m
      BY <1>2, <2>4 DEF f
    <3>2. \A i \in 1 .. n + 1 : s[i] = z[i]
      BY <1>1, <1>3, <2>3, <3>1
    <3> QED
      BY <1>3, <2>2, <2>3, <3>2, FillHolds
  <2>5. ASSUME arg.cell # 0 PROVE Contents([data |-> Fill(s, cap), size |-> n + 1]) # z
    <3>1. s[n + 1] # z[n + 1] /\ n + 1 \in 1 .. n + 1 /\ n + 1 \in Nat
      BY <1>1, <1>2, <1>3, <2>3, <2>5 DEF f
    <3> QED
      BY <2>2, <2>3, <3>1, FillDiffers
  <2> QED
    BY <1>5, <2>1, <2>4, <2>5 DEF z, m
<1> QED
  BY <1>4, <1>5

LEMMA CopiesIs ==
    ASSUME NEW S, NEW e \in S, NEW k \in Nat
    PROVE  Copies(k, e) \in Seq(S) /\ Len(Copies(k, e)) = k /\ \A i \in 1 .. k : Copies(k, e)[i] = e
<1>1. Copies(k, e) \in [1 .. k -> S]
  BY DEF Copies
<1> QED
  BY <1>1, SeqOfFunction DEF Copies

LEMMA AssignVIs ==
    ASSUME NEW x, NEW r, Holds(x, r), NEW arg, ArgFor(arg, r), NEW k \in Nat
    PROVE  LET y == AssignV(x, k, arg)
               z == Copies(k, Read(arg, r))
           IN  IF arg.cell = 0 \/ Capacity(x) >= k THEN Holds(y, z) ELSE Contents(y) # z
<1> DEFINE m == Read(arg, r)
           z == Copies(k, m)
           d == x.data
<1>1. /\ d \in Seq(Cells) /\ Len(d) \in Nat /\ Capacity(x) = Len(d)
      /\ \A i \in 1 .. Len(d) : d[i] \in Cells
  BY HoldsFacts
<1>2. /\ m \in Elems /\ m \in Cells /\ Read(arg, d) = m /\ ReadFreed(arg) \in Cells
      /\ arg.cell = 0 => ReadFreed(arg) = m
      /\ arg.cell # 0 => ReadFreed(arg) # m
  BY ArgIs
<1> HIDE DEF m, d
<1>3. z \in Seq(Elems) /\ Len(z) = k /\ \A i \in 1 .. k : z[i] = m
  BY <1>2, CopiesIs
<1> HIDE DEF z
<1>4. CASE Capacity(x) >= k
  <2> DEFINE e == [i \in 1 .. Len(d) |-> IF i <= k THEN m ELSE d[i]]
  <2>1. AssignV(x, k, arg) = [data |-> e, size |-> k]
    BY <1>1, <1>2, <1>4 DEF AssignV, d
  <2>2. e \in [1 .. Len(d) -> Cells]
    BY <1>1, <1>2
  <2>3. e \in Seq(Cells) /\ Len(e) = Len(d)
    BY <1>1, <2>2, SeqOfFunction
  <2>4. \A i \in 1 .. k : e[i] = z[i]
    BY <1>1, <1>3, <1>4
  <2> HIDE DEF e
  <2>5. Holds([data |-> e, size |-> k], z)
    BY <1>1, <1>3, <1>4, <2>3, <2>4, HoldsIs
  <2> QED
    BY <1>4, <2>1, <2>5 DEF z, m
<1>5. CASE ~(Capacity(x) >= k)
  <2> DEFINE f == ReadFreed(arg)
             s == Copies(k, f)
             cap == Grow(0, k)
  <2>1. AssignV(x, k, arg) = [data |-> Fill(s, cap), size |-> k]
    BY <1>5 DEF AssignV, Copies
  <2>2. cap \in Nat /\ cap >= k
    BY GrowIs
  <2>3. s \in Seq(Cells) /\ Len(s) = k /\ \A i \in 1 .. k : s[i] = f
    BY <1>2, CopiesIs
  <2> HIDE DEF s, cap, f
  <2>4. ASSUME arg.cell = 0 PROVE Holds([data |-> Fill(s, cap), size |-> k], z)
    <3>1. \A i \in 1 .. k : s[i] = z[i]
      BY <1>2, <1>3, <2>3, <2>4 DEF f
    <3> QED
      BY <1>3, <2>2, <2>3, <3>1, FillHolds
  <2>5. ASSUME arg.cell # 0 PROVE Contents([data |-> Fill(s, cap), size |-> k]) # z
    <3>1. 1 \in 1 .. k
      BY <1>1, <1>5
    <3>2. s[1] # z[1]
      BY <1>2, <1>3, <2>3, <2>5, <3>1 DEF f
    <3> QED
      BY <2>2, <2>3, <3>1, <3>2, FillDiffers
  <2> QED
    BY <1>5, <2>1, <2>4, <2>5 DEF z, m
<1> QED
  BY <1>4, <1>5

\* The size is lowered: the front stays.
LEMMA ShorterHolds ==
    ASSUME NEW x, NEW r, Holds(x, r), NEW k \in 0 .. Len(r)
    PROVE  Holds([x EXCEPT !.size = k], SubSeq(r, 1, k)) /\ Len(SubSeq(r, 1, k)) = k
<1>1. /\ x.data \in Seq(Cells) /\ r \in Seq(Elems) /\ Len(r) \in Nat /\ Len(x.data) \in Nat /\ Len(r) <= Len(x.data)
      /\ \A i \in 1 .. Len(r) : x.data[i] = r[i]
  BY HoldsFacts
<1>2. [x EXCEPT !.size = k] = [data |-> x.data, size |-> k]
  <2>1. x = [data |-> x.data, size |-> x.size]
    BY DEF Holds
  <2> QED
    BY <2>1
<1>3. /\ SubSeq(r, 1, k) \in Seq(Elems) /\ Len(SubSeq(r, 1, k)) = k
      /\ \A i \in 1 .. k : SubSeq(r, 1, k)[i] = r[i]
  BY <1>1, PrefixIs
<1>4. \A i \in 1 .. k : x.data[i] = SubSeq(r, 1, k)[i]
  BY <1>1, <1>3
<1>5. Holds([data |-> x.data, size |-> k], SubSeq(r, 1, k))
  <2>1. k <= Len(x.data)
    BY <1>1
  <2> QED
    BY <1>1, <1>3, <1>4, <2>1, HoldsIs
<1> QED
  BY <1>2, <1>3, <1>5

LEMMA ReserveVIs ==
    ASSUME NEW x, NEW r, Holds(x, r), NEW k \in Nat
    PROVE  Holds(ReserveV(x, k), r)
<1>1. /\ x.data \in Seq(Cells) /\ r \in Seq(Elems) /\ r \in Seq(Cells) /\ Len(r) \in Nat /\ Len(x.data) \in Nat
      /\ Capacity(x) = Len(x.data) /\ x.size = Len(r) /\ Len(r) <= Len(x.data) /\ Contents(x) = r
  BY HoldsFacts
<1>2. CASE Capacity(x) > k
  BY <1>2 DEF ReserveV
<1>3. CASE ~(Capacity(x) > k)
  <2> DEFINE cap == Grow(Capacity(x), k)
  <2>1. cap \in Nat /\ cap >= k
    BY <1>1, GrowIs
  <2>2. ReserveV(x, k) = [data |-> Fill(r, cap), size |-> Len(r)]
    BY <1>1, <1>3 DEF ReserveV
  <2> HIDE DEF cap
  <2>3. cap >= Len(r)
    BY <1>1, <1>3, <2>1
  <2>4. Holds([data |-> Fill(r, cap), size |-> Len(r)], r)
    BY <1>1, <2>1, <2>3, FillHolds
  <2> QED
    BY <2>2, <2>4
<1> QED
  BY <1>2, <1>3

LEMMA ResizeVIs ==
    ASSUME NEW x, NEW r, Holds(x, r), NEW arg, ArgFor(arg, r), NEW k \in Nat
    PROVE  Holds(ResizeV(x, k, arg), IF k <= Len(r) THEN SubSeq(r, 1, k) ELSE r \o Copies(k - Len(r), Read(arg, r)))
<1> DEFINE n == Len(r)
           m == Read(arg, r)
           d == x.data
<1>1. /\ d \in Seq(Cells) /\ r \in Seq(Elems) /\ r \in Seq(Cells)
      /\ n \in Nat /\ Len(d) \in Nat /\ Capacity(x) = Len(d)
      /\ x.size = n /\ n <= Len(d) /\ Contents(x) = r
      /\ \A i \in 1 .. n : d[i] = r[i] /\ r[i] \in Elems /\ r[i] \in Cells
  BY HoldsFacts
<1>2. m \in Elems /\ m \in Cells /\ Read(arg, d) = m
  BY ArgIs
<1> HIDE DEF m, d
<1>3. CASE k < n
  <2>1. ResizeV(x, k, arg) = [x EXCEPT !.size = k]
    BY <1>1, <1>3 DEF ResizeV
  <2>2. k \in 0 .. n /\ k <= n
    BY <1>1, <1>3
  <2> QED
    BY <2>1, <2>2, ShorterHolds
<1>4. CASE ~(k < n)
  <2> DEFINE c == Copies(k - n, m)
             s == r \o c
  <2>1. k - n \in Nat /\ k \in Nat /\ n <= k
    BY <1>1, <1>4
  <2>2. /\ c \in Seq(Elems) /\ c \in Seq(Cells) /\ Len(c) = k - n /\ \A i \in 1 .. (k - n) : c[i] = m
    BY <1>2, <2>1, CopiesIs
  <2> HIDE DEF c
  <2>3. s \in Seq(Elems) /\ s \in Seq(Cells) /\ Len(s) = k
    BY <1>1, <2>1, <2>2
  <2>4. s = IF k <= n THEN SubSeq(r, 1, k) ELSE r \o c
    <3>1. CASE k = n
      <4>1. Len(c) = 0
        BY <1>1, <2>2, <3>1
      <4>2. c = <<>>
        BY <2>2, <4>1
      <4>3. SubSeq(r, 1, k) = r
        BY <1>1, <3>1
      <4>4. r \o <<>> = r
        BY <1>1
      <4> QED
        BY <3>1, <4>2, <4>3, <4>4
    <3>2. CASE k # n
      BY <1>1, <2>1, <3>2
    <3> QED
      BY <3>1, <3>2
  <2>5. ResizeV(x, k, arg) = IF k < Len(d) THEN [data |-> s \o SubSeq(d, k + 1, Len(d)), size |-> k]
                             ELSE [data |-> Fill(s, Grow(Len(d), k)), size |-> k]
    BY <1>1, <1>2, <1>4, Zenon DEF ResizeV, Copies, d, c
  <2> HIDE DEF s
  <2>6. CASE k < Len(d)
    <3> DEFINE t == SubSeq(d, k + 1, Len(d))
    <3>1. t \in Seq(Cells) /\ Len(t) = Len(d) - k
      BY <1>1, <2>6, RestIs
    <3> HIDE DEF t
    <3>2. s \o t \in Seq(Cells) /\ Len(s \o t) = Len(d) /\ \A i \in 1 .. k : (s \o t)[i] = s[i]
      BY <1>1, <2>1, <2>3, <2>6, <3>1
    <3> DEFINE e == s \o t
    <3>4. e \in Seq(Cells) /\ k <= Len(e) /\ \A i \in 1 .. k : e[i] = s[i]
      BY <1>1, <2>1, <2>6, <3>2
    <3> HIDE DEF e
    <3>5. Holds([data |-> e, size |-> k], s)
      BY <2>3, <3>4, HoldsIs
    <3>3. Holds([data |-> s \o t, size |-> k], s)
      BY <3>5 DEF e
    <3> QED
      BY <2>4, <2>5, <2>6, <3>3 DEF c, m, t
  <2>7. CASE ~(k < Len(d))
    <3>1. Grow(Len(d), k) \in Nat /\ Grow(Len(d), k) >= k
      BY <1>1, GrowIs
    <3>2. Holds([data |-> Fill(s, Grow(Len(d), k)), size |-> k], s)
      BY <2>3, <3>1, FillHolds
    <3> QED
      BY <2>4, <2>5, <2>7, <3>2 DEF c, m
  <2> QED
    BY <2>6, <2>7
<1> QED
  BY <1>3, <1>4

\* z is a, of length p, and then b, of length q.
JoinOf(S, z, a, p, b, q) ==
    /\ z \in Seq(S) /\ Len(z) = p + q
    /\ \A j \in 1 .. (p + q) : z[j] = IF j <= p THEN a[j] ELSE b[j - p]

LEMMA JoinedTo ==
    ASSUME NEW S, NEW a \in Seq(S), NEW b \in Seq(S), NEW p, NEW q, Len(a) = p, Len(b) = q
    PROVE  JoinOf(S, a \o b, a, p, b, q)
BY Joined DEF JoinOf

\* z is the first n elements of r, with c put behind the first f of them and
\* before those after the first g.
SpliceOf(S, z, r, n, c, f, g) ==
    /\ z \in Seq(S) /\ Len(c) \in Nat /\ Len(z) = f + Len(c) + (n - g)
    /\ \A i \in 1 .. Len(z) : z[i] = IF i <= f THEN r[i]
                                     ELSE IF i <= f + Len(c) THEN c[i - f]
                                     ELSE r[i - f - Len(c) + g]

LEMMA SplicedIs ==
    ASSUME NEW S, NEW r \in Seq(S), NEW n \in Nat, n <= Len(r), NEW c \in Seq(S),
           NEW g \in 0 .. n, NEW f \in 0 .. g,
           NEW z, z = SubSeq(r, 1, f) \o c \o SubSeq(r, g + 1, n)
    PROVE  SpliceOf(S, z, r, n, c, f, g)
<1> DEFINE a == SubSeq(r, 1, f)
           b == SubSeq(r, g + 1, n)
           k == Len(c)
<1>0. f \in Nat /\ g \in Nat /\ f <= g /\ g <= n /\ k \in Nat /\ Len(r) \in Nat
  OBVIOUS
<1>1. a \in Seq(S) /\ Len(a) = f /\ \A i \in 1 .. f : a[i] = r[i]
  BY <1>0, PrefixIs
<1>2. b \in Seq(S) /\ Len(b) = n - g /\ \A i \in 1 .. n - g : b[i] = r[i + g]
  BY <1>0, RestIs
<1>3. z = (a \o c) \o b
  OBVIOUS
<1> HIDE DEF a, b, k
<1> DEFINE ac == a \o c
<1>4. /\ ac \in Seq(S) /\ Len(ac) = f + k
      /\ \A j \in 1 .. (f + k) : ac[j] = IF j <= f THEN a[j] ELSE c[j - f]
  <2>1. JoinOf(S, ac, a, f, c, k)
    BY <1>1, JoinedTo DEF k
  <2> HIDE DEF ac
  <2> QED
    BY <2>1 DEF JoinOf
<1> HIDE DEF ac
<1>5. PICK w \in Nat : w = f + k
  BY <1>0
<1>6. PICK q \in Nat : q = n - g
  BY <1>0
<1>7. /\ z \in Seq(S) /\ Len(z) = w + q
      /\ \A j \in 1 .. (w + q) : z[j] = IF j <= w THEN ac[j] ELSE b[j - w]
  <2>1. Len(ac) = w /\ Len(b) = q
    BY <1>2, <1>4, <1>5, <1>6
  <2>2. JoinOf(S, z, ac, w, b, q)
    BY <1>2, <1>3, <1>4, <2>1, JoinedTo DEF ac
  <2> QED
    BY <2>2 DEF JoinOf
<1>8. ASSUME NEW i \in 1 .. Len(z)
      PROVE  z[i] = IF i <= f THEN r[i] ELSE IF i <= f + k THEN c[i - f] ELSE r[i - f - k + g]
  <2>0. i \in Nat /\ i \in 1 .. (w + q)
    <3>1. Len(z) = w + q
      BY <1>7
    <3>2. i \in 1 .. (w + q)
      BY <3>1, <1>8, Zenon
    <3> QED
      BY <1>5, <1>6, <3>2
  <2>1. CASE i <= f
    <3>1. i \in 1 .. f /\ i \in 1 .. (f + k) /\ i <= w
      BY <1>0, <1>5, <2>0, <2>1
    <3> QED
      BY <1>1, <1>4, <1>7, <2>0, <2>1, <3>1
  <2>2. CASE ~(i <= f) /\ i <= f + k
    <3>1. i \in 1 .. (f + k) /\ i <= w
      BY <1>0, <1>5, <2>0, <2>2
    <3> QED
      BY <1>4, <1>7, <2>0, <2>2, <3>1
  <2>3. CASE ~(i <= f + k)
    <3>1. /\ i - w \in 1 .. q /\ i - w \in 1 .. (n - g) /\ i - w + g = i - f - k + g
          /\ ~(i <= w) /\ ~(i <= f)
      BY <1>0, <1>5, <1>6, <2>0, <2>3
    <3>2. z[i] = b[i - w]
      BY <1>7, <2>0, <3>1
    <3>3. b[i - w] = r[i - w + g]
      BY <1>2, <3>1
    <3> QED
      BY <2>3, <3>1, <3>2, <3>3
  <2> QED
    BY <2>1, <2>2, <2>3
<1>9. Len(z) = f + k + (n - g)
  BY <1>0, <1>5, <1>6, <1>7
<1> QED
  BY <1>0, <1>7, <1>8, <1>9 DEF k, SpliceOf

LEMMA InsertVIs ==
    ASSUME NEW x, NEW r, Holds(x, r), NEW arg, ArgFor(arg, r), NEW at \in 0 .. Len(r), NEW k \in Nat
    PROVE  LET y == InsertV(x, at, k, arg)
               z == SubSeq(r, 1, at) \o Copies(k, Read(arg, r)) \o SubSeq(r, at + 1, Len(r))
           IN  IF k = 0 \/ arg.cell <= at + k \/ Len(r) + k > Capacity(x) \/ r[arg.cell - k] = r[arg.cell]
               THEN Holds(y, z) ELSE Contents(y) # z
<1> DEFINE n == Len(r)
           m == Read(arg, r)
           d == x.data
           c == Copies(k, m)
           z == SubSeq(r, 1, at) \o c \o SubSeq(r, at + 1, n)
           y == InsertV(x, at, k, arg)
           works == k = 0 \/ arg.cell <= at + k \/ n + k > Capacity(x) \/ r[arg.cell - k] = r[arg.cell]
<1>0. SUFFICES IF works THEN Holds(y, z) ELSE Contents(y) # z
  OBVIOUS
<1>1. /\ d \in Seq(Cells) /\ r \in Seq(Elems) /\ r \in Seq(Cells)
      /\ n \in Nat /\ Len(d) \in Nat /\ Capacity(x) = Len(d)
      /\ x.size = n /\ n <= Len(d) /\ Contents(x) = r
      /\ \A i \in 1 .. Len(d) : d[i] \in Cells
      /\ \A i \in 1 .. n : d[i] = r[i] /\ r[i] \in Elems /\ r[i] \in Cells
  BY HoldsFacts
<1>2. m \in Elems /\ m \in Cells /\ Read(arg, d) = m
  BY ArgIs
<1>3. arg.cell # 0 => arg.cell \in 1 .. n /\ m = r[arg.cell]
  BY DEF ArgFor, Read
<1> HIDE DEF m, d, n
<1>4. c \in Seq(Elems) /\ c \in Seq(Cells) /\ Len(c) = k /\ \A i \in 1 .. k : c[i] = m
  BY <1>2, CopiesIs
<1> HIDE DEF c
<1>5. at \in Nat /\ at \in 0 .. n /\ at <= n
  BY <1>1 DEF n
<1>6. /\ z \in Seq(Elems) /\ Len(z) = n + k
      /\ \A i \in 1 .. n + k : z[i] = IF i <= at THEN r[i] ELSE IF i <= at + k THEN m ELSE r[i - k]
  <2>1. /\ z \in Seq(Elems) /\ Len(z) = at + Len(c) + (n - at)
        /\ \A i \in 1 .. Len(z) : z[i] = IF i <= at THEN r[i] ELSE IF i <= at + Len(c) THEN c[i - at]
                                         ELSE r[i - at - Len(c) + at]
    <3>1. n <= Len(r) /\ at \in 0 .. at
      BY <1>1, <1>5 DEF n
    <3>2. PICK zz : zz = SubSeq(r, 1, at) \o c \o SubSeq(r, at + 1, n)
      OBVIOUS
    <3>3. SpliceOf(Elems, zz, r, n, c, at, at)
      BY <1>1, <1>4, <1>5, <3>1, <3>2, SplicedIs
    <3> QED
      BY <3>2, <3>3 DEF SpliceOf
  <2> HIDE DEF z
  <2>2. Len(z) = n + k
    BY <1>1, <1>4, <1>5, <2>1
  <2>3. ASSUME NEW i \in 1 .. n + k PROVE z[i] = IF i <= at THEN r[i] ELSE IF i <= at + k THEN m ELSE r[i - k]
    <3>1. z[i] = IF i <= at THEN r[i] ELSE IF i <= at + k THEN c[i - at] ELSE r[i - at - k + at]
      BY <1>4, <2>1, <2>2, <2>3
    <3>2. i \in Nat /\ i - at - k + at = i - k /\ (i > at /\ i <= at + k => i - at \in 1 .. k)
      BY <1>1, <1>5, <2>3
    <3> QED
      BY <1>4, <1>5, <3>1, <3>2
  <2> QED
    BY <2>1, <2>2, <2>3
<1> HIDE DEF z
<1>7. CASE n + k > Len(d)
  <2> DEFINE s == SubSeq(d, 1, at) \o c \o SubSeq(d, at + 1, n)
             cap == Grow(Len(d), n + k)
  <2>1. y = [data |-> Fill(s, cap), size |-> n + k]
    <3>1. ~(x.size + k <= Capacity(x))
      BY <1>1, <1>7
    <3> QED
      BY <1>1, <1>2, <3>1, Zenon DEF InsertV, Copies, d, c
  <2>2. n + k \in Nat /\ cap \in Nat /\ cap >= n + k
    <3>1. n + k \in Nat
      BY <1>1
    <3> QED
      BY <1>1, <3>1, GrowIs
  <2>3. /\ s \in Seq(Cells) /\ Len(s) = at + Len(c) + (n - at)
        /\ \A i \in 1 .. Len(s) : s[i] = IF i <= at THEN d[i] ELSE IF i <= at + Len(c) THEN c[i - at]
                                         ELSE d[i - at - Len(c) + at]
    <3>1. at \in 0 .. at
      BY <1>5
    <3>2. PICK zz : zz = SubSeq(d, 1, at) \o c \o SubSeq(d, at + 1, n)
      OBVIOUS
    <3>3. SpliceOf(Cells, zz, d, n, c, at, at)
      BY <1>1, <1>4, <1>5, <3>1, <3>2, SplicedIs
    <3> QED
      BY <3>2, <3>3 DEF SpliceOf
  <2> HIDE DEF s, cap, y
  <2>4. Len(s) = n + k
    BY <1>1, <1>4, <1>5, <2>3
  <2>5. ASSUME NEW i \in 1 .. n + k PROVE s[i] = z[i]
    <3>1. s[i] = IF i <= at THEN d[i] ELSE IF i <= at + k THEN c[i - at] ELSE d[i - at - k + at]
      BY <1>4, <2>3, <2>4, <2>5
    <3>2. /\ i \in Nat /\ i - at - k + at = i - k /\ (i > at /\ i <= at + k => i - at \in 1 .. k)
          /\ (i > at + k => i - k \in 1 .. n) /\ (i <= at => i \in 1 .. n)
      BY <1>1, <1>5, <2>5
    <3>3. z[i] = IF i <= at THEN r[i] ELSE IF i <= at + k THEN m ELSE r[i - k]
      BY <1>6, <2>5
    <3> QED
      BY <1>1, <1>4, <1>5, <3>1, <3>2, <3>3
  <2>6. Holds([data |-> Fill(s, cap), size |-> n + k], z)
    BY <1>6, <2>2, <2>3, <2>4, <2>5, FillHolds
  <2>7. works
    BY <1>1, <1>7
  <2> HIDE DEF works
  <2> QED
    BY <2>1, <2>6, <2>7
<1>8. CASE ~(n + k > Len(d))
  <2> DEFINE mv == Shift(x, at, k)
             w == Read(arg, mv)
             e == [i \in 1 .. Len(d) |-> IF i \in at + 1 .. at + k THEN w ELSE mv[i]]
  <2>1. y = [data |-> e, size |-> n + k]
    <3>1. x.size + k <= Capacity(x)
      BY <1>1, <1>8
    <3> QED
      BY <1>1, <3>1 DEF InsertV
  <2> HIDE DEF y
  <2>2. mv = [i \in 1 .. Len(d) |-> IF i > at + k /\ i <= n + k THEN d[i - k] ELSE d[i]]
    BY <1>1 DEF Shift, d
  <2>3. ASSUME NEW i \in 1 .. Len(d)
        PROVE  mv[i] \in Cells /\ mv[i] = IF i > at + k /\ i <= n + k THEN d[i - k] ELSE d[i]
    <3>1. i > at + k /\ i <= n + k => i - k \in 1 .. Len(d)
      BY <1>1, <1>5, <1>8, <2>3
    <3> QED
      BY <1>1, <2>2, <2>3, <3>1
  <2> HIDE DEF mv
  <2>4. w \in Cells /\ w = IF arg.cell # 0 /\ arg.cell > at + k THEN r[arg.cell - k] ELSE m
    <3>1. CASE arg.cell = 0
      BY <1>2, <3>1 DEF m, Read
    <3>2. CASE arg.cell # 0
      <4>1. /\ arg.cell \in 1 .. n /\ arg.cell \in 1 .. Len(d) /\ m = r[arg.cell]
            /\ w = mv[arg.cell] /\ arg.cell <= n + k
        BY <1>1, <1>3, <3>2 DEF Read
      <4>2. arg.cell > at + k => arg.cell - k \in 1 .. n
        BY <1>1, <1>5, <4>1
      <4> QED
        BY <1>1, <1>5, <2>3, <3>2, <4>1, <4>2
    <3> QED
      BY <3>1, <3>2
  <2> HIDE DEF w
  <2>5. e \in [1 .. Len(d) -> Cells]
    BY <2>3, <2>4
  <2>6. e \in Seq(Cells) /\ Len(e) = Len(d)
    BY <1>1, <2>5, SeqOfFunction
  <2>7. ASSUME NEW i \in 1 .. n + k
        PROVE  e[i] = IF i <= at THEN r[i] ELSE IF i <= at + k THEN w ELSE r[i - k]
    <3>1. i \in 1 .. Len(d) /\ i \in Nat /\ i <= n + k
      BY <1>1, <1>8, <2>7
    <3>2. e[i] = IF i \in at + 1 .. at + k THEN w ELSE mv[i]
      BY <3>1
    <3>3. CASE i <= at
      <4>1. i \in 1 .. n /\ i \notin at + 1 .. at + k /\ ~(i > at + k)
        BY <1>1, <1>5, <3>1, <3>3
      <4> QED
        BY <1>1, <2>3, <3>1, <3>2, <3>3, <4>1
    <3>4. CASE i > at /\ i <= at + k
      <4>1. i \in at + 1 .. at + k
        BY <1>5, <3>1, <3>4
      <4> QED
        BY <1>5, <3>1, <3>2, <3>4, <4>1
    <3>5. CASE i > at + k
      <4>1. i - k \in 1 .. n /\ i \notin at + 1 .. at + k /\ ~(i <= at)
        BY <1>1, <1>5, <3>1, <3>5
      <4> QED
        BY <1>1, <1>5, <2>3, <3>1, <3>2, <3>5, <4>1
    <3> QED
      BY <1>5, <3>1, <3>3, <3>4, <3>5
  <2> HIDE DEF e
  <2>8. n + k \in Nat /\ n + k <= Len(e)
    BY <1>1, <1>8, <2>6
  <2>9. works <=> k = 0 \/ w = m
    <3>1. ASSUME k # 0 PROVE works <=> w = m
      <4>1. CASE arg.cell = 0
        <5>1. arg.cell <= at + k /\ w = m
          BY <1>5, <2>4, <4>1
        <5> QED
          BY <5>1
      <4>2. CASE arg.cell # 0
        <5>1. arg.cell \in 1 .. n /\ m = r[arg.cell]
          BY <1>3, <4>2
        <5>2. ~(n + k > Capacity(x))
          BY <1>1, <1>8
        <5>3. CASE arg.cell <= at + k
          <6>1. ~(arg.cell > at + k)
            BY <1>5, <5>1, <5>3
          <6> QED
            BY <2>4, <5>3, <6>1
        <5>4. CASE ~(arg.cell <= at + k)
          <6>1. arg.cell > at + k
            BY <1>5, <1>1, <5>1, <5>4
          <6> QED
            BY <2>4, <3>1, <4>2, <5>1, <5>2, <5>4, <6>1
        <5> QED
          BY <5>3, <5>4
      <4> QED
        BY <4>1, <4>2
    <3> QED
      BY <3>1
  <2> HIDE DEF works
  <2>10. ASSUME works PROVE Holds(y, z)
    <3>1. ASSUME NEW i \in 1 .. n + k PROVE e[i] = z[i]
      <4>1. ~(i <= at) /\ i <= at + k => k # 0
        BY <1>5, <3>1
      <4>2. k = 0 \/ w = m
        BY <2>9, <2>10
      <4>3. e[i] = IF i <= at THEN r[i] ELSE IF i <= at + k THEN w ELSE r[i - k]
        BY <2>7, <3>1
      <4>4. z[i] = IF i <= at THEN r[i] ELSE IF i <= at + k THEN m ELSE r[i - k]
        BY <1>6, <3>1
      <4> QED
        BY <1>5, <3>1, <4>1, <4>2, <4>3, <4>4
    <3>2. Holds([data |-> e, size |-> n + k], z)
      BY <1>6, <2>6, <2>8, <3>1, HoldsIs
    <3> QED
      BY <2>1, <3>2
  <2>11. ASSUME ~works PROVE Contents(y) # z
    <3>1. k # 0 /\ w # m
      BY <2>9, <2>11
    <3>2. at + 1 \in 1 .. n + k /\ ~(at + 1 <= at) /\ at + 1 <= at + k
      BY <1>1, <1>5, <3>1
    <3>3. e[at + 1] = w /\ z[at + 1] = m
      BY <1>6, <2>7, <3>2
    <3>4. Contents([data |-> e, size |-> n + k]) # z
      BY <2>6, <2>8, <3>1, <3>2, <3>3, DiffersIs
    <3> QED
      BY <2>1, <3>4
  <2> QED
    BY <2>10, <2>11
<1> QED
  BY <1>7, <1>8

LEMMA EraseRangeVIs ==
    ASSUME NEW x, NEW r, Holds(x, r), NEW l \in 0 .. Len(r), NEW f \in 0 .. l
    PROVE  Holds(EraseRangeV(x, f, l), SubSeq(r, 1, f) \o SubSeq(r, l + 1, Len(r)))
<1> DEFINE n == Len(r)
           d == x.data
           k == n - (l - f)
           z == SubSeq(r, 1, f) \o SubSeq(r, l + 1, n)
           e == [i \in 1 .. Len(d) |-> IF i > f /\ i <= f + (n - l) THEN d[i + (l - f)] ELSE d[i]]
<1>1. /\ d \in Seq(Cells) /\ r \in Seq(Elems) /\ n \in Nat /\ Len(d) \in Nat /\ Capacity(x) = Len(d)
      /\ x.size = n /\ n <= Len(d)
      /\ \A i \in 1 .. Len(d) : d[i] \in Cells
      /\ \A i \in 1 .. n : d[i] = r[i]
  BY HoldsFacts
<1>2. EraseRangeV(x, f, l) = [data |-> e, size |-> k]
  BY <1>1 DEF EraseRangeV
<1> HIDE DEF d
<1>3. f \in Nat /\ l \in Nat /\ f <= l /\ l <= n /\ k \in Nat /\ k <= n
  BY <1>1
<1>4. /\ z \in Seq(Elems) /\ Len(z) = k
      /\ \A i \in 1 .. k : z[i] = IF i <= f THEN r[i] ELSE r[i + (l - f)]
  <2> DEFINE a == SubSeq(r, 1, f)
             b == SubSeq(r, l + 1, n)
  <2>1. a \in Seq(Elems) /\ Len(a) = f /\ \A i \in 1 .. f : a[i] = r[i]
    BY <1>1, <1>3, PrefixIs
  <2>2. b \in Seq(Elems) /\ Len(b) = n - l /\ \A i \in 1 .. n - l : b[i] = r[i + l]
    BY <1>1, <1>3, RestIs
  <2> HIDE DEF a, b, n
  <2>3. /\ a \o b \in Seq(Elems) /\ Len(a \o b) = f + (n - l)
        /\ \A j \in 1 .. (f + (n - l)) : (a \o b)[j] = IF j <= f THEN a[j] ELSE b[j - f]
    <3>1. PICK q \in Nat : q = n - l
      BY <1>1, <1>3
    <3>2. JoinOf(Elems, a \o b, a, f, b, q)
      BY <2>1, <2>2, <3>1, JoinedTo
    <3> QED
      BY <3>1, <3>2 DEF JoinOf
  <2>4. z = a \o b
    BY DEF a, b
  <2> HIDE DEF z
  <2>5. f + (n - l) = k
    BY <1>1, <1>3
  <2>6. ASSUME NEW i \in 1 .. k PROVE z[i] = IF i <= f THEN r[i] ELSE r[i + (l - f)]
    <3>1. z[i] = IF i <= f THEN a[i] ELSE b[i - f]
      BY <2>3, <2>4, <2>5
    <3>2. /\ i \in Nat /\ (i <= f => i \in 1 .. f)
          /\ (~(i <= f) => i - f \in 1 .. n - l /\ i - f + l = i + (l - f))
      BY <1>1, <1>3, <2>5, <2>6
    <3>3. CASE i <= f
      BY <2>1, <3>1, <3>2, <3>3
    <3>4. CASE ~(i <= f)
      <4>1. b[i - f] = r[i - f + l]
        BY <2>2, <3>2, <3>4
      <4> QED
        BY <3>1, <3>2, <3>4, <4>1
    <3> QED
      BY <3>3, <3>4
  <2> QED
    BY <2>3, <2>4, <2>5, <2>6
<1> HIDE DEF z
<1>5. ASSUME NEW i \in 1 .. Len(d) PROVE e[i] \in Cells
  <2>1. i > f /\ i <= f + (n - l) => i + (l - f) \in 1 .. Len(d)
    BY <1>1, <1>3, <1>5
  <2> QED
    BY <1>1, <1>5, <2>1
<1>6. e \in Seq(Cells) /\ Len(e) = Len(d)
  <2>1. e \in [1 .. Len(d) -> Cells]
    BY <1>5
  <2> QED
    BY <1>1, <2>1, SeqOfFunction
<1>7. ASSUME NEW i \in 1 .. k PROVE e[i] = z[i]
  <2>1. /\ i \in 1 .. Len(d) /\ i \in Nat /\ i <= f + (n - l)
        /\ (i <= f => i \in 1 .. n) /\ (i > f => i + (l - f) \in 1 .. n)
    BY <1>1, <1>3, <1>7
  <2>2. e[i] = IF i > f /\ i <= f + (n - l) THEN d[i + (l - f)] ELSE d[i]
    BY <2>1
  <2>3. CASE i <= f
    <3>1. ~(i > f)
      BY <1>3, <2>1, <2>3
    <3> QED
      BY <1>1, <1>4, <1>7, <2>1, <2>2, <2>3, <3>1
  <2>4. CASE i > f
    <3>1. ~(i <= f)
      BY <1>3, <2>1, <2>4
    <3> QED
      BY <1>1, <1>4, <1>7, <2>1, <2>2, <2>4, <3>1
  <2> QED
    BY <1>3, <2>1, <2>3, <2>4
<1> HIDE DEF e
<1>8. k <= Len(e)
  BY <1>1, <1>3, <1>6
<1> HIDE DEF k
<1>9. Holds([data |-> e, size |-> k], z)
  BY <1>4, <1>6, <1>7, <1>8, HoldsIs
<1> QED
  BY <1>2, <1>9 DEF z

-----------------------------------------------------------------------------
LEMMA VecInitInv == VecInit => VecInv
<1> SUFFICES ASSUME VecInit PROVE VecInv
  OBVIOUS
<1>1. Holds([data |-> <<>>, size |-> 0], <<>>)
  <2>1. <<>> \in Seq(Cells) /\ <<>> \in Seq(Elems) /\ Len(<<>>) = 0
    OBVIOUS
  <2> QED
    BY <2>1 DEF Holds
<1> QED
  BY <1>1 DEF VecInit, VecInv

\* A call on one vector leaves what VecInv asks for.
LEMMA VecCallInv ==
    ASSUME VecInv, vecLegal, NEW v \in Vectors, NEW x, NEW r, NEW works,
           VecCall(v, x, r, works), works \in BOOLEAN,
           IF works THEN Holds(x, r) ELSE Contents(x) # r
    PROVE  VecInv'
<1>1. /\ vec' = [vec EXCEPT ![v] = x] /\ vecRef' = [vecRef EXCEPT ![v] = r]
      /\ vecLegal' = works /\ vecOut' = vecWant'
  BY DEF VecCall
<1>2. /\ vec = [o \in Vectors |-> vec[o]] /\ vecRef = [o \in Vectors |-> vecRef[o]]
      /\ \A o \in Vectors : Holds(vec[o], vecRef[o])
  BY DEF VecInv
<1>3. /\ vec' = [o \in Vectors |-> vec'[o]] /\ vecRef' = [o \in Vectors |-> vecRef'[o]]
      /\ vec'[v] = x /\ vecRef'[v] = r
      /\ \A o \in Vectors : o # v => vec'[o] = vec[o] /\ vecRef'[o] = vecRef[o]
  BY <1>1, <1>2
<1>4. works => \A o \in Vectors : Holds(vec'[o], vecRef'[o])
  BY <1>2, <1>3
<1>5. ~works => \E o \in Vectors : Contents(vec'[o]) # vecRef'[o]
  BY <1>3
<1> QED
  BY <1>1, <1>3, <1>4, <1>5 DEF VecInv

LEMMA VecReadInv ==
    ASSUME VecInv, vecLegal, UNCHANGED <<vec, vecRef, vecLegal>>, vecOut' = vecWant'
    PROVE  VecInv'
BY DEF VecInv

LEMMA ArgsAre ==
    ASSUME NEW v \in Vectors, NEW arg \in Args(v)
    PROVE  ArgFor(arg, vecRef[v]) /\ arg.cell \in Int
<1>1. CASE \E e \in Elems : arg = Outside(e)
  BY <1>1 DEF Outside, ArgFor
<1>2. CASE \E i \in 1 .. Len0(v) : arg = Element(i)
  BY <1>2 DEF Element, ArgFor, Len0
<1> QED
  BY <1>1, <1>2 DEF Args

LEMMA VecNextInv == VecInv /\ [VecNext]_vecVars => VecInv'
<1> SUFFICES ASSUME VecInv, [VecNext]_vecVars PROVE VecInv'
  OBVIOUS
<1>1. CASE UNCHANGED vecVars
  BY <1>1 DEF VecInv, vecVars
<1>2. CASE VecNext
  <2>1. vecLegal
    BY <1>2 DEF VecNext
  <2>2. ASSUME NEW v \in Vectors
        PROVE  /\ Holds(vec[v], vecRef[v]) /\ Len0(v) \in Nat /\ vec[v].size = Len0(v)
               /\ vecRef[v] \in Seq(Elems) /\ Len0(v) = Len(vecRef[v])
               /\ \A i \in 1 .. Len0(v) : vec[v].data[i] = vecRef[v][i]
    <3>1. Holds(vec[v], vecRef[v])
      BY <2>1 DEF VecInv
    <3> QED
      BY <3>1, HoldsFacts DEF Len0
  <2>3. ASSUME NEW v \in Vectors, NEW x, NEW r, Holds(x, r), VecCall(v, x, r, TRUE) PROVE VecInv'
    BY <2>1, <2>3, VecCallInv
  <2>4. ASSUME NEW v \in Vectors, my_pop_back(v) PROVE VecInv'
    <3>1. CASE Len0(v) = 0
      <4>1. PopBackV(vec[v]) = vec[v]
        BY <2>2, <3>1 DEF PopBackV
      <4>2. SubSeq(vecRef[v], 1, Len0(v) - 1) = vecRef[v]
        BY <2>2, <3>1
      <4>3. Holds(PopBackV(vec[v]), SubSeq(vecRef[v], 1, Len0(v) - 1))
        BY <2>2, <4>1, <4>2
      <4> QED
        BY <2>3, <2>4, <4>3 DEF my_pop_back
    <3>2. CASE Len0(v) # 0
      <4> DEFINE k == Len0(v) - 1
      <4>1. PopBackV(vec[v]) = [vec[v] EXCEPT !.size = k]
        BY <2>2, <3>2 DEF PopBackV
      <4>2. k \in 0 .. Len(vecRef[v])
        BY <2>2, <3>2
      <4> HIDE DEF k
      <4>3. Holds(PopBackV(vec[v]), SubSeq(vecRef[v], 1, k))
        BY <2>2, <4>1, <4>2, ShorterHolds
      <4> QED
        BY <2>3, <2>4, <4>3 DEF my_pop_back, k
    <3> QED
      BY <3>1, <3>2
  <2>5. ASSUME NEW v \in Vectors, my_clear(v) PROVE VecInv'
    <3>1. 0 \in 0 .. Len(vecRef[v])
      BY <2>2
    <3>2. Holds([vec[v] EXCEPT !.size = 0], SubSeq(vecRef[v], 1, 0))
      BY <2>2, <3>1, ShorterHolds
    <3>3. SubSeq(vecRef[v], 1, 0) = <<>>
      BY <2>2
    <3> QED
      BY <2>3, <2>5, <3>2, <3>3 DEF my_clear
  <2>6. ASSUME NEW v \in Vectors, NEW arg \in Args(v), my_push_back(v, arg) PROVE VecInv'
    <3> DEFINE works == arg.cell = 0 \/ vec[v].size < Capacity(vec[v])
               x == PushBackV(vec[v], arg)
               r == Append(vecRef[v], Read(arg, vecRef[v]))
    <3>1. IF works THEN Holds(x, r) ELSE Contents(x) # r
      BY <2>2, <2>6, ArgsAre, PushBackIs
    <3>2. VecCall(v, x, r, works) /\ works \in BOOLEAN
      BY <2>6 DEF my_push_back, Meant
    <3> HIDE DEF works, x, r
    <3> QED
      BY <2>1, <3>1, <3>2, VecCallInv
  <2>7. ASSUME NEW v \in Vectors, NEW arg \in Args(v), NEW n \in 0 .. MaxCells, my_assign(v, n, arg) PROVE VecInv'
    <3> DEFINE works == arg.cell = 0 \/ Capacity(vec[v]) >= n
               x == AssignV(vec[v], n, arg)
               r == Copies(n, Read(arg, vecRef[v]))
    <3>0. n \in Nat
      BY VecAssumption
    <3>1. IF works THEN Holds(x, r) ELSE Contents(x) # r
      BY <2>2, <2>7, <3>0, ArgsAre, AssignVIs
    <3>2. VecCall(v, x, r, works) /\ works \in BOOLEAN
      BY <2>7 DEF my_assign, Meant
    <3> HIDE DEF works, x, r
    <3> QED
      BY <2>1, <3>1, <3>2, VecCallInv
  <2>8. ASSUME NEW v \in Vectors, NEW arg, ArgFor(arg, vecRef[v]), NEW n \in 0 .. MaxCells, my_resize(v, n, arg)
        PROVE  VecInv'
    <3> DEFINE x == ResizeV(vec[v], n, arg)
               r == IF n <= Len(vecRef[v]) THEN SubSeq(vecRef[v], 1, n)
                    ELSE vecRef[v] \o Copies(n - Len(vecRef[v]), Read(arg, vecRef[v]))
    <3>0. n \in Nat
      BY VecAssumption
    <3>1. Holds(x, r)
      BY <2>2, <2>8, <3>0, ResizeVIs
    <3>2. VecCall(v, x, r, TRUE)
      BY <2>8 DEF my_resize, Meant, Len0
    <3> HIDE DEF x, r
    <3> QED
      BY <2>3, <3>1, <3>2
  <2>9. ASSUME NEW v \in Vectors, NEW n \in 0 .. MaxCells, my_reserve(v, n) PROVE VecInv'
    <3>0. n \in Nat
      BY VecAssumption
    <3>1. Holds(ReserveV(vec[v], n), vecRef[v])
      BY <2>2, <3>0, ReserveVIs
    <3> QED
      BY <2>3, <2>9, <3>1 DEF my_reserve
  <2>10. ASSUME NEW v \in Vectors, NEW arg \in Args(v), NEW at \in 0 .. Len0(v), NEW n \in 0 .. 2, my_insert(v, at, n, arg)
         PROVE  VecInv'
    <3> DEFINE rv == vecRef[v]
               works == n = 0 \/ arg.cell <= at + n \/ Len(rv) + n > Capacity(vec[v]) \/ rv[arg.cell - n] = rv[arg.cell]
               x == InsertV(vec[v], at, n, arg)
               r == SubSeq(rv, 1, at) \o Copies(n, Read(arg, rv)) \o SubSeq(rv, at + 1, Len(rv))
    <3>0. n \in Nat /\ at \in 0 .. Len(rv)
      BY <2>2
    <3>4. Holds(vec[v], rv) /\ ArgFor(arg, rv)
      BY <2>2, <2>10, ArgsAre
    <3> HIDE DEF rv
    <3>1. IF works THEN Holds(x, r) ELSE Contents(x) # r
      BY <3>0, <3>4, InsertVIs
    <3>2. VecCall(v, x, r, works)
      BY <2>10 DEF my_insert, Meant, Len0, rv
    <3>3. works \in BOOLEAN
      OBVIOUS
    <3> HIDE DEF works, x, r
    <3> QED
      BY <2>1, <3>1, <3>2, <3>3, VecCallInv
  <2>11. ASSUME NEW v \in Vectors, NEW f \in 0 .. Len0(v), NEW l \in f .. Len0(v), my_erase_range(v, f, l) PROVE VecInv'
    <3>1. l \in 0 .. Len(vecRef[v]) /\ f \in 0 .. l
      BY <2>2
    <3>2. Holds(EraseRangeV(vec[v], f, l), SubSeq(vecRef[v], 1, f) \o SubSeq(vecRef[v], l + 1, Len(vecRef[v])))
      BY <2>2, <3>1, EraseRangeVIs
    <3> QED
      BY <2>3, <2>11, <3>2 DEF my_erase_range, Len0
  <2>12. ASSUME NEW v \in Vectors, NEW f \in 0 .. Len0(v), my_erase(v, f) PROVE VecInv'
    <3>1. CASE f = vec[v].size
      <4>1. vecOut' = vecWant' /\ UNCHANGED <<vec, vecRef, vecLegal>>
        BY <2>2, <2>12, <3>1 DEF my_erase
      <4> QED
        BY <2>1, <4>1, VecReadInv
    <3>2. CASE f # vec[v].size
      <4>1. f \in Nat /\ f + 1 \in 0 .. Len(vecRef[v]) /\ f \in 0 .. f + 1 /\ f + 1 + 1 = f + 2
        BY <2>2, <3>2
      <4>2. Holds(EraseRangeV(vec[v], f, f + 1),
                  SubSeq(vecRef[v], 1, f) \o SubSeq(vecRef[v], f + 1 + 1, Len(vecRef[v])))
        BY <2>2, <4>1, EraseRangeVIs
      <4>3. VecCall(v, EraseRangeV(vec[v], f, f + 1),
                    SubSeq(vecRef[v], 1, f) \o SubSeq(vecRef[v], f + 2, Len(vecRef[v])), TRUE)
        BY <2>12, <3>2 DEF my_erase, Len0
      <4>4. Holds(EraseRangeV(vec[v], f, f + 1),
                  SubSeq(vecRef[v], 1, f) \o SubSeq(vecRef[v], f + 2, Len(vecRef[v])))
        BY <4>1, <4>2
      <4> QED
        BY <2>3, <4>3, <4>4
    <3> QED
      BY <3>1, <3>2
  <2>13. ASSUME NEW v \in Vectors, NEW i \in -1 .. Len0(v), my_at(v, i) PROVE VecInv'
    <3>1. UNCHANGED <<vec, vecRef, vecLegal>>
      BY <2>13 DEF my_at
    <3>2. vecOut' = vecWant'
      <4>1. i \in Int /\ (i < 0 \/ i >= vec[v].size <=> ~(i + 1 \in 1 .. Len0(v)))
        BY <2>2, <2>13
      <4>2. vecOut' = IF i < 0 \/ i >= vec[v].size THEN Thrown ELSE vec[v].data[i + 1]
        BY <2>13 DEF my_at
      <4>3. vecWant' = IF i + 1 \in 1 .. Len0(v) THEN vecRef[v][i + 1] ELSE Thrown
        BY <2>13 DEF my_at
      <4> QED
        BY <2>2, <4>1, <4>2, <4>3
    <3> QED
      BY <2>1, <3>1, <3>2, VecReadInv
  <2>14. ASSUME NEW v \in Vectors, NEW o \in Vectors, my_swap(v, o) PROVE VecInv'
    <3>1. /\ vec' = [vec EXCEPT ![v] = vec[o], ![o] = vec[v]]
          /\ vecRef' = [vecRef EXCEPT ![v] = vecRef[o], ![o] = vecRef[v]]
          /\ vecOut' = vecWant' /\ vecLegal' = vecLegal /\ v # o
      BY <2>14 DEF my_swap
    <3>2. vec = [u \in Vectors |-> vec[u]] /\ vecRef = [u \in Vectors |-> vecRef[u]] /\ vecLegal \in BOOLEAN
      BY DEF VecInv
    <3>3. /\ vec' = [u \in Vectors |-> vec'[u]] /\ vecRef' = [u \in Vectors |-> vecRef'[u]]
          /\ vec'[v] = vec[o] /\ vec'[o] = vec[v] /\ vecRef'[v] = vecRef[o] /\ vecRef'[o] = vecRef[v]
          /\ \A u \in Vectors : u # v /\ u # o => vec'[u] = vec[u] /\ vecRef'[u] = vecRef[u]
      BY <3>1, <3>2
    <3>4. \A u \in Vectors : Holds(vec'[u], vecRef'[u])
      <4>1. \A u \in Vectors : Holds(vec[u], vecRef[u])
        BY <2>2
      <4> QED
        BY <3>3, <4>1
    <3> QED
      BY <2>1, <3>1, <3>2, <3>3, <3>4 DEF VecInv
  <2>15. PICK v \in Vectors :
          \/ my_pop_back(v) \/ my_clear(v)
          \/ \E arg \in Args(v) :
                \/ my_push_back(v, arg)
                \/ \E n \in 0 .. MaxCells : my_assign(v, n, arg) \/ my_resize(v, n, arg)
                \/ \E at \in 0 .. Len0(v), n \in 0 .. 2 : my_insert(v, at, n, arg)
          \/ \E n \in 0 .. MaxCells : my_reserve(v, n) \/ my_resize(v, n, Outside(Default))
          \/ \E f \in 0 .. Len0(v) : \/ my_erase(v, f)
                                     \/ \E l \in f .. Len0(v) : my_erase_range(v, f, l)
          \/ \E i \in -1 .. Len0(v) : my_at(v, i)
          \/ \E o \in Vectors : my_swap(v, o)
    BY <1>2 DEF VecNext
  <2>16. ASSUME NEW n \in 0 .. MaxCells, my_resize(v, n, Outside(Default)) PROVE VecInv'
    <3>1. ArgFor(Outside(Default), vecRef[v])
      BY VecAssumption DEF Outside, ArgFor
    <3> QED
      BY <2>8, <2>16, <3>1
  <2>17. ASSUME NEW arg \in Args(v), NEW n \in 0 .. MaxCells, my_resize(v, n, arg) PROVE VecInv'
    BY <2>8, <2>17, ArgsAre
  <2> QED
    BY <2>4, <2>5, <2>6, <2>7, <2>9, <2>10, <2>11, <2>12, <2>13, <2>14, <2>15, <2>16, <2>17
<1> QED
  BY <1>1, <1>2

\* After every sequence of calls a vector holds what a sequence would, for any
\* number of vectors and any capacity; and a call whose argument it destroys
\* before the use really leaves something else.
THEOREM VectorsMatch == VecInit /\ [][VecNext]_vecVars => []VectorMatches
<1> QED
  BY VecInitInv, VecNextInv, VecInvMatches, PTL

-----------------------------------------------------------------------------
(* The vector, version 3 *)

SlotValues == StdElems \cup {Raw, Moved}

StdShape(x) == /\ x = [cells |-> x.cells, size |-> x.size, fault |-> x.fault]
               /\ x.cells \in Seq(SlotValues) /\ x.fault \in BOOLEAN

\* Objects are constructed in the first cells, those of r; nothing was misused.
Laid(x, r) ==
    /\ StdShape(x) /\ r \in Seq(StdElems) /\ ~x.fault
    /\ Len(r) <= Len(x.cells)
    /\ \A i \in 1 .. Len(r) : x.cells[i] = r[i]
    /\ \A i \in 1 .. Len(x.cells) : i > Len(r) => x.cells[i] = Raw

Lives(x, r) == Laid(x, r) /\ x.size = Len(r)

\* Something was misused, or a cell has other contents than it should.
Spoilt(x, r) ==
    \/ x.fault
    \/ \E i \in 1 .. Len(x.cells) : x.cells[i] # IF i <= Len(r) THEN r[i] ELSE Raw

StdInv ==
    /\ stdLegal \in BOOLEAN
    /\ std = [v \in StdVectors |-> std[v]] /\ stdRef = [v \in StdVectors |-> stdRef[v]]
    /\ stdLegal => stdOut = stdWant /\ \A v \in StdVectors : Lives(std[v], stdRef[v])
    /\ ~stdLegal => \E v \in StdVectors : /\ stdRef[v] \in Seq(StdElems) /\ StdShape(std[v])
                                          /\ std[v].size = Len(stdRef[v]) /\ std[v].size <= Cap(std[v])
                                          /\ Spoilt(std[v], stdRef[v])

LEMMA SlotFacts ==
    /\ Raw \in SlotValues /\ Moved \in SlotValues /\ \A e \in StdElems : e \in SlotValues /\ e # Raw /\ e # Moved
    /\ Raw # Moved
BY StdAssumption DEF SlotValues, Raw, Moved

LEMMA LaidFacts ==
    ASSUME NEW x, NEW r, Laid(x, r)
    PROVE  /\ StdShape(x) /\ ~x.fault /\ x.cells \in Seq(SlotValues) /\ r \in Seq(StdElems)
           /\ Len(r) \in Nat /\ Len(x.cells) \in Nat /\ Cap(x) = Len(x.cells) /\ Len(r) <= Len(x.cells)
           /\ \A i \in 1 .. Len(r) : x.cells[i] = r[i] /\ r[i] \in StdElems /\ x.cells[i] # Raw
           /\ \A i \in 1 .. Len(x.cells) : x.cells[i] \in SlotValues
           /\ \A i \in 1 .. Len(x.cells) : i > Len(r) => x.cells[i] = Raw
<1>1. /\ StdShape(x) /\ ~x.fault /\ x.cells \in Seq(SlotValues) /\ r \in Seq(StdElems) /\ Len(r) <= Len(x.cells)
      /\ \A i \in 1 .. Len(r) : x.cells[i] = r[i]
      /\ \A i \in 1 .. Len(x.cells) : i > Len(r) => x.cells[i] = Raw
  BY DEF Laid, StdShape
<1>2. \A i \in 1 .. Len(r) : r[i] \in StdElems /\ x.cells[i] # Raw
  BY <1>1, SlotFacts
<1>3. \A i \in 1 .. Len(x.cells) : x.cells[i] \in SlotValues
  BY <1>1
<1> QED
  BY <1>1, <1>2, <1>3 DEF Cap

LEMMA RawCellsAre ==
    ASSUME NEW n \in Nat
    PROVE  RawCells(n) \in Seq(SlotValues) /\ Len(RawCells(n)) = n /\ \A i \in 1 .. n : RawCells(n)[i] = Raw
<1>1. RawCells(n) \in [1 .. n -> SlotValues]
  BY SlotFacts DEF RawCells
<1>2. \A i \in 1 .. n : RawCells(n)[i] = Raw
  BY DEF RawCells
<1>3. RawCells(n) \in Seq(SlotValues) /\ Len(RawCells(n)) = n
  BY <1>1, SeqOfFunction
<1> QED
  BY <1>2, <1>3

\* The cells, as LifetimesSound writes them.
LEMMA CellsAre ==
    ASSUME NEW x, NEW r \in Seq(StdElems), StdShape(x), x.size = Len(r), x.size <= Cap(x)
    PROVE  /\ Laid(x, r) => ~x.fault /\ x.cells = r \o RawCells(Cap(x) - x.size)
           /\ Spoilt(x, r) => x.fault \/ x.cells # r \o RawCells(Cap(x) - x.size)
<1> DEFINE n == Len(r)
           c == x.cells
           k == Len(c) - n
           w == RawCells(k)
           z == r \o w
<1>1. n \in Nat /\ Len(c) \in Nat /\ n <= Len(c) /\ c \in Seq(SlotValues) /\ k \in Nat /\ n + k = Len(c)
  BY DEF StdShape, Cap
<1>2. w \in Seq(SlotValues) /\ Len(w) = k /\ \A i \in 1 .. k : w[i] = Raw
  BY <1>1, RawCellsAre
<1>3. r \in Seq(SlotValues)
  BY SlotFacts
<1>4. RawCells(Cap(x) - x.size) = w
  BY DEF Cap
<1> HIDE DEF w, c, n, k
<1>5. JoinOf(SlotValues, z, r, n, w, k)
  BY <1>1, <1>2, <1>3, JoinedTo DEF n
<1> HIDE DEF z
<1>6. z \in Seq(SlotValues) /\ Len(z) = Len(c)
  BY <1>1, <1>5 DEF JoinOf
<1>7. ASSUME NEW i \in 1 .. Len(c) PROVE z[i] = IF i <= n THEN r[i] ELSE Raw
  <2>1. z[i] = IF i <= n THEN r[i] ELSE w[i - n]
    BY <1>1, <1>5, <1>7 DEF JoinOf
  <2>2. ~(i <= n) => i - n \in 1 .. k
    BY <1>1, <1>7
  <2> QED
    BY <1>2, <2>1, <2>2
<1>8. ASSUME Laid(x, r) PROVE ~x.fault /\ c = z
  <2>1. \A i \in 1 .. Len(c) : c[i] = IF i <= n THEN r[i] ELSE Raw
    BY <1>1, <1>8 DEF Laid, n, c
  <2>2. \A i \in 1 .. Len(z) : c[i] = z[i]
    BY <1>6, <1>7, <2>1
  <2>3. c = z
    BY <1>1, <1>6, <2>2, SeqsAgree
  <2> QED
    BY <1>8, <2>3 DEF Laid
<1>9. ASSUME Spoilt(x, r) PROVE x.fault \/ c # z
  <2>1. CASE x.fault
    BY <2>1
  <2>2. CASE ~x.fault
    <3>1. PICK i \in 1 .. Len(c) : c[i] # IF i <= n THEN r[i] ELSE Raw
      BY <1>9, <2>2 DEF Spoilt, c, n
    <3> QED
      BY <1>7, <3>1
  <2> QED
    BY <2>1, <2>2
<1> QED
  BY <1>4, <1>8, <1>9 DEF z, c

LEMMA StdInvSound == StdInv => LifetimesSound
<1> SUFFICES ASSUME StdInv PROVE LifetimesSound
  OBVIOUS
<1>1. CASE stdLegal
  <2>1. stdOut = stdWant
    BY <1>1 DEF StdInv
  <2>2. ASSUME NEW v \in StdVectors
        PROVE  ~std[v].fault /\ std[v].cells = stdRef[v] \o RawCells(Cap(std[v]) - std[v].size)
    <3>1. Laid(std[v], stdRef[v]) /\ std[v].size = Len(stdRef[v])
      BY <1>1 DEF StdInv, Lives
    <3>2. stdRef[v] \in Seq(StdElems) /\ StdShape(std[v]) /\ std[v].size <= Cap(std[v])
      BY <3>1 DEF Laid, Cap
    <3> QED
      BY <3>1, <3>2, CellsAre
  <2> QED
    BY <1>1, <2>1, <2>2 DEF LifetimesSound
<1>2. CASE ~stdLegal
  <2>1. PICK v \in StdVectors : /\ stdRef[v] \in Seq(StdElems) /\ StdShape(std[v])
                                /\ std[v].size = Len(stdRef[v]) /\ std[v].size <= Cap(std[v])
                                /\ Spoilt(std[v], stdRef[v])
    BY <1>2 DEF StdInv
  <2>2. std[v].fault \/ std[v].cells # stdRef[v] \o RawCells(Cap(std[v]) - std[v].size)
    BY <2>1, CellsAre
  <2> QED
    BY <1>2, <2>2 DEF LifetimesSound
<1> QED
  BY <1>1, <1>2 DEF StdInv

-----------------------------------------------------------------------------
\* y is x with the cells after f up to l destroyed.
HasWiped(y, x, f, l) ==
    /\ StdShape(y) /\ y.size = x.size /\ Len(y.cells) = Len(x.cells)
    /\ \A i \in 1 .. Len(x.cells) : y.cells[i] = IF i \in f + 1 .. l THEN Raw ELSE x.cells[i]
    /\ y.fault <=> x.fault \/ \E i \in f + 1 .. l : x.cells[i] = Raw

LEMMA DestroyIs ==
    ASSUME NEW x, StdShape(x), NEW f, NEW l, NEW y, y = DestroyCells(x, f, l)
    PROVE  HasWiped(y, x, f, l)
<1> DEFINE c == x.cells
           e == [i \in 1 .. Len(c) |-> IF i \in f + 1 .. l THEN Raw ELSE c[i]]
           b == x.fault \/ \E i \in f + 1 .. l : c[i] = Raw
<1>1. x = [cells |-> c, size |-> x.size, fault |-> x.fault] /\ c \in Seq(SlotValues) /\ Len(c) \in Nat
  BY DEF StdShape
<1>2. y = [[x EXCEPT !.cells = e] EXCEPT !.fault = b]
  BY Zenon DEF DestroyCells, Cap
<1> HIDE DEF e, b
<1>3. y = [cells |-> e, size |-> x.size, fault |-> b]
  BY <1>1, <1>2
<1>4. e \in [1 .. Len(c) -> SlotValues]
  <2>1. \A i \in 1 .. Len(c) : c[i] \in SlotValues
    BY <1>1
  <2> QED
    BY <1>1, <2>1, SlotFacts DEF e
<1>5. e \in Seq(SlotValues) /\ Len(e) = Len(c)
  BY <1>1, <1>4, SeqOfFunction
<1>6. b \in BOOLEAN
  BY DEF b
<1>7. y.cells = e /\ y.size = x.size /\ y.fault = b
  BY <1>3
<1>8. StdShape(y)
  BY <1>3, <1>5, <1>6, <1>7 DEF StdShape
<1>9. \A i \in 1 .. Len(c) : e[i] = IF i \in f + 1 .. l THEN Raw ELSE c[i]
  BY DEF e
<1> QED
  BY <1>5, <1>7, <1>8, <1>9 DEF b, HasWiped

\* y is x with the m objects of o constructed after the cell f.
HasBuilt(y, x, f, o, m) ==
    /\ StdShape(y) /\ y.size = x.size /\ Len(y.cells) = Len(x.cells)
    /\ \A i \in 1 .. Len(x.cells) : y.cells[i] = IF i \in f + 1 .. f + m THEN o[i - f] ELSE x.cells[i]
    /\ y.fault <=> x.fault \/ \E i \in 1 .. m : x.cells[f + i] # Raw \/ o[i] = Raw

LEMMA ConstructIs ==
    ASSUME NEW x, StdShape(x), NEW f \in Nat, NEW o \in Seq(SlotValues), NEW y, y = ConstructCells(x, f, o)
    PROVE  HasBuilt(y, x, f, o, Len(o))
<1> DEFINE c == x.cells
           e == [i \in 1 .. Len(c) |-> IF i \in f + 1 .. f + Len(o) THEN o[i - f] ELSE c[i]]
           b == x.fault \/ \E i \in 1 .. Len(o) : c[f + i] # Raw \/ o[i] = Raw
<1>1. x = [cells |-> c, size |-> x.size, fault |-> x.fault] /\ c \in Seq(SlotValues) /\ Len(c) \in Nat
  BY DEF StdShape
<1>2. y = [[x EXCEPT !.cells = e] EXCEPT !.fault = b]
  BY Zenon DEF ConstructCells, Cap
<1> HIDE DEF e, b
<1>3. y = [cells |-> e, size |-> x.size, fault |-> b]
  BY <1>1, <1>2
<1>4. e \in [1 .. Len(c) -> SlotValues]
  <2>1. \A i \in 1 .. Len(c) : c[i] \in SlotValues
    BY <1>1
  <2>2. \A i \in 1 .. Len(c) : i \in f + 1 .. f + Len(o) => o[i - f] \in SlotValues
    <3> SUFFICES ASSUME NEW i \in 1 .. Len(c), i \in f + 1 .. f + Len(o) PROVE o[i - f] \in SlotValues
      OBVIOUS
    <3>1. Len(o) \in Nat /\ i - f \in 1 .. Len(o)
      OBVIOUS
    <3> QED
      BY <3>1
  <2> QED
    BY <1>1, <2>1, <2>2 DEF e
<1>5. e \in Seq(SlotValues) /\ Len(e) = Len(c)
  BY <1>1, <1>4, SeqOfFunction
<1>6. b \in BOOLEAN
  BY DEF b
<1>7. y.cells = e /\ y.size = x.size /\ y.fault = b
  BY <1>3
<1>8. StdShape(y)
  BY <1>3, <1>5, <1>6, <1>7 DEF StdShape
<1>9. \A i \in 1 .. Len(c) : e[i] = IF i \in f + 1 .. f + Len(o) THEN o[i - f] ELSE c[i]
  BY DEF e
<1> QED
  BY <1>5, <1>7, <1>8, <1>9 DEF b, HasBuilt

-----------------------------------------------------------------------------
LEMMA LaidIs ==
    ASSUME NEW y, StdShape(y), ~y.fault, NEW r \in Seq(StdElems), NEW n, n = Len(r), n <= Len(y.cells),
           \A i \in 1 .. n : y.cells[i] = r[i],
           \A i \in 1 .. Len(y.cells) : i > n => y.cells[i] = Raw
    PROVE  Laid(y, r)
BY DEF Laid

LEMMA DestroyTail ==
    ASSUME NEW x, NEW r, Laid(x, r), NEW k \in 0 .. Len(r), NEW y, y = DestroyCells(x, k, Len(r))
    PROVE  Laid(y, SubSeq(r, 1, k)) /\ y.size = x.size /\ Len(y.cells) = Len(x.cells)
<1> DEFINE n == Len(r)
<1>1. /\ StdShape(x) /\ ~x.fault /\ r \in Seq(StdElems) /\ n \in Nat /\ Len(x.cells) \in Nat /\ n <= Len(x.cells)
      /\ \A i \in 1 .. n : x.cells[i] = r[i] /\ r[i] \in StdElems /\ x.cells[i] # Raw
      /\ \A i \in 1 .. Len(x.cells) : i > n => x.cells[i] = Raw
  BY LaidFacts
<1>2. /\ StdShape(y) /\ y.size = x.size /\ Len(y.cells) = Len(x.cells)
      /\ \A i \in 1 .. Len(x.cells) : y.cells[i] = IF i \in k + 1 .. n THEN Raw ELSE x.cells[i]
      /\ y.fault <=> x.fault \/ \E i \in k + 1 .. n : x.cells[i] = Raw
  <2>1. HasWiped(y, x, k, n)
    BY <1>1, DestroyIs
  <2> QED
    BY <2>1 DEF HasWiped
<1>3. SubSeq(r, 1, k) \in Seq(StdElems) /\ Len(SubSeq(r, 1, k)) = k /\ \A i \in 1 .. k : SubSeq(r, 1, k)[i] = r[i]
  BY <1>1, PrefixIs
<1>4. k \in Nat /\ k <= n
  BY <1>1
<1> HIDE DEF n
<1>5. ~y.fault
  BY <1>1, <1>2, <1>4
<1>6. \A i \in 1 .. k : y.cells[i] = SubSeq(r, 1, k)[i]
  BY <1>1, <1>2, <1>3, <1>4
<1>7. \A i \in 1 .. Len(y.cells) : i > k => y.cells[i] = Raw
  BY <1>1, <1>2, <1>4
<1>8. k <= Len(y.cells)
  BY <1>1, <1>2, <1>4
<1> QED
  BY <1>2, <1>3, <1>5, <1>6, <1>7, <1>8, LaidIs

LEMMA ConstructEnd ==
    ASSUME NEW x, NEW r, Laid(x, r), NEW o \in Seq(StdElems), Len(r) + Len(o) <= Len(x.cells),
           NEW y, y = ConstructCells(x, Len(r), o)
    PROVE  Laid(y, r \o o) /\ y.size = x.size /\ Len(y.cells) = Len(x.cells)
<1> DEFINE n == Len(r)
           m == Len(o)
           z == r \o o
<1>1. /\ StdShape(x) /\ ~x.fault /\ r \in Seq(StdElems) /\ n \in Nat /\ Len(x.cells) \in Nat /\ n <= Len(x.cells)
      /\ \A i \in 1 .. n : x.cells[i] = r[i]
      /\ \A i \in 1 .. Len(x.cells) : i > n => x.cells[i] = Raw
  BY LaidFacts
<1>2. m \in Nat /\ n + m <= Len(x.cells)
  OBVIOUS
<1>3. o \in Seq(SlotValues) /\ \A i \in 1 .. m : o[i] # Raw
  BY SlotFacts
<1>4. /\ StdShape(y) /\ y.size = x.size /\ Len(y.cells) = Len(x.cells)
      /\ \A i \in 1 .. Len(x.cells) : y.cells[i] = IF i \in n + 1 .. n + m THEN o[i - n] ELSE x.cells[i]
      /\ y.fault <=> x.fault \/ \E i \in 1 .. m : x.cells[n + i] # Raw \/ o[i] = Raw
  <2>1. HasBuilt(y, x, n, o, m)
    BY <1>1, <1>3, ConstructIs
  <2> QED
    BY <2>1 DEF HasBuilt
<1>5. JoinOf(StdElems, z, r, n, o, m)
  BY <1>1, JoinedTo
<1> HIDE DEF n, m, z
<1>6. z \in Seq(StdElems) /\ Len(z) = n + m
  BY <1>5 DEF JoinOf
<1>7. ~y.fault
  <2>1. \A i \in 1 .. m : x.cells[n + i] = Raw
    <3> SUFFICES ASSUME NEW i \in 1 .. m PROVE x.cells[n + i] = Raw
      OBVIOUS
    <3>1. n + i \in 1 .. Len(x.cells) /\ n + i > n
      BY <1>1, <1>2
    <3> QED
      BY <1>1, <3>1
  <2> QED
    BY <1>1, <1>3, <1>4, <2>1
<1>8. \A i \in 1 .. n + m : y.cells[i] = z[i]
  <2> SUFFICES ASSUME NEW i \in 1 .. n + m PROVE y.cells[i] = z[i]
    OBVIOUS
  <2>1. z[i] = IF i <= n THEN r[i] ELSE o[i - n]
    BY <1>5 DEF JoinOf
  <2>2. i \in 1 .. Len(x.cells) /\ (i <= n => i \in 1 .. n) /\ (i \in n + 1 .. n + m <=> ~(i <= n))
    BY <1>1, <1>2
  <2> QED
    BY <1>1, <1>4, <2>1, <2>2
<1>9. \A i \in 1 .. Len(y.cells) : i > n + m => y.cells[i] = Raw
  <2> SUFFICES ASSUME NEW i \in 1 .. Len(y.cells), i > n + m PROVE y.cells[i] = Raw
    OBVIOUS
  <2>1. i \in 1 .. Len(x.cells) /\ i > n /\ i \notin n + 1 .. n + m
    BY <1>1, <1>2, <1>4
  <2> QED
    BY <1>1, <1>4, <2>1
<1>10. n + m <= Len(y.cells)
  BY <1>2, <1>4
<1>11. Laid(y, z)
  BY <1>4, <1>6, <1>7, <1>8, <1>9, <1>10, LaidIs
<1> QED
  BY <1>4, <1>11 DEF z

LEMMA ConstructAll ==
    ASSUME NEW x, Laid(x, <<>>), NEW o \in Seq(StdElems), Len(o) <= Len(x.cells), NEW y, y = ConstructCells(x, 0, o)
    PROVE  Laid(y, o) /\ y.size = x.size /\ Len(y.cells) = Len(x.cells)
<1>1. PICK q : q = <<>>
  OBVIOUS
<1>2. q \in Seq(StdElems) /\ Len(q) = 0 /\ Len(o) \in Nat
  BY <1>1
<1>3. q \o o = o
  BY <1>1
<1>4. Laid(x, q) /\ Len(q) + Len(o) <= Len(x.cells) /\ y = ConstructCells(x, Len(q), o)
  BY <1>1, <1>2
<1>5. Laid(y, q \o o) /\ y.size = x.size /\ Len(y.cells) = Len(x.cells)
  BY <1>4, ConstructEnd
<1> QED
  BY <1>3, <1>5

\* An object that is read from raw memory.
LEMMA ConstructRaw ==
    ASSUME NEW x, StdShape(x), NEW f \in Nat, NEW o \in Seq(SlotValues), NEW i \in 1 .. Len(o), o[i] = Raw,
           NEW y, y = ConstructCells(x, f, o)
    PROVE  StdShape(y) /\ y.fault /\ y.size = x.size /\ Len(y.cells) = Len(x.cells)
<1>1. /\ StdShape(y) /\ y.size = x.size /\ Len(y.cells) = Len(x.cells)
      /\ y.fault <=> x.fault \/ \E j \in 1 .. Len(o) : x.cells[f + j] # Raw \/ o[j] = Raw
  <2>1. HasBuilt(y, x, f, o, Len(o))
    BY ConstructIs
  <2> QED
    BY <2>1 DEF HasBuilt
<1>2. y.fault <=> TRUE
  BY <1>1
<1> QED
  BY <1>1, <1>2

\* size_ has another value.
IsSized(y, x, n) == y = [x EXCEPT !.size = n]
LEMMA SizedIs ==
    ASSUME NEW x, StdShape(x), NEW n, NEW y, IsSized(y, x, n)
    PROVE  /\ StdShape(y) /\ y.size = n /\ y.cells = x.cells /\ y.fault = x.fault
           /\ \A r : Laid(x, r) => Laid(y, r)
<1>1. x = [cells |-> x.cells, size |-> x.size, fault |-> x.fault] /\ x.cells \in Seq(SlotValues) /\ x.fault \in BOOLEAN
  BY DEF StdShape
<1>2. y = [cells |-> x.cells, size |-> n, fault |-> x.fault]
  BY <1>1 DEF IsSized
<1>3. y.size = n /\ y.cells = x.cells /\ y.fault = x.fault
  BY <1>2
<1>4. StdShape(y)
  BY <1>1, <1>2, <1>3 DEF StdShape
<1>5. ASSUME NEW r, Laid(x, r) PROVE Laid(y, r)
  BY <1>3, <1>4, <1>5 DEF Laid
<1> QED
  BY <1>3, <1>4, <1>5

\* Memory without objects is given back, and other memory taken.
LEMMA MemoryIs ==
    ASSUME NEW x, Laid(x, <<>>), NEW n \in Nat
    PROVE  /\ Laid(deallocate(x), <<>>) /\ deallocate(x).size = x.size /\ Len(deallocate(x).cells) = 0
           /\ Laid(allocate(x, n), <<>>) /\ allocate(x, n).size = x.size /\ Len(allocate(x, n).cells) = n
<1> SUFFICES ASSUME NEW y, y = deallocate(x), NEW z, z = allocate(x, n)
             PROVE  /\ Laid(y, <<>>) /\ y.size = x.size /\ Len(y.cells) = 0
                    /\ Laid(z, <<>>) /\ z.size = x.size /\ Len(z.cells) = n
  OBVIOUS
<1>1. /\ x = [cells |-> x.cells, size |-> x.size, fault |-> x.fault] /\ ~x.fault /\ x.fault \in BOOLEAN
      /\ Len(x.cells) \in Nat
  BY DEF Laid, StdShape
<1>2. \A i \in 1 .. Len(x.cells) : x.cells[i] = Raw
  BY DEF Laid
<1>3. <<>> \in Seq(SlotValues) /\ Len(<<>>) = 0 /\ <<>> \in Seq(StdElems)
  OBVIOUS
<1>4. y = [cells |-> <<>>, size |-> x.size, fault |-> FALSE]
  <2> DEFINE b == x.fault \/ \E i \in 1 .. Cap(x) : x.cells[i] # Raw
  <2>1. y = [[x EXCEPT !.cells = <<>>] EXCEPT !.fault = b]
    BY Zenon DEF deallocate
  <2>2. b = FALSE
    BY <1>1, <1>2 DEF Cap
  <2> HIDE DEF b
  <2> QED
    BY <1>1, <2>1, <2>2
<1>5. y.cells = <<>> /\ y.size = x.size /\ y.fault = FALSE
  BY <1>4
<1>6. StdShape(y)
  BY <1>3, <1>4, <1>5 DEF StdShape
<1>7. Laid(y, <<>>)
  BY <1>3, <1>5, <1>6 DEF Laid
<1> DEFINE w == RawCells(n)
<1>8. w \in Seq(SlotValues) /\ Len(w) = n /\ \A i \in 1 .. n : w[i] = Raw
  BY RawCellsAre
<1>9. z = [x EXCEPT !.cells = w]
  BY DEF allocate
<1> HIDE DEF w
<1>10. z = [cells |-> w, size |-> x.size, fault |-> x.fault]
  BY <1>1, <1>9
<1>11. z.cells = w /\ z.size = x.size /\ z.fault = x.fault
  BY <1>10
<1>12. StdShape(z)
  BY <1>1, <1>8, <1>10, <1>11 DEF StdShape
<1>13. Laid(z, <<>>)
  BY <1>1, <1>3, <1>8, <1>11, <1>12 DEF Laid
<1> QED
  BY <1>3, <1>5, <1>7, <1>8, <1>11, <1>13

\* The elements after the first k are destroyed.
LEMMA ShrunkIs ==
    ASSUME NEW x, NEW r, Lives(x, r), NEW k \in 0 .. Len(r), NEW d, d = DestroyCells(x, k, Len(r)),
           NEW y, IsSized(y, d, k)
    PROVE  Lives(y, SubSeq(r, 1, k)) /\ Len(y.cells) = Len(x.cells) /\ y.size = k
<1>2. Laid(x, r) /\ r \in Seq(StdElems)
  BY DEF Lives, Laid
<1>3. Laid(d, SubSeq(r, 1, k)) /\ Len(d.cells) = Len(x.cells)
  BY <1>2, DestroyTail
<1>4. StdShape(d)
  BY <1>3 DEF Laid
<1>5. y.size = k /\ y.cells = d.cells /\ Laid(y, SubSeq(r, 1, k))
  <2>1. y.size = k /\ y.cells = d.cells /\ \A q : Laid(d, q) => Laid(y, q)
    BY <1>4, SizedIs
  <2> QED
    BY <1>3, <2>1, Zenon
<1>6. Len(SubSeq(r, 1, k)) = k
  BY <1>2, PrefixIs
<1> QED
  BY <1>3, <1>5, <1>6 DEF Lives

LEMMA ClearStdIs ==
    ASSUME NEW x, NEW r, Lives(x, r)
    PROVE  /\ Lives(ClearStd(x), <<>>) /\ Len(ClearStd(x).cells) = Len(x.cells)
           /\ Lives(Destructor(x), <<>>) /\ Len(Destructor(x).cells) = 0
<1>1. x.size = Len(r) /\ Len(r) \in Nat /\ r \in Seq(StdElems)
  BY DEF Lives, Laid
<1>2. PICK y : y = ClearStd(x)
  OBVIOUS
<1>3. PICK k, d : k = 0 /\ d = DestroyCells(x, k, Len(r))
  OBVIOUS
<1>4. k \in 0 .. Len(r) /\ SubSeq(r, 1, k) = <<>>
  BY <1>1, <1>3
<1>5. Lives(y, SubSeq(r, 1, k)) /\ Len(y.cells) = Len(x.cells)
  <2>1. IsSized(y, d, k)
    BY <1>1, <1>2, <1>3 DEF ClearStd, IsSized
  <2> QED
    BY <1>3, <1>4, <2>1, ShrunkIs
<1>6. Lives(y, <<>>) /\ Laid(y, <<>>) /\ y.size = 0
  <2>1. Lives(y, <<>>)
    BY <1>4, <1>5
  <2> QED
    BY <2>1 DEF Lives
<1>7. Laid(deallocate(y), <<>>) /\ deallocate(y).size = y.size /\ Len(deallocate(y).cells) = 0
  <2>1. 0 \in Nat
    OBVIOUS
  <2> QED
    BY <1>6, <2>1, MemoryIs
<1>8. Lives(deallocate(y), <<>>)
  BY <1>6, <1>7 DEF Lives
<1> QED
  BY <1>2, <1>5, <1>6, <1>7, <1>8 DEF Destructor

LEMMA ObjectsAre ==
    ASSUME NEW x, NEW r, Lives(x, r)
    PROVE  Objects(x) = r
<1>0. /\ x.size = Len(r) /\ r \in Seq(StdElems) /\ Len(r) \in Nat /\ Len(r) <= Len(x.cells)
      /\ x.cells \in Seq(SlotValues) /\ \A i \in 1 .. Len(r) : x.cells[i] = r[i]
  BY DEF Lives, Laid, StdShape
<1>1. PICK o : o = Objects(x)
  OBVIOUS
<1>2. Len(r) \in 0 .. Len(x.cells)
  BY <1>0
<1>3. o = SubSeq(x.cells, 1, Len(r))
  BY <1>0, <1>1 DEF Objects
<1>4. o \in Seq(SlotValues) /\ Len(o) = Len(r) /\ \A i \in 1 .. Len(r) : o[i] = x.cells[i]
  BY <1>0, <1>2, <1>3, PrefixIs
<1>5. \A i \in 1 .. Len(r) : o[i] = r[i]
  BY <1>0, <1>4
<1>6. o = r
  BY <1>0, <1>4, <1>5, SeqsAgree
<1> QED
  BY <1>1, <1>6

LEMMA ReallocateIs ==
    ASSUME NEW x, NEW r, Lives(x, r), NEW cap \in Nat, Len(r) <= cap
    PROVE  Lives(reallocate(x, cap), r) /\ Len(reallocate(x, cap).cells) = cap
<1>1. /\ x.size = Len(r) /\ Laid(x, r) /\ r \in Seq(StdElems) /\ Len(r) \in Nat /\ Len(r) <= Len(x.cells)
      /\ x.cells \in Seq(SlotValues) /\ \A i \in 1 .. Len(r) : x.cells[i] = r[i]
  BY DEF Lives, Laid, StdShape
<1>2. Objects(x) = r
  BY ObjectsAre
<1>3. PICK d : d = DestroyCells(x, 0, Len(r))
  OBVIOUS
<1>4. 0 \in 0 .. Len(r) /\ SubSeq(r, 1, 0) = <<>>
  BY <1>1
<1>5. Laid(d, <<>>) /\ d.size = Len(r)
  <2>1. Laid(d, SubSeq(r, 1, 0)) /\ d.size = x.size
    BY <1>1, <1>3, <1>4, DestroyTail
  <2> QED
    BY <1>1, <1>4, <2>1
<1>6. PICK e : e = deallocate(d)
  OBVIOUS
<1>7. Laid(e, <<>>) /\ e.size = Len(r)
  BY <1>5, <1>6, MemoryIs
<1>8. PICK g : g = allocate(e, cap)
  OBVIOUS
<1>9. Laid(g, <<>>) /\ g.size = Len(r) /\ Len(g.cells) = cap
  BY <1>7, <1>8, MemoryIs
<1>10. PICK y : y = ConstructCells(g, 0, r)
  OBVIOUS
<1>12. Laid(y, r) /\ y.size = Len(r) /\ Len(y.cells) = cap
  BY <1>1, <1>9, <1>10, ConstructAll
<1>13. reallocate(x, cap) = y
  BY <1>1, <1>2, <1>3, <1>6, <1>8, <1>10 DEF reallocate
<1> QED
  BY <1>12, <1>13 DEF Lives

-----------------------------------------------------------------------------
\* What a call leaves in a vector that should hold r: exactly that, if the
\* call works.
Ends(x, r, works) ==
    /\ r \in Seq(StdElems)
    /\ works => Lives(x, r)
    /\ ~works => StdShape(x) /\ x.size = Len(r) /\ x.size <= Cap(x) /\ Spoilt(x, r)

LEMMA EmptyLives == Lives(Empty, <<>>)
<1>1. /\ Empty = [cells |-> <<>>, size |-> 0, fault |-> FALSE]
      /\ Empty.cells = <<>> /\ Empty.size = 0 /\ Empty.fault = FALSE
  BY DEF Empty
<1>2. Empty = [cells |-> Empty.cells, size |-> Empty.size, fault |-> Empty.fault]
  BY <1>1
<1>3. <<>> \in Seq(SlotValues) /\ <<>> \in Seq(StdElems) /\ Len(<<>>) = 0
  OBVIOUS
<1>4. StdShape(Empty)
  BY <1>1, <1>2, <1>3 DEF StdShape
<1> QED
  BY <1>1, <1>3, <1>4 DEF Lives, Laid

LEMMA StdCallIs ==
    ASSUME StdInv, stdLegal, NEW v \in StdVectors, NEW x, NEW r, NEW works \in BOOLEAN, Ends(x, r, works),
           StdCall(v, x, r, works)
    PROVE  StdInv'
<1>1. /\ std = [u \in StdVectors |-> std[u]] /\ stdRef = [u \in StdVectors |-> stdRef[u]]
      /\ \A u \in StdVectors : Lives(std[u], stdRef[u])
  BY DEF StdInv
<1>2. /\ std' = [std EXCEPT ![v] = x] /\ stdRef' = [stdRef EXCEPT ![v] = r]
      /\ stdLegal' = works /\ stdOut' = stdWant'
  BY DEF StdCall
<1>3. std' = [u \in StdVectors |-> std'[u]] /\ stdRef' = [u \in StdVectors |-> stdRef'[u]]
  BY <1>1, <1>2
<1>4. std'[v] = x /\ stdRef'[v] = r /\ \A u \in StdVectors : u # v => std'[u] = std[u] /\ stdRef'[u] = stdRef[u]
  BY <1>1, <1>2
<1>5. CASE works
  <2>1. \A u \in StdVectors : Lives(std'[u], stdRef'[u])
    BY <1>1, <1>4, <1>5 DEF Ends
  <2> QED
    BY <1>2, <1>3, <1>5, <2>1 DEF StdInv
<1>6. CASE ~works
  <2>1. /\ stdRef'[v] \in Seq(StdElems) /\ StdShape(std'[v])
        /\ std'[v].size = Len(stdRef'[v]) /\ std'[v].size <= Cap(std'[v])
        /\ Spoilt(std'[v], stdRef'[v])
    BY <1>4, <1>6 DEF Ends
  <2> QED
    BY <1>2, <1>3, <1>6, <2>1 DEF StdInv
<1> QED
  BY <1>5, <1>6

-----------------------------------------------------------------------------
\* An argument: a value, or an element of the vector that should hold r.
StdArgFor(arg, r) ==
    \/ \E e \in StdElems : arg = Value(e)
    \/ \E i \in 1 .. Len(r) : arg = Self(i)
MeantBy(arg, r) == IF arg.cell = 0 THEN arg.value ELSE r[arg.cell]

LEMMA StdArgIs ==
    ASSUME NEW x, NEW r, Lives(x, r), NEW arg, StdArgFor(arg, r), NEW m, m = MeantBy(arg, r)
    PROVE  /\ m \in StdElems /\ Load(arg, x) = m /\ m \in SlotValues /\ m # Raw
           /\ arg.cell \in 0 .. Len(r)
           /\ arg.cell = 0 => LoadFreed(arg) = m
           /\ arg.cell # 0 => LoadFreed(arg) = Raw
<1>1. /\ r \in Seq(StdElems) /\ Len(r) \in Nat
      /\ \A i \in 1 .. Len(r) : x.cells[i] = r[i] /\ r[i] \in StdElems
  BY LaidFacts DEF Lives
<1>2. CASE \E e \in StdElems : arg = Value(e)
  <2>1. PICK e \in StdElems : arg = [cell |-> 0, value |-> e]
    BY <1>2 DEF Value
  <2>2. arg.cell = 0 /\ arg.value = e
    BY <2>1
  <2> QED
    BY <1>1, <2>2, SlotFacts DEF MeantBy, Load, LoadFreed
<1>3. CASE \E i \in 1 .. Len(r) : arg = Self(i)
  <2>1. PICK i \in 1 .. Len(r) : arg = [cell |-> i, value |-> Raw]
    BY <1>3 DEF Self
  <2>2. arg.cell = i /\ i # 0 /\ arg.cell \in 0 .. Len(r)
    BY <1>1, <2>1
  <2> QED
    BY <1>1, <2>2, SlotFacts DEF MeantBy, Load, LoadFreed
<1> QED
  BY <1>2, <1>3 DEF StdArgFor

\* Objects are constructed behind the others, w or, from raw memory, o.
LEMMA PutBehind ==
    ASSUME NEW x, NEW r, Lives(x, r), NEW w \in Seq(StdElems), NEW o \in Seq(SlotValues), Len(o) = Len(w),
           NEW k, k = Len(r) + Len(w), k <= Len(x.cells),
           o = w \/ \E i \in 1 .. Len(o) : o[i] = Raw,
           NEW y, y = ConstructCells(x, Len(r), o), NEW z, IsSized(z, y, k)
    PROVE  Ends(z, r \o w, o = w)
<1>1. Laid(x, r) /\ r \in Seq(StdElems) /\ Len(r) \in Nat /\ StdShape(x)
  BY LaidFacts DEF Lives
<1>2. r \o w \in Seq(StdElems) /\ Len(r \o w) = k
  BY <1>1, Joined
<1>3. CASE o = w
  <2>1. Laid(y, r \o w)
    BY <1>1, <1>3, ConstructEnd
  <2>2. StdShape(y)
    BY <2>1 DEF Laid
  <2>3. z.size = k /\ \A q : Laid(y, q) => Laid(z, q)
    BY <2>2, SizedIs
  <2>4. Lives(z, r \o w)
    BY <1>2, <2>1, <2>3 DEF Lives
  <2> QED
    BY <1>2, <1>3, <2>4 DEF Ends
<1>4. CASE o # w
  <2>1. PICK i \in 1 .. Len(o) : o[i] = Raw
    BY <1>4
  <2>2. StdShape(y) /\ y.fault /\ Len(y.cells) = Len(x.cells)
    BY <1>1, <2>1, ConstructRaw
  <2>3. /\ StdShape(z) /\ z.size = k /\ z.cells = y.cells /\ z.fault = y.fault
        /\ \A q : Laid(y, q) => Laid(z, q)
    BY <2>2, SizedIs
  <2>4. z.size = Len(r \o w) /\ z.size <= Cap(z)
    BY <1>2, <2>2, <2>3 DEF Cap
  <2>5. Spoilt(z, r \o w)
    BY <2>2, <2>3 DEF Spoilt
  <2> QED
    BY <1>2, <1>4, <2>3, <2>4, <2>5 DEF Ends
<1> QED
  BY <1>3, <1>4

LEMMA DoubledIs ==
    ASSUME NEW x, NEW r, Lives(x, r), NEW y, y = IF x.size >= Cap(x) THEN reallocate(x, Doubled(x)) ELSE x
    PROVE  Lives(y, r) /\ Len(r) + 1 <= Len(y.cells)
<1>1. /\ x.size = Len(r) /\ Len(r) \in Nat /\ Len(x.cells) \in Nat /\ Len(r) <= Len(x.cells) /\ Cap(x) = Len(x.cells)
  BY LaidFacts DEF Lives
<1>2. CASE x.size >= Cap(x)
  <2>1. PICK c : c = Doubled(x)
    OBVIOUS
  <2>2. c \in Nat /\ Len(r) <= c /\ Len(r) + 1 <= c
    <3>1. c = IF Len(x.cells) = 0 THEN 1 ELSE 2 * Len(x.cells)
      BY <1>1, <2>1 DEF Doubled
    <3> QED
      BY <1>1, <3>1
  <2>3. Lives(reallocate(x, c), r) /\ Len(reallocate(x, c).cells) = c
    BY <2>2, ReallocateIs
  <2> QED
    BY <1>2, <2>1, <2>2, <2>3
<1>3. CASE ~(x.size >= Cap(x))
  <2>1. y = x
    BY <1>3
  <2>2. Len(r) + 1 <= Len(x.cells)
    BY <1>1, <1>3
  <2> QED
    BY <2>1, <2>2
<1> QED
  BY <1>2, <1>3

LEMMA EmplaceBackIs ==
    ASSUME NEW x, NEW r, Lives(x, r), NEW arg, StdArgFor(arg, r), NEW m, m = MeantBy(arg, r)
    PROVE  Ends(EmplaceBack(x, arg), Append(r, m), arg.cell = 0 \/ x.size < Cap(x))
<1>1. PICK y : y = IF x.size >= Cap(x) THEN reallocate(x, Doubled(x)) ELSE x
  OBVIOUS
<1>2. PICK e : e = IF x.size >= Cap(x) THEN LoadFreed(arg) ELSE Load(arg, y)
  OBVIOUS
<1>3. PICK b : b = ConstructCells(y, Len(r), <<e>>)
  OBVIOUS
<1>4. PICK z : z = EmplaceBack(x, arg)
  OBVIOUS
<1>5. /\ x.size = Len(r) /\ Len(r) \in Nat /\ Len(x.cells) \in Nat /\ Cap(x) = Len(x.cells) /\ r \in Seq(StdElems)
  BY LaidFacts DEF Lives
<1>6. Lives(y, r) /\ Len(r) + 1 <= Len(y.cells)
  BY <1>1, DoubledIs
<1>7. /\ m \in StdElems /\ Load(arg, y) = m /\ m \in SlotValues /\ m # Raw
      /\ arg.cell = 0 => LoadFreed(arg) = m
      /\ arg.cell # 0 => LoadFreed(arg) = Raw
  BY <1>6, StdArgIs
<1>8. e \in SlotValues /\ (e = m \/ e = Raw) /\ (e = m <=> arg.cell = 0 \/ x.size < Cap(x))
  BY <1>2, <1>5, <1>7, SlotFacts
<1>9. z = [b EXCEPT !.size = @ + 1]
  BY <1>1, <1>2, <1>3, <1>4, <1>5 DEF EmplaceBack
<1>10. b.size = Len(r)
  <2>1. StdShape(y) /\ y.size = Len(r) /\ <<e>> \in Seq(SlotValues)
    BY <1>6, <1>8 DEF Lives, Laid
  <2>2. HasBuilt(b, y, Len(r), <<e>>, Len(<<e>>))
    BY <1>3, <1>5, <2>1, ConstructIs
  <2> QED
    BY <2>1, <2>2 DEF HasBuilt
<1>11. PICK k : k = Len(r) + 1
  OBVIOUS
<1>12. IsSized(z, b, k)
  BY <1>9, <1>10, <1>11 DEF IsSized
<1>13. PICK o, w : o = <<e>> /\ w = <<m>>
  OBVIOUS
<1>14. /\ o \in Seq(SlotValues) /\ w \in Seq(StdElems) /\ Len(o) = 1 /\ Len(w) = 1 /\ (o = w <=> e = m)
       /\ r \o w = Append(r, m)
  <2>1. o \in Seq(SlotValues) /\ w \in Seq(StdElems) /\ Len(o) = 1 /\ Len(w) = 1 /\ o[1] = e /\ w[1] = m
    BY <1>7, <1>8, <1>13
  <2>2. r \o w = Append(r, m)
    BY <1>5, <1>7, <1>13
  <2> QED
    BY <1>13, <2>1, <2>2
<1>15. o = w \/ \E i \in 1 .. Len(o) : o[i] = Raw
  <2>1. o[1] = e /\ 1 \in 1 .. Len(o)
    BY <1>13, <1>14
  <2> QED
    BY <1>8, <1>14, <2>1
<1>16. Ends(z, r \o w, o = w)
  <2>1. k = Len(r) + Len(w) /\ k <= Len(y.cells) /\ b = ConstructCells(y, Len(r), o) /\ Len(o) = Len(w)
    BY <1>3, <1>6, <1>11, <1>13, <1>14
  <2> QED
    BY <1>6, <1>12, <1>14, <1>15, <2>1, PutBehind
<1> QED
  BY <1>4, <1>8, <1>14, <1>16

LEMMA PopBackStdIs ==
    ASSUME NEW x, NEW r, Lives(x, r)
    PROVE  Lives(PopBackStd(x), SubSeq(r, 1, Len(r) - 1))
<1>1. x.size = Len(r) /\ Len(r) \in Nat /\ r \in Seq(StdElems) /\ StdShape(x)
  BY LaidFacts DEF Lives
<1>2. CASE Len(r) > 0
  <2>1. PICK k, d : k = Len(r) - 1 /\ d = DestroyCells(x, k, Len(r))
    OBVIOUS
  <2>2. PICK y : y = PopBackStd(x)
    OBVIOUS
  <2>3. d.size = Len(r) /\ k \in 0 .. Len(r)
    BY <1>1, <1>2, <2>1, DestroyIs DEF HasWiped
  <2>4. y = [d EXCEPT !.size = @ - 1]
    BY <1>1, <1>2, <2>1, <2>2 DEF PopBackStd
  <2>5. IsSized(y, d, k)
    BY <2>1, <2>3, <2>4 DEF IsSized
  <2>6. Lives(y, SubSeq(r, 1, k))
    BY <2>1, <2>3, <2>5, ShrunkIs
  <2> QED
    BY <2>1, <2>2, <2>6
<1>3. CASE ~(Len(r) > 0)
  <2>1. SubSeq(r, 1, Len(r) - 1) = r
    <3>1. Len(r) = 0 /\ r = <<>>
      BY <1>1, <1>3
    <3> QED
      BY <3>1
  <2>2. PopBackStd(x) = x
    BY <1>1, <1>3 DEF PopBackStd
  <2> QED
    BY <2>1, <2>2
<1> QED
  BY <1>2, <1>3

LEMMA CopyAssignIs ==
    ASSUME NEW x, NEW r, Lives(x, r), NEW o, NEW q, Lives(o, q)
    PROVE  Ends(CopyAssign(x, o), q, Len(r) = 0 \/ Len(q) > Cap(x))
<1>1. /\ x.size = Len(r) /\ Len(r) \in Nat /\ r \in Seq(StdElems) /\ StdShape(x) /\ Laid(x, r)
      /\ Len(x.cells) \in Nat /\ Len(r) <= Len(x.cells) /\ Cap(x) = Len(x.cells)
      /\ \A i \in 1 .. Len(r) : x.cells[i] # Raw
  BY LaidFacts DEF Lives
<1>2. o.size = Len(q) /\ Len(q) \in Nat /\ q \in Seq(StdElems) /\ Objects(o) = q
  BY LaidFacts, ObjectsAre DEF Lives
<1>3. q \in Seq(SlotValues) /\ \A i \in 1 .. Len(q) : q[i] \in SlotValues /\ q[i] # Raw
  BY <1>2, SlotFacts
<1>4. PICK y : y = IF Len(q) > Cap(x) THEN allocate(Destructor(x), Len(q)) ELSE x
  OBVIOUS
<1>5. PICK s : s = [y EXCEPT !.size = Len(q)]
  OBVIOUS
<1>6. PICK z : z = ConstructCells(s, 0, q)
  OBVIOUS
<1>7. CopyAssign(x, o) = z
  BY <1>2, <1>4, <1>5, <1>6 DEF CopyAssign
<1>8. IsSized(s, y, Len(q))
  BY <1>5 DEF IsSized
<1>9. CASE Len(r) = 0 \/ Len(q) > Cap(x)
  <2>1. Laid(y, <<>>) /\ Len(q) <= Len(y.cells) /\ StdShape(y)
    <3>1. CASE Len(q) > Cap(x)
      <4>1. PICK d : d = Destructor(x)
        OBVIOUS
      <4>2. Laid(d, <<>>)
        BY <4>1, ClearStdIs DEF Lives
      <4>3. Laid(allocate(d, Len(q)), <<>>) /\ Len(allocate(d, Len(q)).cells) = Len(q)
        BY <1>2, <4>2, MemoryIs
      <4>4. Laid(y, <<>>) /\ Len(y.cells) = Len(q)
        BY <1>4, <3>1, <4>1, <4>3
      <4> QED
        BY <1>2, <4>4 DEF Laid
    <3>2. CASE ~(Len(q) > Cap(x))
      <4>1. y = x /\ r = <<>>
        BY <1>1, <1>4, <1>9, <3>2
      <4> QED
        BY <1>1, <1>2, <3>2, <4>1
    <3> QED
      BY <3>1, <3>2
  <2>2. s.size = Len(q) /\ s.cells = y.cells /\ \A t : Laid(y, t) => Laid(s, t)
    BY <1>8, <2>1, SizedIs
  <2>3. Laid(s, <<>>) /\ Len(q) <= Len(s.cells)
    BY <2>1, <2>2
  <2>4. Laid(z, q) /\ z.size = Len(q)
    BY <1>2, <1>6, <2>2, <2>3, ConstructAll
  <2> QED
    BY <1>2, <1>7, <1>9, <2>4 DEF Ends, Lives
<1>10. CASE ~(Len(r) = 0 \/ Len(q) > Cap(x))
  <2>1. y = x /\ Len(q) <= Len(x.cells) /\ 1 \in 1 .. Len(r) /\ 1 \in 1 .. Len(x.cells)
    BY <1>1, <1>2, <1>4, <1>10
  <2>2. /\ StdShape(s) /\ s.size = Len(q) /\ s.cells = x.cells /\ s.fault = x.fault
        /\ \A t : Laid(y, t) => Laid(s, t)
    BY <1>1, <1>8, <2>1, SizedIs
  <2>3. HasBuilt(z, s, 0, q, Len(q))
    <3>1. PICK j : j = 0
      OBVIOUS
    <3>2. j \in Nat /\ z = ConstructCells(s, j, q)
      BY <1>6, <3>1
    <3>3. HasBuilt(z, s, j, q, Len(q))
      BY <1>3, <2>2, <3>2, ConstructIs
    <3> QED
      BY <3>1, <3>3
  <2>4. StdShape(z) /\ z.size = Len(q) /\ Len(z.cells) = Len(x.cells)
    BY <2>2, <2>3 DEF HasBuilt
  <2>5. s.cells[1] # Raw
    BY <1>1, <2>1, <2>2
  <2>6. Spoilt(z, q)
    <3>1. CASE Len(q) = 0
      <4>1. z.cells[1] = IF 1 \in 0 + 1 .. 0 + Len(q) THEN q[1 - 0] ELSE s.cells[1]
        BY <2>1, <2>2, <2>3 DEF HasBuilt
      <4>2. z.cells[1] # Raw
        BY <2>5, <3>1, <4>1
      <4> QED
        BY <2>1, <2>4, <3>1, <4>2 DEF Spoilt
    <3>2. CASE Len(q) # 0
      <4>1. 1 \in 1 .. Len(q) /\ 0 + 1 = 1
        BY <1>2, <3>2
      <4>2. z.fault <=> s.fault \/ \E i \in 1 .. Len(q) : s.cells[0 + i] # Raw \/ q[i] = Raw
        BY <2>3 DEF HasBuilt
      <4>3. z.fault
        BY <2>5, <4>1, <4>2
      <4> QED
        BY <4>3 DEF Spoilt
    <3> QED
      BY <3>1, <3>2
  <2> QED
    BY <1>1, <1>2, <1>7, <1>10, <2>1, <2>4, <2>6 DEF Ends, Cap
<1> QED
  BY <1>9, <1>10

\* A new vector of n elements e.
LEMMA CountedIs ==
    ASSUME NEW x, NEW r, Lives(x, r), NEW n \in Nat, NEW e \in StdElems, NEW q, q = [i \in 1 .. n |-> e]
    PROVE  Ends([ConstructCells(allocate(Destructor(x), n), 0, q) EXCEPT !.size = n], q, TRUE)
<1>1. q \in Seq(StdElems) /\ Len(q) = n
  <2>1. q \in [1 .. n -> StdElems]
    OBVIOUS
  <2> QED
    BY <2>1, SeqOfFunction
<1>2. PICK d : d = Destructor(x)
  OBVIOUS
<1>3. Laid(d, <<>>)
  BY <1>2, ClearStdIs DEF Lives
<1>4. PICK a : a = allocate(d, n)
  OBVIOUS
<1>5. Laid(a, <<>>) /\ Len(a.cells) = n
  BY <1>3, <1>4, MemoryIs
<1>6. PICK b : b = ConstructCells(a, 0, q)
  OBVIOUS
<1>7. Laid(b, q) /\ StdShape(b)
  <2>1. Len(q) <= Len(a.cells)
    BY <1>1, <1>5
  <2>2. Laid(b, q)
    BY <1>1, <1>5, <1>6, <2>1, ConstructAll
  <2> QED
    BY <2>2 DEF Laid
<1>8. PICK z : z = [b EXCEPT !.size = n]
  OBVIOUS
<1>9. IsSized(z, b, n)
  BY <1>8 DEF IsSized
<1>10. z.size = n /\ \A t : Laid(b, t) => Laid(z, t)
  BY <1>7, <1>9, SizedIs
<1>11. Lives(z, q)
  BY <1>1, <1>7, <1>10 DEF Lives
<1>12. z = [ConstructCells(allocate(Destructor(x), n), 0, q) EXCEPT !.size = n]
  BY <1>2, <1>4, <1>6, <1>8
<1> QED
  BY <1>1, <1>11, <1>12 DEF Ends

LEMMA ResizeStdIs ==
    ASSUME NEW x, NEW r, Lives(x, r), NEW arg, StdArgFor(arg, r), NEW m, m = MeantBy(arg, r), NEW n \in Nat,
           NEW q, q = [i \in 1 .. n |-> IF i <= Len(r) THEN r[i] ELSE m]
    PROVE  Ends(ResizeStd(x, n, arg), q, arg.cell = 0 \/ n <= Cap(x))
<1>1. /\ x.size = Len(r) /\ Len(r) \in Nat /\ Len(x.cells) \in Nat /\ Cap(x) = Len(x.cells) /\ r \in Seq(StdElems)
      /\ Len(r) <= Len(x.cells) /\ StdShape(x) /\ \A i \in 1 .. Len(r) : r[i] \in StdElems
  BY LaidFacts DEF Lives
<1>2. m \in StdElems
  BY StdArgIs
<1>3. q \in Seq(StdElems) /\ Len(q) = n
  <2>1. q \in [1 .. n -> StdElems]
    BY <1>1, <1>2
  <2> QED
    BY <2>1, SeqOfFunction
<1>4. \A i \in 1 .. n : q[i] = IF i <= Len(r) THEN r[i] ELSE m
  OBVIOUS
<1>5. PICK z : z = ResizeStd(x, n, arg)
  OBVIOUS
<1>6. CASE ~(n > Len(r))
  <2>1. PICK d : d = DestroyCells(x, n, Len(r))
    OBVIOUS
  <2>2. n \in 0 .. Len(r) /\ n <= Cap(x)
    BY <1>1, <1>6
  <2>3. IsSized(z, d, n)
    BY <1>1, <1>5, <1>6, <2>1 DEF ResizeStd, IsSized
  <2>4. Lives(z, SubSeq(r, 1, n))
    BY <2>1, <2>2, <2>3, ShrunkIs
  <2>5. SubSeq(r, 1, n) = q
    <3>1. PICK p : p = SubSeq(r, 1, n)
      OBVIOUS
    <3>2. p \in Seq(StdElems) /\ Len(p) = n /\ \A i \in 1 .. n : p[i] = r[i]
      BY <1>1, <2>2, <3>1, PrefixIs
    <3>3. \A i \in 1 .. Len(q) : p[i] = q[i]
      BY <1>1, <1>3, <1>4, <2>2, <3>2
    <3>4. p = q
      BY <1>3, <3>2, <3>3, SeqsAgree
    <3> QED
      BY <3>1, <3>4
  <2> QED
    BY <1>3, <1>5, <2>2, <2>4, <2>5 DEF Ends
<1>7. CASE n > Len(r)
  <2>1. PICK y : y = IF n > Cap(x) THEN reallocate(x, n) ELSE x
    OBVIOUS
  <2>2. PICK e : e = IF n > Cap(x) THEN LoadFreed(arg) ELSE Load(arg, y)
    OBVIOUS
  <2>3. PICK k \in Nat : k >= 1 /\ k = n - Len(r) /\ n = Len(r) + k
    <3>1. n - Len(r) \in Nat /\ n - Len(r) >= 1 /\ n = Len(r) + (n - Len(r))
      BY <1>1, <1>7
    <3> QED
      BY <3>1
  <2>4. PICK o, w : o = [i \in 1 .. k |-> e] /\ w = [i \in 1 .. k |-> m]
    OBVIOUS
  <2>5. PICK b : b = ConstructCells(y, Len(r), o)
    OBVIOUS
  <2>6. z = [b EXCEPT !.size = n]
    BY <1>1, <1>5, <1>7, <2>1, <2>2, <2>3, <2>4, <2>5 DEF ResizeStd
  <2>7. IsSized(z, b, n)
    BY <2>6 DEF IsSized
  <2>8. Lives(y, r) /\ n <= Len(y.cells)
    <3>1. CASE n > Cap(x)
      <4>1. Lives(reallocate(x, n), r) /\ Len(reallocate(x, n).cells) = n
        BY <1>1, <1>7, ReallocateIs
      <4> QED
        BY <2>1, <3>1, <4>1
    <3>2. CASE ~(n > Cap(x))
      BY <1>1, <2>1, <3>2
    <3> QED
      BY <3>1, <3>2
  <2>9. /\ Load(arg, y) = m /\ m \in SlotValues /\ m # Raw
        /\ arg.cell = 0 => LoadFreed(arg) = m
        /\ arg.cell # 0 => LoadFreed(arg) = Raw
    BY <2>8, StdArgIs
  <2>10. e \in SlotValues /\ (e = m \/ e = Raw) /\ (e = m <=> arg.cell = 0 \/ n <= Cap(x))
    BY <1>1, <2>2, <2>9, SlotFacts
  <2>11. /\ o \in Seq(SlotValues) /\ w \in Seq(StdElems) /\ Len(o) = k /\ Len(w) = k
         /\ \A i \in 1 .. k : o[i] = e /\ w[i] = m
    <3>1. o \in [1 .. k -> SlotValues] /\ w \in [1 .. k -> StdElems]
      BY <1>2, <2>4, <2>10
    <3>2. o \in Seq(SlotValues) /\ Len(o) = k
      BY <3>1, SeqOfFunction
    <3>3. w \in Seq(StdElems) /\ Len(w) = k
      BY <3>1, SeqOfFunction
    <3>4. \A i \in 1 .. k : o[i] = e /\ w[i] = m
      BY <2>4
    <3> QED
      BY <3>2, <3>3, <3>4
  <2>12. 1 \in 1 .. k
    BY <2>3
  <2>13. (o = w <=> e = m) /\ (o = w \/ \E i \in 1 .. Len(o) : o[i] = Raw)
    BY <2>4, <2>10, <2>11, <2>12
  <2>14. r \o w = q
    <3>1. PICK t : t = r \o w
      OBVIOUS
    <3>2. JoinOf(StdElems, t, r, Len(r), w, k)
      BY <1>1, <2>11, <3>1, JoinedTo
    <3>3. t \in Seq(StdElems) /\ Len(t) = Len(q)
      BY <1>3, <2>3, <3>2 DEF JoinOf
    <3>4. \A i \in 1 .. Len(q) : t[i] = q[i]
      <4> SUFFICES ASSUME NEW i \in 1 .. Len(q) PROVE t[i] = q[i]
        OBVIOUS
      <4>1. t[i] = IF i <= Len(r) THEN r[i] ELSE w[i - Len(r)]
        BY <1>3, <2>3, <3>2 DEF JoinOf
      <4>2. ~(i <= Len(r)) => i - Len(r) \in 1 .. k
        BY <1>1, <1>3, <2>3
      <4> QED
        BY <1>3, <1>4, <2>11, <4>1, <4>2
    <3>5. t = q
      BY <1>3, <3>3, <3>4, SeqsAgree
    <3> QED
      BY <3>1, <3>5
  <2>15. Ends(z, r \o w, o = w)
    <3>1. n = Len(r) + Len(w) /\ Len(o) = Len(w)
      BY <2>3, <2>11
    <3> QED
      BY <2>5, <2>7, <2>8, <2>11, <2>13, <3>1, PutBehind
  <2> QED
    BY <1>5, <2>10, <2>13, <2>14, <2>15
<1> QED
  BY <1>6, <1>7

LEMMA EraseStdIs ==
    ASSUME NEW x, NEW r, Lives(x, r), NEW f \in 0 .. Len(r), NEW l \in f .. Len(r),
           NEW q, q = SubSeq(r, 1, f) \o SubSeq(r, l + 1, Len(r))
    PROVE  Lives(EraseStd(x, f, l), q)
<1>1. /\ x.size = Len(r) /\ Len(r) \in Nat /\ Len(x.cells) \in Nat /\ Cap(x) = Len(x.cells) /\ r \in Seq(StdElems)
      /\ Len(r) <= Len(x.cells) /\ StdShape(x) /\ ~x.fault
      /\ \A i \in 1 .. Len(r) : x.cells[i] = r[i] /\ r[i] \in StdElems /\ x.cells[i] # Raw
      /\ \A i \in 1 .. Len(x.cells) : x.cells[i] \in SlotValues
      /\ \A i \in 1 .. Len(x.cells) : i > Len(r) => x.cells[i] = Raw
  BY LaidFacts DEF Lives
<1>2. PICK n \in Nat, s \in Nat, c \in Nat :
        n = l - f /\ s = Len(r) /\ c = Len(x.cells) /\ l = f + n /\ f + n <= s /\ s <= c
  <2>1. l - f \in Nat /\ l = f + (l - f) /\ f + (l - f) <= Len(r)
    BY <1>1
  <2> QED
    BY <1>1, <2>1
<1>3. f \in Nat /\ l \in Nat
  BY <1>1
<1>4. PICK e : e = [i \in 1 .. c |-> IF i > f /\ i <= s - n THEN x.cells[i + n]
                                     ELSE IF i > l /\ i <= s THEN Moved ELSE x.cells[i]]
  OBVIOUS
<1>5. PICK m : m = [x EXCEPT !.cells = e]
  OBVIOUS
<1>6. PICK d : d = DestroyCells(m, s - n, s)
  OBVIOUS
<1>7. PICK z : z = EraseStd(x, f, l)
  OBVIOUS
<1>8. z = [d EXCEPT !.size = @ - n]
  BY <1>1, <1>2, <1>4, <1>5, <1>6, <1>7 DEF EraseStd
<1>9. e \in Seq(SlotValues) /\ Len(e) = c
  <2>1. \A i \in 1 .. c : i > f /\ i <= s - n => x.cells[i + n] \in SlotValues
    BY <1>1, <1>2, <1>3
  <2>2. e \in [1 .. c -> SlotValues]
    BY <1>1, <1>2, <1>4, <2>1, SlotFacts
  <2> QED
    BY <2>2, SeqOfFunction
<1>10. StdShape(m) /\ m.size = s /\ m.cells = e /\ ~m.fault
  <2>1. x = [cells |-> x.cells, size |-> x.size, fault |-> x.fault] /\ x.fault \in BOOLEAN
    BY <1>1 DEF StdShape
  <2>2. m = [cells |-> e, size |-> x.size, fault |-> x.fault]
    BY <1>5, <2>1
  <2>3. m.size = s /\ m.cells = e /\ m.fault = x.fault
    BY <1>1, <1>2, <2>2
  <2> QED
    BY <1>1, <1>9, <2>1, <2>2, <2>3 DEF StdShape
<1>11. /\ StdShape(d) /\ d.size = s /\ Len(d.cells) = c
       /\ \A i \in 1 .. c : d.cells[i] = IF i \in s - n + 1 .. s THEN Raw ELSE e[i]
       /\ d.fault <=> m.fault \/ \E i \in s - n + 1 .. s : e[i] = Raw
  <2>1. PICK g : g = s - n
    OBVIOUS
  <2>2. d = DestroyCells(m, g, s)
    BY <1>6, <2>1
  <2>3. HasWiped(d, m, g, s)
    BY <1>10, <2>2, DestroyIs
  <2> QED
    BY <1>9, <1>10, <2>1, <2>3 DEF HasWiped
<1>12. \A i \in s - n + 1 .. s : e[i] # Raw
  <2> SUFFICES ASSUME NEW i \in s - n + 1 .. s PROVE e[i] # Raw
    OBVIOUS
  <2>1. i \in 1 .. c /\ ~(i > f /\ i <= s - n) /\ i \in 1 .. s
    BY <1>2, <1>3
  <2>2. e[i] = IF i > l /\ i <= s THEN Moved ELSE x.cells[i]
    BY <1>4, <2>1
  <2> QED
    BY <1>1, <1>2, <2>1, <2>2, SlotFacts
<1>13. ~d.fault
  BY <1>10, <1>11, <1>12
<1>14. PICK k \in Nat : k = s - n /\ s = k + n /\ f <= k
  <2>1. s - n \in Nat /\ s = (s - n) + n /\ f <= s - n
    BY <1>2, <1>3
  <2> QED
    BY <2>1
<1>15. IsSized(z, d, k)
  BY <1>8, <1>11, <1>14 DEF IsSized
<1>16. StdShape(z) /\ z.size = k /\ z.cells = d.cells /\ z.fault = d.fault /\ \A t : Laid(d, t) => Laid(z, t)
  BY <1>11, <1>15, SizedIs
<1>17. /\ q \in Seq(StdElems) /\ Len(q) = k
       /\ \A i \in 1 .. k : q[i] = IF i <= f THEN r[i] ELSE r[i + n]
  <2>1. PICK a, b : a = SubSeq(r, 1, f) /\ b = SubSeq(r, l + 1, Len(r))
    OBVIOUS
  <2>2. a \in Seq(StdElems) /\ Len(a) = f /\ \A i \in 1 .. f : a[i] = r[i]
    BY <1>1, <2>1, PrefixIs
  <2>3. l \in 0 .. Len(r)
    BY <1>1
  <2>4. b \in Seq(StdElems) /\ Len(b) = Len(r) - l /\ \A i \in 1 .. Len(r) - l : b[i] = r[i + l]
    BY <1>1, <2>1, <2>3, DropFront
  <2>5. PICK g \in Nat : g = Len(r) - l /\ f + g = k
    <3>1. Len(r) - l \in Nat /\ f + (Len(r) - l) = k
      BY <1>1, <1>2, <1>3, <1>14
    <3> QED
      BY <3>1
  <2>6. JoinOf(StdElems, q, a, f, b, g)
    BY <2>1, <2>2, <2>4, <2>5, JoinedTo
  <2>7. q \in Seq(StdElems) /\ Len(q) = k
    BY <2>5, <2>6 DEF JoinOf
  <2>8. ASSUME NEW i \in 1 .. k PROVE q[i] = IF i <= f THEN r[i] ELSE r[i + n]
    <3>1. q[i] = IF i <= f THEN a[i] ELSE b[i - f]
      BY <2>5, <2>6 DEF JoinOf
    <3>2. CASE i <= f
      <4>1. i \in 1 .. f
        BY <1>3, <3>2
      <4>2. a[i] = r[i]
        BY <2>2, <4>1
      <4> QED
        BY <3>1, <3>2, <4>2
    <3>3. CASE ~(i <= f)
      <4>1. i - f \in 1 .. Len(r) - l /\ (i - f) + l = i + n
        BY <1>1, <1>2, <1>3, <2>5, <3>3
      <4>2. b[i - f] = r[(i - f) + l]
        BY <2>4, <4>1
      <4> QED
        BY <3>1, <3>3, <4>1, <4>2
    <3> QED
      BY <3>2, <3>3
  <2> QED
    BY <2>7, <2>8
<1>18. \A i \in 1 .. k : z.cells[i] = q[i]
  <2> SUFFICES ASSUME NEW i \in 1 .. k PROVE z.cells[i] = q[i]
    OBVIOUS
  <2>1. i \in 1 .. c /\ i \notin s - n + 1 .. s
    BY <1>2, <1>14
  <2>2. z.cells[i] = e[i]
    BY <1>11, <1>16, <2>1
  <2>3. e[i] = IF i > f THEN x.cells[i + n] ELSE IF i > l /\ i <= s THEN Moved ELSE x.cells[i]
    BY <1>4, <1>14, <2>1
  <2>4. CASE i <= f
    <3>1. ~(i > f) /\ ~(i > l) /\ i \in 1 .. Len(r)
      BY <1>1, <1>2, <1>3, <2>4
    <3> QED
      BY <1>1, <1>17, <2>2, <2>3, <2>4, <3>1
  <2>5. CASE ~(i <= f)
    <3>1. i > f /\ i + n \in 1 .. Len(r)
      BY <1>2, <1>3, <1>14, <2>5
    <3> QED
      BY <1>1, <1>17, <2>2, <2>3, <2>5, <3>1
  <2> QED
    BY <2>4, <2>5
<1>19. \A i \in 1 .. c : i > k => z.cells[i] = Raw
  <2> SUFFICES ASSUME NEW i \in 1 .. c, i > k PROVE z.cells[i] = Raw
    OBVIOUS
  <2>1. CASE i <= s
    <3>1. i \in s - n + 1 .. s
      BY <1>2, <1>14, <2>1
    <3> QED
      BY <1>11, <1>16, <3>1
  <2>2. CASE ~(i <= s)
    <3>1. i \notin s - n + 1 .. s /\ ~(i > f /\ i <= s - n) /\ ~(i > l /\ i <= s) /\ i > Len(r)
      BY <1>2, <1>14, <2>2
    <3>2. e[i] = x.cells[i]
      BY <1>4, <3>1
    <3> QED
      BY <1>1, <1>2, <1>11, <1>16, <3>1, <3>2
  <2> QED
    BY <2>1, <2>2
<1>20. k <= Len(z.cells) /\ Len(z.cells) = c
  BY <1>2, <1>11, <1>14, <1>16
<1>21. Laid(z, q)
  BY <1>13, <1>16, <1>17, <1>18, <1>19, <1>20, LaidIs
<1> QED
  BY <1>7, <1>16, <1>17, <1>21 DEF Lives

\* The elements of r, and raw memory after the first `at' of them.
GapAt(g, r, at, s, c) ==
    /\ StdShape(g) /\ ~g.fault /\ g.size = s /\ Len(g.cells) = c
    /\ \A i \in 1 .. c : g.cells[i] = IF i <= at THEN r[i] ELSE IF i = at + 1 THEN Raw
                                       ELSE IF i <= s + 1 THEN r[i - 1] ELSE Raw

\* The gap that Emplace makes in a vector of s elements.
GapOf(y, s, at) ==
    LET last == ConstructCells(y, s, <<y.cells[s]>>)
        up == [last EXCEPT !.cells = [i \in 1 .. Cap(y) |-> IF i \in at + 2 .. s THEN y.cells[i - 1]
                                                            ELSE IF i = at + 1 THEN Moved ELSE @[i]]]
    IN  DestroyCells(up, at, at + 1)

Builds(z, y, r, o) == Len(r) + Len(o) <= Len(y.cells) /\ z = ConstructCells(y, Len(r), o)
LEMMA BuiltIs ==
    ASSUME NEW y, NEW r, Laid(y, r), NEW o \in Seq(StdElems), NEW z, Builds(z, y, r, o)
    PROVE  Laid(z, r \o o) /\ z.size = y.size /\ Len(z.cells) = Len(y.cells)
BY ConstructEnd DEF Builds

LEMMA OneBuilt ==
    ASSUME NEW y, NEW r, Laid(y, r), NEW s, s = Len(r), s + 1 <= Len(y.cells), NEW o \in Seq(StdElems), Len(o) = 1,
           NEW z, z = ConstructCells(y, s, o)
    PROVE  Laid(z, r \o o) /\ z.size = y.size /\ Len(z.cells) = Len(y.cells)
<1>1. Builds(z, y, r, o)
  BY DEF Builds
<1> QED
  BY <1>1, BuiltIs

LEMMA GapIs ==
    ASSUME NEW y, NEW r, Lives(y, r), NEW s \in Nat, s = Len(r), NEW c \in Nat, c = Len(y.cells), s + 1 <= c,
           NEW at \in Nat, at < s
    PROVE  GapAt(GapOf(y, s, at), r, at, s, c)
<1>01. PICK last : last = ConstructCells(y, s, <<y.cells[s]>>)
  OBVIOUS
<1>02. PICK e : e = [i \in 1 .. c |-> IF i \in at + 2 .. s THEN y.cells[i - 1]
                                      ELSE IF i = at + 1 THEN Moved ELSE last.cells[i]]
  OBVIOUS
<1>03. PICK up : up = [last EXCEPT !.cells = e]
  OBVIOUS
<1>04. PICK g : g = DestroyCells(up, at, at + 1)
  OBVIOUS
<1>05. GapOf(y, s, at) = g
  BY <1>01, <1>02, <1>03, <1>04 DEF GapOf, Cap
<1>1. /\ y.size = s /\ r \in Seq(StdElems) /\ StdShape(y) /\ ~y.fault /\ Laid(y, r)
      /\ \A i \in 1 .. s : y.cells[i] = r[i] /\ r[i] \in StdElems /\ y.cells[i] # Raw
      /\ \A i \in 1 .. c : y.cells[i] \in SlotValues
      /\ \A i \in 1 .. c : i > s => y.cells[i] = Raw
  BY LaidFacts DEF Lives
<1>2. s \in 1 .. s /\ s \in 1 .. c /\ s + 1 \in 1 .. c
  OBVIOUS
<1>3. PICK o : o = <<y.cells[s]>>
  OBVIOUS
<1>4. o \in Seq(StdElems) /\ Len(o) = 1 /\ o[1] = r[s]
  BY <1>1, <1>2, <1>3
<1>5. /\ Laid(last, r \o o) /\ last.size = s /\ Len(last.cells) = c
  <2>1. last = ConstructCells(y, s, o)
    BY <1>01, <1>3
  <2> QED
    BY <1>1, <1>4, <2>1, OneBuilt
<1>6. /\ last = [cells |-> last.cells, size |-> last.size, fault |-> last.fault] /\ ~last.fault /\ last.fault \in BOOLEAN
      /\ last.cells \in Seq(SlotValues)
  BY <1>5 DEF Laid, StdShape
<1>7. \A i \in 1 .. c : last.cells[i] = IF i <= s THEN r[i] ELSE IF i = s + 1 THEN r[s] ELSE Raw
  <2>1. JoinOf(StdElems, r \o o, r, s, o, 1)
    BY <1>1, <1>4, JoinedTo
  <2>2. PICK t : t = r \o o
    OBVIOUS
  <2>3. Len(t) = s + 1 /\ \A j \in 1 .. s + 1 : t[j] = IF j <= s THEN r[j] ELSE o[j - s]
    BY <2>1, <2>2 DEF JoinOf
  <2>4. /\ \A j \in 1 .. s + 1 : last.cells[j] = t[j]
        /\ \A j \in 1 .. c : j > s + 1 => last.cells[j] = Raw
    <3>1. Laid(last, t)
      BY <1>5, <2>2
    <3>2. /\ \A j \in 1 .. Len(t) : last.cells[j] = t[j]
          /\ \A j \in 1 .. Len(last.cells) : j > Len(t) => last.cells[j] = Raw
      BY <3>1 DEF Laid
    <3> QED
      BY <1>5, <2>3, <3>2
  <2> SUFFICES ASSUME NEW i \in 1 .. c
               PROVE  last.cells[i] = IF i <= s THEN r[i] ELSE IF i = s + 1 THEN r[s] ELSE Raw
    OBVIOUS
  <2>5. CASE i <= s
    BY <2>3, <2>4, <2>5
  <2>6. CASE i = s + 1
    <3>1. ~(i <= s) /\ i - s = 1 /\ i \in 1 .. s + 1
      BY <2>6
    <3> QED
      BY <1>4, <2>3, <2>4, <2>6, <3>1
  <2>7. CASE i > s + 1
    BY <2>4, <2>7
  <2> QED
    BY <2>5, <2>6, <2>7
<1>8. e \in Seq(SlotValues) /\ Len(e) = c
  <2>1. \A i \in 1 .. c : i \in at + 2 .. s => y.cells[i - 1] \in SlotValues
    <3> SUFFICES ASSUME NEW i \in 1 .. c, i \in at + 2 .. s PROVE y.cells[i - 1] \in SlotValues
      OBVIOUS
    <3>1. i - 1 \in 1 .. c
      OBVIOUS
    <3> QED
      BY <1>1, <3>1
  <2>2. \A i \in 1 .. c : last.cells[i] \in SlotValues
    BY <1>5, <1>6
  <2>3. e \in [1 .. c -> SlotValues]
    BY <1>02, <2>1, <2>2, SlotFacts
  <2> QED
    BY <2>3, SeqOfFunction
<1>9. StdShape(up) /\ up.size = s /\ up.cells = e /\ ~up.fault
  <2>1. up = [cells |-> e, size |-> last.size, fault |-> last.fault]
    BY <1>03, <1>6
  <2>2. up.size = s /\ up.cells = e /\ up.fault = last.fault
    BY <1>5, <2>1
  <2> QED
    BY <1>6, <1>8, <2>1, <2>2 DEF StdShape
<1>10. \A i \in 1 .. c : e[i] = IF i \in at + 2 .. s THEN y.cells[i - 1]
                                 ELSE IF i = at + 1 THEN Moved ELSE last.cells[i]
  BY <1>02
<1>11. /\ StdShape(g) /\ g.size = s /\ Len(g.cells) = c
       /\ \A i \in 1 .. c : g.cells[i] = IF i \in at + 1 .. at + 1 THEN Raw ELSE e[i]
       /\ g.fault <=> up.fault \/ \E i \in at + 1 .. at + 1 : e[i] = Raw
  <2>1. PICK b : b = at + 1
    OBVIOUS
  <2>2. g = DestroyCells(up, at, b)
    BY <1>04, <2>1
  <2>3. HasWiped(g, up, at, b)
    BY <1>9, <2>2, DestroyIs
  <2> QED
    BY <1>8, <1>9, <2>1, <2>3 DEF HasWiped
<1>12. e[at + 1] = Moved
  <2>1. at + 1 \in 1 .. c /\ at + 1 \notin at + 2 .. s
    OBVIOUS
  <2> QED
    BY <1>10, <2>1
<1>13. ~g.fault
  <2>1. \A i \in at + 1 .. at + 1 : i = at + 1
    OBVIOUS
  <2> QED
    BY <1>9, <1>11, <1>12, <2>1, SlotFacts
<1>14. ASSUME NEW i \in 1 .. c
       PROVE  g.cells[i] = IF i <= at THEN r[i] ELSE IF i = at + 1 THEN Raw
                           ELSE IF i <= s + 1 THEN r[i - 1] ELSE Raw
  <2>1. g.cells[i] = IF i \in at + 1 .. at + 1 THEN Raw ELSE e[i]
    BY <1>11
  <2>2. CASE i <= at
    <3>1. i \notin at + 1 .. at + 1 /\ i \notin at + 2 .. s /\ i # at + 1 /\ i <= s
      BY <2>2
    <3>2. e[i] = r[i]
      BY <1>7, <1>10, <3>1
    <3> QED
      BY <2>1, <2>2, <3>1, <3>2
  <2>3. CASE i = at + 1
    <3>1. i \in at + 1 .. at + 1 /\ ~(i <= at)
      BY <2>3
    <3> QED
      BY <2>1, <2>3, <3>1
  <2>4. CASE i > at + 1 /\ i <= s
    <3>1. /\ i \notin at + 1 .. at + 1 /\ i \in at + 2 .. s /\ i # at + 1 /\ ~(i <= at) /\ i <= s + 1
          /\ i - 1 \in 1 .. s
      BY <2>4
    <3>2. e[i] = r[i - 1]
      BY <1>1, <1>10, <3>1
    <3> QED
      BY <2>1, <3>1, <3>2
  <2>5. CASE i > s
    <3>1. /\ i \notin at + 1 .. at + 1 /\ i \notin at + 2 .. s /\ i # at + 1 /\ ~(i <= at) /\ ~(i <= s)
          /\ (i = s + 1 => i - 1 = s) /\ (i = s + 1 <=> i <= s + 1)
      BY <2>5
    <3>2. e[i] = IF i = s + 1 THEN r[s] ELSE Raw
      BY <1>7, <1>10, <3>1
    <3> QED
      BY <2>1, <3>1, <3>2
  <2> QED
    BY <2>2, <2>3, <2>4, <2>5
<1> QED
  BY <1>05, <1>11, <1>13, <1>14 DEF GapAt

LEMMA GapFilled ==
    ASSUME NEW r \in Seq(StdElems), NEW s \in Nat, s = Len(r), NEW c \in Nat, s + 1 <= c,
           NEW at \in Nat, at < s, NEW g, GapAt(g, r, at, s, c),
           NEW e \in SlotValues, NEW m \in StdElems, NEW z, IsSized(z, ConstructCells(g, at, <<e>>), s + 1)
    PROVE  Ends(z, SubSeq(r, 1, at) \o <<m>> \o SubSeq(r, at + 1, s), e = m)
<1>01. PICK b : b = ConstructCells(g, at, <<e>>)
  OBVIOUS
<1>02. PICK q : q = SubSeq(r, 1, at) \o <<m>> \o SubSeq(r, at + 1, s)
  OBVIOUS
<1>1. PICK w : w = <<m>>
  OBVIOUS
<1>2. w \in Seq(StdElems) /\ Len(w) = 1 /\ w[1] = m /\ at \in 0 .. s /\ at \in 0 .. at
  BY <1>1
<1>3. SpliceOf(StdElems, q, r, s, w, at, at)
  <2>1. q = SubSeq(r, 1, at) \o w \o SubSeq(r, at + 1, s) /\ s <= Len(r)
    BY <1>02, <1>1
  <2> QED
    BY <1>2, <2>1, SplicedIs
<1>4. q \in Seq(StdElems) /\ Len(q) = s + 1
  BY <1>2, <1>3 DEF SpliceOf
<1>5. ASSUME NEW i \in 1 .. s + 1
      PROVE  q[i] = IF i <= at THEN r[i] ELSE IF i = at + 1 THEN m ELSE r[i - 1]
  <2>1. q[i] = IF i <= at THEN r[i] ELSE IF i <= at + 1 THEN w[i - at] ELSE r[i - at - 1 + at]
    BY <1>2, <1>3, <1>4 DEF SpliceOf
  <2>2. (i = at + 1 => i - at = 1) /\ i - at - 1 + at = i - 1 /\ (~(i <= at) => (i <= at + 1 <=> i = at + 1))
    OBVIOUS
  <2> QED
    BY <1>2, <2>1, <2>2
<1>6. PICK o : o = <<e>>
  OBVIOUS
<1>7. o \in Seq(SlotValues) /\ Len(o) = 1 /\ o[1] = e
  BY <1>6
<1>8. /\ StdShape(g) /\ ~g.fault /\ g.size = s /\ Len(g.cells) = c
      /\ \A i \in 1 .. c : g.cells[i] = IF i <= at THEN r[i] ELSE IF i = at + 1 THEN Raw
                                         ELSE IF i <= s + 1 THEN r[i - 1] ELSE Raw
  BY DEF GapAt
<1>9. HasBuilt(b, g, at, o, 1)
  <2>1. HasBuilt(b, g, at, o, Len(o))
    BY <1>01, <1>6, <1>7, <1>8, ConstructIs
  <2> QED
    BY <1>7, <2>1
<1>10. /\ StdShape(b) /\ Len(b.cells) = c
       /\ \A i \in 1 .. c : b.cells[i] = IF i \in at + 1 .. at + 1 THEN o[i - at] ELSE g.cells[i]
       /\ b.fault <=> g.fault \/ \E i \in 1 .. 1 : g.cells[at + i] # Raw \/ o[i] = Raw
  BY <1>8, <1>9 DEF HasBuilt
<1>11. /\ StdShape(z) /\ z.size = s + 1 /\ z.cells = b.cells /\ z.fault = b.fault
       /\ \A t : Laid(b, t) => Laid(z, t)
  <2>1. PICK k : k = s + 1
    OBVIOUS
  <2>2. IsSized(z, b, k)
    BY <1>01, <2>1
  <2>3. /\ StdShape(z) /\ z.size = k /\ z.cells = b.cells /\ z.fault = b.fault
        /\ \A t : Laid(b, t) => Laid(z, t)
    BY <1>10, <2>2, SizedIs
  <2> QED
    BY <2>1, <2>3
<1>12. ASSUME NEW i \in 1 .. c
       PROVE  z.cells[i] = IF i <= at THEN r[i] ELSE IF i = at + 1 THEN e ELSE IF i <= s + 1 THEN r[i - 1] ELSE Raw
  <2>1. b.cells[i] = IF i \in at + 1 .. at + 1 THEN o[i - at] ELSE g.cells[i]
    BY <1>10
  <2>2. (i \in at + 1 .. at + 1 <=> i = at + 1) /\ (i = at + 1 => i - at = 1 /\ ~(i <= at))
    OBVIOUS
  <2> QED
    BY <1>7, <1>8, <1>11, <2>1, <2>2
<1>13. at + 1 \in 1 .. c /\ at + 1 \in 1 .. s + 1 /\ ~(at + 1 <= at)
  OBVIOUS
<1>14. ASSUME e = m PROVE Ends(z, q, e = m)
  <2>1. ~z.fault
    <3>1. g.cells[at + 1] = Raw
      BY <1>8, <1>13
    <3>2. \A i \in 1 .. 1 : i = 1
      OBVIOUS
    <3> QED
      BY <1>7, <1>8, <1>10, <1>11, <1>14, <3>1, <3>2, SlotFacts
  <2>2. \A i \in 1 .. s + 1 : z.cells[i] = q[i]
    <3> SUFFICES ASSUME NEW i \in 1 .. s + 1 PROVE z.cells[i] = q[i]
      OBVIOUS
    <3>1. i \in 1 .. c /\ i <= s + 1
      OBVIOUS
    <3> QED
      BY <1>5, <1>12, <1>14, <3>1
  <2>3. \A i \in 1 .. c : i > s + 1 => z.cells[i] = Raw
    <3> SUFFICES ASSUME NEW i \in 1 .. c, i > s + 1 PROVE z.cells[i] = Raw
      OBVIOUS
    <3>1. ~(i <= at) /\ i # at + 1 /\ ~(i <= s + 1)
      OBVIOUS
    <3> QED
      BY <1>12, <3>1
  <2>4. Laid(z, q)
    <3>1. PICK k : k = s + 1
      OBVIOUS
    <3>2. /\ k = Len(q) /\ k <= Len(z.cells) /\ \A i \in 1 .. k : z.cells[i] = q[i]
          /\ \A i \in 1 .. Len(z.cells) : i > k => z.cells[i] = Raw
      BY <1>4, <1>10, <1>11, <2>2, <2>3, <3>1
    <3> QED
      BY <1>4, <1>11, <2>1, <3>2, LaidIs
  <2> QED
    BY <1>4, <1>11, <1>14, <2>4 DEF Ends, Lives
<1>15. ASSUME e # m PROVE Ends(z, q, e = m)
  <2>1. z.cells[at + 1] = e /\ q[at + 1] = m /\ at + 1 <= s + 1
    BY <1>5, <1>12, <1>13
  <2>2. at + 1 \in 1 .. Len(z.cells) /\ at + 1 <= Len(q)
    BY <1>4, <1>10, <1>11, <1>13, <2>1
  <2>3. Spoilt(z, q)
    BY <1>15, <2>1, <2>2 DEF Spoilt
  <2>4. z.size = Len(q) /\ z.size <= Cap(z)
    BY <1>4, <1>10, <1>11 DEF Cap
  <2> QED
    BY <1>4, <1>11, <1>15, <2>3, <2>4 DEF Ends
<1> QED
  BY <1>02, <1>14, <1>15

LEMMA EmplaceIs ==
    ASSUME NEW x, NEW r, Lives(x, r), NEW arg, StdArgFor(arg, r), NEW m, m = MeantBy(arg, r), NEW at \in 0 .. Len(r)
    PROVE  Ends(Emplace(x, at, arg), SubSeq(r, 1, at) \o <<m>> \o SubSeq(r, at + 1, Len(r)),
                \/ arg.cell = 0
                \/ /\ x.size < Cap(x)
                   /\ arg.cell <= at \/ (arg.cell > at + 1 /\ r[arg.cell - 1] = r[arg.cell]))
<1>1. /\ x.size = Len(r) /\ Len(r) \in Nat /\ Len(x.cells) \in Nat /\ Cap(x) = Len(x.cells) /\ r \in Seq(StdElems)
      /\ Len(r) <= Len(x.cells) /\ \A i \in 1 .. Len(r) : r[i] \in StdElems
  BY LaidFacts DEF Lives
<1>2. m \in StdElems /\ m \in SlotValues /\ m # Raw /\ arg.cell \in 0 .. Len(r)
  BY StdArgIs
<1>3. PICK s \in Nat : s = Len(r)
  BY <1>1
<1>4. CASE at = s
  <2>1. Emplace(x, at, arg) = EmplaceBack(x, arg)
    BY <1>1, <1>3, <1>4 DEF Emplace
  <2>2. SubSeq(r, 1, at) \o <<m>> \o SubSeq(r, at + 1, Len(r)) = Append(r, m)
    <3>1. SubSeq(r, 1, at) = r /\ SubSeq(r, at + 1, Len(r)) = <<>>
      BY <1>1, <1>3, <1>4
    <3>2. r \o <<m>> \o <<>> = Append(r, m)
      BY <1>1, <1>2
    <3> QED
      BY <3>1, <3>2
  <2>3. Ends(EmplaceBack(x, arg), Append(r, m), arg.cell = 0 \/ x.size < Cap(x))
    BY EmplaceBackIs
  <2>4. arg.cell <= at
    BY <1>2, <1>3, <1>4
  <2> QED
    BY <2>1, <2>2, <2>3, <2>4
<1>5. CASE at # s
  <2>1. PICK y : y = IF x.size >= Cap(x) THEN reallocate(x, Doubled(x)) ELSE x
    OBVIOUS
  <2>2. PICK g : g = GapOf(y, s, at)
    OBVIOUS
  <2>3. PICK e : e = IF x.size >= Cap(x) THEN LoadFreed(arg) ELSE Load(arg, g)
    OBVIOUS
  <2>4. PICK b : b = ConstructCells(g, at, <<e>>)
    OBVIOUS
  <2>5. PICK z : z = Emplace(x, at, arg)
    OBVIOUS
  <2>6. z = [b EXCEPT !.size = @ + 1]
    BY <1>1, <1>3, <1>5, <2>1, <2>2, <2>3, <2>4, <2>5 DEF Emplace, GapOf
  <2>7. Lives(y, r) /\ s + 1 <= Len(y.cells)
    BY <1>3, <2>1, DoubledIs
  <2>8. PICK c \in Nat : c = Len(y.cells)
    <3>1. Len(y.cells) \in Nat
      BY <2>7, LaidFacts DEF Lives
    <3> QED
      BY <3>1
  <2>9. at \in Nat /\ at < s
    BY <1>1, <1>3, <1>5
  <2>10. GapAt(g, r, at, s, c) /\ s + 1 <= c
    BY <1>3, <2>2, <2>7, <2>8, <2>9, GapIs
  <2>11. /\ StdShape(g) /\ g.size = s /\ Len(g.cells) = c
         /\ \A i \in 1 .. c : g.cells[i] = IF i <= at THEN r[i] ELSE IF i = at + 1 THEN Raw
                                            ELSE IF i <= s + 1 THEN r[i - 1] ELSE Raw
    BY <2>10 DEF GapAt
  <2>12. /\ arg.cell = 0 => LoadFreed(arg) = m /\ Load(arg, g) = m
         /\ arg.cell # 0 => LoadFreed(arg) = Raw /\ Load(arg, g) = g.cells[arg.cell] /\ m = r[arg.cell]
    <3>1. /\ arg.cell = 0 => LoadFreed(arg) = m
          /\ arg.cell # 0 => LoadFreed(arg) = Raw
      BY StdArgIs
    <3> QED
      BY <3>1 DEF Load, MeantBy
  <2>13. /\ e \in SlotValues
         /\ e = m <=> \/ arg.cell = 0
                      \/ /\ x.size < Cap(x)
                         /\ arg.cell <= at \/ (arg.cell > at + 1 /\ r[arg.cell - 1] = r[arg.cell])
    <3>1. CASE arg.cell = 0
      BY <1>2, <2>3, <2>12, <3>1
    <3>2. CASE arg.cell # 0 /\ x.size >= Cap(x)
      <4>1. ~(x.size < Cap(x))
        BY <1>1, <3>2
      <4> QED
        BY <1>2, <2>3, <2>12, <3>2, <4>1, SlotFacts
    <3>3. CASE arg.cell # 0 /\ ~(x.size >= Cap(x))
      <4>1. x.size < Cap(x)
        BY <1>1, <3>3
      <4>2. PICK k \in Nat : k = arg.cell /\ k \in 1 .. s /\ k \in 1 .. c
        BY <1>2, <1>3, <2>10, <3>3
      <4>3. e = IF k <= at THEN r[k] ELSE IF k = at + 1 THEN Raw ELSE IF k <= s + 1 THEN r[k - 1] ELSE Raw
        BY <2>3, <2>11, <2>12, <3>3, <4>2
      <4>4. m = r[k]
        BY <2>12, <3>3, <4>2
      <4>5. CASE k <= at
        <5>1. e = m
          BY <4>3, <4>4, <4>5
        <5> QED
          BY <1>2, <4>1, <4>2, <4>5, <5>1
      <4>6. CASE k = at + 1
        <5>1. e = Raw /\ ~(k <= at) /\ ~(k > at + 1)
          BY <2>9, <4>3, <4>6
        <5> QED
          BY <1>2, <3>3, <4>2, <5>1, SlotFacts
      <4>7. CASE k > at + 1
        <5>1. ~(k <= at) /\ k # at + 1 /\ k <= s + 1 /\ k - 1 \in 1 .. Len(r)
          BY <1>3, <2>9, <4>2, <4>7
        <5>2. e = r[k - 1] /\ r[k - 1] \in SlotValues
          BY <1>1, <4>3, <5>1, SlotFacts
        <5> QED
          BY <3>3, <4>1, <4>2, <4>4, <4>7, <5>1, <5>2
      <4> QED
        BY <2>9, <4>2, <4>5, <4>6, <4>7
    <3> QED
      BY <3>1, <3>2, <3>3
  <2>14. IsSized(z, b, s + 1)
    <3>1. b.size = s
      <4>1. PICK o : o = <<e>>
        OBVIOUS
      <4>2. o \in Seq(SlotValues) /\ b = ConstructCells(g, at, o)
        BY <2>4, <2>13, <4>1
      <4>3. HasBuilt(b, g, at, o, Len(o))
        BY <2>9, <2>11, <4>2, ConstructIs
      <4> QED
        BY <2>11, <4>3 DEF HasBuilt
    <3> QED
      BY <2>6, <3>1 DEF IsSized
  <2>15. Ends(z, SubSeq(r, 1, at) \o <<m>> \o SubSeq(r, at + 1, s), e = m)
    BY <1>1, <1>2, <1>3, <2>4, <2>8, <2>9, <2>10, <2>13, <2>14, GapFilled
  <2> QED
    BY <1>3, <2>5, <2>13, <2>15
<1> QED
  BY <1>4, <1>5

-----------------------------------------------------------------------------
LEMMA SplitJoins ==
    ASSUME NEW r \in Seq(StdElems), NEW f \in 0 .. Len(r)
    PROVE  SubSeq(r, 1, f) \o SubSeq(r, f + 1, Len(r)) = r
<1>1. PICK a, b, z : a = SubSeq(r, 1, f) /\ b = SubSeq(r, f + 1, Len(r)) /\ z = a \o b
  OBVIOUS
<1>2. a \in Seq(StdElems) /\ Len(a) = f /\ \A i \in 1 .. f : a[i] = r[i]
  BY <1>1, PrefixIs
<1>3. b \in Seq(StdElems) /\ Len(b) = Len(r) - f /\ \A i \in 1 .. Len(r) - f : b[i] = r[i + f]
  BY <1>1, DropFront
<1>4. PICK n \in Nat, k \in Nat : n = Len(r) /\ k = n - f /\ f + k = n /\ f \in Nat
  <2>1. Len(r) \in Nat /\ Len(r) - f \in Nat /\ f + (Len(r) - f) = Len(r) /\ f \in Nat
    OBVIOUS
  <2> QED
    BY <2>1
<1>5. JoinOf(StdElems, z, a, f, b, k)
  BY <1>1, <1>2, <1>3, <1>4, JoinedTo
<1>6. z \in Seq(StdElems) /\ Len(z) = Len(r)
  BY <1>4, <1>5 DEF JoinOf
<1>7. ASSUME NEW i \in 1 .. Len(r) PROVE z[i] = r[i]
  <2>1. z[i] = IF i <= f THEN a[i] ELSE b[i - f]
    BY <1>4, <1>5 DEF JoinOf
  <2>2. CASE i <= f
    <3>1. i \in 1 .. f
      BY <1>4, <2>2
    <3> QED
      BY <1>2, <2>1, <2>2, <3>1
  <2>3. CASE ~(i <= f)
    <3>1. i - f \in 1 .. Len(r) - f /\ (i - f) + f = i
      BY <1>4, <2>3
    <3>2. b[i - f] = r[(i - f) + f]
      BY <1>3, <3>1
    <3> QED
      BY <2>1, <2>3, <3>1, <3>2
  <2> QED
    BY <2>2, <2>3
<1>8. z = r
  BY <1>6, <1>7, SeqsAgree
<1> QED
  BY <1>1, <1>8

LEMMA StdCalls ==
    ASSUME StdInv, stdLegal, NEW v \in StdVectors
    PROVE  /\ shrink_to_fit(v) => StdInv'
           /\ std_clear(v) => StdInv'
           /\ std_pop_back(v) => StdInv'
           /\ \A n \in 0 .. MaxSlots : std_reserve(v, n) => StdInv'
           /\ \A n \in 0 .. MaxSlots : \A e \in StdElems : vector_count(v, n, e) => StdInv'
           /\ \A f \in 0 .. Count(v) : \A l \in f .. Count(v) : std_erase(v, f, l) => StdInv'
<1> DEFINE x == std[v]
           r == stdRef[v]
<1>1. Lives(x, r) /\ Count(v) = Len(r)
  BY DEF StdInv, Count
<1>2. /\ x.size = Len(r) /\ Len(r) \in Nat /\ Len(x.cells) \in Nat /\ Cap(x) = Len(x.cells) /\ r \in Seq(StdElems)
      /\ Len(r) <= Len(x.cells)
  BY <1>1, LaidFacts DEF Lives
<1> HIDE DEF x, r
<1>3. ASSUME shrink_to_fit(v) PROVE StdInv'
  <2>1. PICK y : y = IF x.size < Cap(x) THEN reallocate(x, x.size) ELSE x
    OBVIOUS
  <2>2. StdCall(v, y, r, TRUE)
    BY <1>3, <2>1 DEF shrink_to_fit, x, r
  <2>3. Lives(reallocate(x, x.size), r)
    BY <1>1, <1>2, ReallocateIs
  <2>4. Ends(y, r, TRUE)
    BY <1>1, <1>2, <2>1, <2>3 DEF Ends
  <2> QED
    BY <2>2, <2>4, StdCallIs
<1>4. ASSUME std_clear(v) PROVE StdInv'
  <2>1. PICK y, q : y = ClearStd(x) /\ q = <<>>
    OBVIOUS
  <2>2. StdCall(v, y, q, TRUE)
    BY <1>4, <2>1 DEF std_clear, x
  <2>3. Lives(y, q)
    BY <1>1, <2>1, ClearStdIs
  <2>4. Ends(y, q, TRUE)
    BY <2>1, <2>3 DEF Ends
  <2> QED
    BY <2>2, <2>4, StdCallIs
<1>5. ASSUME std_pop_back(v) PROVE StdInv'
  <2>1. PICK y, q : y = PopBackStd(x) /\ q = SubSeq(r, 1, Len(r) - 1)
    OBVIOUS
  <2>2. StdCall(v, y, q, TRUE)
    BY <1>1, <1>5, <2>1 DEF std_pop_back, x, r
  <2>3. Lives(y, q)
    BY <1>1, <2>1, PopBackStdIs
  <2>4. Ends(y, q, TRUE)
    BY <2>3 DEF Ends, Lives, Laid
  <2> QED
    BY <2>2, <2>4, StdCallIs
<1>6. ASSUME NEW n \in 0 .. MaxSlots, std_reserve(v, n) PROVE StdInv'
  <2>1. PICK y : y = IF n > Cap(x) THEN reallocate(x, n) ELSE x
    OBVIOUS
  <2>2. StdCall(v, y, r, TRUE)
    BY <1>6, <2>1 DEF std_reserve, x, r
  <2>3. CASE n > Cap(x)
    <3>1. n \in Nat /\ Len(r) <= n
      BY <1>2, <2>3, StdAssumption
    <3>2. Lives(reallocate(x, n), r)
      BY <1>1, <3>1, ReallocateIs
    <3>3. Ends(y, r, TRUE)
      BY <1>2, <2>1, <2>3, <3>2 DEF Ends
    <3> QED
      BY <2>2, <3>3, StdCallIs
  <2>4. CASE ~(n > Cap(x))
    <3>1. Ends(y, r, TRUE)
      BY <1>1, <1>2, <2>1, <2>4 DEF Ends
    <3> QED
      BY <2>2, <3>1, StdCallIs
  <2> QED
    BY <2>3, <2>4
<1>7. ASSUME NEW n \in 0 .. MaxSlots, NEW e \in StdElems, vector_count(v, n, e) PROVE StdInv'
  <2>1. PICK q : q = [i \in 1 .. n |-> e]
    OBVIOUS
  <2>2. PICK y : y = [ConstructCells(allocate(Destructor(x), n), 0, q) EXCEPT !.size = n]
    OBVIOUS
  <2>3. StdCall(v, y, q, TRUE)
    BY <1>7, <2>1, <2>2 DEF vector_count, x
  <2>4. n \in Nat
    BY StdAssumption
  <2>5. Ends(y, q, TRUE)
    BY <1>1, <2>1, <2>2, <2>4, CountedIs
  <2> QED
    BY <2>3, <2>5, StdCallIs
<1>8. ASSUME NEW f \in 0 .. Count(v), NEW l \in f .. Count(v), std_erase(v, f, l) PROVE StdInv'
  <2>1. PICK q : q = SubSeq(r, 1, f) \o SubSeq(r, l + 1, Len(r))
    OBVIOUS
  <2>2. PICK y : y = IF f = l THEN x ELSE EraseStd(x, f, l)
    OBVIOUS
  <2>3. StdCall(v, y, q, TRUE)
    BY <1>1, <1>8, <2>1, <2>2 DEF std_erase, x, r
  <2>4. f \in 0 .. Len(r) /\ l \in f .. Len(r)
    BY <1>1
  <2>5. Lives(EraseStd(x, f, l), q)
    BY <1>1, <2>1, <2>4, EraseStdIs
  <2>6. f = l => q = r
    BY <1>2, <2>1, <2>4, SplitJoins
  <2>7. Lives(y, q)
    BY <1>1, <2>2, <2>5, <2>6
  <2>8. Ends(y, q, TRUE)
    BY <2>7 DEF Ends, Lives, Laid
  <2> QED
    BY <2>3, <2>8, StdCallIs
<1> QED
  BY <1>3, <1>4, <1>5, <1>6, <1>7, <1>8

LEMMA StdArgCalls ==
    ASSUME StdInv, stdLegal, NEW v \in StdVectors, NEW arg, StdArgFor(arg, stdRef[v])
    PROVE  /\ emplace_back(v, arg) => StdInv'
           /\ \A at \in 0 .. Count(v) : emplace(v, at, arg) => StdInv'
           /\ \A n \in 0 .. MaxSlots : std_resize(v, n, arg) => StdInv'
<1> DEFINE x == std[v]
           r == stdRef[v]
<1>1. Lives(x, r) /\ Count(v) = Len(r) /\ StdArgFor(arg, r)
  BY DEF StdInv, Count
<1>2. PICK m : m = MeantBy(arg, r)
  OBVIOUS
<1>3. Intended(v, arg) = m
  BY <1>2 DEF Intended, MeantBy
<1> HIDE DEF x, r
<1>4. ASSUME emplace_back(v, arg) PROVE StdInv'
  <2>1. PICK y, q : y = EmplaceBack(x, arg) /\ q = Append(r, m)
    OBVIOUS
  <2>2. PICK w \in BOOLEAN : w = (arg.cell = 0 \/ x.size < Cap(x))
    OBVIOUS
  <2>3. StdCall(v, y, q, w)
    BY <1>3, <1>4, <2>1, <2>2 DEF emplace_back, x, r
  <2>4. Ends(y, q, w)
    BY <1>1, <1>2, <2>1, <2>2, EmplaceBackIs
  <2> QED
    BY <2>3, <2>4, StdCallIs
<1>5. ASSUME NEW at \in 0 .. Count(v), emplace(v, at, arg) PROVE StdInv'
  <2>1. PICK y, q : y = Emplace(x, at, arg) /\ q = SubSeq(r, 1, at) \o <<m>> \o SubSeq(r, at + 1, Len(r))
    OBVIOUS
  <2>2. PICK w \in BOOLEAN :
          w = (\/ arg.cell = 0
               \/ /\ x.size < Cap(x)
                  /\ arg.cell <= at \/ (arg.cell > at + 1 /\ r[arg.cell - 1] = r[arg.cell]))
    OBVIOUS
  <2>3. StdCall(v, y, q, w)
    BY <1>1, <1>3, <1>5, <2>1, <2>2 DEF emplace, x, r
  <2>4. Ends(y, q, w)
    <3>1. at \in 0 .. Len(r)
      BY <1>1
    <3> QED
      BY <1>1, <1>2, <2>1, <2>2, <3>1, EmplaceIs
  <2> QED
    BY <2>3, <2>4, StdCallIs
<1>6. ASSUME NEW n \in 0 .. MaxSlots, std_resize(v, n, arg) PROVE StdInv'
  <2>1. PICK y, q : y = ResizeStd(x, n, arg) /\ q = [i \in 1 .. n |-> IF i <= Len(r) THEN r[i] ELSE m]
    OBVIOUS
  <2>2. PICK w \in BOOLEAN : w = (arg.cell = 0 \/ n <= Cap(x))
    OBVIOUS
  <2>3. StdCall(v, y, q, w)
    BY <1>1, <1>3, <1>6, <2>1, <2>2 DEF std_resize, x, r
  <2>4. Ends(y, q, w)
    <3>1. n \in Nat
      BY StdAssumption
    <3> QED
      BY <1>1, <1>2, <2>1, <2>2, <3>1, ResizeStdIs
  <2> QED
    BY <2>3, <2>4, StdCallIs
<1> QED
  BY <1>4, <1>5, <1>6

LEMMA StdPairs ==
    ASSUME StdInv, stdLegal, NEW v \in StdVectors, NEW o \in StdVectors
    PROVE  /\ vector_copy(v, o) => StdInv'
           /\ copy_assign(v, o) => StdInv'
           /\ Steal(v, o) /\ v # o => StdInv'
           /\ std_swap(v, o) => StdInv'
<1>1. /\ Lives(std[v], stdRef[v]) /\ Lives(std[o], stdRef[o]) /\ stdOut = stdWant
      /\ std = [u \in StdVectors |-> std[u]] /\ stdRef = [u \in StdVectors |-> stdRef[u]]
      /\ \A u \in StdVectors : Lives(std[u], stdRef[u])
  BY DEF StdInv
<1>2. ASSUME vector_copy(v, o) PROVE StdInv'
  <2>1. PICK d, q : d = Destructor(std[v]) /\ q = <<>>
    OBVIOUS
  <2>2. PICK y : y = CopyAssign(d, std[o])
    OBVIOUS
  <2>3. StdCall(v, y, stdRef[o], TRUE)
    BY <1>2, <2>1, <2>2 DEF vector_copy
  <2>4. Lives(d, q) /\ Len(q) = 0
    BY <1>1, <2>1, ClearStdIs
  <2>5. Ends(y, stdRef[o], Len(q) = 0 \/ Len(stdRef[o]) > Cap(d))
    BY <1>1, <2>2, <2>4, CopyAssignIs
  <2>6. Ends(y, stdRef[o], TRUE)
    BY <2>4, <2>5
  <2> QED
    BY <2>3, <2>6, StdCallIs
<1>3. ASSUME copy_assign(v, o) PROVE StdInv'
  <2>1. CASE v = o
    BY <1>3, <2>1 DEF copy_assign, StdInv, stdVars
  <2>2. CASE v # o
    <3>1. PICK y : y = CopyAssign(std[v], std[o])
      OBVIOUS
    <3>2. PICK w \in BOOLEAN : w = (Len(stdRef[v]) = 0 \/ Len(stdRef[o]) > Cap(std[v]))
      OBVIOUS
    <3>3. StdCall(v, y, stdRef[o], w)
      BY <1>3, <2>2, <3>1, <3>2 DEF copy_assign, Count
    <3>4. Ends(y, stdRef[o], w)
      BY <1>1, <3>1, <3>2, CopyAssignIs
    <3> QED
      BY <3>3, <3>4, StdCallIs
  <2> QED
    BY <2>1, <2>2
<1>4. ASSUME Steal(v, o), v # o PROVE StdInv'
  <2>1. PICK y : y = [std[o] EXCEPT !.fault = @ \/ Destructor(std[v]).fault]
    OBVIOUS
  <2>2. std' = [std EXCEPT ![v] = y, ![o] = Empty] /\ stdRef' = [stdRef EXCEPT ![v] = stdRef[o], ![o] = <<>>]
    BY <1>4, <2>1 DEF Steal
  <2>3. stdOut' = stdWant' /\ stdLegal' = stdLegal
    BY <1>4 DEF Steal
  <2>4. y = std[o]
    <3>1. PICK d : d = Destructor(std[v])
      OBVIOUS
    <3>2. ~d.fault
      BY <1>1, <3>1, ClearStdIs DEF Lives, Laid
    <3>3. PICK x : x = std[o]
      OBVIOUS
    <3>4. x = [cells |-> x.cells, size |-> x.size, fault |-> x.fault] /\ x.fault = FALSE
      BY <1>1, <3>3 DEF Lives, Laid, StdShape
    <3>5. y = [x EXCEPT !.fault = x.fault \/ d.fault] /\ (x.fault \/ d.fault) = FALSE
      BY <2>1, <3>1, <3>2, <3>3, <3>4
    <3>6. y = [x EXCEPT !.fault = FALSE]
      BY <3>5
    <3>7. y = x
      BY <3>4, <3>6
    <3> QED
      BY <3>3, <3>7
  <2>5. /\ std'[v] = std[o] /\ std'[o] = Empty /\ stdRef'[v] = stdRef[o] /\ stdRef'[o] = <<>>
        /\ \A u \in StdVectors : u # v /\ u # o => std'[u] = std[u] /\ stdRef'[u] = stdRef[u]
        /\ std' = [u \in StdVectors |-> std'[u]] /\ stdRef' = [u \in StdVectors |-> stdRef'[u]]
    BY <1>1, <1>4, <2>2, <2>4
  <2>6. Lives(Empty, <<>>)
    BY EmptyLives
  <2>7. \A u \in StdVectors : Lives(std'[u], stdRef'[u])
    BY <1>1, <2>5, <2>6
  <2> QED
    BY <2>3, <2>5, <2>7 DEF StdInv
<1>5. ASSUME std_swap(v, o) PROVE StdInv'
  <2>1. std' = [std EXCEPT ![v] = std[o], ![o] = std[v]] /\ stdRef' = [stdRef EXCEPT ![v] = stdRef[o], ![o] = stdRef[v]]
    BY <1>5 DEF std_swap
  <2>2. stdOut' = stdWant' /\ stdLegal' = stdLegal
    BY <1>5 DEF std_swap
  <2>3. /\ std'[v] = std[o] /\ std'[o] = std[v] /\ stdRef'[v] = stdRef[o] /\ stdRef'[o] = stdRef[v]
        /\ \A u \in StdVectors : u # v /\ u # o => std'[u] = std[u] /\ stdRef'[u] = stdRef[u]
        /\ std' = [u \in StdVectors |-> std'[u]] /\ stdRef' = [u \in StdVectors |-> stdRef'[u]]
    BY <1>1, <2>1
  <2>4. \A u \in StdVectors : Lives(std'[u], stdRef'[u])
    BY <1>1, <2>3
  <2> QED
    BY <2>2, <2>3, <2>4 DEF StdInv
<1> QED
  BY <1>2, <1>3, <1>4, <1>5

LEMMA StdReads ==
    ASSUME StdInv, stdLegal, NEW v \in StdVectors, NEW i \in 0 .. Count(v), std_at(v, i)
    PROVE  StdInv'
<1>1. Lives(std[v], stdRef[v]) /\ Count(v) = Len(stdRef[v])
  BY DEF StdInv, Count
<1>2. /\ std[v].size = Len(stdRef[v]) /\ Len(stdRef[v]) \in Nat
      /\ \A j \in 1 .. Len(stdRef[v]) : std[v].cells[j] = stdRef[v][j]
  BY <1>1, LaidFacts DEF Lives
<1>3. stdOut' = stdWant'
  <2>1. CASE i < Len(stdRef[v])
    <3>1. ~(i >= std[v].size) /\ i + 1 \in 1 .. Len(stdRef[v])
      BY <1>1, <1>2, <2>1
    <3> QED
      BY <1>1, <1>2, <2>1, <3>1 DEF std_at
  <2>2. CASE ~(i < Len(stdRef[v]))
    <3>1. i >= std[v].size
      BY <1>1, <1>2, <2>2
    <3> QED
      BY <1>1, <2>2, <3>1 DEF std_at
  <2> QED
    BY <2>1, <2>2
<1>4. std' = std /\ stdRef' = stdRef /\ stdLegal' = stdLegal
  BY DEF std_at
<1> QED
  BY <1>3, <1>4 DEF StdInv

LEMMA StdStep ==
    ASSUME StdInv, [StdNext]_stdVars
    PROVE  StdInv'
<1>1. CASE UNCHANGED stdVars
  BY <1>1 DEF stdVars, StdInv
<1>2. CASE StdNext
  <2>1. stdLegal
    BY <1>2 DEF StdNext
  <2>2. PICK v \in StdVectors :
          \/ shrink_to_fit(v) \/ std_clear(v) \/ std_pop_back(v)
          \/ \E o \in StdVectors : \/ vector_copy(v, o) \/ vector_move(v, o)
                                   \/ copy_assign(v, o) \/ move_assign(v, o) \/ std_swap(v, o)
          \/ \E n \in 0 .. MaxSlots : \/ std_reserve(v, n) \/ std_resize(v, n, Value(StdDefault))
                                      \/ \E e \in StdElems : vector_count(v, n, e)
          \/ \E arg \in StdArgs(v) : \/ emplace_back(v, arg)
                                     \/ \E at \in 0 .. Count(v) : emplace(v, at, arg)
                                     \/ \E n \in 0 .. MaxSlots : std_resize(v, n, arg)
          \/ \E f \in 0 .. Count(v) : \E l \in f .. Count(v) : std_erase(v, f, l)
          \/ \E i \in 0 .. Count(v) : std_at(v, i)
    BY <1>2, Zenon DEF StdNext
  <2>3. CASE shrink_to_fit(v) \/ std_clear(v) \/ std_pop_back(v)
    BY <2>1, <2>3, StdCalls
  <2>4. ASSUME NEW o \in StdVectors,
               \/ vector_copy(v, o) \/ vector_move(v, o) \/ copy_assign(v, o) \/ move_assign(v, o) \/ std_swap(v, o)
        PROVE  StdInv'
    <3>1. CASE vector_copy(v, o) \/ copy_assign(v, o) \/ std_swap(v, o)
      BY <2>1, <3>1, StdPairs
    <3>2. CASE vector_move(v, o)
      BY <2>1, <3>2, StdPairs DEF vector_move
    <3>3. CASE move_assign(v, o)
      <4>1. CASE v = o
        BY <3>3, <4>1 DEF move_assign, stdVars, StdInv
      <4>2. CASE v # o
        BY <2>1, <3>3, <4>2, StdPairs DEF move_assign
      <4> QED
        BY <4>1, <4>2
    <3> QED
      BY <2>4, <3>1, <3>2, <3>3
  <2>5. ASSUME NEW n \in 0 .. MaxSlots,
               \/ std_reserve(v, n) \/ std_resize(v, n, Value(StdDefault)) \/ \E e \in StdElems : vector_count(v, n, e)
        PROVE  StdInv'
    <3>1. CASE std_reserve(v, n) \/ \E e \in StdElems : vector_count(v, n, e)
      BY <2>1, <3>1, StdCalls
    <3>2. CASE std_resize(v, n, Value(StdDefault))
      <4>1. StdArgFor(Value(StdDefault), stdRef[v])
        BY StdAssumption DEF StdArgFor
      <4> QED
        BY <2>1, <3>2, <4>1, StdArgCalls
    <3> QED
      BY <2>5, <3>1, <3>2
  <2>6. ASSUME NEW arg \in StdArgs(v),
               \/ emplace_back(v, arg)
               \/ \E at \in 0 .. Count(v) : emplace(v, at, arg)
               \/ \E n \in 0 .. MaxSlots : std_resize(v, n, arg)
        PROVE  StdInv'
    <3>1. StdArgFor(arg, stdRef[v])
      BY DEF StdArgs, StdArgFor, Count
    <3> QED
      BY <2>1, <2>6, <3>1, StdArgCalls
  <2>7. ASSUME NEW f \in 0 .. Count(v), NEW l \in f .. Count(v), std_erase(v, f, l) PROVE StdInv'
    BY <2>1, <2>7, StdCalls
  <2>8. ASSUME NEW i \in 0 .. Count(v), std_at(v, i) PROVE StdInv'
    BY <2>1, <2>8, StdReads
  <2> QED
    BY <2>2, <2>3, <2>4, <2>5, <2>6, <2>7, <2>8
<1> QED
  BY <1>1, <1>2

(* Whatever sequence of calls a program makes on however many vectors of    *)
(* version 3, the first size_ cells hold exactly the objects the calls      *)
(* should leave, and none was lost, constructed twice or used after its end *)
(* -- exactly as long as no argument was an element that the call itself    *)
(* destroys or moves, and no copy assignment reused memory with objects.    *)
THEOREM LifetimesAreSound == StdInit /\ [][StdNext]_stdVars => []LifetimesSound
<1>1. StdInit => StdInv
  BY EmptyLives DEF StdInit, StdInv
<1>2. StdInv /\ [StdNext]_stdVars => StdInv'
  BY StdStep
<1> QED
  BY <1>1, <1>2, StdInvSound, PTL
=============================================================================
