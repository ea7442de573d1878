----------------------------- MODULE MemoryPool ------------------------------
(***************************************************************************)
(* The memory pool of MemoryPool/C++98 and MemoryPool/C++11: blocks of     *)
(* BlockSize bytes from operator new, each with a pointer to the previous  *)
(* block at its start, cut into slots that are handed out in order; slots  *)
(* given back are linked through their own memory and handed out first.    *)
(*                                                                         *)
(* Addresses are numbers of AddrBits bits, so that the unsigned            *)
(* subtraction in padPointer wraps as size_t does.  Memory is a function   *)
(* from the addresses of its words, each PtrSize bytes, to their contents: *)
(* list pointers, block pointers and elements lie in the same words and    *)
(* overwrite each other when the code lets them.                           *)
(***************************************************************************)
EXTENDS Integers, FiniteSets, Functions

CONSTANTS PtrSize, SlotSize, BlockSize, AddrBits,
          Bases,    \* addresses operator new may return
          Values    \* elements

Words == {a \in 0 .. 2 ^ AddrBits - 1 : a % PtrSize = 0}

(* A union with a pointer is aligned like the pointer, so its size and the *)
(* addresses from operator new are multiples of PtrSize; so is the size of *)
(* the address space, both being powers of two.  The bound on BlockSize is *)
(* the assertion that the headers keep in a comment.                       *)
ASSUME SizesAssumption ==
  /\ PtrSize \in Nat \ {0}
  /\ 2 ^ AddrBits \in Nat \ {0} /\ 2 ^ AddrBits % PtrSize = 0
  /\ SlotSize \in Nat \ {0} /\ SlotSize % PtrSize = 0
  /\ BlockSize \in Nat /\ BlockSize >= 2 * SlotSize
ASSUME BasesAssumption ==
  Bases \subseteq {b \in Words \ {0} : b + BlockSize < 2 ^ AddrBits}

VARIABLES pool,     \* the four members of the pool
          mem,      \* contents of memory
          heap,     \* history: blocks obtained from operator new
          inUse     \* history: slots the client holds

poolVars == <<pool, mem, heap, inUse>>

Content == Values \cup Words

PoolType ==
  /\ pool \in [currentBlock : Nat, currentSlot : Nat, lastSlot : Nat, freeSlots : Nat]
  /\ mem \in [Words -> Content]
  /\ heap \in SUBSET Bases
  /\ inUse \in SUBSET Words

(* The default constructor; memory holds anything.                         *)
PoolInit ==
  /\ pool = [currentBlock |-> 0, currentSlot |-> 0, lastSlot |-> 0, freeSlots |-> 0]
  /\ \E v \in Values : mem = [a \in Words |-> v]
  /\ heap = {}
  /\ inUse = {}

-----------------------------------------------------------------------------
padPointer(p, align) == ((align - p) % 2 ^ AddrBits) % align

(* operator new: any block that overlaps no other.                         *)
FreshBlocks ==
  {b \in Bases : \A c \in heap : b + BlockSize <= c \/ c + BlockSize <= b}

FirstSlot(b) == b + PtrSize + padPointer(b + PtrSize, SlotSize)
LastSlot(b) == b + BlockSize - SlotSize + 1

(* What allocate may return, with the pool and the memory it leaves.       *)
FromFreeList ==
  {[slot |-> pool.freeSlots, mem |-> mem, heap |-> heap,
    pool |-> [pool EXCEPT !.freeSlots = mem[pool.freeSlots]]]}
FromBlock ==
  {[slot |-> pool.currentSlot, mem |-> mem, heap |-> heap,
    pool |-> [pool EXCEPT !.currentSlot = @ + SlotSize]]}
FromNewBlock ==
  {[slot |-> FirstSlot(b), heap |-> heap \cup {b},
    mem |-> [mem EXCEPT ![b] = pool.currentBlock],
    pool |-> [currentBlock |-> b, currentSlot |-> FirstSlot(b) + SlotSize,
              lastSlot |-> LastSlot(b), freeSlots |-> 0]] : b \in FreshBlocks}

allocate ==
  IF pool.freeSlots # 0 THEN FromFreeList
  ELSE IF pool.currentSlot >= pool.lastSlot THEN FromNewBlock ELSE FromBlock

Allocated(r, m) ==
  /\ pool' = r.pool
  /\ heap' = r.heap
  /\ inUse' = inUse \cup {r.slot}
  /\ mem' = m

(* The words of an element of SlotSize bytes at p.                         *)
WordsOf(p) == {a \in Words : p <= a /\ a < p + SlotSize}

construct(m, p, v) == [a \in Words |-> IF a \in WordsOf(p) THEN v ELSE m[a]]

Mut_deallocate(p) ==
  /\ pool' = [pool EXCEPT !.freeSlots = p]
  /\ mem' = mem
  /\ inUse' = inUse \ {p}
  /\ UNCHANGED heap
deallocate(p) ==
  /\ mem' = [mem EXCEPT ![p] = pool.freeSlots]
  /\ pool' = [pool EXCEPT !.freeSlots = p]
  /\ inUse' = inUse \ {p}
  /\ UNCHANGED heap

-----------------------------------------------------------------------------
(* Lists linked through memory, followed for at most as many steps as      *)
(* there are blocks or slots.                                              *)
MaxSlots == Cardinality(heap) * (BlockSize \div SlotSize)
Path(start) ==
  LET w[k \in 0 .. MaxSlots + 1] ==
        IF k = 0 THEN start
        ELSE IF w[k - 1] \in Words \ {0} THEN mem[w[k - 1]] ELSE 0
  IN  w
Reached(start) == Range(Path(start)) \ {0}
IsList(start) == Path(start)[MaxSlots + 1] = 0

FreeList == Reached(pool.freeSlots)

Inside(p, b) == b + PtrSize <= p /\ p + SlotSize <= b + BlockSize

(* Every slot that the client holds or that is on the free list lies       *)
(* inside one block, past the pointer at the block's start, and is aligned *)
(* for a pointer.                                                          *)
SlotsInsideBlocks ==
  \A p \in inUse \cup FreeList : p \in Words /\ \E b \in heap : Inside(p, b)

(* No two slots overlap: neither two that are held, nor a held and a free  *)
(* one, nor either with the part of the current block that is not cut yet. *)
SlotsDisjoint ==
  /\ inUse \cap FreeList = {}
  /\ \A p, q \in inUse \cup FreeList : p < q => p + SlotSize <= q
  /\ pool.currentSlot < pool.lastSlot =>
       \A p \in inUse \cup FreeList :
         p < pool.currentBlock \/ p >= pool.currentBlock + BlockSize
         \/ p + SlotSize <= pool.currentSlot

(* The free list ends: no element the client writes, and no order of       *)
(* giving slots back, makes it cyclic or leaves the pool.                  *)
FreeListEnds == IsList(pool.freeSlots) /\ FreeList \subseteq Words

(* ~MemoryPool follows the pointers at the starts of the blocks: it gives  *)
(* every block back once, and only blocks.                                 *)
DestructorFreesAll ==
  IsList(pool.currentBlock) /\ Reached(pool.currentBlock) = heap

(* max_size counts (BlockSize - sizeof(char* )) / sizeof(Slot_) elements   *)
(* for each block: the pool never hands out more.                          *)
WithinMaxSize ==
  Cardinality(inUse \cup FreeList)
    <= ((BlockSize - PtrSize) \div SlotSize) * Cardinality(heap)

(* The arithmetic on addresses is right: slots are inside the blocks,      *)
(* apart from each other, and no more than max_size says.                  *)
SlotsSound == SlotsInsideBlocks /\ SlotsDisjoint /\ WithinMaxSize

(* The lists kept in the managed memory are intact, whatever the client    *)
(* writes into its slots.                                                  *)
ListsIntact == FreeListEnds /\ DestructorFreesAll
=============================================================================
