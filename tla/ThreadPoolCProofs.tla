-------------------------- MODULE ThreadPoolCProofs --------------------------
(***************************************************************************)
(* TLAPS proofs about ThreadPoolC, for every minimum and maximum of        *)
(* threads, every capacity and any number of producers and tasks, when     *)
(* threadPoolDestroy is called after the last threadPoolAdd (main.c).      *)
(***************************************************************************)
EXTENDS ThreadPoolC, ProofLemmas

Live == {w \in Slots : worker[w] \notin {"none", "exiting"}}
Busy == {w \in Slots : worker[w] \in {"running", "ran"}}

(* Who is inside threadPoolAdd, with which task, and when nobody is.       *)
Calls ==
  /\ shutdown <=> main # "running"
  /\ main # "running" => \A p \in Producers : producer[p] = "idle"
  /\ \A p \in Producers :
       /\ producer[p] \in {"idle", "waiting", "woken"}
       /\ producer[p] = "idle" <=> arg[p] = NoTask
       /\ arg[p] \notin added
  /\ \A p, q \in Producers : arg[p] = arg[q] /\ arg[p] # NoTask => p = q

(* The counters count: busyNum the workers between its two critical        *)
(* sections, liveNum, until the shutdown, the workers that are not leaving.*)
Threads ==
  /\ busyNum = Cardinality(Busy)
  /\ LiveWithinBounds
  /\ ~shutdown => liveNum = Cardinality(Live)

TasksPlaced == Conserved(Pending, Held, task, done, added)

IInv == TypeOK /\ RingConsistent /\ Calls /\ Threads /\ TasksPlaced

-----------------------------------------------------------------------------
(* pthread_cond_signal moves at most one thread, from its wait to the race *)
(* for the lock.                                                           *)
LEMMA SignalLemma ==
  ASSUME NEW f \in [Slots -> WorkerPc], NEW g \in Signal(f)
  PROVE  /\ g \in [Slots -> WorkerPc]
         /\ \A w \in Slots : g[w] = f[w] \/ (f[w] = "waiting" /\ g[w] = "woken")
  <1>1. CASE g = f
        BY <1>1
  <1>2. CASE \E w \in Slots : f[w] = "waiting" /\ g = [f EXCEPT ![w] = "woken"]
        BY <1>2 DEF WorkerPc
  <1>3. QED
        BY <1>1, <1>2 DEF Signal

LEMMA NotFullLemma ==
  ASSUME TypeOK, producer' \in SignalNotFull
  PROVE  /\ producer' \in [Producers -> ProducerPc]
         /\ \A p \in Producers : \/ producer'[p] = producer[p]
                                 \/ producer[p] = "waiting" /\ producer'[p] = "woken"
  <1> USE DEF TypeOK
  <1>1. CASE producer' = producer
        BY <1>1
  <1>2. CASE \E p \in Producers : /\ producer[p] = "waiting"
                                  /\ producer' = [producer EXCEPT ![p] = "woken"]
        BY <1>2 DEF ProducerPc
  <1>3. QED
        BY <1>1, <1>2 DEF SignalNotFull

LEMMA NextCases ==
  ASSUME [Next]_vars
  PROVE  \/ \E w \in Slots :
              \/ WorkerLock(w) \/ WorkerWait(w) \/ SpuriousWakeup(w) \/ WorkerRetire(w)
              \/ WorkerStay(w) \/ WorkerBusy(w) \/ WorkerRun(w) \/ WorkerNotBusy(w)
              \/ threadDestroy(w)
         \/ ManagerCheck \/ ManagerSample \/ ManagerBusy \/ ManagerGrow
         \/ ManagerNoGrow \/ ManagerShrink \/ ManagerNoShrink \/ ManagerSignal
         \/ \E p \in Producers : \/ \E t \in Tasks : threadPoolAdd(p, t)
                                 \/ AddWoken(p) \/ AddUnlocked(p)
                                 \/ AddSpuriousWakeup(p)
         \/ DestroyShutdown \/ DestroyJoin \/ DestroySignal \/ DestroyFree
         \/ UNCHANGED vars
  BY DEF Next, WorkerStep, ManagerStep, ProducerStep, DestroyStep

(* Without a call after the shutdown, an add waits or puts: the path that  *)
(* runs on without the lock is never taken.                                *)
LEMMA AddCases ==
  ASSUME JoinProducers, TypeOK, Calls, NEW p \in Producers,
         \/ \E t \in Tasks : threadPoolAdd(p, t)
         \/ AddWoken(p) \/ AddUnlocked(p) \/ AddSpuriousWakeup(p)
  PROVE  \/ AddSpuriousWakeup(p)
         \/ \E t \in Tasks :
              /\ ~ shutdown /\ main = "running"
              /\ t \notin added /\ producer[p] \in {"idle", "woken"}
              /\ \A q \in Producers \ {p} : arg[q] # t
              /\ AddWaits(p, t) \/ AddPuts(p, t)
              /\ UNCHANGED mutexPool /\ AddUnchanged
  <1> USE DEF AddTest, AddUnlocks, AddPuts, Calls
  <1>1. ASSUME NEW t \in Tasks, threadPoolAdd(p, t)
        PROVE  /\ ~ shutdown /\ main = "running"
               /\ t \notin added /\ producer[p] = "idle"
               /\ \A q \in Producers \ {p} : arg[q] # t
               /\ AddWaits(p, t) \/ AddPuts(p, t)
               /\ UNCHANGED mutexPool /\ AddUnchanged
        BY <1>1 DEF threadPoolAdd
  <1>2. ASSUME AddWoken(p)
        PROVE  /\ ~ shutdown /\ main = "running" /\ arg[p] \in Tasks
               /\ arg[p] \notin added /\ producer[p] = "woken"
               /\ \A q \in Producers \ {p} : arg[q] # arg[p]
               /\ AddWaits(p, arg[p]) \/ AddPuts(p, arg[p])
               /\ UNCHANGED mutexPool /\ AddUnchanged
        BY <1>2 DEF AddWoken, TypeOK
  <1>3. ~ AddUnlocked(p)
        BY DEF AddUnlocked
  <1>4. QED
        BY <1>1, <1>2, <1>3

-----------------------------------------------------------------------------
(* The ring as a queue.                                                    *)
LEMMA PendingLemma ==
  ASSUME TypeOK, RingConsistent, TasksPlaced
  PROVE  /\ queueSize \in 0 .. Capacity
         /\ Pending \in Seq(Tasks) /\ Len(Pending) = queueSize
         /\ DOMAIN Pending = 1 .. queueSize
         /\ \A i \in 1 .. queueSize :
              Pending[i] = taskQ[(queueFront + i - 1) % Capacity]
  <1>1. queueSize \in Nat /\ queueSize \in 0 .. Capacity
        BY DEF TypeOK, RingConsistent
  <1>2. DOMAIN Pending = 1 .. queueSize
        BY DEF Pending
  <1>3. \A i \in 1 .. queueSize : Pending[i] \in Tasks
        BY <1>2 DEF TasksPlaced, Conserved, TypeOK
  <1>4. Pending = [i \in 1 .. queueSize |-> Pending[i]]
        BY DEF Pending
  <1>5. Pending \in [1 .. queueSize -> Tasks]
        BY <1>3, <1>4
  <1>6. QED
        BY <1>1, <1>2, <1>5 DEF Pending

(* A dequeue takes the first task of the ring.                             *)
LEMMA DequeueEffect ==
  ASSUME TypeOK, RingConsistent, TasksPlaced, NEW w \in Slots, Dequeue(w)
  PROVE  /\ Pending # <<>> /\ FrontTask = Head(Pending) /\ FrontTask \in Tasks
         /\ Pending' = Tail(Pending)
         /\ queueFront' \in Ring /\ queueSize' \in Nat
         /\ RingConsistent'
  <1>1. /\ queueFront \in 0 .. (Capacity - 1) /\ Capacity \in Nat \ {0}
        /\ queueSize \in 1 .. Capacity
        /\ queueSize' = queueSize - 1 /\ taskQ' = taskQ /\ queueRear' = queueRear
        /\ queueFront' = (queueFront + 1) % Capacity
        BY PendingLemma, ConstantsAssumption
        DEF TypeOK, Ring, Dequeue, MustWait, NextFront
  <1>2. queueFront % Capacity = queueFront
        BY <1>1, WrapOnce
  <1>3. queueFront' \in 0 .. (Capacity - 1)
        /\ queueFront' = IF queueFront + 1 = Capacity THEN 0 ELSE queueFront + 1
    <2> DEFINE a == queueFront + 1
    <2>1. a \in 0 .. (2 * Capacity - 1) /\ queueFront' = a % Capacity
          BY <1>1
    <2> HIDE DEF a
    <2>2. queueFront' = IF a < Capacity THEN a ELSE a - Capacity
          BY <1>1, <2>1, WrapOnce
    <2>3. QED
          BY <1>1, <2>2 DEF a
  <1>4. ASSUME NEW j \in 0 .. (Capacity - 1)
        PROVE  (queueFront' + j) % Capacity = (queueFront + 1 + j) % Capacity
    <2> DEFINE g == queueFront'
    <2> HIDE DEF g
    <2>1. /\ g + j \in 0 .. (2 * Capacity - 1)
          /\ queueFront + 1 + j \in 0 .. (2 * Capacity - 1)
          /\ g = IF queueFront + 1 = Capacity THEN 0 ELSE queueFront + 1
          BY <1>1, <1>3 DEF g
    <2> DEFINE a == g + j
               b == queueFront + 1 + j
    <2>2. /\ a % Capacity = IF a < Capacity THEN a ELSE a - Capacity
          /\ b % Capacity = IF b < Capacity THEN b ELSE b - Capacity
      <3> HIDE DEF a, b
      <3>1. a \in 0 .. (2 * Capacity - 1) /\ b \in 0 .. (2 * Capacity - 1)
            BY <2>1 DEF a, b
      <3>2. QED
            BY <1>1, <3>1, WrapOnce
    <2>3. (g + j) % Capacity = (queueFront + 1 + j) % Capacity
          BY <1>1, <2>1, <2>2
    <2>4. QED
          BY <2>3 DEF g
  <1>5. RingConsistent'
    <2>1. queueSize - 1 \in 0 .. (Capacity - 1)
          /\ queueFront + 1 + (queueSize - 1) = queueFront + queueSize
          BY <1>1
    <2>2. (queueFront' + (queueSize - 1)) % Capacity = (queueFront + queueSize) % Capacity
          BY <1>4, <2>1
    <2>3. QED
          BY <1>1, <2>1, <2>2 DEF RingConsistent
  <1>6. /\ Pending \in Seq(Tasks) /\ Len(Pending) = queueSize
        /\ Pending # <<>> /\ Head(Pending) = Pending[1] /\ Pending[1] \in Tasks
        /\ Pending[1] = taskQ[queueFront]
    <2>1. /\ Pending \in Seq(Tasks) /\ Len(Pending) = queueSize
          /\ Pending[1] = taskQ[(queueFront + 1 - 1) % Capacity]
          BY <1>1, PendingLemma
    <2>2. queueFront + 1 - 1 = queueFront
          BY <1>1
    <2>3. Pending # <<>>
          BY <1>1, <2>1
    <2>4. Pending[1] = taskQ[queueFront]
          BY <1>2, <2>1, <2>2
    <2>5. QED
          BY <1>1, <2>1, <2>3, <2>4, PopFront
  <1>7. ASSUME NEW i \in 1 .. (queueSize - 1)
        PROVE  taskQ[(queueFront' + i - 1) % Capacity] = Pending[i + 1]
    <2>1. /\ i - 1 \in 0 .. (Capacity - 1)
          /\ i + 1 \in 1 .. queueSize
          /\ queueFront + 1 + (i - 1) = queueFront + (i + 1) - 1
          /\ queueFront' + (i - 1) = queueFront' + i - 1
          BY <1>1, <1>3
    <2>2. (queueFront' + i - 1) % Capacity = (queueFront + (i + 1) - 1) % Capacity
          BY <1>4, <2>1
    <2>3. QED
          BY <2>1, <2>2, PendingLemma
  <1>8. Pending' = Tail(Pending)
    <2>1. Pending' = [i \in 1 .. (queueSize - 1)
                        |-> taskQ[(queueFront' + i - 1) % Capacity]]
          BY <1>1 DEF Pending
    <2>2. /\ queueSize - 1 \in Nat /\ Len(Pending) = (queueSize - 1) + 1
          /\ Pending' = [i \in 1 .. (queueSize - 1) |-> Pending[i + 1]]
          BY <1>1, <1>6, <1>7, <2>1
    <2>3. QED
          BY <1>6, <2>2, TailIs
  <1>9. QED
        BY <1>1, <1>3, <1>5, <1>6, <1>8 DEF FrontTask, Ring

(* An add puts its task behind the last one of the ring.                   *)
LEMMA PutEffect ==
  ASSUME TypeOK, RingConsistent, TasksPlaced, ~ Full,
         NEW p \in Producers, NEW t \in Tasks, Put(p, t), queueFront' = queueFront
  PROVE  /\ Pending' = Append(Pending, t)
         /\ queueRear' \in Ring /\ queueSize' \in Nat
         /\ taskQ' \in [Ring -> Tasks \cup {NoTask}]
         /\ RingConsistent'
  <1> DEFINE C == Capacity
             F == queueFront
             n == queueSize
  <1>1. /\ F \in 0 .. (C - 1) /\ C \in Nat \ {0} /\ n \in 0 .. (C - 1)
        /\ queueRear = (F + n) % C /\ queueRear' = (queueRear + 1) % C
        /\ queueSize' = n + 1
        /\ taskQ \in [0 .. (C - 1) -> Tasks \cup {NoTask}]
        /\ taskQ' = [taskQ EXCEPT ![queueRear] = t]
        BY PendingLemma, ConstantsAssumption
        DEF TypeOK, Ring, Put, Full, NextRear, RingConsistent
  <1>2. ASSUME NEW j \in 0 .. C
        PROVE  /\ F + j \in 0 .. (2 * C - 1)
               /\ (F + j) % C = IF F + j < C THEN F + j ELSE F + j - C
    <2>1. F + j \in 0 .. (2 * C - 1)
          BY <1>1
    <2>2. (F + j) % C = IF F + j < C THEN F + j ELSE F + j - C
          BY <1>1, WrapSum
    <2>3. QED
          BY <2>1, <2>2
  <1>3. /\ queueRear \in 0 .. (C - 1)
        /\ queueRear = IF F + n < C THEN F + n ELSE F + n - C
    <2>1. n \in 0 .. C
          BY <1>1
    <2>2. queueRear = IF F + n < C THEN F + n ELSE F + n - C
          BY <1>1, <1>2, <2>1
    <2>3. QED
          BY <1>1, <2>2
  <1>4. queueRear' = (F + (n + 1)) % C /\ queueRear' \in 0 .. (C - 1)
    <2> DEFINE a == queueRear + 1
    <2>1. a \in 0 .. (2 * C - 1)
          BY <1>1, <1>3
    <2> HIDE DEF a
    <2>a. a % C = IF a < C THEN a ELSE a - C
          BY <1>1, <2>1, WrapOnce
    <2>2. queueRear' = IF queueRear + 1 < C THEN queueRear + 1 ELSE queueRear + 1 - C
          BY <1>1, <2>a DEF a
    <2>3. n + 1 \in 0 .. C
          BY <1>1
    <2>4. (F + (n + 1)) % C = IF F + (n + 1) < C THEN F + (n + 1) ELSE F + (n + 1) - C
          BY <1>2, <2>3
    <2>5. QED
          BY <1>1, <1>3, <2>2, <2>4
  <1>5. RingConsistent'
        BY <1>1, <1>4 DEF RingConsistent
  <1>6. ASSUME NEW i \in 1 .. n
        PROVE  taskQ'[(F + i - 1) % C] = taskQ[(F + i - 1) % C]
    <2>1. i - 1 \in 0 .. C /\ F + (i - 1) = F + i - 1 /\ i - 1 \in 0 .. (n - 1)
          BY <1>1
    <2>2. (F + i - 1) % C = IF F + (i - 1) < C THEN F + (i - 1) ELSE F + (i - 1) - C
          BY <1>2, <2>1
    <2>3. (F + i - 1) % C # queueRear /\ (F + i - 1) % C \in 0 .. (C - 1)
          BY <1>1, <1>3, <2>1, <2>2
    <2>4. QED
          BY <1>1, <2>3
  <1>7. taskQ'[(F + (n + 1) - 1) % C] = t
    <2>1. F + (n + 1) - 1 = F + n
          BY <1>1
    <2>2. QED
          BY <1>1, <1>3, <2>1
  <1>8. Pending' = Append(Pending, t)
    <2>1. /\ Pending \in Seq(Tasks) /\ Len(Pending) = n /\ n + 1 \in Nat
          /\ \A i \in 1 .. n : Pending[i] = taskQ[(F + i - 1) % C]
          BY <1>1, PendingLemma
    <2>2. Pending' = [i \in 1 .. (n + 1) |-> taskQ'[(F + i - 1) % C]]
          BY <1>1 DEF Pending
    <2>4. ASSUME NEW i \in 1 .. (n + 1)
          PROVE  taskQ'[(F + i - 1) % C] = IF i = n + 1 THEN t ELSE Pending[i]
      <3>1. CASE i = n + 1
            BY <1>7, <3>1
      <3>2. CASE i # n + 1
        <4>1. i \in 1 .. n
              BY <1>1, <3>2
        <4>2. QED
              BY <1>6, <2>1, <3>2, <4>1
      <3>3. QED
            BY <3>1, <3>2
    <2>5. Pending' = [i \in 1 .. (n + 1) |-> IF i = n + 1 THEN t ELSE Pending[i]]
          BY <2>2, <2>4
    <2>6. QED
          BY <2>1, <2>5, AppendIs
  <1>9. taskQ' \in [Ring -> Tasks \cup {NoTask}]
        BY <1>1 DEF Ring
  <1>10. QED
        BY <1>1, <1>4, <1>5, <1>8, <1>9 DEF Ring

-----------------------------------------------------------------------------
(* What a step is to the tasks: a dequeue, the end of a task, an add, or   *)
(* none of these.                                                          *)
Quiet ==
  UNCHANGED <<taskQ, queueSize, queueFront, queueRear, task, added, done>>

LEMMA LoopTestCases ==
  ASSUME NEW w \in Slots, LoopTest(w)
  PROVE  LoopTestWaits(w) \/ LoopTestQuits(w) \/ Dequeue(w)
  BY DEF LoopTest

LEMMA HeldLemma ==
  ASSUME TypeOK, TasksPlaced, NEW w \in Slots, worker[w] \in {"dequeued", "running"}
  PROVE  w \in Held /\ task[w] \in added /\ task[w] \in Tasks
  BY DEF TypeOK, TasksPlaced, Conserved, Held

-----------------------------------------------------------------------------
LEMMA SlotsFinite == IsFiniteSet(Slots) /\ Slots \in SUBSET Int
  BY FS_Interval, ConstantsAssumption DEF Slots

(* The manager fills at most NUMBER slots and never more than there is     *)
(* room for.                                                               *)
LEMMA SlotsToFillBound ==
  ASSUME TypeOK, LiveWithinBounds
  PROVE  /\ SlotsToFill \subseteq EmptySlots /\ IsFiniteSet(SlotsToFill)
         /\ Cardinality(SlotsToFill) \in Nat
         /\ liveNum + Cardinality(SlotsToFill) <= MaxNum
  <1> DEFINE k == Min({NUMBER, Room})
  <1>1. EmptySlots \in SUBSET Int /\ IsFiniteSet(EmptySlots)
        BY SlotsFinite, FS_Subset DEF EmptySlots
  <1>2. /\ liveNum \in Nat /\ MaxNum \in Nat /\ MinNum \in Nat
        /\ liveNum <= MaxNum
        BY ConstantsAssumption DEF TypeOK, LiveWithinBounds
  <1>3. k \in Nat /\ k <= MaxNum - liveNum
    <2>1. NUMBER \in Int /\ Room \in Nat /\ NUMBER \in Nat /\ Room = MaxNum - liveNum
          BY <1>2 DEF NUMBER, Room
    <2>2. k = IF NUMBER <= Room THEN NUMBER ELSE Room
          BY <2>1, MinOfTwo
    <2>3. QED
          BY <2>1, <2>2
  <1> HIDE DEF k
  <1>4. SlotsToFill = {i \in EmptySlots : Cardinality({j \in EmptySlots : j < i}) < k}
        BY DEF SlotsToFill, k
  <1>5. /\ IsFiniteSet(SlotsToFill) /\ Cardinality(SlotsToFill) \in Nat
        /\ Cardinality(SlotsToFill) <= k
        BY <1>1, <1>3, <1>4, LowestFew
  <1>6. QED
        BY <1>2, <1>3, <1>4, <1>5

LEMMA BusyFinite ==
  /\ IsFiniteSet(Busy) /\ Cardinality(Busy) \in Nat
  /\ IsFiniteSet(Live) /\ Cardinality(Live) \in Nat
  /\ IsFiniteSet(Held)
  BY SlotsFinite, FS_Subset, FS_CardinalityType DEF Busy, Live, Held

-----------------------------------------------------------------------------
LEMMA TypeStep ==
  ASSUME JoinProducers, TypeOK, RingConsistent, Calls, Threads, TasksPlaced,
         [Next]_vars
  PROVE  TypeOK'
  <1> USE ConstantsAssumption
      DEF TypeOK, WorkerPc, ManagerPc, ProducerPc, MainPc, NUMBER
  <1>0. LiveWithinBounds
        BY DEF Threads
  <1>a. ASSUME NEW w \in Slots, LoopTest(w), exitNum' \in 0 .. NUMBER,
               UNCHANGED <<busyNum, liveNum, shutdown, manager, arg, added, mainVars, done>>
        PROVE  TypeOK'
    <2>1. CASE LoopTestWaits(w)
          BY <1>a, <2>1 DEF LoopTestWaits, queueVars, mainVars
    <2>2. CASE LoopTestQuits(w)
          BY <1>a, <2>2 DEF LoopTestQuits, queueVars, mainVars
    <2>3. CASE Dequeue(w)
      <3>1. /\ FrontTask \in Tasks /\ queueFront' \in Ring /\ queueSize' \in Nat
            BY <1>0, <2>3, DequeueEffect
      <3>2. producer' \in [Producers -> ProducerPc]
            BY <2>3, NotFullLemma DEF Dequeue
      <3>3. QED
            BY <1>a, <2>3, <3>1, <3>2 DEF Dequeue, mainVars
    <2>4. QED
          BY <1>a, <2>1, <2>2, <2>3, LoopTestCases
  <1>1. ASSUME NEW w \in Slots, WorkerLock(w) PROVE TypeOK'
    <2>1. exitNum' \in 0 .. NUMBER
          BY <1>1 DEF WorkerLock
    <2>2. QED
          BY <1>1, <1>a, <2>1 DEF WorkerLock
  <1>2. ASSUME NEW w \in Slots, WorkerStay(w) PROVE TypeOK'
    <2>1. exitNum' \in 0 .. NUMBER
          BY <1>2 DEF WorkerStay
    <2>2. QED
          BY <1>2, <1>a, <2>1 DEF WorkerStay
  <1>3. ASSUME NEW w \in Slots, WorkerWait(w) \/ SpuriousWakeup(w) \/ threadDestroy(w)
        PROVE  TypeOK'
        BY <1>3 DEF WorkerWait, SpuriousWakeup, threadDestroy, queueVars, producerVars,
           mainVars
  <1>4. ASSUME NEW w \in Slots, WorkerRetire(w) PROVE TypeOK'
        BY <1>4 DEF WorkerRetire, Retires, queueVars, producerVars, mainVars
  <1>5. ASSUME NEW w \in Slots, WorkerBusy(w) PROVE TypeOK'
        BY <1>5 DEF WorkerBusy, queueVars, producerVars, mainVars
  <1>6. ASSUME NEW w \in Slots, WorkerRun(w) PROVE TypeOK'
    <2>1. task[w] \in Tasks
          BY <1>0, <1>6, HeldLemma DEF WorkerRun
    <2>2. QED
          BY <1>6, <2>1 DEF WorkerRun, queueVars, producerVars, mainVars
  <1>7. ASSUME NEW w \in Slots, WorkerNotBusy(w) PROVE TypeOK'
    <2>1. Busy # {} /\ busyNum = Cardinality(Busy)
          BY <1>0, <1>7 DEF WorkerNotBusy, Busy, Threads
    <2>2. busyNum # 0
          BY <2>1, BusyFinite, FS_EmptySet
    <2>3. QED
          BY <1>7, <2>2 DEF WorkerNotBusy, BusyAfter, queueVars, producerVars, mainVars
  <1>8. CASE ManagerCheck \/ ManagerSample \/ ManagerBusy \/ ManagerNoGrow
             \/ ManagerShrink \/ ManagerNoShrink
    <2> USE DEF ManagerUnchanged, Locals, queueVars, producerVars, mainVars
    <2>1. CASE ManagerCheck
          BY <2>1 DEF ManagerCheck
    <2>2. CASE ManagerSample
          BY <2>2 DEF ManagerSample
    <2>3. CASE ManagerBusy
          BY <2>3 DEF ManagerBusy
    <2>4. CASE ManagerNoGrow
          BY <2>4 DEF ManagerNoGrow
    <2>5. CASE ManagerShrink
          BY <2>5 DEF ManagerShrink
    <2>6. CASE ManagerNoShrink
          BY <2>6 DEF ManagerNoShrink
    <2> HIDE DEF TypeOK
    <2>7. QED
          BY <1>8, <2>1, <2>2, <2>3, <2>4, <2>5, <2>6
  <1>9. CASE ManagerGrow
    <2>1. Cardinality(SlotsToFill) \in Nat
          BY <1>0, SlotsToFillBound
    <2>2. QED
          BY <1>9, <2>1 DEF ManagerGrow, ManagerUnchanged, queueVars, producerVars, mainVars
  <1>10. CASE ManagerSignal
    <2>1. worker' \in [Slots -> WorkerPc]
          BY <1>10, SignalLemma DEF ManagerSignal
    <2>2. QED
          BY <1>10, <2>1 DEF ManagerSignal, Locals, ManagerUnchanged, queueVars,
             producerVars, mainVars
  <1>11. ASSUME NEW p \in Producers, AddSpuriousWakeup(p) PROVE TypeOK'
        BY <1>11 DEF AddSpuriousWakeup, AddUnchanged, mainVars
  <1>12. ASSUME NEW p \in Producers, NEW t \in Tasks, AddWaits(p, t),
                UNCHANGED mutexPool, AddUnchanged
         PROVE  TypeOK'
        BY <1>12 DEF AddWaits, AddUnchanged, mainVars
  <1>13. ASSUME NEW p \in Producers, NEW t \in Tasks, AddPuts(p, t),
                UNCHANGED mutexPool, AddUnchanged
         PROVE  TypeOK'
    <2>1. /\ queueRear' \in Ring /\ queueSize' \in Nat
          /\ taskQ' \in [Ring -> Tasks \cup {NoTask}]
          BY <1>0, <1>13, PutEffect DEF AddPuts, AddUnchanged
    <2>2. worker' \in [Slots -> WorkerPc]
          BY <1>13, SignalLemma DEF AddPuts, Put
    <2>3. QED
          BY <1>13, <2>1, <2>2 DEF AddPuts, Put, AddUnchanged, mainVars
  <1>14. CASE DestroyShutdown \/ DestroyJoin \/ DestroyFree
        BY <1>14 DEF DestroyShutdown, DestroyJoin, DestroyFree, MainUnchanged,
           queueVars, producerVars
  <1>15. CASE DestroySignal
    <2>1. worker' \in [Slots -> WorkerPc]
          BY <1>15, SignalLemma DEF DestroySignal
    <2>2. QED
          BY <1>15, <2>1 DEF DestroySignal, MainUnchanged, queueVars, producerVars
  <1>16. CASE UNCHANGED vars
        BY <1>16 DEF vars, queueVars, workerVars, producerVars, mainVars
  <1>17. QED
    <2>1. ASSUME NEW p \in Producers,
                 \/ \E t \in Tasks : threadPoolAdd(p, t)
                 \/ AddWoken(p) \/ AddUnlocked(p) \/ AddSpuriousWakeup(p)
          PROVE  TypeOK'
          BY <1>0, <1>11, <1>12, <1>13, <2>1, AddCases
    <2> HIDE DEF TypeOK
    <2>2. QED
          BY NextCases, <1>1, <1>2, <1>3, <1>4, <1>5, <1>6, <1>7, <1>8, <1>9, <1>10,
             <1>14, <1>15, <1>16, <2>1

-----------------------------------------------------------------------------
(* A signal changes who waits, and no set of workers the counters know.    *)
LEMMA SignalKeepsSets ==
  ASSUME TypeOK, worker' \in Signal(worker)
  PROVE  Held' = Held /\ Busy' = Busy /\ Live' = Live
  <1>1. \A w \in Slots : \/ worker'[w] = worker[w]
                         \/ worker[w] = "waiting" /\ worker'[w] = "woken"
        BY SignalLemma DEF TypeOK
  <1>2. QED
        BY <1>1 DEF Held, Busy, Live

Starts(w) ==
  /\ Dequeue(w) /\ ~ shutdown
  /\ w \notin Held /\ Held' = Held \cup {w}
  /\ UNCHANGED <<added, done>>

Finishes(w) ==
  /\ WorkerRun(w)
  /\ w \in Held /\ Held' = Held \ {w}

Submits(t) ==
  /\ t \notin added /\ ~ Full
  /\ \E p \in Producers : Put(p, t)
  /\ UNCHANGED <<queueFront, task, done>> /\ Held' = Held

LEMMA TaskSteps ==
  ASSUME JoinProducers, TypeOK, Calls, [Next]_vars
  PROVE  \/ Quiet /\ Held' = Held
         \/ \E w \in Slots : Starts(w) \/ Finishes(w)
         \/ \E t \in Tasks : Submits(t)
  <1> USE DEF Quiet, queueVars, producerVars, mainVars
  <1>1. ASSUME NEW w \in Slots, WorkerLock(w) \/ WorkerStay(w)
        PROVE  (Quiet /\ Held' = Held) \/ Starts(w)
    <2>0. worker[w] \in {"lock", "woken"} /\ LoopTest(w) /\ UNCHANGED <<added, done>>
          BY <1>1 DEF WorkerLock, WorkerStay
    <2>1. CASE LoopTestWaits(w)
          BY <2>0, <2>1 DEF LoopTestWaits, Held, TypeOK
    <2>2. CASE LoopTestQuits(w)
          BY <2>0, <2>2 DEF LoopTestQuits, Held, TypeOK
    <2>3. CASE Dequeue(w)
          BY <2>0, <2>3 DEF Dequeue, Starts, Held, TypeOK
    <2>4. QED
          BY <2>0, <2>1, <2>2, <2>3, LoopTestCases
  <1>2. ASSUME NEW w \in Slots, \/ WorkerWait(w) \/ SpuriousWakeup(w) \/ WorkerRetire(w)
                                \/ WorkerBusy(w) \/ WorkerNotBusy(w) \/ threadDestroy(w)
        PROVE  Quiet /\ Held' = Held
        BY <1>2 DEF WorkerWait, SpuriousWakeup, WorkerRetire, WorkerBusy, WorkerNotBusy,
           threadDestroy, Held, TypeOK
  <1>3. ASSUME NEW w \in Slots, WorkerRun(w) PROVE Finishes(w)
        BY <1>3 DEF WorkerRun, Finishes, Held, TypeOK
  <1>4. CASE ManagerCheck \/ ManagerSample \/ ManagerBusy \/ ManagerNoGrow
             \/ ManagerShrink \/ ManagerNoShrink
        BY <1>4 DEF ManagerCheck, ManagerSample, ManagerBusy, ManagerNoGrow,
           ManagerShrink, ManagerNoShrink, ManagerUnchanged, Held
  <1>5. CASE ManagerGrow
        BY <1>5 DEF ManagerGrow, ManagerUnchanged, Held, SlotsToFill, EmptySlots
  <1>6. CASE ManagerSignal \/ DestroySignal
        BY <1>6, SignalKeepsSets
        DEF ManagerSignal, ManagerUnchanged, DestroySignal, MainUnchanged
  <1>7. ASSUME NEW p \in Producers,
               \/ \E t \in Tasks : threadPoolAdd(p, t)
               \/ AddWoken(p) \/ AddUnlocked(p) \/ AddSpuriousWakeup(p)
        PROVE  (Quiet /\ Held' = Held) \/ \E t \in Tasks : Submits(t)
    <2>1. CASE AddSpuriousWakeup(p)
          BY <2>1 DEF AddSpuriousWakeup, AddUnchanged, Held
    <2>2. ASSUME NEW t \in Tasks, t \notin added, AddUnchanged,
                 AddWaits(p, t) \/ AddPuts(p, t)
          PROVE  (Quiet /\ Held' = Held) \/ Submits(t)
      <3>1. CASE AddWaits(p, t)
            BY <2>2, <3>1 DEF AddWaits, AddUnchanged, Held
      <3>2. CASE AddPuts(p, t)
        <4>1. Held' = Held
              BY <3>2, SignalKeepsSets DEF AddPuts, Put
        <4>2. QED
              BY <2>2, <3>2, <4>1 DEF AddPuts, AddUnchanged, Submits
      <3>3. QED
            BY <2>2, <3>1, <3>2
    <2>3. QED
          BY <1>7, <2>1, <2>2, AddCases
  <1>8. CASE DestroyShutdown \/ DestroyJoin \/ DestroyFree
        BY <1>8 DEF DestroyShutdown, DestroyJoin, DestroyFree, MainUnchanged, Held
  <1>9. CASE UNCHANGED vars
        BY <1>9 DEF vars, workerVars, Held
  <1>10. QED
        BY NextCases, <1>1, <1>2, <1>3, <1>4, <1>5, <1>6, <1>7, <1>8, <1>9

-----------------------------------------------------------------------------
(* What the three steps do to the tasks of the ring and of the workers.    *)
LEMMA StartEffect ==
  ASSUME TypeOK, RingConsistent, TasksPlaced, NEW w \in Slots, Starts(w)
  PROVE  /\ Pending # <<>> /\ Pending' = Tail(Pending)
         /\ Running' = Running \cup {Head(Pending)} /\ done' = done
         /\ RingConsistent' /\ TasksPlaced'
  <1>1. /\ Pending # <<>> /\ FrontTask = Head(Pending) /\ Pending' = Tail(Pending)
        /\ RingConsistent'
        BY DequeueEffect DEF Starts
  <1>2. /\ task'[w] = Head(Pending) /\ \A v \in Held : task'[v] = task[v]
        /\ w \notin Held /\ Held' = Held \cup {w}
        /\ added' = added /\ done' = done
        BY <1>1 DEF Starts, Dequeue, Held, TypeOK
  <1>3. Running' = Running \cup {Head(Pending)}
        BY <1>2 DEF Running
  <1>4. Pending \in Seq(Tasks)
        BY PendingLemma
  <1>5. Conserved(Tail(Pending), Held \cup {w}, task', done, added)
        BY <1>1, <1>2, <1>4, ConservedByStart DEF TasksPlaced
  <1>6. TasksPlaced'
        BY <1>1, <1>2, <1>5 DEF TasksPlaced
  <1>7. QED
        BY <1>1, <1>2, <1>3, <1>6

LEMMA FinishEffect ==
  ASSUME TypeOK, RingConsistent, TasksPlaced, NEW w \in Slots, Finishes(w)
  PROVE  /\ Pending' = Pending /\ task[w] \in Running /\ task[w] \in Tasks
         /\ Running' = Running \ {task[w]} /\ done' = done \cup {task[w]}
         /\ RingConsistent' /\ TasksPlaced'
  <1>1. /\ Pending' = Pending /\ w \in Held /\ Held' = Held \ {w}
        /\ \A v \in Held \ {w} : task'[v] = task[v]
        /\ done' = done \cup {task[w]} /\ added' = added
        BY DEF Finishes, WorkerRun, queueVars, producerVars, Pending, Held, TypeOK
  <1>2. task[w] \in Running /\ task[w] \in Tasks
        BY <1>1, HeldLemma DEF Running, Held, Finishes, WorkerRun
  <1>3. Running' = Running \ {task[w]}
    <2>1. \A v \in Held : task[v] = task[w] => v = w
          BY <1>1 DEF TasksPlaced, Conserved
    <2>2. QED
          BY <1>1, <2>1 DEF Running
  <1>4. RingConsistent'
        BY DEF Finishes, WorkerRun, queueVars, RingConsistent
  <1>5. Len(Pending) \in Nat
        BY PendingLemma
  <1>6. Conserved(Pending, Held \ {w}, task', done \cup {task[w]}, added)
        BY <1>1, <1>5, ConservedByFinish DEF TasksPlaced
  <1>7. TasksPlaced'
        BY <1>1, <1>6 DEF TasksPlaced
  <1>8. QED
        BY <1>1, <1>2, <1>3, <1>4, <1>7

LEMMA SubmitEffect ==
  ASSUME TypeOK, RingConsistent, TasksPlaced, NEW t \in Tasks, Submits(t)
  PROVE  /\ Pending' = Append(Pending, t) /\ t \notin added
         /\ Running' = Running /\ done' = done
         /\ RingConsistent' /\ TasksPlaced'
  <1>1. /\ Pending' = Append(Pending, t) /\ RingConsistent'
        BY PutEffect DEF Submits
  <1>2. /\ Held' = Held /\ task' = task /\ done' = done /\ t \notin added
        /\ added' = added \cup {t}
        BY DEF Submits, Put
  <1>3. Pending \in Seq(Tasks)
        BY PendingLemma
  <1>4. Conserved(Append(Pending, t), Held, task, done, added \cup {t})
        BY <1>2, <1>3, ConservedBySubmit DEF TasksPlaced
  <1>5. TasksPlaced'
        BY <1>1, <1>2, <1>4 DEF TasksPlaced
  <1>6. QED
        BY <1>1, <1>2, <1>5 DEF Running

LEMMA QuietEffect ==
  ASSUME RingConsistent, TasksPlaced, Quiet, Held' = Held
  PROVE  /\ UNCHANGED <<Pending, Running, done>>
         /\ RingConsistent' /\ TasksPlaced'
  <1>1. UNCHANGED <<Pending, Running, done, task, added, Held>> /\ RingConsistent'
        BY DEF Quiet, Pending, Running, RingConsistent
  <1>2. QED
        BY <1>1 DEF TasksPlaced

-----------------------------------------------------------------------------
(* A signal of notFull or a spurious wakeup only lets an add go on.        *)
LEMMA CallsKept ==
  ASSUME Calls, UNCHANGED <<arg, added>>, shutdown' <=> main' # "running",
         main = "running" => main' = "running",
         \A p \in Producers : \/ producer'[p] = producer[p]
                              \/ producer[p] = "waiting" /\ producer'[p] = "woken"
  PROVE  Calls'
  BY DEF Calls

LEMMA CallsStep ==
  ASSUME JoinProducers, TypeOK, Calls, TasksPlaced, [Next]_vars
  PROVE  Calls'
  <1> USE DEF queueVars, producerVars, mainVars
  <1>1. ASSUME NEW w \in Slots, WorkerLock(w) \/ WorkerStay(w) PROVE Calls'
    <2>0. LoopTest(w) /\ UNCHANGED <<shutdown, arg, added, main>>
          BY <1>1 DEF WorkerLock, WorkerStay
    <2>1. \A p \in Producers : \/ producer'[p] = producer[p]
                               \/ producer[p] = "waiting" /\ producer'[p] = "woken"
      <3>1. CASE LoopTestWaits(w) \/ LoopTestQuits(w)
            BY <3>1 DEF LoopTestWaits, LoopTestQuits
      <3>2. CASE Dequeue(w)
            BY <3>2, NotFullLemma DEF Dequeue
      <3>3. QED
            BY <2>0, <3>1, <3>2, LoopTestCases
    <2>2. QED
          BY <2>0, <2>1 DEF Calls
  <1>2. ASSUME NEW w \in Slots, \/ WorkerWait(w) \/ SpuriousWakeup(w) \/ WorkerRetire(w)
                                \/ WorkerBusy(w) \/ WorkerRun(w) \/ WorkerNotBusy(w)
                                \/ threadDestroy(w)
        PROVE  Calls'
        BY <1>2 DEF Calls, WorkerWait, SpuriousWakeup, WorkerRetire, WorkerBusy, WorkerRun,
           WorkerNotBusy, threadDestroy
  <1>3. CASE ManagerStep
        BY <1>3 DEF Calls, ManagerStep, ManagerCheck, ManagerSample, ManagerBusy,
           ManagerGrow, ManagerNoGrow, ManagerShrink, ManagerNoShrink, ManagerSignal,
           ManagerUnchanged
  <1>4. ASSUME NEW p \in Producers,
               \/ \E t \in Tasks : threadPoolAdd(p, t)
               \/ AddWoken(p) \/ AddUnlocked(p) \/ AddSpuriousWakeup(p)
        PROVE  Calls'
    <2>1. CASE AddSpuriousWakeup(p)
          BY <2>1 DEF AddSpuriousWakeup, AddUnchanged, Calls, TypeOK
    <2>2. ASSUME NEW t \in Tasks, ~ shutdown, main = "running", t \notin added,
                 \A q \in Producers \ {p} : arg[q] # t, AddUnchanged,
                 AddWaits(p, t) \/ AddPuts(p, t)
          PROVE  Calls'
      <3>1. t # NoTask /\ NoTask \notin added
            BY ConstantsAssumption DEF TypeOK
      <3>2. CASE AddWaits(p, t)
            BY <2>2, <3>1, <3>2 DEF AddWaits, AddUnchanged, Calls, TypeOK
      <3>3. CASE AddPuts(p, t)
            BY <2>2, <3>1, <3>3 DEF AddPuts, Put, AddUnchanged, Calls, TypeOK
      <3>4. QED
            BY <2>2, <3>2, <3>3
    <2>3. QED
          BY <1>4, <2>1, <2>2, AddCases
  <1>5. CASE DestroyShutdown
        BY <1>5 DEF DestroyShutdown, MainUnchanged, Calls
  <1>6. CASE DestroyJoin \/ DestroySignal \/ DestroyFree
        BY <1>6 DEF DestroyJoin, DestroySignal, DestroyFree, MainUnchanged, Calls
  <1>7. CASE UNCHANGED vars
        BY <1>7 DEF vars, Calls
  <1>8. QED
        BY NextCases, <1>1, <1>2, <1>3, <1>4, <1>5, <1>6, <1>7 DEF ManagerStep

-----------------------------------------------------------------------------
(* Each counter moves with the thread it counts: a worker counts itself    *)
(* busy after it took a task and idle before it asks for the next one, and *)
(* liveNum moves when a worker decides to retire, not when it ends.        *)
LEMMA ThreadsStep ==
  ASSUME JoinProducers, TypeOK, Calls, Threads, [Next]_vars
  PROVE  Threads'
  <1> USE DEF queueVars, producerVars, mainVars
  <1>0. /\ busyNum = Cardinality(Busy) /\ LiveWithinBounds
        /\ ~ shutdown => liveNum = Cardinality(Live)
        /\ liveNum \in Nat /\ MinNum \in Nat /\ MaxNum \in Nat
        BY ConstantsAssumption DEF Threads, TypeOK
  <1>a. ASSUME UNCHANGED <<busyNum, liveNum>>, Busy' = Busy,
               shutdown' \/ (~ shutdown /\ Live' = Live)
        PROVE  Threads'
        BY <1>0, <1>a DEF Threads, LiveWithinBounds
  <1>1. ASSUME NEW w \in Slots, WorkerLock(w) \/ WorkerStay(w) PROVE Threads'
    <2>0. /\ worker[w] \in {"lock", "woken"} /\ LoopTest(w)
          /\ UNCHANGED <<busyNum, liveNum, shutdown>>
          BY <1>1 DEF WorkerLock, WorkerStay
    <2>1. CASE LoopTestWaits(w)
          BY <2>0, <2>1, <1>a DEF LoopTestWaits, MustWait, Busy, Live, TypeOK
    <2>2. CASE LoopTestQuits(w)
          BY <2>0, <2>2, <1>a DEF LoopTestQuits, Busy, TypeOK
    <2>3. CASE Dequeue(w)
          BY <2>0, <2>3, <1>a DEF Dequeue, Busy, Live, TypeOK
    <2>4. QED
          BY <2>0, <2>1, <2>2, <2>3, LoopTestCases
  <1>2. ASSUME NEW w \in Slots, \/ WorkerWait(w) \/ SpuriousWakeup(w) \/ WorkerRun(w)
                                \/ threadDestroy(w)
        PROVE  Threads'
    <2>1. UNCHANGED <<busyNum, liveNum, shutdown>> /\ Busy' = Busy /\ Live' = Live
          BY <1>2 DEF WorkerWait, SpuriousWakeup, WorkerRun, threadDestroy, Busy, Live,
             TypeOK
    <2>2. QED
          BY <1>a, <2>1 DEF TypeOK
  <1>3. ASSUME NEW w \in Slots, WorkerRetire(w) PROVE Threads'
    <2>1. /\ Busy' = Busy /\ Live' = Live \ {w} /\ w \in Live
          /\ busyNum' = busyNum /\ liveNum' = liveNum - 1 /\ shutdown' = shutdown
          /\ liveNum > MinNum
          BY <1>3 DEF WorkerRetire, Retires, Busy, Live, TypeOK
    <2>2. Cardinality(Live \ {w}) = Cardinality(Live) - 1
          BY <2>1, BusyFinite, FS_RemoveElement
    <2>3. QED
          BY <1>0, <2>1, <2>2 DEF Threads, LiveWithinBounds
  <1>4. ASSUME NEW w \in Slots, WorkerBusy(w) PROVE Threads'
    <2>1. /\ Busy' = Busy \cup {w} /\ w \notin Busy /\ Live' = Live
          /\ busyNum' = busyNum + 1 /\ UNCHANGED <<liveNum, shutdown>>
          BY <1>4 DEF WorkerBusy, Busy, Live, TypeOK
    <2>2. Cardinality(Busy \cup {w}) = Cardinality(Busy) + 1
          BY <2>1, BusyFinite, FS_AddElement
    <2>3. QED
          BY <1>0, <2>1, <2>2 DEF Threads, LiveWithinBounds
  <1>5. ASSUME NEW w \in Slots, WorkerNotBusy(w) PROVE Threads'
    <2>1. /\ Busy' = Busy \ {w} /\ w \in Busy /\ Live' = Live
          /\ busyNum' = busyNum - 1 /\ UNCHANGED <<liveNum, shutdown>>
          BY <1>5 DEF WorkerNotBusy, BusyAfter, Busy, Live, TypeOK
    <2>2. Cardinality(Busy \ {w}) = Cardinality(Busy) - 1
          BY <2>1, BusyFinite, FS_RemoveElement
    <2>3. QED
          BY <1>0, <2>1, <2>2 DEF Threads, LiveWithinBounds
  <1>6. CASE ManagerCheck \/ ManagerSample \/ ManagerBusy \/ ManagerNoGrow
             \/ ManagerShrink \/ ManagerNoShrink
    <2>1. UNCHANGED <<busyNum, liveNum, shutdown, worker>>
          BY <1>6 DEF ManagerCheck, ManagerSample, ManagerBusy, ManagerNoGrow,
             ManagerShrink, ManagerNoShrink, ManagerUnchanged
    <2>2. QED
          BY <1>a, <2>1 DEF TypeOK, Busy, Live
  <1>7. CASE ManagerGrow
    <2>1. /\ SlotsToFill \subseteq EmptySlots /\ IsFiniteSet(SlotsToFill)
          /\ Cardinality(SlotsToFill) \in Nat
          /\ liveNum + Cardinality(SlotsToFill) <= MaxNum
          BY <1>0, SlotsToFillBound
    <2>2. /\ Busy' = Busy /\ Live' = Live \cup SlotsToFill /\ Live \cap SlotsToFill = {}
          /\ liveNum' = liveNum + Cardinality(SlotsToFill)
          /\ UNCHANGED <<busyNum, shutdown>>
          BY <1>7, <2>1 DEF ManagerGrow, ManagerUnchanged, Busy, Live, EmptySlots
    <2>3. Cardinality(Live') = Cardinality(Live) + Cardinality(SlotsToFill)
      <3>1. Cardinality(Live \cap SlotsToFill) = 0
            BY <2>2, FS_EmptySet
      <3>2. Cardinality(Live \cup SlotsToFill)
              = Cardinality(Live) + Cardinality(SlotsToFill) - Cardinality(Live \cap SlotsToFill)
            BY <2>1, BusyFinite, FS_Union
      <3>3. Cardinality(Live) \in Nat
            BY BusyFinite
      <3>4. QED
            BY <2>1, <2>2, <3>1, <3>2, <3>3
    <2>4. QED
          BY <1>0, <2>1, <2>2, <2>3 DEF Threads, LiveWithinBounds
  <1>8. CASE ManagerSignal \/ DestroySignal
    <2>1. UNCHANGED <<busyNum, liveNum, shutdown>> /\ Busy' = Busy /\ Live' = Live
          BY <1>8, SignalKeepsSets
          DEF ManagerSignal, ManagerUnchanged, DestroySignal, MainUnchanged
    <2>2. QED
          BY <1>a, <2>1 DEF TypeOK
  <1>9. ASSUME NEW p \in Producers,
               \/ \E t \in Tasks : threadPoolAdd(p, t)
               \/ AddWoken(p) \/ AddUnlocked(p) \/ AddSpuriousWakeup(p)
        PROVE  Threads'
    <2>1. CASE AddSpuriousWakeup(p)
      <3>1. UNCHANGED <<busyNum, liveNum, shutdown, worker>>
            BY <2>1 DEF AddSpuriousWakeup, AddUnchanged
      <3>2. QED
            BY <1>a, <3>1 DEF TypeOK, Busy, Live
    <2>2. ASSUME NEW t \in Tasks, AddUnchanged, AddWaits(p, t) \/ AddPuts(p, t)
          PROVE  Threads'
      <3>1. UNCHANGED <<busyNum, liveNum, shutdown>>
            BY <2>2 DEF AddUnchanged
      <3>2. Busy' = Busy /\ Live' = Live
        <4>1. CASE AddWaits(p, t)
              BY <4>1 DEF AddWaits, Busy, Live
        <4>2. CASE AddPuts(p, t)
              BY <4>2, SignalKeepsSets DEF AddPuts, Put
        <4>3. QED
              BY <2>2, <4>1, <4>2
      <3>3. QED
            BY <1>a, <3>1, <3>2 DEF TypeOK
    <2>3. QED
          BY <1>9, <2>1, <2>2, AddCases
  <1>10. CASE DestroyShutdown \/ DestroyJoin \/ DestroyFree
    <2>1. UNCHANGED <<busyNum, liveNum, worker>> /\ (shutdown' \/ shutdown' = shutdown)
          BY <1>10 DEF DestroyShutdown, DestroyJoin, DestroyFree, MainUnchanged
    <2>2. QED
          BY <1>a, <2>1 DEF TypeOK, Busy, Live
  <1>11. CASE UNCHANGED vars
         BY <1>11, <1>a DEF vars, workerVars, TypeOK, Busy, Live
  <1>12. QED
         BY NextCases, <1>1, <1>2, <1>3, <1>4, <1>5, <1>6, <1>7, <1>8, <1>9, <1>10, <1>11

-----------------------------------------------------------------------------
LEMMA InvInit == Init => IInv
  <1> SUFFICES ASSUME Init PROVE IInv
      OBVIOUS
  <1> USE ConstantsAssumption DEF Init
  <1>1. TypeOK
    <2>1. 0 \in Ring /\ 0 \in 0 .. NUMBER
          BY DEF Ring, NUMBER
    <2>2. /\ taskQ \in [Ring -> Tasks \cup {NoTask}]
          /\ worker \in [Slots -> WorkerPc]
          /\ task \in [Slots -> Tasks \cup {NoTask}]
          /\ producer \in [Producers -> ProducerPc]
          /\ arg \in [Producers -> Tasks \cup {NoTask}]
          BY DEF WorkerPc, ProducerPc
    <2>3. manager \in [pc : ManagerPc, queueSize : Nat, liveNum : Nat,
                       busyNum : Nat, sent : 0 .. NUMBER]
          BY <2>1 DEF Locals, ManagerPc
    <2>4. added \in SUBSET Tasks /\ done \in SUBSET Tasks /\ shutdown \in BOOLEAN
          BY Zenon
    <2>5. mutexPool \in Slots \cup {Free} /\ main \in MainPc
          BY DEF MainPc
    <2>6. QED
          BY <2>1, <2>2, <2>3, <2>4, <2>5 DEF TypeOK
  <1>2. RingConsistent
    <2>1. 0 % Capacity = 0
          BY WrapOnce
    <2>2. QED
          BY <2>1 DEF RingConsistent
  <1>3. Calls
        BY DEF Calls
  <1>4. Held = {} /\ Busy = {} /\ Live = 0 .. (MinNum - 1)
        BY DEF Held, Busy, Live, Slots
  <1>5. Threads
    <2>1. Cardinality(Live) = MinNum
          BY <1>4, FS_Interval
    <2>2. Cardinality(Busy) = 0
          BY <1>4, FS_EmptySet
    <2>3. QED
          BY <2>1, <2>2 DEF Threads, LiveWithinBounds
  <1>6. TasksPlaced
    <2>1. DOMAIN Pending = {} /\ Len(Pending) = 0
      <3>1. Pending = <<>>
            BY DEF Pending
      <3>2. QED
            BY <3>1
    <2>2. Cardinality(done) = 0 /\ Cardinality(Held) = 0 /\ Cardinality(added) = 0
          /\ IsFiniteSet(Held) /\ IsFiniteSet(added)
          BY <1>4, FS_EmptySet
    <2>3. QED
          BY <1>4, <2>1, <2>2 DEF TasksPlaced, Conserved
  <1>7. QED
        BY <1>1, <1>2, <1>3, <1>5, <1>6 DEF IInv

LEMMA InvStep ==
  ASSUME JoinProducers, IInv, [Next]_vars
  PROVE  IInv'
  <1> USE DEF IInv
  <1>1. TypeOK' /\ Calls' /\ Threads'
        BY TypeStep, CallsStep, ThreadsStep
  <1>2. RingConsistent' /\ TasksPlaced'
        BY TaskSteps, QuietEffect, StartEffect, FinishEffect, SubmitEffect
  <1>3. QED
        BY <1>1, <1>2

(* IInv holds in every state of the pool.                                  *)
THEOREM InvCorrect ==
  ASSUME JoinProducers
  PROVE  Spec => []IInv
  <1>1. IInv /\ [Next]_vars => IInv'
        BY InvStep
  <1>2. QED
        BY <1>1, InvInit, PTL DEF Spec

(* Ring, tasks and threads are accounted for: the two ends of the ring and *)
(* its size agree, every task is in one place, liveNum stays within minNum *)
(* and maxNum and counts the workers that are not leaving, and no more of  *)
(* them are busy.                                                          *)
THEOREM AccountsBalance ==
  ASSUME JoinProducers
  PROVE  Spec => []Accounting
  <1>1. IInv => Accounting
    <2> SUFFICES ASSUME IInv PROVE Accounting
        OBVIOUS
    <2>1. TypeOK /\ RingConsistent /\ LiveWithinBounds
          BY DEF IInv, Threads
    <2>2. TaskConservation
      <3>1. Len(Pending) = queueSize /\ DOMAIN Pending = 1 .. queueSize
            BY PendingLemma DEF IInv
      <3>2. QED
            BY <3>1 DEF IInv, TasksPlaced, Conserved, TaskConservation, Running
    <2>3. LiveAccounting
      <3>1. Busy \subseteq Live /\ IsFiniteSet(Live)
            BY BusyFinite DEF Busy, Live
      <3>2. Cardinality(Busy) <= Cardinality(Live)
            BY <3>1, FS_Subset
      <3>3. QED
            BY <3>2 DEF IInv, Threads, LiveAccounting, Live
    <2>4. QED
          BY <2>1, <2>2, <2>3 DEF Accounting
  <1>2. QED
        BY <1>1, InvCorrect, PTL

-----------------------------------------------------------------------------
(* The pool implements TaskChannel: a dequeue is Start, the end of a       *)
(* task's function is Finish, the put of threadPoolAdd is Submit, and      *)
(* every other step leaves the channel as it is.                           *)
THEOREM PoolImplementsChannel ==
  ASSUME JoinProducers
  PROVE  Spec => ImplementsChannel
  <1> USE DEF Channel!vars, Channel!Queued
  <1>1. Init => Channel!Init
    <2> SUFFICES ASSUME Init PROVE Channel!Init
        OBVIOUS
    <2>1. Running = {} /\ Pending = <<>>
          BY DEF Init, Running, Held, Pending
    <2>2. QED
          BY <2>1 DEF Init, Channel!Init
  <1>2. IInv /\ [Next]_vars => [Channel!Next]_(Channel!vars)
    <2> SUFFICES ASSUME IInv, [Next]_vars PROVE [Channel!Next]_(Channel!vars)
        OBVIOUS
    <2> USE DEF IInv
    <2>1. ASSUME NEW w \in Slots, Starts(w) PROVE Channel!Start
          BY <2>1, StartEffect DEF Channel!Start
    <2>2. ASSUME NEW w \in Slots, Finishes(w)
          PROVE  task[w] \in Tasks /\ Channel!Finish(task[w])
          BY <2>2, FinishEffect DEF Channel!Finish
    <2>3. ASSUME NEW t \in Tasks, Submits(t) PROVE Channel!Submit(t)
      <3>1. t \notin {Pending[i] : i \in DOMAIN Pending} \cup Running \cup done
            BY <2>3, SubmitEffect DEF TasksPlaced, Conserved, Running
      <3>2. QED
            BY <2>3, <3>1, SubmitEffect DEF Channel!Submit
    <2>4. ASSUME Quiet, Held' = Held PROVE UNCHANGED <<Pending, Running, done>>
          BY <2>4, QuietEffect
    <2>5. QED
          BY <2>1, <2>2, <2>3, <2>4, TaskSteps DEF Channel!Next
  <1>3. QED
        BY <1>1, <1>2, InvCorrect, PTL DEF Spec, ImplementsChannel, Channel!Spec
=============================================================================
