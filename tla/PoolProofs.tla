----------------------------- MODULE PoolProofs ------------------------------
(***************************************************************************)
(* TLAPS proofs about ThreadPoolCpp, for every minimum and maximum of      *)
(* threads and any number of producers and tasks, and about MemoryPool and *)
(* StackAlloc, for every size of pointers, slots, blocks and addresses.    *)
(***************************************************************************)
EXTENDS StackAlloc, ThreadPoolCpp, ProofLemmas

Live == {w \in Slots : worker[w] \notin {"none", "exiting"}}
Busy == {w \in Slots : worker[w] \in {"running", "ran"}}

(* The tasks that calls of addTask are about to push.                      *)
Calls ==
  /\ shutdown => \A p \in Producers : producer[p] = "idle"
  /\ \A p \in Producers :
       /\ producer[p] = "push" <=> arg[p] # NoTask
       /\ arg[p] \notin added
  /\ \A p, q \in Producers : arg[p] = arg[q] /\ arg[p] # NoTask => p = q

(* busyNum counts the workers that took a task and have not come back for  *)
(* the next, liveNum, until the shutdown, the ones that are not leaving.   *)
Threads ==
  /\ busyNum = Cardinality(Busy)
  /\ liveNum \in MinNum .. MaxNum
  /\ ~ shutdown => liveNum = Cardinality(Live)

TasksPlaced == Conserved(taskQ, Held, task, done, added)

IInv == TypeOK /\ Calls /\ Threads /\ TasksPlaced

-----------------------------------------------------------------------------
LEMMA SignalLemma ==
  ASSUME NEW f \in [Slots -> WorkerPc], NEW g \in Signal(f)
  PROVE  /\ g \in [Slots -> WorkerPc]
         /\ \A w \in Slots : g[w] = f[w] \/ (f[w] = "waiting" /\ g[w] = "woken")
  <1>1. CASE g = f
        BY <1>1
  <1>2. CASE \E w \in Slots : f[w] = "waiting" /\ g = [f EXCEPT ![w] = "woken"]
        BY <1>2 DEF WorkerPc
  <1>3. QED
        BY <1>1, <1>2 DEF Signal

(* A signal changes who waits, and nothing that anything else depends on.  *)
LEMMA SignalKeeps ==
  ASSUME TypeOK, worker' \in Signal(worker)
  PROVE  /\ worker' \in [Slots -> WorkerPc]
         /\ \A w \in Slots : worker'[w] = "toWait" <=> worker[w] = "toWait"
         /\ Held' = Held /\ Busy' = Busy /\ Live' = Live
  <1>1. /\ worker' \in [Slots -> WorkerPc]
        /\ \A w \in Slots : \/ worker'[w] = worker[w]
                            \/ worker[w] = "waiting" /\ worker'[w] = "woken"
        BY SignalLemma DEF TypeOK
  <1>2. QED
        BY <1>1 DEF Held, Busy, Live

LEMMA NextCases ==
  ASSUME [Next]_vars
  PROVE  \/ \E w \in Slots :
              \/ WorkerLock(w) \/ WorkerWait(w) \/ SpuriousWakeup(w) \/ WorkerRetire(w)
              \/ WorkerStay(w) \/ WorkerRun(w) \/ WorkerNotBusy(w) \/ threadExit(w)
         \/ ManagerCheck \/ ManagerSample \/ ManagerGrow \/ ManagerNoGrow
         \/ ManagerShrink \/ ManagerNoShrink \/ ManagerSignal
         \/ \E p \in Producers : \/ \E t \in Tasks : addTask(p, t)
                                 \/ AddPush(p) \/ AddSignal(p)
         \/ DtorShutdown \/ DtorJoin \/ DtorSignal \/ DtorFree
         \/ UNCHANGED vars
  BY DEF Next, WorkerStep, ManagerStep, ProducerStep, DtorStep

LEMMA SlotsFinite ==
  /\ IsFiniteSet(Slots) /\ Slots \in SUBSET Int /\ Free \notin Slots
  /\ IsFiniteSet(Busy) /\ Cardinality(Busy) \in Nat
  /\ IsFiniteSet(Live) /\ Cardinality(Live) \in Nat
  <1>1. IsFiniteSet(Slots) /\ Slots \in SUBSET Int /\ Free \notin Slots
        BY FS_Interval, ConstantsAssumption DEF Slots, Free
  <1>2. QED
        BY <1>1, FS_Subset, FS_CardinalityType DEF Busy, Live

LEMMA SlotsToFillBound ==
  ASSUME Threads
  PROVE  /\ SlotsToFill \subseteq EmptySlots /\ IsFiniteSet(SlotsToFill)
         /\ Cardinality(SlotsToFill) \in Nat
         /\ liveNum + Cardinality(SlotsToFill) <= MaxNum
  <1> DEFINE k == Min({NUMBER, MaxNum - liveNum})
  <1>1. EmptySlots \in SUBSET Int /\ IsFiniteSet(EmptySlots)
        BY SlotsFinite, FS_Subset DEF EmptySlots
  <1>2. /\ liveNum \in Nat /\ MaxNum \in Nat /\ liveNum <= MaxNum
        BY ConstantsAssumption DEF Threads
  <1>3. k \in Nat /\ k <= MaxNum - liveNum
    <2>1. NUMBER \in Int /\ NUMBER \in Nat /\ MaxNum - liveNum \in Nat
          BY <1>2 DEF NUMBER
    <2>2. k = IF NUMBER <= MaxNum - liveNum THEN NUMBER ELSE MaxNum - liveNum
          BY <2>1, MinOfTwo
    <2>3. QED
          BY <2>1, <2>2
  <1> HIDE DEF k
  <1>4. SlotsToFill = {i \in EmptySlots : Cardinality({j \in EmptySlots : j < i}) < k}
        BY DEF SlotsToFill, k
  <1>5. /\ IsFiniteSet(SlotsToFill) /\ Cardinality(SlotsToFill) \in Nat
        /\ Cardinality(SlotsToFill) <= k
        BY <1>1, <1>3, <1>4, LowestFew
  <1>6. QED
        BY <1>2, <1>3, <1>4, <1>5

-----------------------------------------------------------------------------
LEMMA TypeStep ==
  ASSUME TypeOK, Calls, Threads, TasksPlaced, [Next]_vars
  PROVE  TypeOK'
  <1>0. Free \notin Slots
        BY SlotsFinite
  <1> USE ConstantsAssumption, <1>0
      DEF TypeOK, WorkerPc, ManagerPc, NUMBER, countVars, producerVars, mainVars
  <1>a. ASSUME NEW w \in Slots, LoopTest(w), exitNum' \in 0 .. NUMBER, mutexPool = Free,
               worker[w] \in {"lock", "woken"},
               UNCHANGED <<liveNum, shutdown, manager, producerVars, mainVars, done>>
        PROVE  TypeOK'
    <2>1. CASE LoopTestWaits(w)
          BY <1>a, <2>1 DEF LoopTestWaits
    <2>2. CASE LoopTestQuits(w)
          BY <1>a, <2>2 DEF LoopTestQuits
    <2>3. CASE Take(w)
      <3>1. taskQ # <<>>
            BY <2>3 DEF Take, MustWait
      <3>2. Tail(taskQ) \in Seq(Tasks) /\ Head(taskQ) \in Tasks
            BY <3>1, PopFront
      <3>3. QED
            BY <1>a, <2>3, <3>2 DEF Take, Remaining, BusyTaken
    <2> HIDE DEF TypeOK
    <2>4. QED
          BY <1>a, <2>1, <2>2, <2>3 DEF LoopTest
  <1>1. ASSUME NEW w \in Slots, WorkerLock(w) PROVE TypeOK'
    <2>1. exitNum' \in 0 .. NUMBER
          BY <1>1 DEF WorkerLock
    <2> HIDE DEF TypeOK
    <2>2. QED
          BY <1>1, <1>a, <2>1 DEF WorkerLock
  <1>2. ASSUME NEW w \in Slots, WorkerStay(w) PROVE TypeOK'
    <2>1. exitNum' \in 0 .. NUMBER
          BY <1>2 DEF WorkerStay
    <2> HIDE DEF TypeOK
    <2>2. QED
          BY <1>2, <1>a, <2>1 DEF WorkerStay
  <1>3. ASSUME NEW w \in Slots, WorkerWait(w) \/ SpuriousWakeup(w) \/ threadExit(w)
        PROVE  TypeOK'
        BY <1>3 DEF WorkerWait, Unlocked, SpuriousWakeup, threadExit
  <1>4. ASSUME NEW w \in Slots, WorkerRetire(w) PROVE TypeOK'
        BY <1>4 DEF WorkerRetire, Retires
  <1>5. ASSUME NEW w \in Slots, WorkerRun(w) PROVE TypeOK'
    <2>1. task[w] \in Tasks
          BY <1>5 DEF WorkerRun, TasksPlaced, Conserved, Held
    <2>2. QED
          BY <1>5, <2>1 DEF WorkerRun
  <1>6. ASSUME NEW w \in Slots, WorkerNotBusy(w) PROVE TypeOK'
    <2>1. Busy # {} /\ busyNum = Cardinality(Busy)
          BY <1>6 DEF WorkerNotBusy, Busy, Threads
    <2>2. busyNum # 0
          BY <2>1, SlotsFinite, FS_EmptySet
    <2>3. QED
          BY <1>6, <2>2 DEF WorkerNotBusy
  <1>7. CASE ManagerCheck
        BY <1>7 DEF ManagerCheck, Locals, ManagerUnchanged
  <1>8. CASE ManagerSample
        BY <1>8 DEF ManagerSample, Locals, ManagerUnchanged
  <1>9. CASE ManagerNoGrow
        BY <1>9 DEF ManagerNoGrow, ManagerUnchanged
  <1>10. CASE ManagerShrink
         BY <1>10 DEF ManagerShrink, ManagerUnchanged
  <1>11. CASE ManagerNoShrink
         BY <1>11 DEF ManagerNoShrink, Locals, ManagerUnchanged
  <1>12. CASE ManagerGrow
    <2>1. Cardinality(SlotsToFill) \in Nat /\ \A w \in SlotsToFill : worker[w] = "none"
          BY SlotsToFillBound DEF EmptySlots
    <2>2. /\ worker' \in [Slots -> WorkerPc]
          /\ \A w \in Slots : worker'[w] = "toWait" <=> worker[w] = "toWait"
          BY <1>12, <2>1 DEF ManagerGrow
    <2>3. manager' \in [pc : ManagerPc, queueSize : Nat, liveNum : Nat, busyNum : Nat,
                        sent : 0 .. NUMBER]
          BY <1>12 DEF ManagerGrow
    <2>4. /\ liveNum' = liveNum + Cardinality(SlotsToFill)
          /\ UNCHANGED exitNum /\ ManagerUnchanged
          BY <1>12 DEF ManagerGrow
    <2>5. liveNum' \in Nat
          BY <2>1, <2>4
    <2>6. QED
          BY <2>2, <2>3, <2>4, <2>5 DEF ManagerUnchanged
  <1>13. CASE ManagerSignal
    <2>1. /\ worker' \in [Slots -> WorkerPc]
          /\ \A w \in Slots : worker'[w] = "toWait" <=> worker[w] = "toWait"
          BY <1>13, SignalKeeps DEF ManagerSignal
    <2>2. /\ manager.sent + 1 < NUMBER => manager.sent + 1 \in 0 .. NUMBER
          /\ manager.pc = "signal"
          BY <1>13 DEF ManagerSignal
    <2>3. manager' \in [pc : ManagerPc, queueSize : Nat, liveNum : Nat, busyNum : Nat,
                        sent : 0 .. NUMBER]
          BY <1>13, <2>2 DEF ManagerSignal, Locals
    <2>4. QED
          BY <1>13, <2>1, <2>3 DEF ManagerSignal, ManagerUnchanged
  <1>14. ASSUME NEW p \in Producers, NEW t \in Tasks, addTask(p, t) PROVE TypeOK'
         BY <1>14 DEF addTask, AddUnchanged
  <1>15. ASSUME NEW p \in Producers, AddPush(p) PROVE TypeOK'
    <2>1. arg[p] \in Tasks
          BY <1>15 DEF AddPush, Calls
    <2>2. Append(taskQ, arg[p]) \in Seq(Tasks)
          BY <2>1, PushBack
    <2>3. QED
          BY <1>15, <2>1, <2>2 DEF AddPush, AddUnchanged
  <1>16. ASSUME NEW p \in Producers, AddSignal(p) PROVE TypeOK'
         BY <1>16, SignalKeeps DEF AddSignal, AddUnchanged
  <1>17. CASE DtorShutdown \/ DtorJoin \/ DtorFree
         BY <1>17 DEF DtorShutdown, DtorJoin, DtorFree, MainUnchanged
  <1>18. CASE DtorSignal
         BY <1>18, SignalKeeps DEF DtorSignal, MainUnchanged
  <1>19. CASE UNCHANGED vars
         BY <1>19 DEF vars
  <1> HIDE DEF TypeOK
  <1>20. QED
         BY NextCases, <1>1, <1>2, <1>3, <1>4, <1>5, <1>6, <1>7, <1>8, <1>9, <1>10,
            <1>11, <1>12, <1>13, <1>14, <1>15, <1>16, <1>17, <1>18, <1>19

-----------------------------------------------------------------------------
(* Nothing but addTask touches the tasks that are being added.             *)
LEMMA CallsStep ==
  ASSUME TypeOK, Calls, [Next]_vars
  PROVE  Calls'
  <1> USE DEF producerVars, mainVars
  <1>1. ASSUME NEW w \in Slots,
               \/ WorkerLock(w) \/ WorkerWait(w) \/ SpuriousWakeup(w) \/ WorkerRetire(w)
               \/ WorkerStay(w) \/ WorkerRun(w) \/ WorkerNotBusy(w) \/ threadExit(w)
        PROVE  Calls'
        BY <1>1 DEF Calls, WorkerLock, WorkerWait, SpuriousWakeup, WorkerRetire, WorkerStay,
           WorkerRun, WorkerNotBusy, threadExit
  <1>2. CASE ManagerStep
        BY <1>2 DEF Calls, ManagerStep, ManagerCheck, ManagerSample, ManagerGrow,
           ManagerNoGrow, ManagerShrink, ManagerNoShrink, ManagerSignal, ManagerUnchanged
  <1>3. ASSUME NEW p \in Producers, NEW t \in Tasks, addTask(p, t) PROVE Calls'
        BY <1>3, ConstantsAssumption DEF addTask, AddUnchanged, Calls, TypeOK
  <1>4. ASSUME NEW p \in Producers, AddPush(p) PROVE Calls'
        BY <1>4, ConstantsAssumption DEF AddPush, AddUnchanged, Calls, TypeOK
  <1>5. ASSUME NEW p \in Producers, AddSignal(p) PROVE Calls'
        BY <1>5 DEF AddSignal, AddUnchanged, Calls, TypeOK
  <1>6. CASE DtorShutdown \/ DtorJoin \/ DtorSignal \/ DtorFree
        BY <1>6 DEF DtorShutdown, DtorJoin, DtorSignal, DtorFree, MainUnchanged, Calls
  <1>7. CASE UNCHANGED vars
        BY <1>7 DEF vars, Calls
  <1>8. QED
        BY NextCases, <1>1, <1>2, <1>3, <1>4, <1>5, <1>6, <1>7 DEF ManagerStep

-----------------------------------------------------------------------------
(* Each counter moves with the threads it counts.                          *)
LEMMA ThreadsStep ==
  ASSUME TypeOK, Threads, [Next]_vars
  PROVE  Threads'
  <1> USE DEF countVars, producerVars, mainVars
  <1>0. /\ busyNum = Cardinality(Busy) /\ liveNum \in MinNum .. MaxNum
        /\ ~ shutdown => liveNum = Cardinality(Live)
        /\ liveNum \in Nat /\ MinNum \in Nat /\ MaxNum \in Nat
        BY ConstantsAssumption DEF Threads, TypeOK
  <1>a. ASSUME UNCHANGED <<busyNum, liveNum>>, Busy' = Busy,
               shutdown' \/ (~ shutdown /\ Live' = Live)
        PROVE  Threads'
        BY <1>0, <1>a DEF Threads
  <1>b. ASSUME NEW w \in Slots, w \notin Busy, Busy' = Busy \cup {w}, Live' = Live,
               busyNum' = busyNum + 1, UNCHANGED <<liveNum, shutdown>>
        PROVE  Threads'
    <2>1. Cardinality(Busy \cup {w}) = Cardinality(Busy) + 1
          BY <1>b, SlotsFinite, FS_AddElement
    <2>2. QED
          BY <1>0, <1>b, <2>1 DEF Threads
  <1>1. ASSUME NEW w \in Slots, WorkerLock(w) \/ WorkerStay(w) PROVE Threads'
    <2>0. /\ worker[w] \in {"lock", "woken"} /\ LoopTest(w)
          /\ UNCHANGED <<liveNum, shutdown>>
          BY <1>1 DEF WorkerLock, WorkerStay
    <2>1. CASE LoopTestWaits(w)
          BY <2>0, <2>1, <1>a DEF LoopTestWaits, MustWait, Busy, Live, TypeOK
    <2>2. CASE LoopTestQuits(w)
          BY <2>0, <2>2, <1>a DEF LoopTestQuits, Busy, TypeOK
    <2>3. CASE Take(w)
      <3>1. /\ w \notin Busy /\ Busy' = Busy \cup {w} /\ Live' = Live
            /\ busyNum' = busyNum + 1
            BY <2>0, <2>3 DEF Take, BusyTaken, Busy, Live, TypeOK
      <3>2. QED
            BY <1>b, <2>0, <3>1
    <2>4. QED
          BY <2>0, <2>1, <2>2, <2>3 DEF LoopTest
  <1>2. ASSUME NEW w \in Slots, \/ WorkerWait(w) \/ SpuriousWakeup(w) \/ WorkerRun(w)
                                \/ threadExit(w)
        PROVE  Threads'
    <2>1. UNCHANGED <<busyNum, liveNum, shutdown>> /\ Busy' = Busy /\ Live' = Live
          BY <1>2 DEF WorkerWait, SpuriousWakeup, WorkerRun, threadExit, Busy, Live, TypeOK
    <2>2. QED
          BY <1>a, <2>1 DEF TypeOK
  <1>3. ASSUME NEW w \in Slots, WorkerRetire(w) PROVE Threads'
    <2>1. /\ Busy' = Busy /\ Live' = Live \ {w} /\ w \in Live
          /\ busyNum' = busyNum /\ liveNum' = liveNum - 1 /\ shutdown' = shutdown
          /\ liveNum > MinNum
          BY <1>3 DEF WorkerRetire, Retires, Busy, Live, TypeOK
    <2>2. Cardinality(Live \ {w}) = Cardinality(Live) - 1
          BY <2>1, SlotsFinite, FS_RemoveElement
    <2>3. QED
          BY <1>0, <2>1, <2>2 DEF Threads
  <1>4. ASSUME NEW w \in Slots, WorkerNotBusy(w) PROVE Threads'
    <2>1. /\ Busy' = Busy \ {w} /\ w \in Busy /\ Live' = Live
          /\ busyNum' = busyNum - 1 /\ UNCHANGED <<liveNum, shutdown>>
          BY <1>4 DEF WorkerNotBusy, Busy, Live, TypeOK
    <2>2. Cardinality(Busy \ {w}) = Cardinality(Busy) - 1
          BY <2>1, SlotsFinite, FS_RemoveElement
    <2>3. QED
          BY <1>0, <2>1, <2>2 DEF Threads
  <1>5. CASE ManagerCheck \/ ManagerSample \/ ManagerNoGrow \/ ManagerShrink
             \/ ManagerNoShrink
    <2>1. UNCHANGED <<busyNum, liveNum, shutdown, worker>>
          BY <1>5 DEF ManagerCheck, ManagerSample, ManagerNoGrow, ManagerShrink,
             ManagerNoShrink, ManagerUnchanged
    <2>2. QED
          BY <1>a, <2>1 DEF TypeOK, Busy, Live
  <1>6. CASE ManagerGrow
    <2>1. /\ SlotsToFill \subseteq EmptySlots /\ IsFiniteSet(SlotsToFill)
          /\ Cardinality(SlotsToFill) \in Nat
          /\ liveNum + Cardinality(SlotsToFill) <= MaxNum
          BY SlotsToFillBound
    <2>2. /\ Busy' = Busy /\ Live' = Live \cup SlotsToFill /\ Live \cap SlotsToFill = {}
          /\ liveNum' = liveNum + Cardinality(SlotsToFill)
          /\ UNCHANGED <<busyNum, shutdown>>
          BY <1>6, <2>1 DEF ManagerGrow, ManagerUnchanged, Busy, Live, EmptySlots
    <2>3. Cardinality(Live') = Cardinality(Live) + Cardinality(SlotsToFill)
      <3>1. Cardinality(Live \cap SlotsToFill) = 0
            BY <2>2, FS_EmptySet
      <3>2. Cardinality(Live \cup SlotsToFill)
              = Cardinality(Live) + Cardinality(SlotsToFill) - Cardinality(Live \cap SlotsToFill)
            BY <2>1, SlotsFinite, FS_Union
      <3>3. QED
            BY <2>1, <2>2, <3>1, <3>2, SlotsFinite
    <2>4. QED
          BY <1>0, <2>1, <2>2, <2>3 DEF Threads
  <1>7. CASE ManagerSignal \/ DtorSignal \/ \E p \in Producers : AddSignal(p)
    <2>1. UNCHANGED <<busyNum, liveNum, shutdown>> /\ Busy' = Busy /\ Live' = Live
          BY <1>7, SignalKeeps DEF ManagerSignal, ManagerUnchanged, DtorSignal,
             MainUnchanged, AddSignal, AddUnchanged
    <2>2. QED
          BY <1>a, <2>1 DEF TypeOK
  <1>8. ASSUME NEW p \in Producers, AddPush(p) \/ \E t \in Tasks : addTask(p, t)
        PROVE  Threads'
    <2>1. UNCHANGED <<busyNum, liveNum, shutdown, worker>>
          BY <1>8 DEF AddPush, addTask, AddUnchanged
    <2>2. QED
          BY <1>a, <2>1 DEF TypeOK, Busy, Live
  <1>9. CASE DtorShutdown \/ DtorJoin \/ DtorFree
    <2>1. UNCHANGED <<busyNum, liveNum, worker>> /\ (shutdown' \/ shutdown' = shutdown)
          BY <1>9 DEF DtorShutdown, DtorJoin, DtorFree, MainUnchanged
    <2>2. QED
          BY <1>a, <2>1 DEF TypeOK, Busy, Live
  <1>10. CASE UNCHANGED vars
         BY <1>10, <1>a DEF vars, TypeOK, Busy, Live
  <1>11. QED
         BY NextCases, <1>1, <1>2, <1>3, <1>4, <1>5, <1>6, <1>7, <1>8, <1>9, <1>10

-----------------------------------------------------------------------------
(* A step starts a task, finishes one, pushes one or leaves them all alone.*)
Quiet == UNCHANGED <<taskQ, task, added, done>> /\ Held' = Held

Starts(w) ==
  /\ taskQ # <<>> /\ taskQ' = Tail(taskQ)
  /\ w \notin Held /\ Held' = Held \cup {w}
  /\ task'[w] = Head(taskQ) /\ \A v \in Held : task'[v] = task[v]
  /\ UNCHANGED <<added, done>>

Finishes(w) ==
  /\ w \in Held /\ Held' = Held \ {w}
  /\ task[w] \in Tasks /\ done' = done \cup {task[w]}
  /\ \A v \in Held \ {w} : task'[v] = task[v]
  /\ UNCHANGED <<taskQ, added>>

Submits(t) ==
  /\ t \notin added /\ added' = added \cup {t}
  /\ taskQ' = Append(taskQ, t)
  /\ UNCHANGED <<task, done>> /\ Held' = Held

LEMMA TaskSteps ==
  ASSUME TypeOK, Calls, TasksPlaced, [Next]_vars
  PROVE  \/ Quiet
         \/ \E w \in Slots : Starts(w) \/ Finishes(w)
         \/ \E t \in Tasks : Submits(t)
  <1> USE DEF countVars, producerVars, mainVars
  <1>1. ASSUME NEW w \in Slots, WorkerLock(w) \/ WorkerStay(w)
        PROVE  Quiet \/ Starts(w)
    <2>0. worker[w] \in {"lock", "woken"} /\ LoopTest(w) /\ UNCHANGED <<added, done>>
          BY <1>1 DEF WorkerLock, WorkerStay
    <2>1. CASE LoopTestWaits(w)
          BY <2>0, <2>1 DEF LoopTestWaits, Quiet, Held, TypeOK
    <2>2. CASE LoopTestQuits(w)
          BY <2>0, <2>2 DEF LoopTestQuits, Quiet, Held, TypeOK
    <2>3. CASE Take(w)
          BY <2>0, <2>3 DEF Take, MustWait, Remaining, Starts, Held, TypeOK
    <2>4. QED
          BY <2>0, <2>1, <2>2, <2>3 DEF LoopTest
  <1>2. ASSUME NEW w \in Slots, \/ WorkerWait(w) \/ SpuriousWakeup(w) \/ WorkerRetire(w)
                                \/ WorkerNotBusy(w) \/ threadExit(w)
        PROVE  Quiet
        BY <1>2 DEF WorkerWait, SpuriousWakeup, WorkerRetire, WorkerNotBusy, threadExit,
           Quiet, Held, TypeOK
  <1>3. ASSUME NEW w \in Slots, WorkerRun(w) PROVE Finishes(w)
    <2>1. task[w] \in Tasks
          BY <1>3 DEF WorkerRun, TasksPlaced, Conserved, Held, TypeOK
    <2>2. QED
          BY <1>3, <2>1 DEF WorkerRun, Finishes, Held, TypeOK
  <1>4. CASE ManagerCheck \/ ManagerSample \/ ManagerNoGrow \/ ManagerShrink
             \/ ManagerNoShrink
        BY <1>4 DEF ManagerCheck, ManagerSample, ManagerNoGrow, ManagerShrink,
           ManagerNoShrink, ManagerUnchanged, Quiet, Held
  <1>5. CASE ManagerGrow
        BY <1>5 DEF ManagerGrow, ManagerUnchanged, Quiet, Held, SlotsToFill, EmptySlots
  <1>6. CASE ManagerSignal \/ DtorSignal \/ \E p \in Producers : AddSignal(p)
        BY <1>6, SignalKeeps DEF ManagerSignal, ManagerUnchanged, DtorSignal,
           MainUnchanged, AddSignal, AddUnchanged, Quiet
  <1>7. ASSUME NEW p \in Producers, NEW t \in Tasks, addTask(p, t) PROVE Quiet
        BY <1>7 DEF addTask, AddUnchanged, Quiet, Held
  <1>8. ASSUME NEW p \in Producers, AddPush(p) PROVE \E t \in Tasks : Submits(t)
    <2>1. arg[p] \in Tasks /\ arg[p] \notin added
          BY <1>8 DEF AddPush, Calls, TypeOK
    <2>2. Submits(arg[p])
          BY <1>8, <2>1 DEF AddPush, AddUnchanged, Submits, Held
    <2>3. QED
          BY <2>1, <2>2
  <1>9. CASE DtorShutdown \/ DtorJoin \/ DtorFree
        BY <1>9 DEF DtorShutdown, DtorJoin, DtorFree, MainUnchanged, Quiet, Held
  <1>10. CASE UNCHANGED vars
         BY <1>10 DEF vars, Quiet, Held
  <1>11. QED
         BY NextCases, <1>1, <1>2, <1>3, <1>4, <1>5, <1>6, <1>7, <1>8, <1>9, <1>10

(* Each of these steps keeps every task in one place.                      *)
LEMMA TasksStep ==
  ASSUME TypeOK, Calls, TasksPlaced, [Next]_vars
  PROVE  TasksPlaced'
  <1>0. taskQ \in Seq(Tasks)
        BY DEF TypeOK
  <1>1. CASE Quiet
    <2>1. {task'[w] : w \in Held'} = {task[w] : w \in Held}
          BY <1>1 DEF Quiet
    <2>2. QED
          BY <1>1, <2>1 DEF Quiet, TasksPlaced, Conserved
  <1>2. ASSUME NEW w \in Slots, Starts(w) PROVE TasksPlaced'
    <2>1. Conserved(Tail(taskQ), Held \cup {w}, task', done, added)
          BY <1>0, <1>2, ConservedByStart DEF TasksPlaced, Starts
    <2>2. QED
          BY <1>2, <2>1 DEF TasksPlaced, Starts
  <1>3. ASSUME NEW w \in Slots, Finishes(w) PROVE TasksPlaced'
    <2>1. Conserved(taskQ, Held \ {w}, task', done \cup {task[w]}, added)
          BY <1>0, <1>3, ConservedByFinish DEF TasksPlaced, Finishes
    <2>2. QED
          BY <1>3, <2>1 DEF TasksPlaced, Finishes
  <1>4. ASSUME NEW t \in Tasks, Submits(t) PROVE TasksPlaced'
    <2>1. Conserved(Append(taskQ, t), Held, task, done, added \cup {t})
          BY <1>0, <1>4, ConservedBySubmit DEF TasksPlaced, Submits
    <2>2. QED
          BY <1>4, <2>1 DEF TasksPlaced, Submits
  <1>5. QED
        BY <1>1, <1>2, <1>3, <1>4, TaskSteps

-----------------------------------------------------------------------------
LEMMA InvInit == Init => IInv
  <1> SUFFICES ASSUME Init PROVE IInv
      OBVIOUS
  <1> USE ConstantsAssumption DEF Init
  <1>1. TypeOK
    <2>1. 0 \in 0 .. NUMBER /\ Free \notin Slots
          BY SlotsFinite DEF NUMBER
    <2>2. /\ worker \in [Slots -> WorkerPc]
          /\ task \in [Slots -> Tasks \cup {NoTask}]
          /\ producer \in [Producers -> {"idle", "push", "signal"}]
          /\ arg \in [Producers -> Tasks \cup {NoTask}]
          BY DEF WorkerPc
    <2>3. manager \in [pc : ManagerPc, queueSize : Nat, liveNum : Nat,
                       busyNum : Nat, sent : 0 .. NUMBER]
          BY <2>1 DEF Locals, ManagerPc
    <2>4. added \in SUBSET Tasks /\ done \in SUBSET Tasks /\ shutdown \in BOOLEAN
          BY Zenon
    <2>5. \A w \in Slots : worker[w] = "toWait" <=> mutexPool = w
          BY <2>1
    <2>6. QED
          BY <2>1, <2>2, <2>3, <2>4, <2>5 DEF TypeOK
  <1>2. Calls
        BY DEF Calls
  <1>3. Held = {} /\ Busy = {} /\ Live = 0 .. (MinNum - 1)
        BY DEF Held, Busy, Live, Slots
  <1>4. Threads
    <2>1. Cardinality(Live) = MinNum /\ Cardinality(Busy) = 0
          BY <1>3, FS_Interval, FS_EmptySet
    <2>2. QED
          BY <2>1 DEF Threads
  <1>5. TasksPlaced
    <2>1. /\ Cardinality(done) = 0 /\ Cardinality(Held) = 0 /\ Cardinality(added) = 0
          /\ IsFiniteSet(Held) /\ IsFiniteSet(added)
          BY <1>3, FS_EmptySet
    <2>2. DOMAIN taskQ = {} /\ Len(taskQ) = 0
          OBVIOUS
    <2>3. QED
          BY <1>3, <2>1, <2>2 DEF TasksPlaced, Conserved
  <1>6. QED
        BY <1>1, <1>2, <1>4, <1>5 DEF IInv

LEMMA InvStep ==
  ASSUME IInv, [Next]_vars
  PROVE  IInv'
  BY TypeStep, CallsStep, ThreadsStep, TasksStep DEF IInv

(* IInv holds in every state of the pool.                                  *)
THEOREM InvCorrect == Spec => []IInv
  <1>1. IInv /\ [Next]_vars => IInv'
        BY InvStep
  <1>2. QED
        BY <1>1, InvInit, PTL DEF Spec

(* Tasks and threads are accounted for, although addTask takes no lock of  *)
(* the pool and the manager acts on old samples: every task is in one      *)
(* place, liveNum stays within minNum and maxNum and counts the workers    *)
(* that are not leaving, and no more of them are busy.                     *)
THEOREM AccountsBalance == Spec => []Accounting
  <1>1. IInv => Accounting
    <2> SUFFICES ASSUME IInv PROVE Accounting
        OBVIOUS
    <2>1. TypeOK
          BY DEF IInv
    <2>2. TaskConservation
          BY DEF IInv, TasksPlaced, Conserved, TaskConservation, Running
    <2>3. LiveAccounting
      <3>1. Busy \subseteq Live /\ IsFiniteSet(Live)
            BY SlotsFinite DEF Busy, Live
      <3>2. Cardinality(Busy) <= Cardinality(Live)
            BY <3>1, FS_Subset
      <3>3. QED
            BY <3>2 DEF IInv, Threads, LiveAccounting, Live
    <2>4. QED
          BY <2>1, <2>2, <2>3 DEF Accounting
  <1>2. QED
        BY <1>1, InvCorrect, PTL

-----------------------------------------------------------------------------
(* The pool implements TaskChannel: takeTask is Start, the end of a task's *)
(* function is Finish, the push of addTask is Submit, and every other step *)
(* leaves the channel as it is.                                            *)
THEOREM PoolImplementsChannel == Spec => ImplementsChannel
  <1> USE DEF Channel!vars, Channel!Queued
  <1>1. Init => Channel!Init
        BY DEF Init, Channel!Init, Running, Held
  <1>2. IInv /\ [Next]_vars => [Channel!Next]_(Channel!vars)
    <2> SUFFICES ASSUME IInv, [Next]_vars PROVE [Channel!Next]_(Channel!vars)
        OBVIOUS
    <2> USE DEF IInv
    <2>1. ASSUME NEW w \in Slots, Starts(w) PROVE Channel!Start
          BY <2>1 DEF Starts, Running, Channel!Start
    <2>2. ASSUME NEW w \in Slots, Finishes(w)
          PROVE  task[w] \in Tasks /\ Channel!Finish(task[w])
      <3>1. \A v \in Held : task[v] = task[w] => v = w
            BY <2>2 DEF Finishes, TasksPlaced, Conserved
      <3>2. task[w] \in Running /\ Running' = Running \ {task[w]}
            BY <2>2, <3>1 DEF Finishes, Running
      <3>3. QED
            BY <2>2, <3>2 DEF Finishes, Channel!Finish
    <2>3. ASSUME NEW t \in Tasks, Submits(t) PROVE Channel!Submit(t)
      <3>1. t \notin {taskQ[i] : i \in DOMAIN taskQ} \cup Running \cup done
            BY <2>3 DEF Submits, TasksPlaced, Conserved, Running
      <3>2. Running' = Running
            BY <2>3 DEF Submits, Running
      <3>3. QED
            BY <2>3, <3>1, <3>2 DEF Submits, Channel!Submit
    <2>4. ASSUME Quiet PROVE UNCHANGED <<taskQ, Running, done>>
          BY <2>4 DEF Quiet, Running
    <2>5. QED
          BY <2>1, <2>2, <2>3, <2>4, TaskSteps DEF Channel!Next
  <1>3. QED
        BY <1>1, <1>2, InvCorrect, PTL DEF Spec, ImplementsChannel, Channel!Spec

-----------------------------------------------------------------------------
(* Multiples.                                                              *)
LEMMA DivMod ==
  ASSUME NEW x \in Int, NEW y \in Nat \ {0}
  PROVE  /\ x \div y \in Int /\ x % y \in Nat /\ x % y < y
         /\ x = (x \div y) * y + (x % y)
  OBVIOUS

LEMMA MultipleIs ==
  ASSUME NEW P \in Nat \ {0}, NEW x \in Int, x % P = 0
  PROVE  \E k \in Int : x = k * P
  <1>1. x \div P \in Int /\ x = (x \div P) * P
        BY DivMod
  <1>2. QED
        BY <1>1

LEMMA IsMultiple ==
  ASSUME NEW P \in Nat \ {0}, NEW k \in Int
  PROVE  k * P \in Int /\ (k * P) % P = 0
  <1> DEFINE x == k * P
             q == x \div P
             r == x % P
  <1>1. x \in Int
        OBVIOUS
  <1>2. q \in Int /\ r \in Nat /\ r < P /\ x = q * P + r
        BY <1>1, DivMod
  <1> HIDE DEF q, r
  <1>3. (k - q) * P = r
        BY <1>2
  <1>4. k - q \in Int
        BY <1>2
  <1>5. ~(k - q >= 1)
    <2> SUFFICES ASSUME k - q >= 1 PROVE FALSE
        OBVIOUS
    <2>1. (k - q) * P >= P
          BY <1>4
    <2>2. QED
          BY <1>2, <1>3, <2>1
  <1>6. ~(k - q <= -1)
    <2> SUFFICES ASSUME k - q <= -1 PROVE FALSE
        OBVIOUS
    <2>1. (k - q) * P <= -P
          BY <1>4
    <2>2. QED
          BY <1>2, <1>3, <2>1
  <1>7. k - q = 0
        BY <1>4, <1>5, <1>6
  <1>8. r = 0
        BY <1>3, <1>7
  <1>9. QED
        BY <1>1, <1>8 DEF r

(* Sums and differences of multiples are multiples.                        *)
LEMMA MultiplesAdd ==
  ASSUME NEW P \in Nat \ {0}, NEW x \in Int, NEW y \in Int, x % P = 0, y % P = 0
  PROVE  (x + y) % P = 0 /\ (x - y) % P = 0
  <1>1. PICK k \in Int : x = k * P
        BY MultipleIs
  <1>2. PICK l \in Int : y = l * P
        BY MultipleIs
  <1>3. x + y = (k + l) * P /\ x - y = (k - l) * P
        BY <1>1, <1>2
  <1>4. k + l \in Int /\ k - l \in Int
        OBVIOUS
  <1>5. ((k + l) * P) % P = 0 /\ ((k - l) * P) % P = 0
        BY <1>4, IsMultiple
  <1>6. QED
        BY <1>3, <1>5

(* The remainder of a multiple by a multiple.                              *)
LEMMA MultiplesRest ==
  ASSUME NEW P \in Nat \ {0}, NEW x \in Int, NEW y \in Nat \ {0}, x % P = 0, y % P = 0
  PROVE  x % y \in Nat /\ (x % y) % P = 0 /\ (x % y) + P <= y
  <1> DEFINE q == x \div y
             r == x % y
  <1>1. q \in Int /\ r \in Nat /\ r < y /\ x = q * y + r
        BY DivMod
  <1> HIDE DEF q, r
  <1>2. PICK k \in Int : x = k * P
        BY MultipleIs
  <1>3. PICK l \in Int : y = l * P
        BY MultipleIs
  <1>4. q * y = (q * l) * P
        BY <1>1, <1>3
  <1>5. q * l \in Int
        BY <1>1
  <1>6. r = (k - q * l) * P
        BY <1>1, <1>2, <1>4, <1>5
  <1>7. PICK n \in Int : r = n * P
    <2>1. PICK j \in Int : j = q * l
          BY <1>5
    <2>2. k - j \in Int /\ r = (k - j) * P
          BY <1>6, <2>1
    <2>3. QED
          BY <2>2
  <1>8. r % P = 0
        BY <1>7, IsMultiple
  <1>9. (l - n) * P > 0
        BY <1>1, <1>3, <1>7
  <1>10. l - n >= 1
        BY <1>9
  <1>11. (l - n) * P >= P
        BY <1>10
  <1>12. r + P <= y
        BY <1>3, <1>7, <1>11
  <1>13. QED
        BY <1>1, <1>8, <1>12 DEF r

(* Slots of one block: the k-th and a later one.                           *)
LEMMA LaterMultiple ==
  ASSUME NEW S \in Nat \ {0}, NEW k \in Nat, NEW l \in Nat, k < l
  PROVE  k * S \in Nat /\ l * S \in Nat /\ k * S + S <= l * S
  <1>1. l - k >= 1 /\ l - k \in Nat
        OBVIOUS
  <1>2. (l - k) * S >= S
        BY <1>1
  <1>3. (l - k) * S = l * S - k * S
        OBVIOUS
  <1>4. k * S \in Nat /\ l * S \in Nat
        OBVIOUS
  <1>5. QED
        BY <1>2, <1>3, <1>4

LEMMA FitsIn ==
  ASSUME NEW S \in Nat \ {0}, NEW n \in Nat, NEW x \in Nat, n * S <= x
  PROVE  n <= x \div S /\ x \div S \in Nat
  <1> DEFINE q == x \div S
  <1>1. q \in Int /\ x % S \in Nat /\ x % S < S /\ x = q * S + (x % S)
        BY DivMod
  <1>2. q \in Nat
        OBVIOUS
  <1> HIDE DEF q
  <1>3. SUFFICES ASSUME q < n PROVE FALSE
        BY <1>2 DEF q
  <1>4. q * S + S <= n * S
        BY <1>2, <1>3, LaterMultiple
  <1>5. q * S \in Nat /\ n * S \in Nat
        BY <1>2
  <1>6. QED
        BY <1>1, <1>4, <1>5

-----------------------------------------------------------------------------
(* The layout.  The k-th slot of the block at b.                           *)
Slot(b, k) == FirstSlot(b) + k * SlotSize

LEMMA SizesAre ==
  /\ PtrSize \in Nat \ {0} /\ SlotSize \in Nat \ {0} /\ BlockSize \in Nat
  /\ 2 * PtrSize <= SlotSize /\ 2 * SlotSize <= BlockSize
  /\ \A a \in Words : a \in Nat /\ a < 2 ^ AddrBits /\ a % PtrSize = 0
  /\ 0 \in Words
  /\ \A b \in Bases : b \in Words /\ b # 0 /\ b + BlockSize < 2 ^ AddrBits
  <1>1. /\ PtrSize \in Nat \ {0} /\ SlotSize \in Nat \ {0} /\ BlockSize \in Nat
        /\ 2 * PtrSize <= SlotSize /\ 2 * SlotSize <= BlockSize
        BY SizesAssumption, NodeAssumption
  <1>2. PICK A \in Nat \ {0} : A = 2 ^ AddrBits
        BY SizesAssumption
  <1>3. Words = {a \in 0 .. (A - 1) : a % PtrSize = 0}
        BY <1>2 DEF Words
  <1>4. \A a \in Words : a \in Nat /\ a < A /\ a % PtrSize = 0
        BY <1>2, <1>3
  <1>5. 0 \in Words
    <2>1. 0 % PtrSize = 0
          BY <1>1
    <2>2. 0 \in 0 .. (A - 1)
          BY <1>2
    <2>3. QED
          BY <1>3, <2>1, <2>2
  <1>6. \A b \in Bases : b \in Words /\ b # 0 /\ b + BlockSize < A
        BY <1>2, BasesAssumption
  <1>7. QED
        BY <1>1, <1>2, <1>4, <1>5, <1>6

LEMMA WordsAre ==
  ASSUME NEW a \in Nat, a < 2 ^ AddrBits, a % PtrSize = 0
  PROVE  a \in Words
  <1>1. PICK A \in Nat \ {0} : A = 2 ^ AddrBits
        BY SizesAssumption
  <1>2. a \in 0 .. (A - 1)
        BY <1>1
  <1>3. QED
        BY <1>1, <1>2 DEF Words

(* The padding keeps the alignment of pointers and leaves room for a slot. *)
LEMMA FirstSlotFits ==
  ASSUME NEW b \in Bases
  PROVE  /\ FirstSlot(b) \in Nat /\ FirstSlot(b) % PtrSize = 0
         /\ b + PtrSize <= FirstSlot(b) /\ FirstSlot(b) + SlotSize <= b + BlockSize
  <1>1. PICK A \in Nat \ {0} : A = 2 ^ AddrBits /\ A % PtrSize = 0
        BY SizesAssumption
  <1>2. b \in Nat /\ b % PtrSize = 0 /\ SlotSize % PtrSize = 0
        BY SizesAre, SizesAssumption
  <1>3. PtrSize % PtrSize = 0
    <2>1. (1 * PtrSize) % PtrSize = 0
          BY SizesAre, IsMultiple
    <2>2. QED
          BY <2>1, SizesAre
  <1>4. PICK p : p = b + PtrSize
        OBVIOUS
  <1>5. p \in Nat /\ p % PtrSize = 0
        BY <1>2, <1>3, <1>4, SizesAre, MultiplesAdd
  <1>a. PtrSize \in Nat \ {0} /\ SlotSize \in Nat \ {0} /\ SlotSize \in Int /\ p \in Int
        BY <1>5, SizesAre
  <1>6. SlotSize - p \in Int /\ (SlotSize - p) % PtrSize = 0
    <2>1. (SlotSize - p) % PtrSize = 0
          BY <1>2, <1>5, <1>a, MultiplesAdd
    <2>2. QED
          BY <1>a, <2>1
  <1>7. PICK y : y = (SlotSize - p) % A
        OBVIOUS
  <1>8. y \in Nat /\ y % PtrSize = 0
        BY <1>1, <1>6, <1>7, SizesAre, MultiplesRest
  <1>9. PICK z : z = y % SlotSize
        OBVIOUS
  <1>10. z \in Nat /\ z % PtrSize = 0 /\ z + PtrSize <= SlotSize
    <2>1. y \in Int
          BY <1>8
    <2>2. y % SlotSize \in Nat /\ (y % SlotSize) % PtrSize = 0 /\ (y % SlotSize) + PtrSize <= SlotSize
          BY <1>2, <1>8, <1>a, <2>1, MultiplesRest
    <2>3. QED
          BY <1>9, <2>2
  <1>11. FirstSlot(b) = p + z
        BY <1>1, <1>4, <1>7, <1>9 DEF FirstSlot, padPointer
  <1>12. (p + z) % PtrSize = 0
    <2>1. z \in Int
          BY <1>10
    <2>2. QED
          BY <1>5, <1>10, <1>a, <2>1, MultiplesAdd
  <1>13. p + z \in Nat /\ b + PtrSize <= p + z /\ p + z + SlotSize <= b + BlockSize
        BY <1>2, <1>4, <1>10, SizesAre
  <1>14. QED
        BY <1>11, <1>12, <1>13

LEMMA SlotIs ==
  ASSUME NEW b \in Bases, NEW k \in Nat
  PROVE  /\ Slot(b, k) \in Nat /\ Slot(b, k) % PtrSize = 0
         /\ b \in Nat /\ b + PtrSize <= Slot(b, k)
         /\ Slot(b, 0) = FirstSlot(b)
         /\ Slot(b, k + 1) = Slot(b, k) + SlotSize
         /\ Slot(b, k) + SlotSize <= b + BlockSize =>
              /\ Slot(b, k) \in Words /\ Slot(b, k) # 0 /\ PrevOf(Slot(b, k)) \in Words
              /\ k < (BlockSize - PtrSize) \div SlotSize
  <1>1. /\ FirstSlot(b) \in Nat /\ FirstSlot(b) % PtrSize = 0
        /\ b + PtrSize <= FirstSlot(b) /\ b \in Nat
        BY FirstSlotFits, SizesAre
  <1>2. PICK A \in Nat \ {0} : A = 2 ^ AddrBits /\ b + BlockSize < A
        BY SizesAssumption, SizesAre
  <1>3. PICK l \in Int : SlotSize = l * PtrSize
        BY SizesAssumption, MultipleIs
  <1>4. k * SlotSize \in Nat /\ (k + 1) * SlotSize = k * SlotSize + SlotSize /\ 0 * SlotSize = 0
        BY SizesAre
  <1>5. (k * SlotSize) % PtrSize = 0
    <2>1. k * SlotSize = (k * l) * PtrSize /\ k * l \in Int
          BY <1>3, SizesAre
    <2>2. QED
          BY <2>1, IsMultiple, SizesAre
  <1>6. Slot(b, k) % PtrSize = 0
        BY <1>1, <1>4, <1>5, MultiplesAdd, SizesAre DEF Slot
  <1>7. PICK p \in Nat : p = Slot(b, k)
        BY <1>1, <1>4 DEF Slot
  <1>8. b + PtrSize <= p
        BY <1>1, <1>4, <1>7, SizesAre DEF Slot
  <1>9. Slot(b, 0) = FirstSlot(b) /\ Slot(b, k + 1) = p + SlotSize
        BY <1>1, <1>4, <1>7, SizesAre DEF Slot
  <1>10. ASSUME p + SlotSize <= b + BlockSize
         PROVE  /\ p \in Words /\ p # 0 /\ PrevOf(p) \in Words
                /\ k < (BlockSize - PtrSize) \div SlotSize
    <2>1. p < A /\ p + PtrSize < A /\ p + PtrSize \in Nat /\ p # 0
          BY <1>1, <1>2, <1>8, <1>10, SizesAre
    <2>2. p \in Words
          BY <1>2, <1>6, <1>7, <2>1, WordsAre
    <2>3. (p + PtrSize) % PtrSize = 0
      <3>1. (1 * PtrSize) % PtrSize = 0 /\ 1 * PtrSize = PtrSize
            BY SizesAre, IsMultiple
      <3>2. QED
            BY <1>6, <1>7, <3>1, MultiplesAdd, SizesAre
    <2>4. PrevOf(p) \in Words
          BY <1>2, <2>1, <2>3, WordsAre DEF PrevOf
    <2>5. (k + 1) * SlotSize <= BlockSize - PtrSize
      <3>1. p = FirstSlot(b) + k * SlotSize
            BY <1>7 DEF Slot
      <3>2. QED
            BY <1>1, <1>4, <1>10, <3>1, SizesAre
    <2>6. k + 1 \in Nat /\ BlockSize - PtrSize \in Nat
          BY SizesAre
    <2>7. PICK M \in Nat : M = (BlockSize - PtrSize) \div SlotSize /\ k + 1 <= M
          BY <2>5, <2>6, SizesAre, FitsIn
    <2>8. k < M
          BY <2>7
    <2>9. QED
          BY <2>1, <2>2, <2>4, <2>7, <2>8
  <1>11. QED
        BY <1>1, <1>6, <1>7, <1>8, <1>9, <1>10

(* Slots that were cut: within their block and, in the current block cb,   *)
(* in front of the part that is still whole.                               *)
CutIn(b, k, p, cb, cs) ==
  /\ p = Slot(b, k) /\ p + SlotSize <= b + BlockSize
  /\ b = cb => p + SlotSize <= cs
Cut(hp, cb, cs, p) == \E b \in hp, k \in Nat : CutIn(b, k, p, cb, cs)

BlocksApart(hp) == \A b, c \in hp : b = c \/ b + BlockSize <= c \/ c + BlockSize <= b
Apart(p, q) == p + SlotSize <= q \/ q + SlotSize <= p

LEMMA CutIs ==
  ASSUME NEW hp \in SUBSET Bases, NEW cb, NEW cs, NEW p, Cut(hp, cb, cs, p)
  PROVE  /\ p \in Words /\ p # 0 /\ PrevOf(p) \in Words /\ p \in Nat
         /\ \E b \in hp : Inside(p, b)
  <1>1. PICK b \in hp, k \in Nat : CutIn(b, k, p, cb, cs)
        BY DEF Cut
  <1>2. p = Slot(b, k) /\ p + SlotSize <= b + BlockSize /\ b \in Bases
        BY <1>1 DEF CutIn
  <1>3. p \in Nat /\ p \in Words /\ p # 0 /\ PrevOf(p) \in Words /\ b + PtrSize <= p
        BY <1>2, SlotIs
  <1>4. QED
        BY <1>2, <1>3 DEF Inside

LEMMA CutsApart ==
  ASSUME NEW hp \in SUBSET Bases, BlocksApart(hp), NEW cb, NEW cs,
         NEW p, Cut(hp, cb, cs, p), NEW q, Cut(hp, cb, cs, q), p # q
  PROVE  Apart(p, q)
  <1>1. PICK b \in hp, k \in Nat : CutIn(b, k, p, cb, cs)
        BY DEF Cut
  <1>2. PICK c \in hp, l \in Nat : CutIn(c, l, q, cb, cs)
        BY DEF Cut
  <1>3. /\ p = Slot(b, k) /\ p + SlotSize <= b + BlockSize /\ b \in Bases
        /\ q = Slot(c, l) /\ q + SlotSize <= c + BlockSize /\ c \in Bases
        BY <1>1, <1>2 DEF CutIn
  <1>4. /\ p \in Nat /\ b \in Nat /\ b + PtrSize <= p
        /\ q \in Nat /\ c \in Nat /\ c + PtrSize <= q
        BY <1>3, SlotIs
  <1>5. CASE b # c
    <2>1. b + BlockSize <= c \/ c + BlockSize <= b
          BY <1>5 DEF BlocksApart
    <2>2. QED
          BY <1>3, <1>4, <2>1, SizesAre DEF Apart
  <1>6. CASE b = c
    <2>1. k # l
          BY <1>3, <1>6
    <2>2. PICK f \in Nat : f = FirstSlot(b)
          BY <1>3, FirstSlotFits
    <2>3. p = f + k * SlotSize /\ q = f + l * SlotSize
          BY <1>3, <1>6, <2>2 DEF Slot
    <2>4. CASE k < l
      <3>1. k * SlotSize \in Nat /\ l * SlotSize \in Nat /\ k * SlotSize + SlotSize <= l * SlotSize
            BY <2>4, LaterMultiple, SizesAre
      <3>2. QED
            BY <2>2, <2>3, <3>1, SizesAre DEF Apart
    <2>5. CASE l < k
      <3>1. k * SlotSize \in Nat /\ l * SlotSize \in Nat /\ l * SlotSize + SlotSize <= k * SlotSize
            BY <2>5, LaterMultiple, SizesAre
      <3>2. QED
            BY <2>2, <2>3, <3>1, SizesAre DEF Apart
    <2>6. QED
          BY <2>1, <2>4, <2>5
  <1>7. QED
        BY <1>5, <1>6

-----------------------------------------------------------------------------
(* Lists in memory.  c are the words of the list that starts at `start',   *)
(* where nx holds the link of each.                                        *)
Nth(c, i) == IF i \in 1 .. Len(c) THEN c[i] ELSE 0
Cells(c) == {c[i] : i \in 1 .. Len(c)}
Chain(nx, start, c) ==
  /\ c \in Seq(Words \ {0})
  /\ start = Nth(c, 1)
  /\ \A i \in 1 .. Len(c) : nx[c[i]] = Nth(c, i + 1)
  /\ \A i, j \in 1 .. Len(c) : c[i] = c[j] => i = j

LEMMA ChainIs ==
  ASSUME NEW nx, NEW start, NEW c, Chain(nx, start, c)
  PROVE  /\ Len(c) \in Nat /\ c \in Seq(Words \ {0})
         /\ \A i \in 1 .. Len(c) : c[i] \in Words /\ c[i] # 0 /\ c[i] \in Cells(c)
         /\ start \in Words
         /\ start = 0 => c = <<>> /\ Cells(c) = {}
         /\ Cells(c) \in SUBSET (Words \ {0})
         /\ IsFiniteSet(Cells(c)) /\ Cardinality(Cells(c)) = Len(c)
  <1>1. c \in Seq(Words \ {0}) /\ Len(c) \in Nat
        BY DEF Chain
  <1>2. \A i \in 1 .. Len(c) : c[i] \in Words /\ c[i] # 0 /\ c[i] \in Cells(c)
        BY <1>1 DEF Cells
  <1>3. start \in Words
    <2>1. CASE 1 \in 1 .. Len(c)
          BY <1>2, <2>1 DEF Chain, Nth
    <2>2. CASE 1 \notin 1 .. Len(c)
          BY <2>2, SizesAre DEF Chain, Nth
    <2>3. QED
          BY <2>1, <2>2
  <1>4. start = 0 => c = <<>> /\ Cells(c) = {}
    <2> SUFFICES ASSUME start = 0 PROVE c = <<>> /\ Cells(c) = {}
        OBVIOUS
    <2>1. 1 \notin 1 .. Len(c)
          BY <1>2 DEF Chain, Nth
    <2>2. Len(c) = 0
          BY <1>1, <2>1
    <2>3. 1 .. Len(c) = {}
          BY <2>2
    <2>4. c = <<>>
          BY <1>1, <2>2
    <2>5. QED
          BY <2>3, <2>4 DEF Cells
  <1>5. Cells(c) \in SUBSET (Words \ {0})
        BY <1>2 DEF Cells
  <1>6. IsFiniteSet(Cells(c)) /\ Cardinality(Cells(c)) = Len(c)
    <2> DEFINE f == [i \in 1 .. Len(c) |-> c[i]]
    <2>1. f \in [1 .. Len(c) -> Cells(c)]
          BY <1>2
    <2>2. \A i, j \in 1 .. Len(c) : f[i] = f[j] => i = j
          BY DEF Chain
    <2>3. \A x \in Cells(c) : \E i \in 1 .. Len(c) : f[i] = x
          BY DEF Cells
    <2>4. ExistsBijection(1 .. Len(c), Cells(c))
      <3> HIDE DEF f
      <3>1. f \in Bijection(1 .. Len(c), Cells(c))
            BY <2>1, <2>2, <2>3, Zenon DEF Bijection, Injection, Surjection, IsInjective
      <3>2. QED
            BY <3>1 DEF ExistsBijection
    <2>5. IsFiniteSet(1 .. Len(c)) /\ Cardinality(1 .. Len(c)) = Len(c)
          BY <1>1, FS_Interval
    <2>6. QED
          BY <2>4, <2>5, FS_Bijection
  <1>7. QED
        BY <1>1, <1>2, <1>3, <1>4, <1>5, <1>6

(* Links outside of the list may change.                                   *)
LEMMA ChainKept ==
  ASSUME NEW nx, NEW start, NEW c, Chain(nx, start, c),
         NEW ny, \A a \in Cells(c) : ny[a] = nx[a]
  PROVE  Chain(ny, start, c)
  <1>1. \A i \in 1 .. Len(c) : c[i] \in Cells(c)
        BY DEF Cells
  <1>2. QED
        BY <1>1 DEF Chain

LEMMA ChainCons ==
  ASSUME NEW nx, NEW start, NEW c, Chain(nx, start, c),
         NEW p \in Words, p # 0, p \notin Cells(c),
         NEW ny, ny[p] = start, \A a \in Cells(c) : ny[a] = nx[a]
  PROVE  Chain(ny, p, <<p>> \o c) /\ Cells(<<p>> \o c) = Cells(c) \cup {p}
  <1>1. PICK d : d = <<p>> \o c
        OBVIOUS
  <1>2. Len(c) \in Nat /\ c \in Seq(Words \ {0})
        BY ChainIs
  <1>3. /\ d \in Seq(Words \ {0}) /\ Len(d) = Len(c) + 1 /\ d[1] = p
        /\ \A i \in 1 .. Len(c) : d[i + 1] = c[i]
        /\ \A i \in 2 .. (Len(c) + 1) : i - 1 \in 1 .. Len(c) /\ d[i] = c[i - 1]
        BY <1>1, <1>2, PushFront
  <1>4. \A i \in 1 .. Len(d) : i = 1 \/ (i \in 2 .. (Len(c) + 1) /\ i # 1)
        BY <1>2, <1>3
  <1>5. \A i \in 1 .. Len(c) : c[i] \in Cells(c)
        BY DEF Cells
  <1>6. p = Nth(d, 1)
    <2>1. 1 \in 1 .. Len(d)
          BY <1>2, <1>3
    <2>2. QED
          BY <1>3, <2>1 DEF Nth
  <1>7. ASSUME NEW i \in 1 .. Len(c) PROVE Nth(d, i + 1) = c[i]
    <2>1. i + 1 \in 1 .. Len(d)
          BY <1>2, <1>3
    <2>2. QED
          BY <1>3, <2>1 DEF Nth
  <1>8. ASSUME NEW i \in 1 .. (Len(c) + 1) PROVE Nth(d, i + 1) = Nth(c, i)
    <2>1. CASE i \in 1 .. Len(c)
          BY <1>7, <2>1 DEF Nth
    <2>2. CASE i \notin 1 .. Len(c)
      <3>1. i + 1 \notin 1 .. Len(d)
            BY <1>2, <1>3, <2>2
      <3>2. QED
            BY <2>2, <3>1 DEF Nth
    <2>3. QED
          BY <2>1, <2>2
  <1>9. ASSUME NEW i \in 1 .. Len(d) PROVE ny[d[i]] = Nth(d, i + 1)
    <2>1. CASE i = 1
      <3>1. 1 \in 1 .. (Len(c) + 1) /\ start = Nth(c, 1)
            BY <1>2 DEF Chain
      <3>2. Nth(d, 1 + 1) = start
            BY <1>8, <3>1
      <3>3. QED
            BY <1>3, <2>1, <3>2
    <2>2. CASE i # 1
      <3>1. PICK j \in 1 .. Len(c) : j = i - 1 /\ d[i] = c[j]
            BY <1>3, <1>4, <2>2
      <3>2. i \in 1 .. (Len(c) + 1) /\ j + 1 = i
            BY <1>2, <1>3, <3>1
      <3>3. ny[c[j]] = Nth(c, j + 1)
            BY <1>5 DEF Chain
      <3>4. QED
            BY <1>8, <3>1, <3>2, <3>3
    <2>3. QED
          BY <2>1, <2>2
  <1>10. ASSUME NEW i \in 1 .. Len(d), NEW j \in 1 .. Len(d), d[i] = d[j] PROVE i = j
    <2>1. \A x \in 1 .. Len(d) : x # 1 => d[x] # p /\ \E y \in 1 .. Len(c) : d[x] = c[y] /\ y = x - 1
          BY <1>3, <1>4, <1>5
    <2>2. CASE i = 1 \/ j = 1
          BY <1>3, <1>10, <2>1, <2>2
    <2>3. CASE i # 1 /\ j # 1
      <3>1. PICK x \in 1 .. Len(c), y \in 1 .. Len(c) : d[i] = c[x] /\ x = i - 1 /\ d[j] = c[y] /\ y = j - 1
            BY <2>1, <2>3
      <3>2. x = y
            BY <1>10, <3>1 DEF Chain
      <3>3. QED
            BY <1>2, <1>3, <3>1, <3>2
    <2>4. QED
          BY <2>2, <2>3
  <1>11. Chain(ny, p, d)
        BY <1>3, <1>6, <1>9, <1>10 DEF Chain
  <1>12. Cells(d) = Cells(c) \cup {p}
    <2>1. \A i \in 1 .. Len(d) : d[i] \in Cells(c) \cup {p}
          BY <1>3, <1>4, <1>5
    <2>2. 1 \in 1 .. Len(d) /\ \A i \in 1 .. Len(c) : i + 1 \in 1 .. Len(d)
          BY <1>2, <1>3
    <2>3. p \in Cells(d) /\ \A i \in 1 .. Len(c) : c[i] \in Cells(d)
          BY <1>3, <2>2 DEF Cells
    <2>4. Cells(d) \subseteq Cells(c) \cup {p}
          BY <2>1 DEF Cells
    <2>5. Cells(c) \subseteq Cells(d)
          BY <2>3 DEF Cells
    <2>6. QED
          BY <2>3, <2>4, <2>5
  <1>13. QED
        BY <1>1, <1>11, <1>12

LEMMA ChainTail ==
  ASSUME NEW nx, NEW start, NEW c, Chain(nx, start, c), start # 0
  PROVE  /\ c # <<>> /\ start = c[1] /\ start \in Cells(c)
         /\ Chain(nx, nx[start], Tail(c)) /\ Cells(Tail(c)) = Cells(c) \ {start}
         /\ Cells(c) = Cells(Tail(c)) \cup {start}
  <1>1. PICK d : d = Tail(c)
        OBVIOUS
  <1>2. c \in Seq(Words \ {0}) /\ 1 \in 1 .. Len(c) /\ start = c[1] /\ Len(c) \in Nat
        BY DEF Chain, Nth
  <1>3. c # <<>>
        BY <1>2
  <1>4. /\ d \in Seq(Words \ {0}) /\ Len(d) = Len(c) - 1 /\ Len(c) \in Nat \ {0}
        /\ \A i \in 1 .. (Len(c) - 1) : d[i] = c[i + 1]
        BY <1>1, <1>2, <1>3, PopFront
  <1>5. \A i \in 1 .. Len(c) : c[i] \in Cells(c)
        BY DEF Cells
  <1>6. ASSUME NEW i \in Nat \ {0} PROVE Nth(d, i) = Nth(c, i + 1)
    <2>1. CASE i \in 1 .. Len(d)
      <3>1. i + 1 \in 1 .. Len(c) /\ i \in 1 .. (Len(c) - 1)
            BY <1>4, <2>1
      <3>2. QED
            BY <1>4, <2>1, <3>1 DEF Nth
    <2>2. CASE i \notin 1 .. Len(d)
      <3>1. i + 1 \notin 1 .. Len(c)
            BY <1>4, <2>2
      <3>2. QED
            BY <2>2, <3>1 DEF Nth
    <2>3. QED
          BY <2>1, <2>2
  <1>7. nx[start] = Nth(d, 1)
    <2>1. nx[c[1]] = Nth(c, 1 + 1)
          BY <1>2 DEF Chain
    <2>2. QED
          BY <1>2, <1>6, <2>1
  <1>8. \A i \in 1 .. Len(d) : i + 1 \in 1 .. Len(c) /\ d[i] = c[i + 1] /\ i + 1 # 1 /\ i + 1 \in Nat \ {0}
        BY <1>4
  <1>9. ASSUME NEW i \in 1 .. Len(d) PROVE nx[d[i]] = Nth(d, i + 1)
    <2>1. nx[c[i + 1]] = Nth(c, (i + 1) + 1)
          BY <1>8 DEF Chain
    <2>2. QED
          BY <1>6, <1>8, <2>1
  <1>10. ASSUME NEW i \in 1 .. Len(d), NEW j \in 1 .. Len(d), d[i] = d[j] PROVE i = j
    <2>1. i + 1 = j + 1
          BY <1>8, <1>10 DEF Chain
    <2>2. QED
          BY <2>1
  <1>11. Chain(nx, nx[start], d)
        BY <1>4, <1>7, <1>9, <1>10 DEF Chain
  <1>12. \A i \in 1 .. Len(d) : d[i] \in Cells(c) /\ d[i] # start
        BY <1>2, <1>5, <1>8 DEF Chain
  <1>13. \A i \in 1 .. Len(c) : c[i] = start \/ c[i] \in Cells(d)
    <2> TAKE i \in 1 .. Len(c)
    <2>1. CASE i = 1
          BY <1>2, <2>1
    <2>2. CASE i # 1
      <3>1. i - 1 \in 1 .. Len(d) /\ (i - 1) + 1 = i
            BY <1>4, <2>2
      <3>2. d[i - 1] = c[i]
            BY <1>8, <3>1
      <3>3. QED
            BY <3>1, <3>2 DEF Cells
    <2>3. QED
          BY <2>1, <2>2
  <1>14. Cells(d) \subseteq Cells(c) \ {start}
        BY <1>12 DEF Cells
  <1>15. Cells(c) \subseteq Cells(d) \cup {start}
        BY <1>13 DEF Cells
  <1>16. QED
        BY <1>1, <1>2, <1>3, <1>5, <1>11, <1>14, <1>15

(* Following the links of a list for n steps or more goes through all of   *)
(* it and ends at 0.                                                       *)
Walks(nx, start, n, w) ==
  \A k \in 0 .. n : w[k] = IF k = 0 THEN start
                           ELSE IF w[k - 1] \in Words \ {0} THEN nx[w[k - 1]] ELSE 0

LEMMA NthStep ==
  ASSUME NEW nx, NEW start, NEW c, Chain(nx, start, c), NEW k \in Nat \ {0}
  PROVE  Nth(c, k + 1) = IF Nth(c, k) \in Words \ {0} THEN nx[Nth(c, k)] ELSE 0
  <1>1. CASE k \in 1 .. Len(c)
    <2>1. Nth(c, k) = c[k] /\ c[k] \in Words \ {0}
          BY <1>1, ChainIs DEF Nth
    <2>2. nx[c[k]] = Nth(c, k + 1)
          BY <1>1 DEF Chain
    <2>3. QED
          BY <2>1, <2>2
  <1>2. CASE k \notin 1 .. Len(c)
    <2>1. Nth(c, k) = 0
          BY <1>2 DEF Nth
    <2>2. k + 1 \notin 1 .. Len(c)
          BY <1>2, ChainIs
    <2>3. Nth(c, k + 1) = 0
          BY <2>2 DEF Nth
    <2>4. QED
          BY <2>1, <2>3
  <1>3. QED
        BY <1>1, <1>2

LEMMA WalkIs ==
  ASSUME NEW nx, NEW start, NEW c, Chain(nx, start, c), NEW n \in Nat, NEW w, Walks(nx, start, n, w)
  PROVE  \A k \in 0 .. n : w[k] = Nth(c, k + 1)
  <1> DEFINE S == {k \in Nat : k <= n => w[k] = Nth(c, k + 1)}
  <1>1. 0 \in S
    <2>1. 0 \in 0 .. n
          OBVIOUS
    <2>2. w[0] = start /\ start = Nth(c, 1)
          BY <2>1 DEF Walks, Chain
    <2>3. 0 + 1 = 1
          OBVIOUS
    <2>4. QED
          BY <2>2, <2>3
  <1>2. ASSUME NEW k \in S PROVE k + 1 \in S
    <2>1. k \in Nat /\ k + 1 \in Nat \ {0} /\ (k + 1) - 1 = k
          OBVIOUS
    <2>2. SUFFICES ASSUME k + 1 <= n PROVE w[k + 1] = Nth(c, (k + 1) + 1)
          BY <2>1
    <2>3. k + 1 \in 0 .. n /\ k + 1 # 0 /\ w[k] = Nth(c, k + 1)
          BY <2>1, <2>2
    <2>4. w[k + 1] = IF w[k] \in Words \ {0} THEN nx[w[k]] ELSE 0
          BY <2>1, <2>3 DEF Walks
    <2>5. Nth(c, (k + 1) + 1) = IF Nth(c, k + 1) \in Words \ {0} THEN nx[Nth(c, k + 1)] ELSE 0
          BY <2>1, NthStep
    <2>6. QED
          BY <2>3, <2>4, <2>5
  <1>3. S = Nat
    <2>1. S \in SUBSET Nat
          OBVIOUS
    <2> HIDE DEF S
    <2>2. QED
          BY <1>1, <1>2, <2>1, SetInduction
  <1>4. \A k \in 0 .. n : k \in S /\ k <= n
    <2> HIDE DEF S
    <2>1. QED
          BY <1>3
  <1>5. QED
        BY <1>4

LEMMA WalkExists ==
  ASSUME NEW nx, NEW start, NEW c, Chain(nx, start, c), NEW n \in Nat,
         NEW w, w = [k \in 0 .. n |-> Nth(c, k + 1)]
  PROVE  Walks(nx, start, n, w)
  <1> SUFFICES ASSUME NEW k \in 0 .. n
               PROVE  w[k] = IF k = 0 THEN start
                             ELSE IF w[k - 1] \in Words \ {0} THEN nx[w[k - 1]] ELSE 0
      BY DEF Walks
  <1>1. CASE k = 0
    <2>1. w[0] = Nth(c, 1)
          BY <1>1
    <2>2. QED
          BY <1>1, <2>1 DEF Chain
  <1>2. CASE k # 0
    <2>1. k - 1 \in 0 .. n /\ (k - 1) + 1 = k /\ k \in Nat \ {0}
          BY <1>2
    <2>2. w[k - 1] = Nth(c, k)
          BY <2>1
    <2>3. w[k] = Nth(c, k + 1)
          OBVIOUS
    <2>4. QED
          BY <1>2, <2>1, <2>2, <2>3, NthStep
  <1>3. QED
        BY <1>1, <1>2

LEMMA PathIs ==
  ASSUME NEW start, NEW c, Chain(mem, start, c), MaxSlots \in Nat, Len(c) <= MaxSlots
  PROVE  IsList(start) /\ Reached(start) = Cells(c)
  <1> DEFINE N == MaxSlots + 1
             F(g) == [k \in 0 .. N |-> IF k = 0 THEN start
                                       ELSE IF g[k - 1] \in Words \ {0} THEN mem[g[k - 1]] ELSE 0]
             w == CHOOSE g : g = F(g)
             v == [k \in 0 .. N |-> Nth(c, k + 1)]
  <1>1. Path(start) = w
        BY DEF Path
  <1>2. v = F(v)
    <2>1. N \in Nat
          OBVIOUS
    <2>2. Walks(mem, start, N, v)
      <3> HIDE DEF N
      <3>1. QED
            BY <2>1, WalkExists
    <2>3. \A k \in 0 .. N : v[k] = F(v)[k]
      <3> HIDE DEF v, N
      <3>1. QED
            BY <2>2 DEF Walks
    <2> HIDE DEF N
    <2>4. QED
          BY <2>3
  <1>3. w = F(w)
    <2> HIDE DEF F
    <2>1. QED
          BY <1>2
  <1>4. Walks(mem, start, N, w) /\ DOMAIN w = 0 .. N
    <2> HIDE DEF w, N
    <2>1. QED
          BY <1>3 DEF Walks
  <1>5. N \in Nat /\ N = MaxSlots + 1 /\ Len(c) \in Nat
        BY ChainIs
  <1>6. PICK x : x = w
        OBVIOUS
  <1> HIDE DEF w, N
  <1>7. \A k \in 0 .. N : x[k] = Nth(c, k + 1)
        BY <1>4, <1>5, <1>6, WalkIs
  <1>8. x[N] = 0
    <2>1. N + 1 \notin 1 .. Len(c) /\ N \in 0 .. N
          BY <1>5
    <2>2. QED
          BY <1>7, <2>1 DEF Nth
  <1>9. Range(x) = {Nth(c, k + 1) : k \in 0 .. N}
        BY <1>4, <1>6, <1>7 DEF Range
  <1>10. ASSUME NEW a \in Range(x) \ {0} PROVE a \in Cells(c)
    <2>1. PICK k \in 0 .. N : a = Nth(c, k + 1)
          BY <1>9
    <2>2. k + 1 \in 1 .. Len(c) /\ a = c[k + 1]
          BY <2>1 DEF Nth
    <2>3. QED
          BY <2>2 DEF Cells
  <1>11. ASSUME NEW a \in Cells(c) PROVE a \in Range(x) \ {0}
    <2>1. PICK i \in 1 .. Len(c) : a = c[i]
          BY DEF Cells
    <2>2. i - 1 \in 0 .. N /\ (i - 1) + 1 = i
          BY <1>5
    <2>3. a = Nth(c, (i - 1) + 1)
          BY <2>1, <2>2 DEF Nth
    <2>4. a # 0
          BY <2>1, ChainIs
    <2>5. a \in {Nth(c, k + 1) : k \in 0 .. N}
          BY <2>2, <2>3
    <2>6. QED
          BY <1>9, <2>4, <2>5
  <1>12. Range(x) \ {0} = Cells(c)
        BY <1>10, <1>11
  <1>13. QED
        BY <1>1, <1>5, <1>6, <1>8, <1>12 DEF IsList, Reached

Prevs(m) == [a \in Words |-> m[PrevOf(a)]]

LEMMA NodesIs ==
  ASSUME NEW c, Chain(Prevs(mem), head_, c), MaxSlots \in Nat, Len(c) <= MaxSlots
  PROVE  Nodes = c
  <1> DEFINE N == MaxSlots
             F(g) == [k \in 0 .. MaxSlots |-> IF k = 0 THEN head_
                                       ELSE IF g[k - 1] \in Words \ {0} THEN mem[PrevOf(g[k - 1])] ELSE 0]
             w == CHOOSE g : g = F(g)
             v == [k \in 0 .. N |-> Nth(c, k + 1)]
             Reach(g) == {k \in 0 .. MaxSlots : g[k] # 0}
  <1>1. Nodes = [i \in 1 .. Cardinality(Reach(w)) |-> w[i - 1]]
        BY DEF Nodes
  <1>2. \A g : Walks(Prevs(mem), head_, N, g) <=> \A k \in 0 .. N : g[k] = F(g)[k]
    <2> SUFFICES ASSUME NEW g, NEW k \in 0 .. N
                 PROVE  (IF k = 0 THEN head_
                         ELSE IF g[k - 1] \in Words \ {0} THEN Prevs(mem)[g[k - 1]] ELSE 0) = F(g)[k]
        BY DEF Walks
    <2>1. \A a \in Words \ {0} : Prevs(mem)[a] = mem[PrevOf(a)]
          BY DEF Prevs
    <2>2. QED
          BY <2>1
  <1>3. v = F(v)
    <2>1. Walks(Prevs(mem), head_, N, v)
          BY WalkExists
    <2>2. \A k \in 0 .. N : v[k] = F(v)[k]
      <3> HIDE DEF F, v
      <3>1. QED
            BY <1>2, <2>1
    <2>3. QED
          BY <2>2
  <1>4. w = F(w)
    <2> HIDE DEF F
    <2>1. QED
          BY <1>3
  <1>5. PICK x : x = w
        OBVIOUS
  <1> HIDE DEF w
  <1>6. Walks(Prevs(mem), head_, N, x)
    <2> HIDE DEF F
    <2>1. QED
          BY <1>2, <1>4, <1>5
  <1>7. \A k \in 0 .. N : x[k] = Nth(c, k + 1)
        BY <1>6, WalkIs
  <1>8. Len(c) \in Nat /\ c \in Seq(Words \ {0})
        BY ChainIs
  <1>9. Reach(x) = 0 .. (Len(c) - 1)
    <2>1. ASSUME NEW k \in 0 .. N PROVE x[k] # 0 <=> k + 1 \in 1 .. Len(c)
      <3>1. k + 1 \in 1 .. Len(c) => c[k + 1] # 0
            BY ChainIs
      <3>2. QED
            BY <1>7, <3>1 DEF Nth
    <2>2. \A k \in 0 .. N : k + 1 \in 1 .. Len(c) <=> k \in 0 .. (Len(c) - 1)
          BY <1>8
    <2>3. 0 .. (Len(c) - 1) \subseteq 0 .. N
          BY <1>8
    <2>4. QED
          BY <2>1, <2>2, <2>3
  <1>10. Cardinality(Reach(x)) = Len(c)
        BY <1>8, <1>9, CountOfPrefix
  <1>11. PICK d : d = [i \in 1 .. Len(c) |-> x[i - 1]]
        OBVIOUS
  <1>12. \A i \in 1 .. Len(c) : d[i] = c[i]
    <2> TAKE i \in 1 .. Len(c)
    <2>1. i - 1 \in 0 .. N /\ (i - 1) + 1 = i
          BY <1>8
    <2>2. x[i - 1] = Nth(c, i)
          BY <1>7, <2>1
    <2>3. QED
          BY <1>11, <2>2 DEF Nth
  <1>13. d \in Seq(Words \ {0}) /\ Len(d) = Len(c)
    <2>1. \A i \in 1 .. Len(c) : c[i] \in Words \ {0}
          BY <1>8
    <2>2. d \in [1 .. Len(c) -> Words \ {0}]
          BY <1>11, <1>12, <2>1
    <2>3. QED
          BY <1>8, <2>2
  <1>14. d = c
        BY <1>8, <1>12, <1>13, SeqEqual
  <1>15. QED
        BY <1>1, <1>5, <1>10, <1>11, <1>14

-----------------------------------------------------------------------------
(* The inductive invariant, of a pool pl, memory m, blocks hp, held slots  *)
(* use and stack hd, with the free list fs, the nodes ns and the list of   *)
(* the blocks bs.                                                          *)
PoolRecord == [currentBlock : Nat, currentSlot : Nat, lastSlot : Nat, freeSlots : Nat]

Cutting(pl) ==
  IF pl.currentBlock = 0 THEN pl.currentSlot >= pl.lastSlot
  ELSE /\ pl.lastSlot = LastSlot(pl.currentBlock)
       /\ \E k \in Nat : pl.currentSlot = Slot(pl.currentBlock, k)

Listed(pl, m, hd, fs, ns, bs) ==
  /\ Chain(m, pl.freeSlots, fs)
  /\ Chain(Prevs(m), hd, ns)
  /\ Chain(m, pl.currentBlock, bs)

Placed(pl, hp, slots) == \A p \in slots : Cut(hp, pl.currentBlock, pl.currentSlot, p)

Sound(pl, m, hp, use, hd, fs, ns, bs) ==
  /\ pl \in PoolRecord /\ m \in [Words -> Content]
  /\ hp \in SUBSET Bases /\ IsFiniteSet(hp) /\ BlocksApart(hp)
  /\ Listed(pl, m, hd, fs, ns, bs)
  /\ Cells(ns) = use /\ Cells(bs) = hp /\ use \cap Cells(fs) = {}
  /\ Placed(pl, hp, use \cup Cells(fs))
  /\ Cutting(pl)

MemInv ==
  /\ used \in SUBSET Values /\ clearing \in BOOLEAN
  /\ \E fs, ns, bs : Sound(pool, mem, heap, inUse, head_, fs, ns, bs)

(* A block has no more slots than max_size counts.                         *)
LEMMA SlotsCounted ==
  ASSUME NEW hp \in SUBSET Bases, IsFiniteSet(hp), NEW cb, NEW cs, NEW T,
         \A p \in T : Cut(hp, cb, cs, p)
  PROVE  /\ IsFiniteSet(T) /\ Cardinality(T) \in Nat
         /\ Cardinality(T) <= ((BlockSize - PtrSize) \div SlotSize) * Cardinality(hp)
         /\ Cardinality(hp) * (BlockSize \div SlotSize) \in Nat
         /\ Cardinality(T) <= Cardinality(hp) * (BlockSize \div SlotSize)
         /\ Cardinality(hp) <= Cardinality(hp) * (BlockSize \div SlotSize)
  <1>1. PICK M \in Nat : M = (BlockSize - PtrSize) \div SlotSize
    <2>1. BlockSize - PtrSize \in Nat /\ 0 \in Nat /\ 0 * SlotSize <= BlockSize - PtrSize
          BY SizesAre
    <2>2. (BlockSize - PtrSize) \div SlotSize \in Nat
          BY <2>1, FitsIn, SizesAre
    <2>3. QED
          BY <2>2
  <1>2. PICK L \in Nat : L = BlockSize \div SlotSize /\ M <= L /\ 1 <= L
    <2>1. M * SlotSize <= BlockSize - PtrSize
      <3>1. BlockSize - PtrSize \in Int
            BY SizesAre
      <3>2. /\ (BlockSize - PtrSize) % SlotSize \in Nat
            /\ BlockSize - PtrSize = M * SlotSize + ((BlockSize - PtrSize) % SlotSize)
            BY <1>1, <3>1, DivMod, SizesAre
      <3>3. M * SlotSize \in Nat
            BY SizesAre
      <3>4. QED
            BY <3>1, <3>2, <3>3
    <2>2. M * SlotSize <= BlockSize /\ 1 * SlotSize <= BlockSize /\ 1 \in Nat
      <3>1. M * SlotSize \in Nat
            BY SizesAre
      <3>2. QED
            BY <2>1, <3>1, SizesAre
    <2>3. BlockSize \div SlotSize \in Nat /\ M <= BlockSize \div SlotSize
          BY <2>2, FitsIn, SizesAre
    <2>4. 1 <= BlockSize \div SlotSize
          BY <2>2, FitsIn, SizesAre
    <2>5. QED
          BY <2>3, <2>4
  <1>3. PICK n \in Nat : n = Cardinality(hp)
        BY FS_CardinalityType
  <1>4. IsFiniteSet(0 .. (M - 1)) /\ Cardinality(0 .. (M - 1)) = M
        BY CountOfPrefix, FS_Interval
  <1> DEFINE A == hp \X (0 .. (M - 1))
             f == [x \in A |-> Slot(x[1], x[2])]
             E == {f[x] : x \in A}
  <1>5. IsFiniteSet(A) /\ Cardinality(A) = n * M
        BY <1>3, <1>4, FS_Product
  <1>6. IsFiniteSet(E) /\ Cardinality(E) \in Nat /\ Cardinality(E) <= n * M
    <2> HIDE DEF A
    <2>1. QED
          BY <1>5, ImageOfFinite
  <1>7. ASSUME NEW p \in T PROVE p \in E
    <2>1. PICK b \in hp, k \in Nat : CutIn(b, k, p, cb, cs)
          BY DEF Cut
    <2>2. p = Slot(b, k) /\ p + SlotSize <= b + BlockSize /\ b \in Bases
          BY <2>1 DEF CutIn
    <2>3. k < M
          BY <1>1, <2>2, SlotIs
    <2>4. k \in 0 .. (M - 1)
          BY <2>3
    <2>5. <<b, k>> \in A /\ f[<<b, k>>] = p
          BY <2>2, <2>4
    <2> HIDE DEF A, f
    <2>6. QED
          BY <2>5
  <1>8. T \in SUBSET E
        BY <1>7
  <1> HIDE DEF E
  <1>9. IsFiniteSet(T) /\ Cardinality(T) \in Nat /\ Cardinality(T) <= n * M
    <2>1. IsFiniteSet(T) /\ Cardinality(T) <= Cardinality(E)
          BY <1>6, <1>8, FS_Subset
    <2>2. Cardinality(T) \in Nat
          BY <2>1, FS_CardinalityType
    <2>3. n * M \in Nat
          OBVIOUS
    <2>4. QED
          BY <1>6, <2>1, <2>2, <2>3
  <1>10. n * M = M * n /\ n * M \in Nat /\ n * L \in Nat /\ n * M <= n * L /\ n <= n * L
    <2>1. n * (L - M) >= 0 /\ n * (L - 1) >= 0
          BY <1>2
    <2>2. n * (L - M) = n * L - n * M /\ n * (L - 1) = n * L - n
          BY <1>2
    <2>3. n * M = M * n /\ n * M \in Nat /\ n * L \in Nat
          OBVIOUS
    <2>4. QED
          BY <2>1, <2>2, <2>3
  <1>11. QED
        BY <1>1, <1>2, <1>3, <1>9, <1>10

(* A sound pool has everything that MemorySound asks for.                  *)
LEMMA SoundCounts ==
  ASSUME NEW fs, NEW ns, NEW bs, Sound(pool, mem, heap, inUse, head_, fs, ns, bs)
  PROVE  /\ MaxSlots \in Nat /\ WithinMaxSize
         /\ Len(fs) <= MaxSlots /\ Len(ns) <= MaxSlots /\ Len(bs) <= MaxSlots
  <1>1. /\ IsFiniteSet(inUse \cup Cells(fs)) /\ Cardinality(inUse \cup Cells(fs)) \in Nat
        /\ Cardinality(inUse \cup Cells(fs)) <= ((BlockSize - PtrSize) \div SlotSize) * Cardinality(heap)
        /\ MaxSlots \in Nat /\ Cardinality(inUse \cup Cells(fs)) <= MaxSlots
        /\ Cardinality(heap) <= MaxSlots
    <2>1. /\ heap \in SUBSET Bases /\ IsFiniteSet(heap)
          /\ \A p \in inUse \cup Cells(fs) : Cut(heap, pool.currentBlock, pool.currentSlot, p)
          BY DEF Sound, Placed
    <2>2. QED
          BY <2>1, SlotsCounted DEF MaxSlots
  <1>2. /\ Chain(mem, pool.freeSlots, fs) /\ Chain(Prevs(mem), head_, ns)
        /\ Chain(mem, pool.currentBlock, bs) /\ Cells(ns) = inUse /\ Cells(bs) = heap
        BY DEF Sound, Listed
  <1>3. /\ Cardinality(Cells(fs)) = Len(fs) /\ Len(fs) \in Nat
        /\ Cardinality(inUse) = Len(ns) /\ Len(ns) \in Nat
        /\ Cardinality(heap) = Len(bs)
        BY <1>2, ChainIs
  <1>4. Cardinality(Cells(fs)) <= Cardinality(inUse \cup Cells(fs))
    <2>1. Cells(fs) \in SUBSET (inUse \cup Cells(fs))
          OBVIOUS
    <2>2. QED
          BY <1>1, <2>1, FS_Subset
  <1>5. Cardinality(inUse) <= Cardinality(inUse \cup Cells(fs))
    <2>1. inUse \in SUBSET (inUse \cup Cells(fs))
          OBVIOUS
    <2>2. QED
          BY <1>1, <2>1, FS_Subset
  <1>6. Len(fs) <= MaxSlots /\ Len(ns) <= MaxSlots /\ Len(bs) <= MaxSlots
        BY <1>1, <1>3, <1>4, <1>5
  <1>7. FreeList = Cells(fs)
        BY <1>1, <1>2, <1>6, PathIs DEF FreeList
  <1>8. WithinMaxSize
        BY <1>1, <1>7 DEF WithinMaxSize
  <1>9. QED
        BY <1>1, <1>6, <1>8

LEMMA SoundLists ==
  ASSUME NEW fs, NEW ns, NEW bs, Sound(pool, mem, heap, inUse, head_, fs, ns, bs)
  PROVE  /\ FreeList = Cells(fs) /\ FreeListEnds /\ DestructorFreesAll
         /\ Nodes = ns /\ Range(Nodes) = inUse /\ head_ \in Words
  <1>1. /\ MaxSlots \in Nat
        /\ Len(fs) <= MaxSlots /\ Len(ns) <= MaxSlots /\ Len(bs) <= MaxSlots
        BY SoundCounts
  <1>2. /\ Chain(mem, pool.freeSlots, fs) /\ Chain(Prevs(mem), head_, ns)
        /\ Chain(mem, pool.currentBlock, bs) /\ Cells(ns) = inUse /\ Cells(bs) = heap
        BY DEF Sound, Listed
  <1>3. IsList(pool.freeSlots) /\ Reached(pool.freeSlots) = Cells(fs)
        BY <1>1, <1>2, PathIs
  <1>4. IsList(pool.currentBlock) /\ Reached(pool.currentBlock) = Cells(bs)
        BY <1>1, <1>2, PathIs
  <1>5. Nodes = ns
        BY <1>1, <1>2, NodesIs
  <1>6. Cells(fs) \in SUBSET Words /\ head_ \in Words
        BY <1>2, ChainIs
  <1>7. Range(ns) = Cells(ns)
    <2>1. ns \in Seq(Words \ {0})
          BY <1>2, ChainIs
    <2>2. DOMAIN ns = 1 .. Len(ns)
          BY <2>1
    <2>3. QED
          BY <2>2 DEF Range, Cells
  <1>8. QED
        BY <1>2, <1>3, <1>4, <1>5, <1>6, <1>7 DEF FreeList, FreeListEnds, DestructorFreesAll

LEMMA SoundIsSound ==
  ASSUME MemInv
  PROVE  MemorySound
  <1>1. PICK fs, ns, bs : Sound(pool, mem, heap, inUse, head_, fs, ns, bs)
        BY DEF MemInv
  <1>2. /\ FreeList = Cells(fs) /\ FreeListEnds /\ DestructorFreesAll
        /\ Range(Nodes) = inUse /\ head_ \in Words
        BY <1>1, SoundLists
  <1>3. WithinMaxSize
        BY <1>1, SoundCounts
  <1>4. PICK U : U = inUse \cup Cells(fs)
        OBVIOUS
  <1>5. /\ heap \in SUBSET Bases /\ BlocksApart(heap)
        /\ \A p \in U : Cut(heap, pool.currentBlock, pool.currentSlot, p)
        BY <1>1, <1>4 DEF Sound, Placed
  <1>6. \A p \in U : p \in Words /\ p \in Nat /\ \E b \in heap : Inside(p, b)
        BY <1>5, CutIs
  <1>7. SlotsInsideBlocks
        BY <1>2, <1>4, <1>6 DEF SlotsInsideBlocks
  <1>8. ASSUME NEW p \in U, NEW q \in U, p < q PROVE p + SlotSize <= q
    <2>1. p \in Nat /\ q \in Nat
          BY <1>6
    <2>2. p # q
          BY <1>8, <2>1
    <2>3. Apart(p, q)
          BY <1>5, <2>2, CutsApart
    <2>4. QED
          BY <1>8, <2>1, <2>3, SizesAre DEF Apart
  <1>9. ASSUME NEW p \in U
        PROVE  p < pool.currentBlock \/ p >= pool.currentBlock + BlockSize
               \/ p + SlotSize <= pool.currentSlot
    <2>1. PICK b \in heap, k \in Nat : CutIn(b, k, p, pool.currentBlock, pool.currentSlot)
          BY <1>5 DEF Cut
    <2>2. /\ p = Slot(b, k) /\ p + SlotSize <= b + BlockSize /\ b \in Bases
          /\ b = pool.currentBlock => p + SlotSize <= pool.currentSlot
          BY <1>5, <2>1 DEF CutIn
    <2>3. SUFFICES ASSUME b # pool.currentBlock
                   PROVE  p < pool.currentBlock \/ p >= pool.currentBlock + BlockSize
          BY <2>2
    <2>4. p \in Nat /\ b \in Nat /\ b + PtrSize <= p
          BY <2>2, SlotIs
    <2>5. pool.currentBlock \in Nat
          BY <1>1 DEF Sound, PoolRecord
    <2>6. CASE pool.currentBlock = 0
      <3>1. Chain(mem, pool.currentBlock, bs) /\ Cells(bs) = heap
            BY <1>1 DEF Sound, Listed
      <3>2. heap = {}
            BY <2>6, <3>1, ChainIs
      <3>3. QED
            BY <3>2
    <2>7. CASE pool.currentBlock # 0
      <3>1. Chain(mem, pool.currentBlock, bs) /\ Cells(bs) = heap
            BY <1>1 DEF Sound, Listed
      <3>2. pool.currentBlock \in heap
            BY <2>7, <3>1, ChainTail
      <3>3. b + BlockSize <= pool.currentBlock \/ pool.currentBlock + BlockSize <= b
            BY <1>5, <2>3, <3>2 DEF BlocksApart
      <3>4. QED
            BY <2>2, <2>4, <2>5, <3>3, SizesAre
    <2>8. QED
          BY <2>6, <2>7
  <1>10. SlotsDisjoint
    <2>1. inUse \cap FreeList = {}
          BY <1>1, <1>2 DEF Sound
    <2>2. inUse \cup FreeList = U
          BY <1>2, <1>4
    <2>3. QED
          BY <1>8, <1>9, <2>1, <2>2 DEF SlotsDisjoint
  <1>11. StackType
    <2>1. inUse \in SUBSET Words
          BY <1>4, <1>6
    <2>2. pool \in PoolRecord /\ mem \in [Words -> Content] /\ heap \in SUBSET Bases
          BY <1>1 DEF Sound
    <2>3. PoolType
          BY <2>1, <2>2 DEF PoolType, PoolRecord
    <2>4. QED
          BY <1>2, <2>3 DEF StackType, MemInv
  <1>12. QED
        BY <1>2, <1>3, <1>7, <1>10, <1>11 DEF MemorySound, SlotsSound, ListsIntact, NodesAreHeld

-----------------------------------------------------------------------------
(* What is written into a slot stays there.                                *)
Far(a, p) == a < p \/ a >= p + SlotSize

LEMMA SlotFar ==
  ASSUME NEW p \in Nat, NEW q \in Nat, Apart(p, q)
  PROVE  Far(q, p) /\ Far(PrevOf(q), p) /\ q # p /\ PrevOf(q) # p
  BY SizesAre DEF Apart, Far, PrevOf

LEMMA BlockFar ==
  ASSUME NEW hp \in SUBSET Bases, BlocksApart(hp), NEW cb, NEW cs, NEW p, Cut(hp, cb, cs, p), NEW b \in hp
  PROVE  Far(b, p) /\ b # p
  <1>1. p \in Nat
        BY CutIs
  <1>2. PICK c \in hp : Inside(p, c)
        BY CutIs
  <1>3. b \in Nat /\ c \in Nat
    <2>1. b \in Bases /\ c \in Bases
          OBVIOUS
    <2>2. QED
          BY <2>1, SizesAre
  <1>4. b = c \/ b + BlockSize <= c \/ c + BlockSize <= b
        BY DEF BlocksApart
  <1>5. c + PtrSize <= p /\ p + SlotSize <= c + BlockSize
        BY <1>2 DEF Inside
  <1>6. QED
        BY <1>1, <1>3, <1>4, <1>5, SizesAre DEF Far

LEMMA NodeIs ==
  ASSUME NEW m \in [Words -> Content], NEW p \in Words, p \in Nat, PrevOf(p) \in Words,
         NEW v \in Values, head_ \in Words
  PROVE  /\ Node(m, p, v) \in [Words -> Content]
         /\ Node(m, p, v)[p] = v /\ Node(m, p, v)[PrevOf(p)] = head_
         /\ \A a \in Words : Far(a, p) => Node(m, p, v)[a] = m[a]
  <1>1. PICK k : k = construct(m, p, v)
        OBVIOUS
  <1>2. k \in [Words -> Content]
        BY <1>1 DEF construct, Content
  <1>3. \A a \in Words : Far(a, p) => k[a] = m[a]
    <2> TAKE a \in Words
    <2> SUFFICES ASSUME Far(a, p) PROVE k[a] = m[a]
        OBVIOUS
    <2>1. a \in Nat
          BY SizesAre
    <2>2. a \notin WordsOf(p)
          BY <2>1, SizesAre DEF Far, WordsOf
    <2>3. QED
          BY <1>1, <2>2 DEF construct
  <1>4. p # PrevOf(p) /\ ~Far(p, p) /\ ~Far(PrevOf(p), p)
        BY SizesAre DEF PrevOf, Far
  <1>5. Node(m, p, v) = [k EXCEPT ![p] = v, ![PrevOf(p)] = head_]
        BY <1>1 DEF Node
  <1>6. v \in Content /\ head_ \in Content
        BY DEF Content
  <1>7. [k EXCEPT ![p] = v, ![PrevOf(p)] = head_] \in [Words -> Content]
        BY <1>2, <1>6
  <1>8. /\ [k EXCEPT ![p] = v, ![PrevOf(p)] = head_][p] = v
        /\ [k EXCEPT ![p] = v, ![PrevOf(p)] = head_][PrevOf(p)] = head_
        BY <1>2, <1>4
  <1>9. \A a \in Words : Far(a, p) => [k EXCEPT ![p] = v, ![PrevOf(p)] = head_][a] = k[a]
    <2> TAKE a \in Words
    <2> SUFFICES ASSUME Far(a, p) PROVE [k EXCEPT ![p] = v, ![PrevOf(p)] = head_][a] = k[a]
        OBVIOUS
    <2>1. a # p /\ a # PrevOf(p)
          BY <1>4
    <2>2. QED
          BY <1>2, <2>1
  <1>10. QED
        BY <1>3, <1>5, <1>7, <1>8, <1>9

(* What allocate leaves to push: a sound pool, and beside it a slot.       *)
Ready(pl, m, hp, use, hd, fs, ns, bs, p) ==
  /\ Sound(pl, m, hp, use, hd, fs, ns, bs)
  /\ p \notin use \cup Cells(fs)
  /\ Cut(hp, pl.currentBlock, pl.currentSlot, p)

NodeIn(pl, m, hp, use, fs, ns, bs, p, v) ==
  /\ Sound(pl, Node(m, p, v), hp, use \cup {p}, p, fs, <<p>> \o ns, bs)
  /\ Node(m, p, v)[p] = v
  /\ \A i \in 1 .. Len(ns) : Node(m, p, v)[ns[i]] = m[ns[i]]

LEMMA NodeAdded ==
  ASSUME NEW pl, NEW m, NEW hp, NEW use, NEW fs, NEW ns, NEW bs, NEW p,
         Ready(pl, m, hp, use, head_, fs, ns, bs, p), NEW v \in Values
  PROVE  NodeIn(pl, m, hp, use, fs, ns, bs, p, v)
  <1>1. PICK w : w = Node(m, p, v)
        OBVIOUS
  <1>2. /\ pl \in PoolRecord /\ m \in [Words -> Content]
        /\ hp \in SUBSET Bases /\ IsFiniteSet(hp) /\ BlocksApart(hp)
        /\ Cells(ns) = use /\ Cells(bs) = hp /\ use \cap Cells(fs) = {}
        /\ Placed(pl, hp, use \cup Cells(fs))
        /\ Cutting(pl)
        BY DEF Ready, Sound
  <1>3. /\ Chain(m, pl.freeSlots, fs) /\ Chain(Prevs(m), head_, ns) /\ Chain(m, pl.currentBlock, bs)
        BY DEF Ready, Sound, Listed
  <1>4. p \notin use \cup Cells(fs) /\ Cut(hp, pl.currentBlock, pl.currentSlot, p)
        BY DEF Ready
  <1>5. p \in Words /\ p # 0 /\ PrevOf(p) \in Words /\ p \in Nat
        BY <1>2, <1>4, CutIs
  <1>6. head_ \in Words
        BY <1>3, ChainIs
  <1>7. /\ w \in [Words -> Content] /\ w[p] = v /\ w[PrevOf(p)] = head_
        /\ \A a \in Words : Far(a, p) => w[a] = m[a]
        BY <1>1, <1>2, <1>5, <1>6, NodeIs
  <1>8. ASSUME NEW q \in use \cup Cells(fs)
        PROVE  q \in Words /\ w[q] = m[q] /\ w[PrevOf(q)] = m[PrevOf(q)]
    <2>1. Cut(hp, pl.currentBlock, pl.currentSlot, q) /\ p # q
          BY <1>2, <1>4 DEF Placed
    <2>2. q \in Words /\ PrevOf(q) \in Words /\ q \in Nat
          BY <1>2, <2>1, CutIs
    <2>3. Apart(p, q)
          BY <1>2, <1>4, <2>1, CutsApart
    <2>4. Far(q, p) /\ Far(PrevOf(q), p)
          BY <1>5, <2>2, <2>3, SlotFar
    <2>5. QED
          BY <1>7, <2>2, <2>4
  <1>9. \A b \in Cells(bs) : w[b] = m[b]
    <2> TAKE b \in Cells(bs)
    <2>1. b \in Words /\ b \in hp
          BY <1>2, <1>3, ChainIs
    <2>2. Far(b, p)
          BY <1>2, <1>4, <2>1, BlockFar
    <2>3. QED
          BY <1>7, <2>1, <2>2
  <1>10. Chain(w, pl.freeSlots, fs)
    <2>1. \A a \in Cells(fs) : w[a] = m[a]
          BY <1>8
    <2>2. QED
          BY <1>3, <2>1, ChainKept
  <1>11. Chain(w, pl.currentBlock, bs)
        BY <1>3, <1>9, ChainKept
  <1>12. Chain(Prevs(w), p, <<p>> \o ns) /\ Cells(<<p>> \o ns) = use \cup {p}
    <2>1. Prevs(w)[p] = head_
          BY <1>5, <1>7 DEF Prevs
    <2>2. \A a \in Cells(ns) : Prevs(w)[a] = Prevs(m)[a]
          BY <1>2, <1>8 DEF Prevs
    <2>3. p \notin Cells(ns)
          BY <1>2, <1>4
    <2>4. QED
          BY <1>2, <1>3, <1>5, <2>1, <2>2, <2>3, ChainCons
  <1>13. Placed(pl, hp, (use \cup {p}) \cup Cells(fs))
        BY <1>2, <1>4 DEF Placed
  <1>14. (use \cup {p}) \cap Cells(fs) = {}
        BY <1>2, <1>4
  <1>15. Sound(pl, w, hp, use \cup {p}, p, fs, <<p>> \o ns, bs)
        BY <1>2, <1>7, <1>10, <1>11, <1>12, <1>13, <1>14 DEF Sound, Listed
  <1>16. \A i \in 1 .. Len(ns) : w[ns[i]] = m[ns[i]]
    <2>1. \A i \in 1 .. Len(ns) : ns[i] \in Cells(ns)
          BY DEF Cells
    <2>2. QED
          BY <1>2, <1>8, <2>1
  <1>17. QED
        BY <1>1, <1>7, <1>15, <1>16 DEF NodeIn

-----------------------------------------------------------------------------
(* The three ways of allocate.  Data of nodes is left alone by each.       *)
Prepared(r, fs, ns, bs) ==
  /\ Ready(r.pool, r.mem, r.heap, inUse, head_, fs, ns, bs, r.slot)
  /\ \A a \in inUse : r.mem[a] = mem[a]

LEMMA FreeListReady ==
  ASSUME NEW fs, NEW ns, NEW bs, Sound(pool, mem, heap, inUse, head_, fs, ns, bs),
         pool.freeSlots # 0, NEW r \in FromFreeList
  PROVE  Prepared(r, Tail(fs), ns, bs)
  <1>1. PICK pl : pl = [pool EXCEPT !.freeSlots = mem[pool.freeSlots]]
        OBVIOUS
  <1>2. r.slot = pool.freeSlots /\ r.mem = mem /\ r.heap = heap /\ r.pool = pl
        BY <1>1 DEF FromFreeList
  <1>3. /\ pool \in PoolRecord /\ mem \in [Words -> Content]
        /\ heap \in SUBSET Bases /\ IsFiniteSet(heap) /\ BlocksApart(heap)
        /\ Cells(ns) = inUse /\ Cells(bs) = heap /\ inUse \cap Cells(fs) = {}
        /\ Placed(pool, heap, inUse \cup Cells(fs))
        /\ Cutting(pool)
        BY DEF Sound
  <1>4. /\ Chain(mem, pool.freeSlots, fs) /\ Chain(Prevs(mem), head_, ns)
        /\ Chain(mem, pool.currentBlock, bs)
        BY DEF Sound, Listed
  <1>5. PICK gs : gs = Tail(fs)
        OBVIOUS
  <1>6. /\ pool.freeSlots \in Cells(fs) /\ Cells(gs) = Cells(fs) \ {pool.freeSlots}
        /\ Chain(mem, mem[pool.freeSlots], gs)
        BY <1>4, <1>5, ChainTail
  <1>7. mem[pool.freeSlots] \in Words
        BY <1>6, ChainIs
  <1>8. mem[pool.freeSlots] \in Nat
        BY <1>7, SizesAre
  <1>9. /\ pl \in PoolRecord /\ pl.freeSlots = mem[pool.freeSlots]
        /\ pl.currentBlock = pool.currentBlock /\ pl.currentSlot = pool.currentSlot
        /\ pl.lastSlot = pool.lastSlot
        BY <1>1, <1>3, <1>8 DEF PoolRecord
  <1>10. Listed(pl, mem, head_, gs, ns, bs)
        BY <1>4, <1>6, <1>9 DEF Listed
  <1>11. Cutting(pl)
        BY <1>3, <1>9 DEF Cutting
  <1>12. Placed(pl, heap, inUse \cup Cells(gs)) /\ inUse \cap Cells(gs) = {}
        BY <1>3, <1>6, <1>9 DEF Placed
  <1>13. Sound(pl, mem, heap, inUse, head_, gs, ns, bs)
        BY <1>3, <1>9, <1>10, <1>11, <1>12 DEF Sound
  <1>14. pool.freeSlots \notin inUse \cup Cells(gs)
        BY <1>3, <1>6
  <1>15. Cut(heap, pl.currentBlock, pl.currentSlot, pool.freeSlots)
        BY <1>3, <1>6, <1>9 DEF Placed
  <1>16. Ready(pl, mem, heap, inUse, head_, gs, ns, bs, pool.freeSlots)
        BY <1>13, <1>14, <1>15 DEF Ready
  <1>17. QED
        BY <1>2, <1>5, <1>16 DEF Prepared

LEMMA BlockReady ==
  ASSUME NEW fs, NEW ns, NEW bs, Sound(pool, mem, heap, inUse, head_, fs, ns, bs),
         pool.currentSlot < pool.lastSlot, NEW r \in FromBlock
  PROVE  Prepared(r, fs, ns, bs)
  <1>1. PICK pl : pl = [pool EXCEPT !.currentSlot = @ + SlotSize]
        OBVIOUS
  <1>2. r.slot = pool.currentSlot /\ r.mem = mem /\ r.heap = heap /\ r.pool = pl
        BY <1>1 DEF FromBlock
  <1>3. /\ pool \in PoolRecord /\ mem \in [Words -> Content]
        /\ heap \in SUBSET Bases /\ IsFiniteSet(heap) /\ BlocksApart(heap)
        /\ Cells(ns) = inUse /\ Cells(bs) = heap /\ inUse \cap Cells(fs) = {}
        /\ Placed(pool, heap, inUse \cup Cells(fs))
        /\ Cutting(pool)
        BY DEF Sound
  <1>4. /\ Chain(mem, pool.freeSlots, fs) /\ Chain(Prevs(mem), head_, ns)
        /\ Chain(mem, pool.currentBlock, bs)
        BY DEF Sound, Listed
  <1>5. PICK cb, cs \in Nat : cb = pool.currentBlock /\ cs = pool.currentSlot /\ pool.lastSlot \in Nat
        BY <1>3 DEF PoolRecord
  <1>6. cb # 0
        BY <1>3, <1>5 DEF Cutting
  <1>7. cb \in heap /\ cb \in Bases
        BY <1>3, <1>4, <1>5, <1>6, ChainTail
  <1>8. pool.lastSlot = LastSlot(cb)
        BY <1>3, <1>5, <1>6 DEF Cutting
  <1>9. PICK k \in Nat : cs = Slot(cb, k)
        BY <1>3, <1>5, <1>6 DEF Cutting
  <1>10. cb \in Nat /\ cb + PtrSize <= cs /\ Slot(cb, k + 1) = cs + SlotSize
        BY <1>7, <1>9, SlotIs
  <1>11. cs + SlotSize <= cb + BlockSize
        BY <1>5, <1>8, <1>10, SizesAre DEF LastSlot
  <1>12. /\ pl \in PoolRecord /\ pl.freeSlots = pool.freeSlots
         /\ pl.currentBlock = cb /\ pl.currentSlot = cs + SlotSize
         /\ pl.lastSlot = pool.lastSlot
    <2>1. cs + SlotSize \in Nat
          BY SizesAre
    <2>2. QED
          BY <1>1, <1>3, <1>5, <2>1 DEF PoolRecord
  <1>13. Cutting(pl)
    <2>1. k + 1 \in Nat
          OBVIOUS
    <2>2. QED
          BY <1>6, <1>8, <1>10, <1>12, <2>1 DEF Cutting
  <1>14. Listed(pl, mem, head_, fs, ns, bs)
        BY <1>4, <1>5, <1>12 DEF Listed
  <1>15. ASSUME NEW q \in inUse \cup Cells(fs)
         PROVE  Cut(heap, cb, cs + SlotSize, q) /\ q # cs
    <2>1. PICK b \in heap, l \in Nat : CutIn(b, l, q, cb, cs)
          BY <1>3, <1>5 DEF Placed, Cut
    <2>2. /\ q = Slot(b, l) /\ q + SlotSize <= b + BlockSize /\ b \in Bases
          /\ b = cb => q + SlotSize <= cs
          BY <1>3, <2>1 DEF CutIn
    <2>3. q \in Nat /\ b \in Nat /\ b + PtrSize <= q
          BY <2>2, SlotIs
    <2>4. b = cb => q + SlotSize <= cs + SlotSize
          BY <2>2, <2>3, SizesAre
    <2>5. Cut(heap, cb, cs + SlotSize, q)
          BY <2>2, <2>4 DEF Cut, CutIn
    <2>6. CASE b = cb
          BY <2>2, <2>3, <2>5, <2>6, SizesAre
    <2>7. CASE b # cb
      <3>1. b + BlockSize <= cb \/ cb + BlockSize <= b
            BY <1>3, <1>7, <2>7 DEF BlocksApart
      <3>2. q # cs
            BY <1>10, <1>11, <2>2, <2>3, <3>1, SizesAre
      <3>3. QED
            BY <2>5, <3>2
    <2>8. QED
          BY <2>6, <2>7
  <1>16. Cut(heap, cb, cs + SlotSize, cs)
    <2>1. CutIn(cb, k, cs, cb, cs + SlotSize)
      <3>1. cs + SlotSize <= cs + SlotSize
            BY SizesAre
      <3>2. QED
            BY <1>9, <1>11, <3>1 DEF CutIn
    <2>2. QED
          BY <1>7, <2>1 DEF Cut
  <1>17. Placed(pl, heap, inUse \cup Cells(fs))
        BY <1>12, <1>15 DEF Placed
  <1>18. Sound(pl, mem, heap, inUse, head_, fs, ns, bs)
        BY <1>3, <1>12, <1>13, <1>14, <1>17 DEF Sound
  <1>19. cs \notin inUse \cup Cells(fs)
        BY <1>15
  <1>20. Ready(pl, mem, heap, inUse, head_, fs, ns, bs, cs)
        BY <1>12, <1>16, <1>18, <1>19 DEF Ready
  <1>21. QED
        BY <1>2, <1>5, <1>20 DEF Prepared

LEMMA NewBlockReady ==
  ASSUME NEW fs, NEW ns, NEW bs, Sound(pool, mem, heap, inUse, head_, fs, ns, bs),
         pool.freeSlots = 0, NEW r \in FromNewBlock
  PROVE  \E cs : Prepared(r, fs, ns, cs)
  <1>1. PICK b \in FreshBlocks :
          r = [slot |-> FirstSlot(b), heap |-> heap \cup {b},
               mem |-> [mem EXCEPT ![b] = pool.currentBlock],
               pool |-> [currentBlock |-> b, currentSlot |-> FirstSlot(b) + SlotSize,
                         lastSlot |-> LastSlot(b), freeSlots |-> 0]]
        BY DEF FromNewBlock
  <1>2. PICK pl, m, hp, p :
          /\ pl = [currentBlock |-> b, currentSlot |-> FirstSlot(b) + SlotSize,
                   lastSlot |-> LastSlot(b), freeSlots |-> 0]
          /\ m = [mem EXCEPT ![b] = pool.currentBlock]
          /\ hp = heap \cup {b}
          /\ p = FirstSlot(b)
        OBVIOUS
  <1>3. r.slot = p /\ r.mem = m /\ r.heap = hp /\ r.pool = pl
        BY <1>1, <1>2
  <1>4. /\ pool \in PoolRecord /\ mem \in [Words -> Content]
        /\ heap \in SUBSET Bases /\ IsFiniteSet(heap) /\ BlocksApart(heap)
        /\ Cells(ns) = inUse /\ Cells(bs) = heap /\ inUse \cap Cells(fs) = {}
        /\ Placed(pool, heap, inUse \cup Cells(fs))
        BY DEF Sound
  <1>5. /\ Chain(mem, pool.freeSlots, fs) /\ Chain(Prevs(mem), head_, ns)
        /\ Chain(mem, pool.currentBlock, bs)
        BY DEF Sound, Listed
  <1>6. Cells(fs) = {} /\ fs = <<>>
        BY <1>5, ChainIs
  <1>7. b \in Bases /\ \A c \in heap : b + BlockSize <= c \/ c + BlockSize <= b
        BY DEF FreshBlocks
  <1>8. b \in Words /\ b \in Nat /\ b # 0
        BY <1>7, SizesAre
  <1>9. b \notin heap
        BY <1>7, <1>8, SizesAre
  <1>10. /\ p \in Nat /\ b + PtrSize <= p /\ p + SlotSize <= b + BlockSize
         /\ Slot(b, 0) = p /\ Slot(b, 0 + 1) = p + SlotSize
    <2>1. 0 \in Nat
          OBVIOUS
    <2>2. QED
          BY <1>2, <1>7, <2>1, FirstSlotFits, SlotIs
  <1>11. /\ pl \in PoolRecord /\ pl.currentBlock = b /\ pl.currentSlot = p + SlotSize
         /\ pl.lastSlot = LastSlot(b) /\ pl.freeSlots = 0
    <2>1. LastSlot(b) \in Nat /\ p + SlotSize \in Nat
          BY <1>8, <1>10, SizesAre DEF LastSlot
    <2>2. PICK x \in Nat, y \in Nat : x = p + SlotSize /\ y = LastSlot(b)
          BY <2>1
    <2>3. pl = [currentBlock |-> b, currentSlot |-> x, lastSlot |-> y, freeSlots |-> 0]
          BY <1>2, <2>2
    <2>4. pl \in PoolRecord /\ pl.currentBlock = b /\ pl.currentSlot = x /\ pl.lastSlot = y /\ pl.freeSlots = 0
          BY <1>8, <2>3 DEF PoolRecord
    <2>5. QED
          BY <2>2, <2>4
  <1>12. Cutting(pl)
    <2>1. 0 + 1 \in Nat
          OBVIOUS
    <2>2. QED
          BY <1>8, <1>10, <1>11, <2>1 DEF Cutting
  <1>13. hp \in SUBSET Bases /\ IsFiniteSet(hp) /\ BlocksApart(hp)
    <2>1. IsFiniteSet(hp)
          BY <1>2, <1>4, FS_AddElement
    <2>2. hp \in SUBSET Bases
          BY <1>2, <1>4, <1>7
    <2>3. BlocksApart(hp)
          BY <1>2, <1>4, <1>7 DEF BlocksApart
    <2>4. QED
          BY <2>1, <2>2, <2>3
  <1>14. m \in [Words -> Content] /\ m[b] = pool.currentBlock /\ \A a \in Words : a # b => m[a] = mem[a]
    <2>1. pool.currentBlock \in Content
          BY <1>5, ChainIs DEF Content
    <2>2. QED
          BY <1>2, <1>4, <1>8, <2>1
  <1>15. ASSUME NEW q \in inUse
         PROVE  /\ Cut(hp, b, p + SlotSize, q) /\ q # p
                /\ m[q] = mem[q] /\ m[PrevOf(q)] = mem[PrevOf(q)] /\ q \in Words
    <2>1. Cut(heap, pool.currentBlock, pool.currentSlot, q)
          BY <1>4 DEF Placed
    <2>2. PICK c \in heap, l \in Nat : CutIn(c, l, q, pool.currentBlock, pool.currentSlot)
          BY <2>1 DEF Cut
    <2>3. q = Slot(c, l) /\ q + SlotSize <= c + BlockSize /\ c \in Bases /\ c # b /\ c \in hp
          BY <1>2, <1>4, <1>9, <2>2 DEF CutIn
    <2>4. CutIn(c, l, q, b, p + SlotSize)
          BY <2>3 DEF CutIn
    <2>5. Cut(hp, b, p + SlotSize, q)
          BY <2>3, <2>4 DEF Cut
    <2>6. q \in Nat /\ c \in Nat /\ c + PtrSize <= q /\ q \in Words /\ PrevOf(q) \in Words
          BY <2>3, SlotIs
    <2>7. b + BlockSize <= c \/ c + BlockSize <= b
          BY <1>7
    <2>8. q # p /\ q # b /\ PrevOf(q) # b
          BY <1>8, <1>10, <2>3, <2>6, <2>7, SizesAre DEF PrevOf
    <2>9. QED
          BY <1>14, <2>5, <2>6, <2>8
  <1>16. Cut(hp, b, p + SlotSize, p)
    <2>1. CutIn(b, 0, p, b, p + SlotSize)
      <3>1. p + SlotSize <= p + SlotSize
            BY <1>10, SizesAre
      <3>2. QED
            BY <1>10, <3>1 DEF CutIn
    <2>2. b \in hp /\ 0 \in Nat
          BY <1>2
    <2>3. QED
          BY <2>1, <2>2 DEF Cut
  <1>17. Chain(m, 0, fs)
    <2>1. \A a \in Cells(fs) : m[a] = mem[a]
          BY <1>6
    <2>2. QED
          BY <1>5, <2>1, ChainKept
  <1>18. Chain(Prevs(m), head_, ns)
    <2>1. \A a \in Cells(ns) : Prevs(m)[a] = Prevs(mem)[a]
          BY <1>4, <1>15 DEF Prevs
    <2>2. QED
          BY <1>5, <2>1, ChainKept
  <1>19. PICK cs : cs = <<b>> \o bs
        OBVIOUS
  <1>20. Chain(m, b, cs) /\ Cells(cs) = hp
    <2>1. \A a \in Cells(bs) : m[a] = mem[a]
      <3>1. \A a \in Cells(bs) : a \in Words /\ a # b
            BY <1>4, <1>5, <1>9, ChainIs
      <3>2. QED
            BY <1>14, <3>1
    <2>2. b \notin Cells(bs)
          BY <1>4, <1>9
    <2>3. Chain(m, b, cs) /\ Cells(cs) = Cells(bs) \cup {b}
          BY <1>5, <1>8, <1>14, <1>19, <2>1, <2>2, ChainCons
    <2>4. QED
          BY <1>2, <1>4, <2>3
  <1>21. Listed(pl, m, head_, fs, ns, cs)
        BY <1>11, <1>17, <1>18, <1>20 DEF Listed
  <1>22. Placed(pl, hp, inUse \cup Cells(fs))
        BY <1>6, <1>11, <1>15 DEF Placed
  <1>23. Sound(pl, m, hp, inUse, head_, fs, ns, cs)
        BY <1>4, <1>11, <1>12, <1>13, <1>14, <1>20, <1>21, <1>22 DEF Sound
  <1>24. p \notin inUse \cup Cells(fs)
        BY <1>6, <1>15
  <1>25. Ready(pl, m, hp, inUse, head_, fs, ns, cs, p)
        BY <1>11, <1>16, <1>23, <1>24 DEF Ready
  <1>26. Prepared(r, fs, ns, cs)
        BY <1>3, <1>15, <1>25 DEF Prepared
  <1>27. QED
        BY <1>26

-----------------------------------------------------------------------------
(* The steps of the stack.                                                 *)
Same(m, w, ns) == \A i \in 1 .. Len(ns) : w[ns[i]] = m[ns[i]]

LEMMA PushStep ==
  ASSUME NEW fs, NEW ns, NEW bs, Sound(pool, mem, heap, inUse, head_, fs, ns, bs),
         NEW v \in Values, push(v)
  PROVE  /\ \E gs, cs : Sound(pool', mem', heap', inUse', head_', gs, <<head_'>> \o ns, cs)
         /\ mem'[head_'] = v /\ Same(mem, mem', ns)
  <1>1. PICK r \in allocate : Allocated(r, Node(r.mem, r.slot, v)) /\ head_' = r.slot
        BY DEF push
  <1>2. \E gs, cs : Prepared(r, gs, ns, cs)
    <2>1. CASE pool.freeSlots # 0
      <3>1. r \in FromFreeList
            BY <1>1, <2>1 DEF allocate
      <3>2. QED
            BY <2>1, <3>1, FreeListReady
    <2>2. CASE pool.freeSlots = 0 /\ pool.currentSlot >= pool.lastSlot
      <3>1. r \in FromNewBlock
            BY <1>1, <2>2 DEF allocate
      <3>2. QED
            BY <2>2, <3>1, NewBlockReady
    <2>3. CASE pool.freeSlots = 0 /\ ~(pool.currentSlot >= pool.lastSlot)
      <3>1. r \in FromBlock
            BY <1>1, <2>3 DEF allocate
      <3>2. pool.currentSlot \in Nat /\ pool.lastSlot \in Nat
            BY DEF Sound, PoolRecord
      <3>3. pool.currentSlot < pool.lastSlot
            BY <2>3, <3>2
      <3>4. QED
            BY <3>1, <3>3, BlockReady
    <2>4. QED
          BY <2>1, <2>2, <2>3
  <1>3. PICK gs, cs : Prepared(r, gs, ns, cs)
        BY <1>2
  <1>4. PICK w : w = Node(r.mem, r.slot, v)
        OBVIOUS
  <1>5. /\ Sound(r.pool, w, r.heap, inUse \cup {r.slot}, r.slot, gs, <<r.slot>> \o ns, cs)
        /\ w[r.slot] = v
        /\ \A i \in 1 .. Len(ns) : w[ns[i]] = r.mem[ns[i]]
    <2>1. PICK pl, m, hp, p : pl = r.pool /\ m = r.mem /\ hp = r.heap /\ p = r.slot
          OBVIOUS
    <2>2. Ready(pl, m, hp, inUse, head_, gs, ns, cs, p)
          BY <1>3, <2>1 DEF Prepared
    <2>3. w = Node(m, p, v)
          BY <1>4, <2>1
    <2>4. NodeIn(pl, m, hp, inUse, gs, ns, cs, p, v)
          BY <2>2, NodeAdded
    <2>5. QED
          BY <2>1, <2>3, <2>4 DEF NodeIn
  <1>6. /\ pool' = r.pool /\ heap' = r.heap /\ inUse' = inUse \cup {r.slot} /\ mem' = w /\ head_' = r.slot
        BY <1>1, <1>4 DEF Allocated
  <1>7. \A i \in 1 .. Len(ns) : r.mem[ns[i]] = mem[ns[i]]
    <2>1. \A i \in 1 .. Len(ns) : ns[i] \in inUse
          BY DEF Sound, Cells
    <2>2. QED
          BY <1>3, <2>1 DEF Prepared
  <1>8. Same(mem, mem', ns)
        BY <1>5, <1>6, <1>7 DEF Same
  <1>9. Sound(pool', mem', heap', inUse', head_', gs, <<head_'>> \o ns, cs)
        BY <1>5, <1>6
  <1>10. QED
        BY <1>5, <1>6, <1>8, <1>9

LEMMA UnlinkStep ==
  ASSUME NEW fs, NEW ns, NEW bs, Sound(pool, mem, heap, inUse, head_, fs, ns, bs), Unlink
  PROVE  /\ ns # <<>>
         /\ Sound(pool', mem', heap', inUse', head_', <<head_>> \o fs, Tail(ns), bs)
         /\ Same(mem, mem', Tail(ns))
  <1>1. PICK p, pl, m, rest :
          /\ p = head_ /\ pl = [pool EXCEPT !.freeSlots = p]
          /\ m = [mem EXCEPT ![p] = pool.freeSlots] /\ rest = Tail(ns)
        OBVIOUS
  <1>2. /\ p # 0 /\ mem' = m /\ pool' = pl /\ inUse' = inUse \ {p} /\ heap' = heap
        /\ head_' = mem[PrevOf(p)]
        BY <1>1 DEF Unlink, deallocate, Saved
  <1>3. /\ pool \in PoolRecord /\ mem \in [Words -> Content]
        /\ heap \in SUBSET Bases /\ IsFiniteSet(heap) /\ BlocksApart(heap)
        /\ Cells(ns) = inUse /\ Cells(bs) = heap /\ inUse \cap Cells(fs) = {}
        /\ Placed(pool, heap, inUse \cup Cells(fs))
        /\ Cutting(pool)
        BY DEF Sound
  <1>4. /\ Chain(mem, pool.freeSlots, fs) /\ Chain(Prevs(mem), p, ns)
        /\ Chain(mem, pool.currentBlock, bs)
        BY <1>1 DEF Sound, Listed
  <1>5. /\ ns # <<>> /\ p \in Cells(ns)
        /\ Chain(Prevs(mem), Prevs(mem)[p], rest) /\ Cells(rest) = Cells(ns) \ {p}
        BY <1>1, <1>2, <1>4, ChainTail
  <1>6. Cut(heap, pool.currentBlock, pool.currentSlot, p)
        BY <1>3, <1>5 DEF Placed
  <1>7. p \in Words /\ PrevOf(p) \in Words /\ p \in Nat
        BY <1>3, <1>6, CutIs
  <1>8. head_' = Prevs(mem)[p]
        BY <1>2, <1>7 DEF Prevs
  <1>9. m \in [Words -> Content] /\ m[p] = pool.freeSlots /\ \A a \in Words : a # p => m[a] = mem[a]
    <2>1. pool.freeSlots \in Content
          BY <1>4, ChainIs DEF Content
    <2>2. QED
          BY <1>1, <1>3, <1>7, <2>1
  <1>10. /\ pl \in PoolRecord /\ pl.freeSlots = p /\ pl.currentBlock = pool.currentBlock
         /\ pl.currentSlot = pool.currentSlot /\ pl.lastSlot = pool.lastSlot
        BY <1>1, <1>3, <1>7 DEF PoolRecord
  <1>11. ASSUME NEW q \in inUse \cup Cells(fs), q # p
         PROVE  q \in Words /\ m[q] = mem[q] /\ m[PrevOf(q)] = mem[PrevOf(q)]
    <2>1. Cut(heap, pool.currentBlock, pool.currentSlot, q)
          BY <1>3 DEF Placed
    <2>2. q \in Words /\ PrevOf(q) \in Words /\ q \in Nat
          BY <1>3, <2>1, CutIs
    <2>3. Apart(p, q)
          BY <1>3, <1>6, <1>11, <2>1, CutsApart
    <2>4. PrevOf(q) # p
          BY <1>7, <2>2, <2>3, SlotFar
    <2>5. QED
          BY <1>9, <1>11, <2>2, <2>4
  <1>12. PICK gs : gs = <<p>> \o fs
        OBVIOUS
  <1>13. Chain(m, p, gs) /\ Cells(gs) = Cells(fs) \cup {p}
    <2>1. p \notin Cells(fs)
          BY <1>3, <1>5
    <2>2. \A a \in Cells(fs) : m[a] = mem[a]
          BY <1>11, <2>1
    <2>3. QED
          BY <1>2, <1>4, <1>7, <1>9, <1>12, <2>1, <2>2, ChainCons
  <1>14. Chain(Prevs(m), head_', rest)
    <2>1. \A a \in Cells(rest) : Prevs(m)[a] = Prevs(mem)[a]
          BY <1>3, <1>5, <1>11 DEF Prevs
    <2>2. QED
          BY <1>5, <1>8, <2>1, ChainKept
  <1>15. Chain(m, pool.currentBlock, bs)
    <2>1. \A b \in Cells(bs) : m[b] = mem[b]
      <3> TAKE b \in Cells(bs)
      <3>1. b \in Words /\ b \in heap
            BY <1>3, <1>4, ChainIs
      <3>2. b # p
            BY <1>3, <1>6, <3>1, BlockFar
      <3>3. QED
            BY <1>9, <3>1, <3>2
    <2>2. QED
          BY <1>4, <2>1, ChainKept
  <1>16. Listed(pl, m, head_', gs, rest, bs)
        BY <1>10, <1>13, <1>14, <1>15 DEF Listed
  <1>17. /\ Cells(rest) = inUse \ {p} /\ (inUse \ {p}) \cap Cells(gs) = {}
         /\ (inUse \ {p}) \cup Cells(gs) = inUse \cup Cells(fs)
        BY <1>3, <1>5, <1>13
  <1>18. Placed(pl, heap, (inUse \ {p}) \cup Cells(gs))
        BY <1>3, <1>10, <1>17 DEF Placed
  <1>19. Cutting(pl)
        BY <1>3, <1>10 DEF Cutting
  <1>20. Sound(pl, m, heap, inUse \ {p}, head_', gs, rest, bs)
        BY <1>3, <1>9, <1>10, <1>16, <1>17, <1>18, <1>19 DEF Sound
  <1>21. Same(mem, m, rest)
    <2>1. \A i \in 1 .. Len(rest) : rest[i] \in inUse /\ rest[i] # p
          BY <1>17 DEF Cells
    <2>2. QED
          BY <1>11, <2>1 DEF Same
  <1>22. QED
        BY <1>1, <1>2, <1>5, <1>12, <1>20, <1>21

LEMMA EmptyChain ==
  ASSUME NEW nx
  PROVE  Chain(nx, 0, <<>>) /\ Cells(<<>>) = {}
  <1>1. <<>> \in Seq(Words \ {0}) /\ Len(<<>>) = 0
        OBVIOUS
  <1>2. 1 .. 0 = {}
        OBVIOUS
  <1>3. QED
        BY <1>1, <1>2 DEF Chain, Nth, Cells

LEMMA MemInitially == StackInit => MemInv
  <1> SUFFICES ASSUME StackInit PROVE MemInv
      OBVIOUS
  <1>1. /\ pool = [currentBlock |-> 0, currentSlot |-> 0, lastSlot |-> 0, freeSlots |-> 0]
        /\ heap = {} /\ inUse = {} /\ head_ = 0 /\ clearing = FALSE /\ used = {}
        BY DEF StackInit, PoolInit
  <1>2. mem \in [Words -> Content]
        BY DEF StackInit, PoolInit, Content
  <1>3. /\ pool \in PoolRecord /\ pool.currentBlock = 0 /\ pool.freeSlots = 0
        /\ pool.currentSlot = 0 /\ pool.lastSlot = 0
        BY <1>1 DEF PoolRecord
  <1>4. Cutting(pool)
        BY <1>3 DEF Cutting
  <1>5. Listed(pool, mem, head_, <<>>, <<>>, <<>>) /\ Cells(<<>>) = {}
        BY <1>1, <1>3, EmptyChain DEF Listed
  <1>6. IsFiniteSet(heap) /\ BlocksApart(heap) /\ heap \in SUBSET Bases
        BY <1>1, FS_EmptySet DEF BlocksApart
  <1>7. Placed(pool, heap, inUse \cup Cells(<<>>))
        BY <1>1, <1>5 DEF Placed
  <1>8. Sound(pool, mem, heap, inUse, head_, <<>>, <<>>, <<>>)
        BY <1>1, <1>2, <1>3, <1>4, <1>5, <1>6, <1>7 DEF Sound
  <1>9. QED
        BY <1>1, <1>8 DEF MemInv

LEMMA MemNext == MemInv /\ [StackNext]_stackVars => MemInv'
  <1> SUFFICES ASSUME MemInv, [StackNext]_stackVars PROVE MemInv'
      OBVIOUS
  <1>1. PICK fs, ns, bs : Sound(pool, mem, heap, inUse, head_, fs, ns, bs)
        BY DEF MemInv
  <1>2. used \in SUBSET Values /\ clearing \in BOOLEAN
        BY DEF MemInv
  <1>3. ASSUME NEW v \in Values, push(v) PROVE MemInv'
    <2>1. \E gs, cs : Sound(pool', mem', heap', inUse', head_', gs, <<head_'>> \o ns, cs)
          BY <1>1, <1>3, PushStep
    <2>2. used' \in SUBSET Values /\ clearing' \in BOOLEAN
          BY <1>2, <1>3 DEF push
    <2>3. QED
          BY <2>1, <2>2 DEF MemInv
  <1>4. ASSUME Unlink, clearing' = clearing PROVE MemInv'
    <2>1. Sound(pool', mem', heap', inUse', head_', <<head_>> \o fs, Tail(ns), bs)
          BY <1>1, <1>4, UnlinkStep
    <2>2. used' \in SUBSET Values /\ clearing' \in BOOLEAN
          BY <1>2, <1>4 DEF Unlink
    <2>3. QED
          BY <2>1, <2>2 DEF MemInv
  <1>5. ASSUME UNCHANGED <<poolVars, head_, used>>, clearing' \in BOOLEAN PROVE MemInv'
    <2>1. Sound(pool', mem', heap', inUse', head_', fs, ns, bs)
          BY <1>1, <1>5 DEF poolVars
    <2>2. QED
          BY <1>2, <1>5, <2>1 DEF MemInv
  <1>6. QED
        BY <1>2, <1>3, <1>4, <1>5 DEF StackNext, pop, clear, ClearStep, ClearEnds, stackVars

(* The memory pool under the stack, for any sizes, addresses and values:   *)
(* slots lie inside their blocks and apart from each other and are no more *)
(* than max_size says, the free list and the list of blocks are intact,    *)
(* the destructor frees every block once, and the nodes of the stack are   *)
(* the slots it holds.                                                     *)
THEOREM MemoryIsSound == StackInit /\ [][StackNext]_stackVars => []MemorySound
  <1>1. MemInv => MemorySound
        BY SoundIsSound
  <1>2. QED
        BY <1>1, MemInitially, MemNext, PTL

-----------------------------------------------------------------------------
(* What the stack on the pool holds.                                       *)
Data(m, ns) == [i \in DOMAIN ns |-> m[ns[i]]]
StackData == Data(mem, Nodes)
NodesRight == \A fs, ns, bs : Sound(pool, mem, heap, inUse, head_, fs, ns, bs) => Nodes = ns

(* The nodes ns with another one, p, that holds v.                         *)
OnTop(m, ns, w, ms, p, v) ==
  ns \in Seq(Words \ {0}) /\ p \in Words \ {0} /\ w[p] = v /\ Same(m, w, ns) /\ ms = <<p>> \o ns
Pushed(m, ns, w, ms, v) == Data(w, ms) = <<v>> \o Data(m, ns)

LEMMA DataAfterPush ==
  ASSUME NEW m, NEW ns, NEW w, NEW ms, NEW p, NEW v, OnTop(m, ns, w, ms, p, v)
  PROVE  Pushed(m, ns, w, ms, v)
  <1>0. ns \in Seq(Words \ {0}) /\ p \in Words \ {0} /\ w[p] = v /\ Same(m, w, ns) /\ ms = <<p>> \o ns
        BY DEF OnTop
  <1>1. PICK T : T = {v} \cup {m[a] : a \in Words}
        OBVIOUS
  <1>2. PICK s : s = [i \in DOMAIN ns |-> m[ns[i]]]
        OBVIOUS
  <1>3. Len(ns) \in Nat /\ DOMAIN ns = 1 .. Len(ns) /\ \A i \in 1 .. Len(ns) : ns[i] \in Words
        BY <1>0
  <1>4. s \in Seq(T) /\ Len(s) = Len(ns)
    <2>1. s \in [1 .. Len(ns) -> T]
          BY <1>1, <1>2, <1>3
    <2>2. QED
          BY <1>3, <2>1
  <1>5. /\ Len(ms) = Len(ns) + 1 /\ DOMAIN ms = 1 .. (Len(ns) + 1) /\ ms[1] = p
        /\ \A i \in 2 .. (Len(ns) + 1) : i - 1 \in 1 .. Len(ns) /\ ms[i] = ns[i - 1]
        BY <1>0, PushFront
  <1>6. PICK n \in Nat : n = Len(s) + 1
        BY <1>3, <1>4
  <1>a. PICK t : t = [i \in 1 .. n |-> IF i = 1 THEN v ELSE s[i - 1]]
        OBVIOUS
  <1>7. ASSUME NEW i \in 1 .. n PROVE w[ms[i]] = IF i = 1 THEN v ELSE s[i - 1]
    <2>1. CASE i = 1
          BY <1>0, <1>5, <2>1
    <2>2. CASE i # 1
      <3>1. i \in 2 .. (Len(ns) + 1)
            BY <1>3, <1>4, <1>6, <2>2
      <3>2. i - 1 \in 1 .. Len(ns) /\ ms[i] = ns[i - 1]
            BY <1>5, <3>1
      <3>3. w[ns[i - 1]] = m[ns[i - 1]]
            BY <1>0, <3>2 DEF Same
      <3>4. s[i - 1] = m[ns[i - 1]]
            BY <1>2, <1>3, <3>2
      <3>5. QED
            BY <2>2, <3>2, <3>3, <3>4
    <2>3. QED
          BY <2>1, <2>2
  <1>8. [i \in DOMAIN ms |-> w[ms[i]]] = t
        BY <1>4, <1>5, <1>6, <1>7, <1>a
  <1>9. v \in T
        BY <1>1
  <1>10. t = <<v>> \o s
        BY <1>4, <1>6, <1>9, <1>a, ConsIs
  <1>11. QED
        BY <1>2, <1>8, <1>10 DEF Data, Pushed

LEMMA DataAfterPop ==
  ASSUME NEW ns \in Seq(Words \ {0}), ns # <<>>, NEW m, NEW w, NEW ms, ms = Tail(ns), Same(m, w, ms)
  PROVE  Data(w, ms) = Tail(Data(m, ns)) /\ Data(m, ns) # <<>>
  <1>1. PICK T : T = {m[a] : a \in Words}
        OBVIOUS
  <1>2. PICK s : s = [i \in DOMAIN ns |-> m[ns[i]]]
        OBVIOUS
  <1>3. Len(ns) \in Nat \ {0} /\ DOMAIN ns = 1 .. Len(ns) /\ \A i \in 1 .. Len(ns) : ns[i] \in Words
    <2>1. Len(ns) \in Nat \ {0}
          BY PopFront
    <2>2. QED
          BY <2>1
  <1>4. s \in Seq(T) /\ Len(s) = Len(ns)
    <2>1. s \in [1 .. Len(ns) -> T]
          BY <1>1, <1>2, <1>3
    <2>2. QED
          BY <1>3, <2>1
  <1>5. s # <<>>
        BY <1>3, <1>4
  <1>6. PICK n \in Nat : n = Len(ns) - 1 /\ Len(s) = n + 1
    <2>1. PICK l \in Nat \ {0} : l = Len(ns) /\ Len(s) = l
          BY <1>3, <1>4
    <2>2. l - 1 \in Nat /\ (l - 1) + 1 = l
          OBVIOUS
    <2>3. QED
          BY <2>1, <2>2
  <1>7. DOMAIN ms = 1 .. n /\ Len(ms) = n /\ \A i \in 1 .. n : ms[i] = ns[i + 1]
        BY <1>6, PopFront
  <1>8. ASSUME NEW i \in 1 .. n PROVE w[ms[i]] = s[i + 1]
    <2>1. i + 1 \in 1 .. Len(ns)
          BY <1>3, <1>6
    <2>2. s[i + 1] = m[ns[i + 1]]
          BY <1>2, <1>3, <2>1
    <2>3. w[ms[i]] = m[ms[i]]
          BY <1>7 DEF Same
    <2>4. QED
          BY <1>7, <2>2, <2>3
  <1>9. PICK t : t = [i \in 1 .. n |-> s[i + 1]]
        OBVIOUS
  <1>10. [i \in DOMAIN ms |-> w[ms[i]]] = t
        BY <1>7, <1>8, <1>9
  <1>11. t = Tail(s)
        BY <1>4, <1>5, <1>6, <1>9, TailIs
  <1>12. QED
        BY <1>2, <1>5, <1>10, <1>11 DEF Data

(* The stack on the memory pool is a stack: although a node's data lies in *)
(* the word the pool links free slots with, what is popped is what was     *)
(* pushed, last in, first out.                                             *)
THEOREM NodesImplementStack == StackInit /\ [][StackNext]_stackVars => ImplementsStack
  <1>1. MemInv => NodesRight
        BY SoundLists DEF NodesRight
  <1>2. NodesRight
        BY SoundLists DEF NodesRight
  <1>3. StackInit => Abs!Init
    <2> SUFFICES ASSUME StackInit PROVE Abs!Init
        OBVIOUS
    <2>1. used = {} /\ head_ = 0
          BY DEF StackInit
    <2>2. PICK fs, ns, bs : Sound(pool, mem, heap, inUse, head_, fs, ns, bs)
          BY MemInitially DEF MemInv
    <2>3. Chain(Prevs(mem), head_, ns)
          BY <2>2 DEF Sound, Listed
    <2>4. Nodes = <<>>
          BY <1>2, <2>1, <2>2, <2>3, ChainIs DEF NodesRight
    <2>5. [i \in DOMAIN Nodes |-> mem[Nodes[i]]] = <<>>
          BY <2>4
    <2>6. QED
          BY <2>1, <2>5 DEF Abs!Init
  <1>4. MemInv /\ NodesRight /\ NodesRight' /\ [StackNext]_stackVars => [Abs!Next]_<<StackData, used>>
    <2> SUFFICES ASSUME MemInv, NodesRight, NodesRight', [StackNext]_stackVars
                 PROVE  [Abs!Next]_<<StackData, used>>
        OBVIOUS
    <2>1. PICK fs, ns, bs : Sound(pool, mem, heap, inUse, head_, fs, ns, bs)
          BY DEF MemInv
    <2>2. Nodes = ns /\ StackData = Data(mem, ns)
          BY <2>1 DEF NodesRight, StackData
    <2>3. ns \in Seq(Words \ {0})
          BY <2>1, ChainIs DEF Sound, Listed
    <2>4. ASSUME NEW v \in Values, push(v) PROVE Abs!Next
      <3>1. /\ \E gs, cs : Sound(pool', mem', heap', inUse', head_', gs, <<head_'>> \o ns, cs)
            /\ mem'[head_'] = v /\ Same(mem, mem', ns)
            BY <2>1, <2>4, PushStep
      <3>2. PICK gs, cs : Sound(pool', mem', heap', inUse', head_', gs, <<head_'>> \o ns, cs)
            BY <3>1
      <3>3. PICK ms : ms = <<head_'>> \o ns
            OBVIOUS
      <3>4. Nodes' = ms
            BY <3>2, <3>3 DEF NodesRight
      <3>5. Chain(Prevs(mem'), head_', ms)
            BY <3>2, <3>3 DEF Sound, Listed
      <3>6. head_' \in Words \ {0}
        <4>1. head_' \in Words /\ (head_' = 0 => ms = <<>>)
              BY <3>5, ChainIs
        <4>2. ms # <<>>
              BY <2>3, <3>3
        <4>3. QED
              BY <4>1, <4>2
      <3>7. Data(mem', ms) = <<v>> \o Data(mem, ns)
        <4>1. OnTop(mem, ns, mem', ms, head_', v)
              BY <2>3, <3>1, <3>3, <3>6 DEF OnTop
        <4>2. Pushed(mem, ns, mem', ms, v)
              BY <4>1, DataAfterPush
        <4>3. QED
              BY <4>2 DEF Pushed
      <3>8. StackData' = <<v>> \o StackData
            BY <2>2, <3>4, <3>7 DEF StackData
      <3>9. v \in Values \ used /\ used' = used \cup {v}
            BY <2>4 DEF push
      <3>10. Abs!Push(v)
            BY <3>8, <3>9 DEF Abs!Push, StackData, Data
      <3>11. QED
            BY <3>10 DEF Abs!Next
    <2>5. ASSUME Unlink PROVE Abs!Next
      <3>1. /\ ns # <<>>
            /\ Sound(pool', mem', heap', inUse', head_', <<head_>> \o fs, Tail(ns), bs)
            /\ Same(mem, mem', Tail(ns))
            BY <2>1, <2>5, UnlinkStep
      <3>2. Nodes' = Tail(ns)
            BY <3>1 DEF NodesRight
      <3>3. PICK ms : ms = Tail(ns)
            OBVIOUS
      <3>4. Data(mem', ms) = Tail(Data(mem, ns)) /\ Data(mem, ns) # <<>>
            BY <2>3, <3>1, <3>3, DataAfterPop
      <3>5. StackData' = Tail(StackData) /\ StackData # <<>>
            BY <2>2, <3>2, <3>3, <3>4 DEF StackData
      <3>6. used' = used
            BY <2>5 DEF Unlink
      <3>7. Abs!Pop
            BY <3>5, <3>6 DEF Abs!Pop, StackData, Data
      <3>8. QED
            BY <3>7 DEF Abs!Next
    <2>6. ASSUME UNCHANGED <<poolVars, head_, used>> PROVE UNCHANGED <<StackData, used>>
      <3>1. Sound(pool', mem', heap', inUse', head_', fs, ns, bs) /\ mem' = mem
            BY <2>1, <2>6 DEF poolVars
      <3>2. Nodes' = ns
            BY <3>1 DEF NodesRight
      <3>3. QED
            BY <2>2, <2>6, <3>1, <3>2 DEF StackData
    <2>7. QED
          BY <2>4, <2>5, <2>6 DEF StackNext, pop, clear, ClearStep, ClearEnds, stackVars
  <1>5. QED
        BY <1>1, <1>3, <1>4, MemInitially, MemNext, PTL DEF ImplementsStack, Abs!Spec, Abs!vars, StackData, Data
=============================================================================
