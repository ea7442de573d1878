----------------------------- MODULE ThreadPoolC -----------------------------
(***************************************************************************)
(* The pthread pool of ThreadPool_C_C++/C/threadPool.c: a ring buffer of   *)
(* tasks, workers, a manager thread that grows and shrinks the pool, the   *)
(* producers that call threadPoolAdd and the thread that calls             *)
(* threadPoolDestroy.                                                      *)
(*                                                                         *)
(* Atomicity.  A critical section of mutexBusy, and one of mutexPool that  *)
(* neither waits nor depends on the unprotected flag shutdown twice, is    *)
(* one action.  The flag is written without the lock, so the test of the   *)
(* worker's inner loop and the pthread_cond_wait that follows it are two   *)
(* actions, with mutexPool held in between.  Signals sent without the lock *)
(* are actions of their own.                                               *)
(*                                                                         *)
(* A worker is named by the slot of threadIDs that holds its pthread_t:    *)
(* threadIDs[i] is 0 exactly when worker[i] is "none".                     *)
(*                                                                         *)
(* free(pool) ends the model: what a thread does with the pool after it is *)
(* undefined behaviour, and property NoThreadInFreedPool is about that.    *)
(***************************************************************************)
EXTENDS Integers, Sequences, FiniteSets, FiniteSetsExt

CONSTANTS MinNum, MaxNum,   \* minNum, maxNum
          Capacity,         \* queueCapacity
          Producers,        \* threads that call threadPoolAdd
          Tasks, NoTask,    \* a function pointer with its argument
          JoinProducers     \* TRUE: destroy is called after the adds, as in main.c

ASSUME ConstantsAssumption ==
  /\ MinNum \in Nat \ {0}
  /\ MaxNum \in Nat
  /\ MinNum <= MaxNum
  /\ Capacity \in Nat \ {0}
  /\ NoTask \notin Tasks
  /\ JoinProducers \in BOOLEAN
  \* two adds that run on without the lock would race with each other
  /\ JoinProducers \/ Cardinality(Producers) <= 1

NUMBER == 2
Slots == 0 .. MaxNum - 1
Ring == 0 .. Capacity - 1
Free == -1       \* no thread holds mutexPool

VARIABLES
  taskQ, queueSize, queueFront, queueRear,   \* the ring buffer
  busyNum, liveNum, exitNum,                 \* the counters
  shutdown, mutexPool,
  worker,    \* where the worker of each slot is, "none" for an empty slot
  task,      \* the local variable task of each worker
  manager,   \* the manager thread and its locals
  producer,  \* where each producer is
  arg,       \* the task each producer is adding
  main,      \* progress of threadPoolDestroy
  signalled, \* its loop counter
  added,     \* tasks handed to threadPoolAdd so far
  done       \* tasks whose function was called and whose argument was freed

queueVars == <<taskQ, queueSize, queueFront, queueRear>>
workerVars == <<worker, task>>
producerVars == <<producer, arg, added>>
mainVars == <<main, signalled>>
vars == <<queueVars, busyNum, liveNum, exitNum, shutdown, mutexPool,
          workerVars, manager, producerVars, mainVars, done>>

WorkerPc == {"none", "lock", "toWait", "waiting", "woken", "dequeued",
             "running", "ran", "exiting"}
ManagerPc == {"check", "sample", "busy", "grow", "shrink", "signal", "exited"}
ProducerPc == {"idle", "waiting", "woken", "unlocked"}
MainPc == {"running", "join", "signal", "freed"}

TypeOK ==
  /\ taskQ \in [Ring -> Tasks \cup {NoTask}]
  /\ queueSize \in Nat
  /\ queueFront \in Ring
  /\ queueRear \in Ring
  /\ busyNum \in Nat
  /\ liveNum \in Nat
  /\ exitNum \in 0 .. NUMBER
  /\ shutdown \in BOOLEAN
  /\ mutexPool \in Slots \cup {Free}
  /\ worker \in [Slots -> WorkerPc]
  /\ task \in [Slots -> Tasks \cup {NoTask}]
  /\ manager \in [pc : ManagerPc, queueSize : Nat, liveNum : Nat,
                  busyNum : Nat, sent : 0 .. NUMBER]
  /\ producer \in [Producers -> ProducerPc]
  /\ arg \in [Producers -> Tasks \cup {NoTask}]
  /\ main \in MainPc
  /\ signalled \in Nat
  /\ added \in SUBSET Tasks
  /\ done \in SUBSET Tasks

-----------------------------------------------------------------------------
Locals(pc, q, l, b, s) ==
  [pc |-> pc, queueSize |-> q, liveNum |-> l, busyNum |-> b, sent |-> s]

(* threadPoolCreate has started the manager and minNum workers.            *)
Init ==
  /\ taskQ = [i \in Ring |-> NoTask]
  /\ queueSize = 0 /\ queueFront = 0 /\ queueRear = 0
  /\ busyNum = 0 /\ liveNum = MinNum /\ exitNum = 0
  /\ shutdown = FALSE /\ mutexPool = Free
  /\ worker = [i \in Slots |-> IF i < MinNum THEN "lock" ELSE "none"]
  /\ task = [i \in Slots |-> NoTask]
  /\ manager = Locals("check", 0, 0, 0, 0)
  /\ producer = [p \in Producers |-> "idle"]
  /\ arg = [p \in Producers |-> NoTask]
  /\ main = "running" /\ signalled = 0
  /\ added = {} /\ done = {}

Freed == main = "freed"

(* pthread_cond_signal(notEmpty): the worker states it can leave behind.   *)
Signal(f) ==
  LET waiters == {w \in Slots : f[w] = "waiting"}
  IN  IF waiters = {} THEN {f}
      ELSE {[f EXCEPT ![w] = "woken"] : w \in waiters}

(* pthread_cond_signal(notFull), likewise for the producers.               *)
SignalNotFull ==
  LET waiters == {p \in Producers : producer[p] = "waiting"}
  IN  IF waiters = {} THEN {producer}
      ELSE {[producer EXCEPT ![p] = "woken"] : p \in waiters}

-----------------------------------------------------------------------------
(* worker: the inner while loop, the shutdown test and the dequeue, with   *)
(* mutexPool held by w.                                                    *)
Mut_MustWait == ~shutdown
MustWait == queueSize = 0 /\ ~shutdown

LoopTestWaits(w) ==
  /\ MustWait
  /\ worker' = [worker EXCEPT ![w] = "toWait"]
  /\ mutexPool' = w
  /\ UNCHANGED <<queueVars, task, producer>>

LoopTestQuits(w) ==
  /\ shutdown
  /\ worker' = [worker EXCEPT ![w] = "exiting"]
  /\ UNCHANGED <<queueVars, task, producer, mutexPool>>

NextFront == (queueFront + 1) % Capacity

FrontTask == taskQ[queueFront]

Mut_Dequeue(w) ==
  LET last == (queueRear + Capacity - 1) % Capacity
  IN  /\ ~MustWait
      /\ ~shutdown
      /\ task' = [task EXCEPT ![w] = taskQ[last]]
      /\ queueRear' = last
      /\ queueSize' = queueSize - 1
      /\ producer' \in SignalNotFull
      /\ worker' = [worker EXCEPT ![w] = "dequeued"]
      /\ UNCHANGED <<taskQ, queueFront, mutexPool>>
Dequeue(w) ==
  /\ ~MustWait
  /\ ~shutdown
  /\ task' = [task EXCEPT ![w] = FrontTask]
  /\ queueFront' = NextFront
  /\ queueSize' = queueSize - 1
  /\ producer' \in SignalNotFull
  /\ worker' = [worker EXCEPT ![w] = "dequeued"]
  /\ UNCHANGED <<taskQ, queueRear, mutexPool>>

LoopTest(w) == LoopTestWaits(w) \/ LoopTestQuits(w) \/ Dequeue(w)

WorkerLock(w) ==
  /\ worker[w] = "lock"
  /\ mutexPool = Free
  /\ LoopTest(w)
  /\ UNCHANGED <<busyNum, liveNum, exitNum, shutdown, manager, arg, added,
                 mainVars, done>>

(* pthread_cond_wait releases mutexPool and sleeps.                        *)
WorkerWait(w) ==
  /\ worker[w] = "toWait"
  /\ mutexPool' = Free
  /\ worker' = [worker EXCEPT ![w] = "waiting"]
  /\ UNCHANGED <<queueVars, busyNum, liveNum, exitNum, shutdown, task, manager,
                 producerVars, mainVars, done>>

SpuriousWakeup(w) ==
  /\ worker[w] = "waiting"
  /\ worker' = [worker EXCEPT ![w] = "woken"]
  /\ UNCHANGED <<queueVars, busyNum, liveNum, exitNum, shutdown, mutexPool, task,
                 manager, producerVars, mainVars, done>>

(* Back from the wait, with the lock: the worker leaves if one must go.    *)
Retires == exitNum > 0 /\ liveNum > MinNum

WorkerRetire(w) ==
  /\ worker[w] = "woken"
  /\ mutexPool = Free
  /\ Retires
  /\ exitNum' = exitNum - 1
  /\ liveNum' = liveNum - 1
  /\ worker' = [worker EXCEPT ![w] = "exiting"]
  /\ UNCHANGED <<queueVars, busyNum, shutdown, mutexPool, task, manager,
                 producerVars, mainVars, done>>

WorkerStay(w) ==
  /\ worker[w] = "woken"
  /\ mutexPool = Free
  /\ ~Retires
  /\ exitNum' = IF exitNum > 0 THEN exitNum - 1 ELSE exitNum
  /\ LoopTest(w)
  /\ UNCHANGED <<busyNum, liveNum, shutdown, manager, arg, added, mainVars, done>>

(* busyNum is counted under its own mutex, around the call of the task.    *)
WorkerBusy(w) ==
  /\ worker[w] = "dequeued"
  /\ busyNum' = busyNum + 1
  /\ worker' = [worker EXCEPT ![w] = "running"]
  /\ UNCHANGED <<queueVars, liveNum, exitNum, shutdown, mutexPool, task, manager,
                 producerVars, mainVars, done>>

WorkerRun(w) ==
  /\ worker[w] = "running"
  /\ done' = done \cup {task[w]}
  /\ task' = [task EXCEPT ![w] = NoTask]
  /\ worker' = [worker EXCEPT ![w] = "ran"]
  /\ UNCHANGED <<queueVars, busyNum, liveNum, exitNum, shutdown, mutexPool,
                 manager, producerVars, mainVars>>

BusyAfter == busyNum - 1

WorkerNotBusy(w) ==
  /\ worker[w] = "ran"
  /\ busyNum' = BusyAfter
  /\ worker' = [worker EXCEPT ![w] = "lock"]
  /\ UNCHANGED <<queueVars, liveNum, exitNum, shutdown, mutexPool, task, manager,
                 producerVars, mainVars, done>>

(* threadDestroy: the slot is cleared without the lock, the thread ends.   *)
threadDestroy(w) ==
  /\ worker[w] = "exiting"
  /\ worker' = [worker EXCEPT ![w] = "none"]
  /\ UNCHANGED <<queueVars, busyNum, liveNum, exitNum, shutdown, mutexPool, task,
                 manager, producerVars, mainVars, done>>

-----------------------------------------------------------------------------
(* manager: sleep is an arbitrary delay before the next action.            *)
ManagerUnchanged == UNCHANGED <<queueVars, busyNum, shutdown, mutexPool, task,
                                producerVars, mainVars, done>>

LoopEnds == shutdown

ManagerCheck ==
  /\ manager.pc = "check"
  /\ manager' = Locals(IF LoopEnds THEN "exited" ELSE "sample", 0, 0, 0, 0)
  /\ UNCHANGED <<worker, liveNum, exitNum>> /\ ManagerUnchanged

ManagerSample ==
  /\ manager.pc = "sample"
  /\ mutexPool = Free
  /\ manager' = Locals("busy", queueSize, liveNum, 0, 0)
  /\ UNCHANGED <<worker, liveNum, exitNum>> /\ ManagerUnchanged

ManagerBusy ==
  /\ manager.pc = "busy"
  /\ manager' = [manager EXCEPT !.pc = "grow", !.busyNum = busyNum]
  /\ UNCHANGED <<worker, liveNum, exitNum>> /\ ManagerUnchanged

(* At most NUMBER empty slots are filled, the lowest first, while liveNum  *)
(* is below maxNum.                                                        *)
EmptySlots == {i \in Slots : worker[i] = "none"}
Room == MaxNum - liveNum
SlotsToFill ==
  {i \in EmptySlots :
     Cardinality({j \in EmptySlots : j < i}) < Min({NUMBER, Room})}

ManagerGrow ==
  /\ manager.pc = "grow"
  /\ manager.queueSize > manager.liveNum
  /\ manager.liveNum < MaxNum
  /\ mutexPool = Free
  /\ worker' = [i \in Slots |-> IF i \in SlotsToFill THEN "lock" ELSE worker[i]]
  /\ liveNum' = liveNum + Cardinality(SlotsToFill)
  /\ manager' = [manager EXCEPT !.pc = "shrink"]
  /\ UNCHANGED exitNum /\ ManagerUnchanged

ManagerNoGrow ==
  /\ manager.pc = "grow"
  /\ ~(manager.queueSize > manager.liveNum /\ manager.liveNum < MaxNum)
  /\ manager' = [manager EXCEPT !.pc = "shrink"]
  /\ UNCHANGED <<worker, liveNum, exitNum>> /\ ManagerUnchanged

MustShrink == manager.busyNum * 2 < manager.liveNum /\ manager.liveNum > MinNum

ManagerShrink ==
  /\ manager.pc = "shrink"
  /\ MustShrink
  /\ mutexPool = Free
  /\ exitNum' = NUMBER
  /\ manager' = [manager EXCEPT !.pc = "signal"]
  /\ UNCHANGED <<worker, liveNum>> /\ ManagerUnchanged

ManagerNoShrink ==
  /\ manager.pc = "shrink"
  /\ ~MustShrink
  /\ manager' = Locals("check", 0, 0, 0, 0)
  /\ UNCHANGED <<worker, liveNum, exitNum>> /\ ManagerUnchanged

ManagerSignal ==
  /\ manager.pc = "signal"
  /\ worker' \in Signal(worker)
  /\ manager' = IF manager.sent + 1 < NUMBER
                THEN [manager EXCEPT !.sent = @ + 1]
                ELSE Locals("check", 0, 0, 0, 0)
  /\ UNCHANGED <<liveNum, exitNum>> /\ ManagerUnchanged

-----------------------------------------------------------------------------
(* threadPoolAdd, called by producer p with task t.                        *)
Mut_Full == queueSize > Capacity
Full == queueSize = Capacity

AddUnchanged == UNCHANGED <<queueFront, busyNum, liveNum, exitNum, shutdown, task,
                            manager, mainVars, done>>

(* The body of the add: the task enters the ring at queueRear.             *)
NextRear == (queueRear + 1) % Capacity

Put(p, t) ==
  /\ taskQ' = [taskQ EXCEPT ![queueRear] = t]
  /\ queueRear' = NextRear
  /\ queueSize' = queueSize + 1
  /\ worker' \in Signal(worker)
  /\ producer' = [producer EXCEPT ![p] = "idle"]
  /\ arg' = [arg EXCEPT ![p] = NoTask]
  /\ added' = added \cup {t}

AddWaits(p, t) ==
  /\ Full /\ ~shutdown
  /\ producer' = [producer EXCEPT ![p] = "waiting"]
  /\ arg' = [arg EXCEPT ![p] = t]
  /\ UNCHANGED <<taskQ, queueRear, queueSize, worker, added>>

(* After a shutdown the lock is released and the function runs on.         *)
AddUnlocks(p, t) ==
  /\ shutdown
  /\ producer' = [producer EXCEPT ![p] = "unlocked"]
  /\ arg' = [arg EXCEPT ![p] = t]
  /\ UNCHANGED <<taskQ, queueRear, queueSize, worker, added>>

AddPuts(p, t) == ~Full /\ ~shutdown /\ Put(p, t)

AddTest(p, t) ==
  /\ mutexPool = Free
  /\ AddWaits(p, t) \/ AddUnlocks(p, t) \/ AddPuts(p, t)
  /\ UNCHANGED mutexPool
  /\ AddUnchanged

threadPoolAdd(p, t) ==
  /\ producer[p] = "idle"
  /\ JoinProducers => main = "running"
  /\ t \notin added \cup {arg[q] : q \in Producers}
  /\ AddTest(p, t)

AddWoken(p) ==
  /\ producer[p] = "woken"
  /\ AddTest(p, arg[p])

(* The final unlock releases the mutex whoever holds it.                   *)
AddUnlocked(p) ==
  /\ producer[p] = "unlocked"
  /\ Put(p, arg[p])
  /\ mutexPool' = Free
  /\ AddUnchanged

AddSpuriousWakeup(p) ==
  /\ producer[p] = "waiting"
  /\ producer' = [producer EXCEPT ![p] = "woken"]
  /\ UNCHANGED <<taskQ, queueRear, queueSize, worker, arg, added, mutexPool>>
  /\ AddUnchanged

-----------------------------------------------------------------------------
(* threadPoolDestroy                                                       *)
MainUnchanged == UNCHANGED <<queueVars, busyNum, liveNum, exitNum, mutexPool, task,
                             manager, producerVars, done>>

DestroyShutdown ==
  /\ main = "running"
  /\ JoinProducers => \A p \in Producers : producer[p] = "idle"
  /\ shutdown' = TRUE
  /\ main' = "join"
  /\ UNCHANGED <<worker, signalled>> /\ MainUnchanged

DestroyJoin ==
  /\ main = "join"
  /\ manager.pc = "exited"
  /\ main' = "signal"
  /\ UNCHANGED <<worker, signalled, shutdown>> /\ MainUnchanged

DestroySignal ==
  /\ main = "signal"
  /\ signalled < liveNum
  /\ worker' \in Signal(worker)
  /\ signalled' = signalled + 1
  /\ UNCHANGED <<main, shutdown>> /\ MainUnchanged

DestroyFree ==
  /\ main = "signal"
  /\ signalled >= liveNum
  /\ main' = "freed"
  /\ UNCHANGED <<worker, signalled, shutdown>> /\ MainUnchanged

-----------------------------------------------------------------------------
WorkerStep(w) ==
  \/ WorkerLock(w) \/ WorkerWait(w) \/ WorkerRetire(w) \/ WorkerStay(w)
  \/ WorkerBusy(w) \/ WorkerRun(w) \/ WorkerNotBusy(w) \/ threadDestroy(w)

ManagerStep ==
  \/ ManagerCheck \/ ManagerSample \/ ManagerBusy
  \/ ManagerGrow \/ ManagerNoGrow \/ ManagerShrink \/ ManagerNoShrink
  \/ ManagerSignal

ProducerStep(p) == AddWoken(p) \/ AddUnlocked(p)

DestroyStep == DestroyJoin \/ DestroySignal \/ DestroyFree

Next ==
  /\ ~Freed
  /\ \/ \E w \in Slots : WorkerStep(w) \/ SpuriousWakeup(w)
     \/ ManagerStep
     \/ \E p \in Producers :
          \/ \E t \in Tasks : threadPoolAdd(p, t)
          \/ ProducerStep(p)
          \/ AddSpuriousWakeup(p)
     \/ DestroyShutdown
     \/ DestroyStep

Spec == Init /\ [][Next]_vars

(* Every runnable thread is scheduled.  Spurious wakeups, new adds and the *)
(* call of threadPoolDestroy are never forced.  A producer that contends   *)
(* for mutexPool with workers that wake again and again gets it some time: *)
(* strong fairness.                                                        *)
Fairness ==
  /\ \A w \in Slots : WF_vars(~Freed /\ WorkerStep(w))
  /\ WF_vars(~Freed /\ ManagerStep)
  /\ \A p \in Producers : SF_vars(~Freed /\ ProducerStep(p))
  /\ WF_vars(~Freed /\ DestroyStep)

FairSpec == Spec /\ Fairness

-----------------------------------------------------------------------------
(* The tasks in the ring, read from queueFront as the workers will.        *)
Pending ==
  [i \in 1 .. queueSize |-> taskQ[(queueFront + i - 1) % Capacity]]
Held == {w \in Slots : worker[w] \in {"dequeued", "running"}}
Running == {task[w] : w \in Held}

(* The two ends of the ring and its size agree, and the size stays within  *)
(* the capacity, however many producers and workers pass each other.       *)
RingConsistent ==
  /\ queueSize \in 0 .. Capacity
  /\ queueRear = (queueFront + queueSize) % Capacity

(* Each task handed to threadPoolAdd is in one place: in the ring, in one  *)
(* worker, or executed.  A task in two places is executed twice and its    *)
(* argument freed twice (free(task.arg)).                                  *)
TaskConservation ==
  LET queued == {Pending[i] : i \in 1 .. queueSize}
  IN  /\ added = queued \cup Running \cup done
      /\ Cardinality(added) = queueSize + Cardinality(Held) + Cardinality(done)

(* Growing and shrinking, decided on stale samples, keep liveNum between   *)
(* minNum and maxNum.                                                      *)
LiveWithinBounds == liveNum \in MinNum .. MaxNum

(* liveNum counts the threads that are not leaving, so every live worker   *)
(* owns a slot of threadIDs, and the busy ones are never more than the     *)
(* live ones although the two counters have different mutexes.             *)
LiveAccounting ==
  ~shutdown =>
    /\ liveNum = Cardinality({w \in Slots : worker[w] \notin {"none", "exiting"}})
    /\ busyNum <= liveNum

(* The ring, the tasks and the threads are accounted for, whatever samples *)
(* the manager acts on and however the workers' critical sections on two   *)
(* mutexes interleave.                                                     *)
Accounting ==
  /\ TypeOK /\ RingConsistent /\ TaskConservation
  /\ LiveWithinBounds /\ LiveAccounting

(* The pool implements the channel: first in, first out, executed once.    *)
Channel == INSTANCE TaskChannel
             WITH pending <- Pending, running <- Running, finished <- done
ImplementsChannel == Channel!Spec

(* Every task added is executed, unless the pool is shut down first.       *)
EveryTaskRuns ==
  \A t \in Tasks : t \in added ~> t \in done \/ shutdown

(* A producer blocked on a full queue is released, unless the pool is shut *)
(* down first (nobody signals notFull then).                               *)
AddReturns ==
  \A p \in Producers : producer[p] # "idle" ~> producer[p] = "idle" \/ shutdown

(* threadPoolDestroy returns: the manager notices the flag.                *)
DestroyReturns == main = "join" ~> Freed

(* No caller is left waiting: a producer in threadPoolAdd, or the thread   *)
(* that destroys the pool.                                                 *)
CallsReturn == AddReturns /\ DestroyReturns

(* Liveness.  Nobody waits for ever: every task is run, and whoever adds   *)
(* one to a full queue or destroys the pool returns, all under the         *)
(* conditions above.                                                       *)
PoolServes == EveryTaskRuns /\ CallsReturn

(* When threadPoolDestroy releases the memory, no worker uses the pool.    *)
NoThreadInFreedPool == Freed => \A w \in Slots : worker[w] = "none"
=============================================================================
