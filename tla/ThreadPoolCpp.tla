---------------------------- MODULE ThreadPoolCpp ----------------------------
(***************************************************************************)
(* The C++ rewrite of the elastic pool, ThreadPool_C_C++/C++: the tasks    *)
(* are in a TaskQueue with a mutex of its own (m_mutex), the workers and   *)
(* the manager use mutexPool, and addTask takes neither mutexPool nor any  *)
(* lock around its test of shutdown and its signal.                        *)
(*                                                                         *)
(* A critical section of m_mutex is one action; one of mutexPool too,      *)
(* except that a worker which found the queue empty still holds mutexPool  *)
(* while others go on ("toWait"): addTask does not need that lock.         *)
(* taskNumber() reads the queue without m_mutex; it is modelled as seeing  *)
(* the size before or after a concurrent push.                             *)
(***************************************************************************)
EXTENDS Integers, Sequences, FiniteSets, FiniteSetsExt

CONSTANTS MinNum, MaxNum,   \* minNum, maxNum
          Producers,        \* threads that call addTask
          Tasks, NoTask

ASSUME ConstantsAssumption ==
  /\ MinNum \in Nat \ {0}
  /\ MaxNum \in Nat
  /\ MinNum <= MaxNum
  /\ NoTask \notin Tasks

NUMBER == 2
Slots == 0 .. MaxNum - 1
Free == -1

VARIABLES
  taskQ,                       \* m_taskQ, front first
  busyNum, liveNum, exitNum,
  shutdown, mutexPool,
  worker, task,                \* per slot of threadIDs
  manager,                     \* the manager thread and its locals
  producer, arg, added,        \* the calls of addTask
  main, signalled,             \* ~ThreadPool
  done

countVars == <<busyNum, liveNum, exitNum>>
producerVars == <<producer, arg, added>>
mainVars == <<main, signalled>>
vars == <<taskQ, countVars, shutdown, mutexPool, worker, task, manager,
          producerVars, mainVars, done>>

WorkerPc == {"none", "lock", "toWait", "waiting", "woken", "running", "ran",
             "exiting"}
ManagerPc == {"check", "sample", "grow", "shrink", "signal", "exited"}

TypeOK ==
  /\ taskQ \in Seq(Tasks)
  /\ busyNum \in Nat /\ liveNum \in Nat /\ exitNum \in 0 .. NUMBER
  /\ shutdown \in BOOLEAN
  /\ mutexPool \in Slots \cup {Free}
  /\ worker \in [Slots -> WorkerPc]
  /\ task \in [Slots -> Tasks \cup {NoTask}]
  /\ manager \in [pc : ManagerPc, queueSize : Nat, liveNum : Nat, busyNum : Nat,
                  sent : 0 .. NUMBER]
  /\ producer \in [Producers -> {"idle", "push", "signal"}]
  /\ arg \in [Producers -> Tasks \cup {NoTask}]
  /\ main \in {"running", "join", "signal", "freed"}
  /\ signalled \in Nat
  /\ added \in SUBSET Tasks /\ done \in SUBSET Tasks
  /\ \A w \in Slots : worker[w] = "toWait" <=> mutexPool = w

-----------------------------------------------------------------------------
Locals(pc, q, l, b, s) ==
  [pc |-> pc, queueSize |-> q, liveNum |-> l, busyNum |-> b, sent |-> s]

Init ==
  /\ taskQ = <<>>
  /\ busyNum = 0 /\ liveNum = MinNum /\ exitNum = 0
  /\ shutdown = FALSE /\ mutexPool = Free
  /\ worker = [i \in Slots |-> IF i < MinNum THEN "lock" ELSE "none"]
  /\ task = [i \in Slots |-> NoTask]
  /\ manager = Locals("check", 0, 0, 0, 0)
  /\ producer = [p \in Producers |-> "idle"]
  /\ arg = [p \in Producers |-> NoTask]
  /\ main = "running" /\ signalled = 0
  /\ added = {} /\ done = {}

Freed == main = "freed"

(* pthread_cond_signal(&notEmpty)                                          *)
Signal(f) ==
  LET waiters == {w \in Slots : f[w] = "waiting"}
  IN  IF waiters = {} THEN {f}
      ELSE {[f EXCEPT ![w] = "woken"] : w \in waiters}

-----------------------------------------------------------------------------
MustWait == taskQ = <<>> /\ ~shutdown

LoopTestWaits(w) ==
  /\ MustWait
  /\ worker' = [worker EXCEPT ![w] = "toWait"]
  /\ mutexPool' = w
  /\ UNCHANGED <<taskQ, task, busyNum>>

LoopTestQuits(w) ==
  /\ shutdown
  /\ worker' = [worker EXCEPT ![w] = "exiting"]
  /\ UNCHANGED <<taskQ, task, busyNum, mutexPool>>

(* takeTask, and busyNum in the same critical section of mutexPool.        *)
BusyTaken == busyNum + 1
Mut_Remaining == SubSeq(taskQ, 1, Len(taskQ) - 1)
Remaining == Tail(taskQ)

Take(w) ==
  /\ ~MustWait
  /\ ~shutdown
  /\ task' = [task EXCEPT ![w] = Head(taskQ)]
  /\ taskQ' = Remaining
  /\ busyNum' = BusyTaken
  /\ worker' = [worker EXCEPT ![w] = "running"]
  /\ UNCHANGED mutexPool

LoopTest(w) == LoopTestWaits(w) \/ LoopTestQuits(w) \/ Take(w)

WorkerLock(w) ==
  /\ worker[w] = "lock"
  /\ mutexPool = Free
  /\ LoopTest(w)
  /\ UNCHANGED <<liveNum, exitNum, shutdown, manager, producerVars, mainVars, done>>

Unlocked(w) == Free

WorkerWait(w) ==
  /\ worker[w] = "toWait"
  /\ mutexPool' = Unlocked(w)
  /\ worker' = [worker EXCEPT ![w] = "waiting"]
  /\ UNCHANGED <<taskQ, countVars, shutdown, task, manager, producerVars,
                 mainVars, done>>

SpuriousWakeup(w) ==
  /\ worker[w] = "waiting"
  /\ worker' = [worker EXCEPT ![w] = "woken"]
  /\ UNCHANGED <<taskQ, countVars, shutdown, mutexPool, task, manager,
                 producerVars, mainVars, done>>

Mut_Retires == exitNum > 0
Retires == exitNum > 0 /\ liveNum > MinNum

WorkerRetire(w) ==
  /\ worker[w] = "woken"
  /\ mutexPool = Free
  /\ Retires
  /\ exitNum' = exitNum - 1
  /\ liveNum' = liveNum - 1
  /\ worker' = [worker EXCEPT ![w] = "exiting"]
  /\ UNCHANGED <<taskQ, busyNum, shutdown, mutexPool, task, manager, producerVars,
                 mainVars, done>>

WorkerStay(w) ==
  /\ worker[w] = "woken"
  /\ mutexPool = Free
  /\ ~Retires
  /\ exitNum' = IF exitNum > 0 THEN exitNum - 1 ELSE exitNum
  /\ LoopTest(w)
  /\ UNCHANGED <<liveNum, shutdown, manager, producerVars, mainVars, done>>

WorkerRun(w) ==
  /\ worker[w] = "running"
  /\ done' = done \cup {task[w]}
  /\ task' = [task EXCEPT ![w] = NoTask]
  /\ worker' = [worker EXCEPT ![w] = "ran"]
  /\ UNCHANGED <<taskQ, countVars, shutdown, mutexPool, manager, producerVars,
                 mainVars>>

WorkerNotBusy(w) ==
  /\ worker[w] = "ran"
  /\ mutexPool = Free
  /\ busyNum' = busyNum - 1
  /\ worker' = [worker EXCEPT ![w] = "lock"]
  /\ UNCHANGED <<taskQ, liveNum, exitNum, shutdown, mutexPool, task, manager,
                 producerVars, mainVars, done>>

threadExit(w) ==
  /\ worker[w] = "exiting"
  /\ worker' = [worker EXCEPT ![w] = "none"]
  /\ UNCHANGED <<taskQ, countVars, shutdown, mutexPool, task, manager,
                 producerVars, mainVars, done>>

-----------------------------------------------------------------------------
ManagerUnchanged == UNCHANGED <<taskQ, busyNum, shutdown, mutexPool, task,
                                producerVars, mainVars, done>>

Mut_LoopEnds == FALSE
LoopEnds == shutdown

ManagerCheck ==
  /\ manager.pc = "check"
  /\ manager' = Locals(IF LoopEnds THEN "exited" ELSE "sample", 0, 0, 0, 0)
  /\ UNCHANGED <<worker, liveNum, exitNum>> /\ ManagerUnchanged

ManagerSample ==
  /\ manager.pc = "sample"
  /\ mutexPool = Free
  /\ manager' = Locals("grow", Len(taskQ), liveNum, busyNum, 0)
  /\ UNCHANGED <<worker, liveNum, exitNum>> /\ ManagerUnchanged

EmptySlots == {i \in Slots : worker[i] = "none"}
SlotsToFill ==
  {i \in EmptySlots :
     Cardinality({j \in EmptySlots : j < i}) < Min({NUMBER, MaxNum - liveNum})}

MustGrow == manager.queueSize > manager.liveNum /\ manager.liveNum < MaxNum
MustShrink == manager.busyNum * 2 < manager.liveNum /\ manager.liveNum > MinNum

ManagerGrow ==
  /\ manager.pc = "grow"
  /\ MustGrow
  /\ mutexPool = Free
  /\ worker' = [i \in Slots |-> IF i \in SlotsToFill THEN "lock" ELSE worker[i]]
  /\ liveNum' = liveNum + Cardinality(SlotsToFill)
  /\ manager' = [manager EXCEPT !.pc = "shrink"]
  /\ UNCHANGED exitNum /\ ManagerUnchanged

ManagerNoGrow ==
  /\ manager.pc = "grow"
  /\ ~MustGrow
  /\ manager' = [manager EXCEPT !.pc = "shrink"]
  /\ UNCHANGED <<worker, liveNum, exitNum>> /\ ManagerUnchanged

ManagerShrink ==
  /\ manager.pc = "shrink"
  /\ MustShrink
  /\ mutexPool = Free
  /\ exitNum' = NUMBER
  /\ manager' = [manager EXCEPT !.pc = "signal"]
  /\ UNCHANGED <<worker, liveNum>> /\ ManagerUnchanged

ManagerNoShrink ==
  /\ manager.pc = "shrink"
  /\ ~MustShrink
  /\ manager' = Locals("check", 0, 0, 0, 0)
  /\ UNCHANGED <<worker, liveNum, exitNum>> /\ ManagerUnchanged

ManagerSignal ==
  /\ manager.pc = "signal"
  /\ worker' \in Signal(worker)
  /\ manager' = IF manager.sent + 1 < NUMBER
                THEN [manager EXCEPT !.sent = @ + 1]
                ELSE Locals("check", 0, 0, 0, 0)
  /\ UNCHANGED <<liveNum, exitNum>> /\ ManagerUnchanged

-----------------------------------------------------------------------------
(* addTask: the test of shutdown, the push under m_mutex and the signal    *)
(* are three steps.  The owner calls the destructor after its adds.        *)
AddUnchanged == UNCHANGED <<countVars, shutdown, mutexPool, task, manager,
                            mainVars, done>>

addTask(p, t) ==
  /\ producer[p] = "idle"
  /\ main = "running"
  /\ ~shutdown
  /\ t \notin added \cup {arg[q] : q \in Producers}
  /\ producer' = [producer EXCEPT ![p] = "push"]
  /\ arg' = [arg EXCEPT ![p] = t]
  /\ UNCHANGED <<taskQ, worker, added>> /\ AddUnchanged

AddPush(p) ==
  /\ producer[p] = "push"
  /\ taskQ' = Append(taskQ, arg[p])
  /\ added' = added \cup {arg[p]}
  /\ producer' = [producer EXCEPT ![p] = "signal"]
  /\ arg' = [arg EXCEPT ![p] = NoTask]
  /\ UNCHANGED worker /\ AddUnchanged

AddSignal(p) ==
  /\ producer[p] = "signal"
  /\ worker' \in Signal(worker)
  /\ producer' = [producer EXCEPT ![p] = "idle"]
  /\ UNCHANGED <<taskQ, arg, added>> /\ AddUnchanged

-----------------------------------------------------------------------------
(* ~ThreadPool                                                             *)
MainUnchanged == UNCHANGED <<taskQ, countVars, mutexPool, task, manager,
                             producerVars, done>>

DtorShutdown ==
  /\ main = "running"
  /\ \A p \in Producers : producer[p] = "idle"
  /\ shutdown' = TRUE
  /\ main' = "join"
  /\ UNCHANGED <<worker, signalled>> /\ MainUnchanged

DtorJoin ==
  /\ main = "join"
  /\ manager.pc = "exited"
  /\ main' = "signal"
  /\ UNCHANGED <<worker, signalled, shutdown>> /\ MainUnchanged

DtorSignal ==
  /\ main = "signal"
  /\ signalled < liveNum
  /\ worker' \in Signal(worker)
  /\ signalled' = signalled + 1
  /\ UNCHANGED <<main, shutdown>> /\ MainUnchanged

DtorFree ==
  /\ main = "signal"
  /\ signalled >= liveNum
  /\ main' = "freed"
  /\ UNCHANGED <<worker, signalled, shutdown>> /\ MainUnchanged

-----------------------------------------------------------------------------
WorkerStep(w) ==
  \/ WorkerLock(w) \/ WorkerWait(w) \/ WorkerRetire(w) \/ WorkerStay(w)
  \/ WorkerRun(w) \/ WorkerNotBusy(w) \/ threadExit(w)

ManagerStep ==
  \/ ManagerCheck \/ ManagerSample \/ ManagerGrow \/ ManagerNoGrow
  \/ ManagerShrink \/ ManagerNoShrink \/ ManagerSignal

ProducerStep(p) == AddPush(p) \/ AddSignal(p)
DtorStep == DtorJoin \/ DtorSignal \/ DtorFree

Next ==
  /\ ~Freed
  /\ \/ \E w \in Slots : WorkerStep(w) \/ SpuriousWakeup(w)
     \/ ManagerStep
     \/ \E p \in Producers : ProducerStep(p) \/ \E t \in Tasks : addTask(p, t)
     \/ DtorShutdown
     \/ DtorStep

Spec == Init /\ [][Next]_vars

(* Every runnable thread is scheduled; spurious wakeups, new calls and the *)
(* destructor are never forced.                                            *)
Fairness ==
  /\ \A w \in Slots : WF_vars(~Freed /\ WorkerStep(w))
  /\ WF_vars(~Freed /\ ManagerStep)
  /\ \A p \in Producers : WF_vars(~Freed /\ ProducerStep(p))
  /\ WF_vars(~Freed /\ DtorStep)

FairSpec == Spec /\ Fairness

-----------------------------------------------------------------------------
Held == {w \in Slots : worker[w] = "running"}
Running == {task[w] : w \in Held}

(* Each task that was pushed is in one place: queued once, with one        *)
(* worker, or executed, although the queue and the pool have two mutexes.  *)
TaskConservation ==
  LET queued == {taskQ[i] : i \in DOMAIN taskQ}
  IN  /\ added = queued \cup Running \cup done
      /\ Cardinality(added) = Len(taskQ) + Cardinality(Held) + Cardinality(done)

(* liveNum counts the threads that are not leaving, stays within minNum .. *)
(* maxNum on stale samples, and bounds busyNum.                            *)
LiveAccounting ==
  ~shutdown =>
    /\ liveNum \in MinNum .. MaxNum
    /\ liveNum = Cardinality({w \in Slots : worker[w] \notin {"none", "exiting"}})
    /\ busyNum <= liveNum

(* Tasks and threads are accounted for, although the queue and the counters*)
(* are under different mutexes and the manager acts on old samples.        *)
Accounting == TypeOK /\ TaskConservation /\ LiveAccounting

(* Tasks are started in the order in which they were pushed.               *)
Channel == INSTANCE TaskChannel
             WITH pending <- taskQ, running <- Running, finished <- done
ImplementsChannel == Channel!Spec

(* The destructor returns: the manager notices the flag and is joined.     *)
DtorReturns == main = "join" ~> Freed

(* Every task that was pushed is executed, unless the pool is shut down.   *)
EveryTaskRuns ==
  \A t \in Tasks : t \in added ~> t \in done \/ shutdown
=============================================================================
