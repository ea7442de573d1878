--------------------------- MODULE FixedThreadPool ---------------------------
(***************************************************************************)
(* The fixed-size pool of ThreadPool_C_C++/ThreadPoll.hpp: a queue of      *)
(* packaged tasks, one mutex, one condition variable and a stop flag.      *)
(*                                                                         *)
(* Everything the code reads or writes under queue_mutex is one action,    *)
(* because no other thread can run inside the critical section and stop    *)
(* is only written under the lock.  The notifications are issued after the *)
(* lock is released, so they are actions of their own.                     *)
(*                                                                         *)
(* enqueue is called by the owner's threads (Clients) and by tasks that    *)
(* are being executed (the worker is then the caller).  The C++ lifetime   *)
(* rules forbid a client to be inside enqueue when the destructor starts;  *)
(* a running task may still call it, which is when the code throws.        *)
(***************************************************************************)
EXTENDS Naturals, Sequences, FiniteSets

CONSTANTS Workers,   \* the threads created by the constructor
          Clients,   \* the threads that own the pool
          Tasks,     \* the packaged tasks that may be created
          NoTask

ASSUME ConstantsAssumption ==
  /\ Workers # {}
  /\ Workers \cap Clients = {}
  /\ NoTask \notin Tasks

Callers == Workers \cup Clients

VARIABLES
  tasks,     \* std::queue of tasks, front first
  stop,      \* the stop flag
  worker,    \* where each worker is
  task,      \* the local variable task of each worker
  enq,       \* "notify" between the unlock and the notify_one of enqueue
  dtor,      \* progress of ~ThreadPool
  accepted,  \* tasks whose enqueue returned a future
  rejected,  \* tasks whose enqueue threw
  done       \* tasks executed, their futures ready

vars == <<tasks, stop, worker, task, enq, dtor, accepted, rejected, done>>

WorkerPc == {"poll", "waiting", "running", "returned"}
DtorPc == {"alive", "notify_all", "join", "destroyed"}

TypeOK ==
  /\ tasks \in Seq(Tasks)
  /\ stop \in BOOLEAN
  /\ worker \in [Workers -> WorkerPc]
  /\ task \in [Workers -> Tasks \cup {NoTask}]
  /\ enq \in [Callers -> {"idle", "notify"}]
  /\ dtor \in DtorPc
  /\ accepted \in SUBSET Tasks
  /\ rejected \in SUBSET Tasks
  /\ done \in SUBSET Tasks
  /\ \A w \in Workers : worker[w] = "running" <=> task[w] # NoTask

Queued == {tasks[i] : i \in DOMAIN tasks}
Running == {task[w] : w \in {v \in Workers : worker[v] = "running"}}
Waiting == {w \in Workers : worker[w] = "waiting"}

-----------------------------------------------------------------------------
(* The constructor has started every worker.                               *)
Init ==
  /\ tasks = <<>>
  /\ stop = FALSE
  /\ worker = [w \in Workers |-> "poll"]
  /\ task = [w \in Workers |-> NoTask]
  /\ enq = [c \in Callers |-> "idle"]
  /\ dtor = "alive"
  /\ accepted = {}
  /\ rejected = {}
  /\ done = {}

(* The predicate of condition.wait, and the test that ends a worker.       *)
Mut_Ready == tasks # <<>>
Ready == stop \/ tasks # <<>>
Mut_MustReturn == stop
MustReturn == stop /\ tasks = <<>>

(* wait: the predicate is false, the lock is released.                     *)
WorkerWait(w) ==
  /\ worker[w] = "poll"
  /\ ~Ready
  /\ worker' = [worker EXCEPT ![w] = "waiting"]
  /\ UNCHANGED <<tasks, stop, task, enq, dtor, accepted, rejected, done>>

WorkerReturn(w) ==
  /\ worker[w] = "poll"
  /\ Ready
  /\ MustReturn
  /\ worker' = [worker EXCEPT ![w] = "returned"]
  /\ UNCHANGED <<tasks, stop, task, enq, dtor, accepted, rejected, done>>

Mut_NotPopped == tasks
Mut_PoppedBack == SubSeq(tasks, 1, Len(tasks) - 1)
Popped == Tail(tasks)

WorkerTake(w) ==
  /\ worker[w] = "poll"
  /\ Ready
  /\ ~MustReturn
  /\ task' = [task EXCEPT ![w] = Head(tasks)]
  /\ tasks' = Popped
  /\ worker' = [worker EXCEPT ![w] = "running"]
  /\ UNCHANGED <<stop, enq, dtor, accepted, rejected, done>>

(* The local task of an iteration ends its life with the iteration.        *)
TaskScopeEnds(w) == [task EXCEPT ![w] = NoTask]

(* task() ends; the packaged task has stored its value or its exception.   *)
WorkerRun(w) ==
  /\ worker[w] = "running"
  /\ enq[w] = "idle"
  /\ done' = done \cup {task[w]}
  /\ task' = TaskScopeEnds(w)
  /\ worker' = [worker EXCEPT ![w] = "poll"]
  /\ UNCHANGED <<tasks, stop, enq, dtor, accepted, rejected>>

(* A condition variable may wake a waiter for no reason.                   *)
SpuriousWakeup(w) ==
  /\ worker[w] = "waiting"
  /\ worker' = [worker EXCEPT ![w] = "poll"]
  /\ UNCHANGED <<tasks, stop, task, enq, dtor, accepted, rejected, done>>

-----------------------------------------------------------------------------
MayCall(c) ==
  /\ enq[c] = "idle"
  /\ \/ c \in Clients /\ dtor = "alive"
     \/ c \in Workers /\ worker[c] = "running"

Fresh(t) == t \notin accepted \cup rejected

(* enqueue, up to the end of its critical section.                         *)
Enqueue(c, t) ==
  /\ MayCall(c)
  /\ Fresh(t)
  /\ ~stop
  /\ tasks' = Append(tasks, t)
  /\ accepted' = accepted \cup {t}
  /\ enq' = [enq EXCEPT ![c] = "notify"]
  /\ UNCHANGED <<stop, worker, task, dtor, rejected, done>>

(* enqueue on a stopped pool throws runtime_error.                         *)
EnqueueThrows(c, t) ==
  /\ MayCall(c)
  /\ Fresh(t)
  /\ stop
  /\ rejected' = rejected \cup {t}
  /\ UNCHANGED <<tasks, stop, worker, task, enq, dtor, accepted, done>>

(* The states of the workers after notify_one.                             *)
Mut_AfterNotifyOne == {worker}
AfterNotifyOne ==
  IF Waiting = {} THEN {worker}
  ELSE {[worker EXCEPT ![w] = "poll"] : w \in Waiting}

NotifyOne(c) ==
  /\ enq[c] = "notify"
  /\ worker' \in AfterNotifyOne
  /\ enq' = [enq EXCEPT ![c] = "idle"]
  /\ UNCHANGED <<tasks, stop, task, dtor, accepted, rejected, done>>

-----------------------------------------------------------------------------
(* ~ThreadPool: stop is set under the lock, then everyone is notified.     *)
DtorStop ==
  /\ dtor = "alive"
  /\ \A c \in Clients : enq[c] = "idle"
  /\ stop' = TRUE
  /\ dtor' = "notify_all"
  /\ UNCHANGED <<tasks, worker, task, enq, accepted, rejected, done>>

AfterNotifyAll ==
  [w \in Workers |-> IF worker[w] = "waiting" THEN "poll" ELSE worker[w]]

DtorNotifyAll ==
  /\ dtor = "notify_all"
  /\ worker' = AfterNotifyAll
  /\ dtor' = "join"
  /\ UNCHANGED <<tasks, stop, task, enq, accepted, rejected, done>>

(* The loop of joins ends when the last worker has returned.               *)
DtorJoin ==
  /\ dtor = "join"
  /\ \A w \in Workers : worker[w] = "returned"
  /\ dtor' = "destroyed"
  /\ UNCHANGED <<tasks, stop, worker, task, enq, accepted, rejected, done>>

-----------------------------------------------------------------------------
WorkerStep(w) ==
  \/ WorkerWait(w)
  \/ WorkerReturn(w)
  \/ WorkerTake(w)
  \/ WorkerRun(w)

CallerStep(c) ==
  \/ \E t \in Tasks : Enqueue(c, t) \/ EnqueueThrows(c, t)
  \/ NotifyOne(c)

DtorStep == DtorStop \/ DtorNotifyAll \/ DtorJoin

Next ==
  \/ \E w \in Workers : WorkerStep(w) \/ SpuriousWakeup(w)
  \/ \E c \in Callers : CallerStep(c)
  \/ DtorStep

Spec == Init /\ [][Next]_vars

-----------------------------------------------------------------------------
(* Every task whose enqueue returned a future is in exactly one place: in  *)
(* the queue once, in one worker, or executed (tasks.front/pop move it out *)
(* of the queue before it runs).                                           *)
Conservation ==
  /\ accepted = Queued \cup Running \cup done
  /\ Queued \cap (Running \cup done) = {}
  /\ Running \cap done = {}
  /\ \A i, j \in DOMAIN tasks : tasks[i] = tasks[j] => i = j
  /\ \A v, w \in Workers :
       /\ worker[v] = "running" /\ worker[w] = "running"
       /\ task[v] = task[w]
       => v = w

(* No wakeup is lost although notify_one is called after the unlock: a     *)
(* non-empty queue always has a worker that will look at it, or a caller   *)
(* that is still to notify.                                                *)
NoLostWakeup ==
  tasks # <<>> =>
    \/ \E w \in Workers : worker[w] \in {"poll", "running"}
    \/ \E c \in Callers : enq[c] = "notify"

(* Once notify_all has been called no worker sleeps, so worker.join()      *)
(* cannot block on a thread nobody will wake.                              *)
JoinCannotHang ==
  dtor \in {"join", "destroyed"} => Waiting = {}

(* When ~ThreadPool returns, the queue has been drained: every accepted    *)
(* task was executed, the ones enqueued by running tasks included.         *)
DrainedAtJoin ==
  dtor = "destroyed" => tasks = <<>> /\ done = accepted

(* Every future that enqueue returned becomes ready.                       *)
FuturesBecomeReady ==
  \A t \in Tasks : t \in accepted ~> t \in done

(* ~ThreadPool, once called, returns.                                      *)
DtorReturns == dtor = "notify_all" ~> dtor = "destroyed"

(* No caller is left waiting: a client on its future, or the thread that   *)
(* destroys the pool on worker.join().                                     *)
CallersServed == FuturesBecomeReady /\ DtorReturns

(* The pool implements the channel: tasks are started in the order of the  *)
(* queue and each one is executed once.                                    *)
Channel == INSTANCE TaskChannel
             WITH pending <- tasks, running <- Running, finished <- done
ImplementsChannel == Channel!Spec
=============================================================================
