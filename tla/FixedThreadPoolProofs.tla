------------------------ MODULE FixedThreadPoolProofs ------------------------
(***************************************************************************)
(* TLAPS proofs about the two pools with a fixed number of threads, the    *)
(* one that joins them (FixedThreadPool) and the one that detaches them    *)
(* (DetachedPool), for every number of threads, clients and tasks.         *)
(***************************************************************************)
EXTENDS FixedThreadPool, DetachedPool, TLAPS

(* What a returned worker, the stop flag and the destructor know of each   *)
(* other; together with the checked invariants this is inductive.          *)
ReturnedSawEmpty ==
  \A w \in Workers : worker[w] = "returned" => stop /\ tasks = <<>>
StopIsDtor == stop <=> dtor # "alive"
DestroyedIsJoined ==
  dtor = "destroyed" => \A w \in Workers : worker[w] = "returned"

Control ==
  /\ ReturnedSawEmpty
  /\ StopIsDtor
  /\ DestroyedIsJoined

(* Head and Tail of a queue without repetitions.                           *)
LEMMA TailLemma ==
  ASSUME NEW S, NEW s \in Seq(S), s # <<>>
  PROVE  /\ Tail(s) \in Seq(S)
         /\ Head(s) = s[1]
         /\ Head(s) \in S
         /\ Len(s) \in Nat \ {0}
         /\ DOMAIN s = 1 .. Len(s)
         /\ DOMAIN Tail(s) = 1 .. (Len(s) - 1)
         /\ \A i \in 1 .. (Len(s) - 1) : Tail(s)[i] = s[i + 1]
  OBVIOUS

(* What Append does to a queue.                                            *)
LEMMA AppendLemma ==
  ASSUME NEW S, NEW s \in Seq(S), NEW e \in S
  PROVE  /\ Append(s, e) \in Seq(S)
         /\ Append(s, e) # <<>>
         /\ Len(s) \in Nat
         /\ DOMAIN s = 1 .. Len(s)
         /\ DOMAIN Append(s, e) = 1 .. (Len(s) + 1)
         /\ \A i \in 1 .. Len(s) : Append(s, e)[i] = s[i]
         /\ Append(s, e)[Len(s) + 1] = e
  OBVIOUS

-----------------------------------------------------------------------------
(* The constructor establishes the types, and every operation of the pool  *)
(* keeps them.                                                             *)
LEMMA TypeStep == TypeOK /\ [Next]_vars => TypeOK'
  <1> SUFFICES ASSUME TypeOK, [Next]_vars PROVE TypeOK'
      OBVIOUS
  <1> USE ConstantsAssumption DEF TypeOK, WorkerPc, DtorPc, Callers
  <1>1. ASSUME NEW w \in Workers, WorkerWait(w) PROVE TypeOK'
        BY <1>1 DEF WorkerWait
  <1>2. ASSUME NEW w \in Workers, WorkerReturn(w) PROVE TypeOK'
        BY <1>2 DEF WorkerReturn
  <1>3. ASSUME NEW w \in Workers, WorkerTake(w) PROVE TypeOK'
    <2>1. tasks # <<>>
          BY <1>3 DEF WorkerTake, Ready, MustReturn
    <2>2. Tail(tasks) \in Seq(Tasks) /\ Head(tasks) \in Tasks
          BY <2>1, TailLemma
    <2>3. QED
          BY <1>3, <2>2 DEF WorkerTake, Popped
  <1>4. ASSUME NEW w \in Workers, WorkerRun(w) PROVE TypeOK'
        BY <1>4 DEF WorkerRun, TaskScopeEnds
  <1>5. ASSUME NEW w \in Workers, SpuriousWakeup(w) PROVE TypeOK'
        BY <1>5 DEF SpuriousWakeup
  <1>6. ASSUME NEW c \in Callers, NEW t \in Tasks, Enqueue(c, t) PROVE TypeOK'
    <2>1. Append(tasks, t) \in Seq(Tasks)
          BY AppendLemma
    <2>2. QED
          BY <1>6, <2>1 DEF Enqueue
  <1>7. ASSUME NEW c \in Callers, NEW t \in Tasks, EnqueueThrows(c, t) PROVE TypeOK'
        BY <1>7 DEF EnqueueThrows
  <1>8. ASSUME NEW c \in Callers, NotifyOne(c) PROVE TypeOK'
        BY <1>8 DEF NotifyOne, AfterNotifyOne, Waiting
  <1>9. CASE DtorStop
        BY <1>9 DEF DtorStop
  <1>10. CASE DtorNotifyAll
        BY <1>10 DEF DtorNotifyAll, AfterNotifyAll
  <1>11. CASE DtorJoin
        BY <1>11 DEF DtorJoin
  <1>12. CASE UNCHANGED vars
        BY <1>12 DEF vars
  <1>13. QED
        BY <1>1, <1>2, <1>3, <1>4, <1>5, <1>6, <1>7, <1>8, <1>9, <1>10, <1>11,
           <1>12 DEF Next, WorkerStep, CallerStep, DtorStep

LEMMA TypeInit == Init => TypeOK
  <1> SUFFICES ASSUME Init PROVE TypeOK
      OBVIOUS
  <1> USE DEF Init
  <1>1. stop \in BOOLEAN /\ accepted \in SUBSET Tasks /\ rejected \in SUBSET Tasks
        /\ done \in SUBSET Tasks
        BY Zenon
  <1>2. tasks \in Seq(Tasks)
        OBVIOUS
  <1>3. /\ worker \in [Workers -> WorkerPc]
        /\ task \in [Workers -> Tasks \cup {NoTask}]
        /\ \A w \in Workers : worker[w] = "running" <=> task[w] # NoTask
        BY DEF WorkerPc
  <1>4. enq \in [Callers -> {"idle", "notify"}] /\ dtor \in DtorPc
        BY DEF DtorPc
  <1>5. QED
        BY <1>1, <1>2, <1>3, <1>4 DEF TypeOK

(* TypeOK holds in every state of the pool.                                *)
THEOREM TypeCorrect == Spec => []TypeOK
  BY TypeInit, TypeStep, PTL DEF Spec

-----------------------------------------------------------------------------
(* The destructor's flag, its progress and the workers that returned agree:*)
(* a worker returns only from an empty, stopped pool, and nothing can be   *)
(* pushed after that.                                                      *)
LEMMA ControlStep == TypeOK /\ Control /\ [Next]_vars => Control'
  <1> SUFFICES ASSUME TypeOK, Control, [Next]_vars PROVE Control'
      OBVIOUS
  <1> USE ConstantsAssumption
      DEF TypeOK, WorkerPc, DtorPc, Callers, Control, ReturnedSawEmpty, StopIsDtor,
          DestroyedIsJoined
  <1>1. ASSUME NEW w \in Workers, WorkerWait(w) PROVE Control'
        BY <1>1 DEF WorkerWait, Ready
  <1>2. ASSUME NEW w \in Workers, WorkerReturn(w) PROVE Control'
        BY <1>2 DEF WorkerReturn, Ready, MustReturn
  <1>3. ASSUME NEW w \in Workers, WorkerTake(w) PROVE Control'
        BY <1>3 DEF WorkerTake, Ready, MustReturn
  <1>4. ASSUME NEW w \in Workers, WorkerRun(w) PROVE Control'
        BY <1>4 DEF WorkerRun
  <1>5. ASSUME NEW w \in Workers, SpuriousWakeup(w) PROVE Control'
        BY <1>5 DEF SpuriousWakeup
  <1>6. ASSUME NEW c \in Callers, NEW t \in Tasks, Enqueue(c, t) PROVE Control'
        BY <1>6 DEF Enqueue
  <1>7. ASSUME NEW c \in Callers, NEW t \in Tasks, EnqueueThrows(c, t)
        PROVE  Control'
        BY <1>7 DEF EnqueueThrows
  <1>8. ASSUME NEW c \in Callers, NotifyOne(c) PROVE Control'
        BY <1>8 DEF NotifyOne, AfterNotifyOne, Waiting
  <1>9. CASE DtorStop
        BY <1>9 DEF DtorStop
  <1>10. CASE DtorNotifyAll
        BY <1>10 DEF DtorNotifyAll, AfterNotifyAll
  <1>11. CASE DtorJoin
        BY <1>11 DEF DtorJoin
  <1>12. CASE UNCHANGED vars
        BY <1>12 DEF vars
  <1>13. QED
        BY <1>1, <1>2, <1>3, <1>4, <1>5, <1>6, <1>7, <1>8, <1>9, <1>10, <1>11,
           <1>12 DEF Next, WorkerStep, CallerStep, DtorStep

LEMMA ControlInit == Init => Control
  BY DEF Init, Control, ReturnedSawEmpty, StopIsDtor, DestroyedIsJoined

(* Control holds in every state of the pool.                               *)
THEOREM ControlCorrect == Spec => []Control
  <1>1. TypeOK /\ Control /\ [Next]_vars => Control'
        BY ControlStep
  <1>2. QED
        BY <1>1, ControlInit, TypeCorrect, PTL DEF Spec

-----------------------------------------------------------------------------
(* No wakeup is lost, although enqueue notifies after it has unlocked.     *)
THEOREM NoWakeupIsLost == Spec => []NoLostWakeup
  <1>1. Init => NoLostWakeup
        BY DEF Init, NoLostWakeup
  <1>2. TypeOK /\ Control /\ NoLostWakeup /\ [Next]_vars => NoLostWakeup'
    <2> SUFFICES ASSUME TypeOK, Control, NoLostWakeup, [Next]_vars
                 PROVE  NoLostWakeup'
        OBVIOUS
    <2> USE ConstantsAssumption DEF TypeOK, WorkerPc, Callers, NoLostWakeup
    <2>1. ASSUME NEW w \in Workers, WorkerWait(w) PROVE NoLostWakeup'
          BY <2>1 DEF WorkerWait, Ready
    <2>2. ASSUME NEW w \in Workers, WorkerReturn(w) PROVE NoLostWakeup'
          BY <2>2 DEF WorkerReturn, Ready, MustReturn
    <2>3. ASSUME NEW w \in Workers, WorkerTake(w) PROVE NoLostWakeup'
          BY <2>3 DEF WorkerTake
    <2>4. ASSUME NEW w \in Workers, WorkerRun(w) PROVE NoLostWakeup'
          BY <2>4 DEF WorkerRun
    <2>5. ASSUME NEW w \in Workers, SpuriousWakeup(w) PROVE NoLostWakeup'
          BY <2>5 DEF SpuriousWakeup
    <2>6. ASSUME NEW c \in Callers, NEW t \in Tasks, Enqueue(c, t)
          PROVE  NoLostWakeup'
          BY <2>6 DEF Enqueue
    <2>7. ASSUME NEW c \in Callers, NEW t \in Tasks, EnqueueThrows(c, t)
          PROVE  NoLostWakeup'
          BY <2>7 DEF EnqueueThrows
    <2>8. ASSUME NEW c \in Callers, NotifyOne(c) PROVE NoLostWakeup'
          (* Either a sleeper is woken, or no worker sleeps; a returned    *)
          (* worker means that the queue is empty.                         *)
          BY <2>8 DEF NotifyOne, AfterNotifyOne, Waiting, Control,
                      ReturnedSawEmpty
    <2>9. CASE DtorStop
          BY <2>9 DEF DtorStop
    <2>10. CASE DtorNotifyAll
          BY <2>10 DEF DtorNotifyAll, AfterNotifyAll
    <2>11. CASE DtorJoin
          BY <2>11 DEF DtorJoin
    <2>12. CASE UNCHANGED vars
          BY <2>12 DEF vars
    <2>13. QED
          BY <2>1, <2>2, <2>3, <2>4, <2>5, <2>6, <2>7, <2>8, <2>9, <2>10,
             <2>11, <2>12 DEF Next, WorkerStep, CallerStep, DtorStep
  <1>3. QED
        BY <1>1, <1>2, TypeCorrect, ControlCorrect, PTL DEF Spec

(* After notify_all nobody sleeps again, so the joins cannot block for     *)
(* ever on a sleeping worker.                                              *)
THEOREM JoinIsSafe == Spec => []JoinCannotHang
  <1>1. Init => JoinCannotHang
        BY DEF Init, JoinCannotHang
  <1>2. TypeOK /\ Control /\ JoinCannotHang /\ [Next]_vars => JoinCannotHang'
    <2> SUFFICES ASSUME TypeOK, Control, JoinCannotHang, [Next]_vars
                 PROVE  JoinCannotHang'
        OBVIOUS
    <2> USE ConstantsAssumption
        DEF TypeOK, WorkerPc, Callers, JoinCannotHang, Waiting
    <2>1. ASSUME NEW w \in Workers, WorkerWait(w) PROVE JoinCannotHang'
          BY <2>1 DEF WorkerWait, Ready, Control, StopIsDtor
    <2>2. ASSUME NEW w \in Workers, WorkerReturn(w) PROVE JoinCannotHang'
          BY <2>2 DEF WorkerReturn
    <2>3. ASSUME NEW w \in Workers, WorkerTake(w) PROVE JoinCannotHang'
          BY <2>3 DEF WorkerTake
    <2>4. ASSUME NEW w \in Workers, WorkerRun(w) PROVE JoinCannotHang'
          BY <2>4 DEF WorkerRun
    <2>5. ASSUME NEW w \in Workers, SpuriousWakeup(w) PROVE JoinCannotHang'
          BY <2>5 DEF SpuriousWakeup
    <2>6. ASSUME NEW c \in Callers, NEW t \in Tasks, Enqueue(c, t)
          PROVE  JoinCannotHang'
          BY <2>6 DEF Enqueue
    <2>7. ASSUME NEW c \in Callers, NEW t \in Tasks, EnqueueThrows(c, t)
          PROVE  JoinCannotHang'
          BY <2>7 DEF EnqueueThrows
    <2>8. ASSUME NEW c \in Callers, NotifyOne(c) PROVE JoinCannotHang'
          BY <2>8 DEF NotifyOne, AfterNotifyOne
    <2>9. CASE DtorStop
          BY <2>9 DEF DtorStop
    <2>10. CASE DtorNotifyAll
          BY <2>10 DEF DtorNotifyAll, AfterNotifyAll
    <2>11. CASE DtorJoin
          BY <2>11 DEF DtorJoin
    <2>12. CASE UNCHANGED vars
          BY <2>12 DEF vars
    <2>13. QED
          BY <2>1, <2>2, <2>3, <2>4, <2>5, <2>6, <2>7, <2>8, <2>9, <2>10,
             <2>11, <2>12 DEF Next, WorkerStep, CallerStep, DtorStep
  <1>3. QED
        BY <1>1, <1>2, TypeCorrect, ControlCorrect, PTL DEF Spec

-----------------------------------------------------------------------------
(* A step that moves no task: only waiting, notification or destruction.   *)
Quiet ==
  /\ UNCHANGED <<tasks, task, accepted, done>>
  /\ \A w \in Workers : worker'[w] = "running" <=> worker[w] = "running"

LEMMA QuietKeeps ==
  ASSUME Quiet
  PROVE  /\ Running' = Running
         /\ Queued' = Queued
         /\ Conservation => Conservation'
  <1>1. Running' = Running
        BY DEF Quiet, Running
  <1>2. Queued' = Queued
        BY DEF Quiet, Queued
  <1>3. Conservation => Conservation'
        BY <1>1, <1>2 DEF Quiet, Conservation
  <1>4. QED
        BY <1>1, <1>2, <1>3

(* The operations that are quiet.                                          *)
LEMMA QuietSteps ==
  ASSUME TypeOK,
         \/ \E w \in Workers : WorkerWait(w) \/ WorkerReturn(w) \/ SpuriousWakeup(w)
         \/ \E c \in Callers : NotifyOne(c) \/ \E t \in Tasks : EnqueueThrows(c, t)
         \/ DtorStep
         \/ UNCHANGED vars
  PROVE  Quiet
  <1> USE DEF TypeOK, Quiet
  <1>1. ASSUME NEW w \in Workers, WorkerWait(w) \/ WorkerReturn(w) \/ SpuriousWakeup(w)
        PROVE  Quiet
        BY <1>1 DEF WorkerWait, WorkerReturn, SpuriousWakeup
  <1>2. ASSUME NEW c \in Callers, NotifyOne(c) PROVE Quiet
        BY <1>2 DEF NotifyOne, AfterNotifyOne, Waiting
  <1>3. ASSUME NEW c \in Callers, NEW t \in Tasks, EnqueueThrows(c, t) PROVE Quiet
        BY <1>3 DEF EnqueueThrows
  <1>4. CASE DtorStep
        BY <1>4 DEF DtorStep, DtorStop, DtorNotifyAll, AfterNotifyAll, DtorJoin
  <1>5. CASE UNCHANGED vars
        BY <1>5 DEF vars
  <1>6. QED
        BY <1>1, <1>2, <1>3, <1>4, <1>5

(* The worker takes the oldest task: it leaves the queue and becomes the   *)
(* only new member of Running.                                             *)
LEMMA TakeMoves ==
  ASSUME TypeOK, Conservation, NEW w \in Workers, WorkerTake(w)
  PROVE  /\ tasks # <<>>
         /\ Running' = Running \cup {Head(tasks)}
         /\ Queued = Queued' \cup {Head(tasks)}
         /\ Head(tasks) \notin Queued'
         /\ Conservation'
  <1> DEFINE h == Head(tasks)
  <1>1. tasks # <<>> /\ tasks \in Seq(Tasks)
        BY DEF WorkerTake, Ready, MustReturn, TypeOK
  <1>2. /\ DOMAIN tasks = 1 .. Len(tasks)
        /\ Len(tasks) \in Nat \ {0}
        /\ h = tasks[1]
        /\ DOMAIN Tail(tasks) = 1 .. (Len(tasks) - 1)
        /\ \A i \in 1 .. (Len(tasks) - 1) : Tail(tasks)[i] = tasks[i + 1]
        /\ h \in Tasks
        BY <1>1, TailLemma
  <1>3. tasks' = Tail(tasks)
        BY DEF WorkerTake, Popped
  <1>4. \A i, j \in DOMAIN tasks : tasks[i] = tasks[j] => i = j
        BY DEF Conservation
  <1>5. Queued = Queued' \cup {h}
    <2>1. ASSUME NEW i \in DOMAIN tasks PROVE tasks[i] \in Queued' \cup {h}
      <3>1. CASE i = 1
            BY <3>1, <1>2
      <3>2. CASE i # 1
        <4>1. i - 1 \in 1 .. (Len(tasks) - 1) /\ tasks[i] = Tail(tasks)[i - 1]
              BY <3>2, <1>2
        <4>2. QED
              BY <4>1, <1>2, <1>3 DEF Queued
      <3>3. QED
            BY <3>1, <3>2
    <2>2. ASSUME NEW i \in DOMAIN tasks' PROVE tasks'[i] \in Queued
          BY <1>2, <1>3 DEF Queued
    <2>3. h \in Queued
          BY <1>2 DEF Queued
    <2>4. QED
          BY <2>1, <2>2, <2>3 DEF Queued
  <1>6. h \notin Queued'
    <2>1. ASSUME NEW i \in DOMAIN tasks', tasks'[i] = h PROVE FALSE
          BY <2>1, <1>2, <1>3, <1>4
    <2>2. QED
          BY <2>1 DEF Queued
  <1>7. \A i, j \in DOMAIN tasks' : tasks'[i] = tasks'[j] => i = j
        BY <1>2, <1>3, <1>4
  <1>8. /\ worker[w] # "running" /\ worker'[w] = "running" /\ task'[w] = h
        /\ \A v \in Workers \ {w} : worker'[v] = worker[v] /\ task'[v] = task[v]
        /\ accepted' = accepted /\ done' = done
        BY DEF WorkerTake, TypeOK
  <1>9. Running' = Running \cup {h}
        BY <1>8 DEF Running
  <1>10. \A v \in Workers : worker[v] = "running" => task[v] # h
        BY <1>2 DEF Conservation, Running, Queued
  <1>11. ASSUME NEW u \in Workers, NEW v \in Workers,
                worker'[u] = "running", worker'[v] = "running", task'[u] = task'[v]
         PROVE  u = v
         BY <1>8, <1>10, <1>11 DEF Conservation
  <1>12. Conservation'
    <2>1. h \in Queued /\ h \notin Running /\ h \notin done
          BY <1>5 DEF Conservation
    <2>2. /\ accepted' = Queued' \cup Running' \cup done'
          /\ Queued' \cap (Running' \cup done') = {}
          /\ Running' \cap done' = {}
          BY <2>1, <1>5, <1>6, <1>8, <1>9 DEF Conservation
    <2>3. QED
          BY <2>2, <1>7, <1>11 DEF Conservation
  <1>13. QED
        BY <1>1, <1>5, <1>6, <1>9, <1>12

(* The worker finishes its task, which no other worker holds.              *)
LEMMA RunMoves ==
  ASSUME TypeOK, Conservation, NEW w \in Workers, WorkerRun(w)
  PROVE  /\ task[w] \in Running
         /\ Running' = Running \ {task[w]}
         /\ Queued' = Queued
         /\ Conservation'
  <1>1. /\ worker[w] = "running" /\ worker'[w] = "poll"
        /\ \A v \in Workers \ {w} : worker'[v] = worker[v] /\ task'[v] = task[v]
        /\ done' = done \cup {task[w]} /\ accepted' = accepted /\ tasks' = tasks
        BY DEF WorkerRun, TaskScopeEnds, TypeOK
  <1>2. \A v \in Workers \ {w} : worker[v] = "running" => task[v] # task[w]
        BY <1>1 DEF Conservation
  <1>3. task[w] \in Running
        BY <1>1 DEF Running
  <1>4. Running' = Running \ {task[w]}
        BY <1>1, <1>2 DEF Running
  <1>5. Queued' = Queued
        BY <1>1 DEF Queued
  <1>6. /\ accepted' = Queued' \cup Running' \cup done'
        /\ Queued' \cap (Running' \cup done') = {}
        /\ Running' \cap done' = {}
        BY <1>1, <1>3, <1>4, <1>5 DEF Conservation
  <1>7. ASSUME NEW u \in Workers, NEW v \in Workers,
               worker'[u] = "running", worker'[v] = "running", task'[u] = task'[v]
        PROVE  u = v
        BY <1>1, <1>7 DEF Conservation
  <1>8. Conservation'
        BY <1>1, <1>6, <1>7 DEF Conservation
  <1>9. QED
        BY <1>3, <1>4, <1>5, <1>8

(* enqueue appends a task that the pool has never seen.                    *)
LEMMA EnqueueMoves ==
  ASSUME TypeOK, Conservation, NEW c \in Callers, NEW t \in Tasks, Enqueue(c, t)
  PROVE  /\ t \notin Queued \cup Running \cup done
         /\ tasks' = Append(tasks, t)
         /\ Running' = Running /\ done' = done
         /\ Conservation'
  <1>1. /\ t \notin accepted /\ accepted' = accepted \cup {t}
        /\ tasks' = Append(tasks, t) /\ tasks \in Seq(Tasks)
        /\ worker' = worker /\ task' = task /\ done' = done
        BY DEF Enqueue, Fresh, TypeOK
  <1>2. /\ Len(tasks) \in Nat
        /\ DOMAIN tasks = 1 .. Len(tasks)
        /\ DOMAIN tasks' = 1 .. (Len(tasks) + 1)
        /\ \A i \in 1 .. Len(tasks) : tasks'[i] = tasks[i]
        /\ tasks'[Len(tasks) + 1] = t
        BY <1>1, AppendLemma
  <1>3. Queued' = Queued \cup {t}
        BY <1>2 DEF Queued
  <1>4. Running' = Running
        BY <1>1 DEF Running
  <1>5. t \notin Queued \cup Running \cup done
        BY <1>1 DEF Conservation
  <1>6. \A i, j \in DOMAIN tasks' : tasks'[i] = tasks'[j] => i = j
        BY <1>2, <1>5 DEF Conservation, Queued
  <1>7. /\ accepted' = Queued' \cup Running' \cup done'
        /\ Queued' \cap (Running' \cup done') = {}
        /\ Running' \cap done' = {}
        BY <1>1, <1>3, <1>4, <1>5 DEF Conservation
  <1>8. Conservation'
        BY <1>1, <1>6, <1>7 DEF Conservation
  <1>9. QED
        BY <1>1, <1>4, <1>5, <1>8

(* Every accepted task is in exactly one place, in every state: none is    *)
(* lost and none is executed twice.                                        *)
THEOREM TasksAreConserved == Spec => []Conservation
  <1>1. Init => Conservation
    <2> SUFFICES ASSUME Init PROVE Conservation
        OBVIOUS
    <2>1. Queued = {} /\ Running = {} /\ done = {} /\ accepted = {}
          BY DEF Init, Queued, Running
    <2>2. QED
          BY <2>1 DEF Init, Conservation
  <1>2. TypeOK /\ Conservation /\ [Next]_vars => Conservation'
    <2> SUFFICES ASSUME TypeOK, Conservation, [Next]_vars PROVE Conservation'
        OBVIOUS
    <2>1. CASE \E w \in Workers : WorkerTake(w)
          BY <2>1, TakeMoves
    <2>2. CASE \E w \in Workers : WorkerRun(w)
          BY <2>2, RunMoves
    <2>3. CASE \E c \in Callers, t \in Tasks : Enqueue(c, t)
          BY <2>3, EnqueueMoves
    <2>4. CASE Quiet
          BY <2>4, QuietKeeps
    <2>5. QED
          BY <2>1, <2>2, <2>3, <2>4, QuietSteps
          DEF Next, WorkerStep, CallerStep
  <1>3. QED
        BY <1>1, <1>2, TypeCorrect, PTL DEF Spec

(* ~ThreadPool has drained the queue when it returns.                      *)
THEOREM DestructorDrains == Spec => []DrainedAtJoin
  <1>1. TypeOK /\ Control /\ Conservation => DrainedAtJoin
    <2> SUFFICES ASSUME TypeOK, Control, Conservation, dtor = "destroyed"
                 PROVE  tasks = <<>> /\ done = accepted
        BY DEF DrainedAtJoin
    <2>1. \A w \in Workers : worker[w] = "returned"
          BY DEF Control, DestroyedIsJoined
    <2>2. tasks = <<>>
          BY <2>1, ConstantsAssumption DEF Control, ReturnedSawEmpty
    <2>3. Queued = {} /\ Running = {}
          BY <2>1, <2>2 DEF Queued, Running
    <2>4. QED
          BY <2>2, <2>3 DEF Conservation
  <1>2. QED
        BY <1>1, TypeCorrect, ControlCorrect, TasksAreConserved, PTL

-----------------------------------------------------------------------------
(* The pool implements TaskChannel: WorkerTake is Start, WorkerRun is      *)
(* Finish, enqueue is Submit, and every other step leaves the channel as   *)
(* it is.                                                                  *)
THEOREM PoolImplementsChannel == Spec => ImplementsChannel
  <1> USE DEF Channel!vars, Channel!Queued
  <1>1. Init => Channel!Init
    <2> SUFFICES ASSUME Init PROVE Channel!Init
        OBVIOUS
    <2>1. Running = {}
          BY DEF Init, Running
    <2>2. QED
          BY <2>1 DEF Init, Channel!Init
  <1>2. TypeOK /\ Conservation /\ [Next]_vars => [Channel!Next]_(Channel!vars)
    <2> SUFFICES ASSUME TypeOK, Conservation, [Next]_vars
                 PROVE  [Channel!Next]_(Channel!vars)
        OBVIOUS
    <2>1. ASSUME NEW w \in Workers, WorkerTake(w) PROVE Channel!Start
          BY <2>1, TakeMoves DEF WorkerTake, Popped, Channel!Start
    <2>2. ASSUME NEW w \in Workers, WorkerRun(w)
          PROVE  task[w] \in Tasks /\ Channel!Finish(task[w])
          BY <2>2, RunMoves DEF WorkerRun, Channel!Finish, TypeOK
    <2>3. ASSUME NEW c \in Callers, NEW t \in Tasks, Enqueue(c, t)
          PROVE  Channel!Submit(t)
          BY <2>3, EnqueueMoves DEF Channel!Submit, Queued
    <2>4. CASE Quiet
          BY <2>4, QuietKeeps DEF Quiet
    <2>5. QED
          BY <2>1, <2>2, <2>3, <2>4, QuietSteps
          DEF Next, WorkerStep, CallerStep, Channel!Next
  <1>3. QED
        BY <1>1, <1>2, TypeCorrect, TasksAreConserved, PTL
        DEF Spec, ImplementsChannel, Channel!Spec

-----------------------------------------------------------------------------
(* The detached pool.  The tasks it has not finished, where they are.      *)
JobsQueued == {queue[i] : i \in DOMAIN queue}
AtWork == {u \in PoolThreads : loop[u] = "run"}
JobsRunning == {job[t][1] : t \in AtWork}

DetachedTypes ==
  /\ queue \in Seq(Jobs) /\ isClosed \in BOOLEAN
  /\ loop \in [PoolThreads -> {"test", "wait", "run", "left"}]
  /\ job \in [PoolThreads -> {<<>>} \cup {<<j>> : j \in Jobs}]
  /\ \A t \in PoolThreads : loop[t] = "run" => job[t] # <<>>
  /\ added \in SUBSET Jobs

(* Every task that was added is in one place.                              *)
JobsPlaced ==
  /\ added = JobsQueued \cup JobsRunning \cup ran
  /\ JobsQueued \cap (JobsRunning \cup ran) = {}
  /\ JobsRunning \cap ran = {}
  /\ \A i, k \in DOMAIN queue : queue[i] = queue[k] => i = k
  /\ \A t, u \in AtWork : job[t][1] = job[u][1] => t = u

(* A thread leaves only a queue that is empty and stays so: nobody adds    *)
(* after the destructor has set isClosed.                                  *)
LeftIsEmpty ==
  /\ isClosed <=> object # "alive"
  /\ \A t \in PoolThreads : loop[t] = "left" => isClosed /\ queue = <<>>

DetachedInv == DetachedTypes /\ JobsPlaced /\ LeftIsEmpty

JobOfRunning ==
  \A t \in AtWork : job[t][1] \in Jobs

LEMMA RunningHasJob ==
  ASSUME DetachedTypes
  PROVE  JobOfRunning
  <1> SUFFICES ASSUME NEW t \in AtWork PROVE job[t][1] \in Jobs
      BY DEF JobOfRunning
  <1>1. job[t] \in {<<j>> : j \in Jobs}
        BY DEF DetachedTypes, AtWork
  <1>2. PICK j \in Jobs : job[t] = <<j>>
        BY <1>1
  <1>3. QED
        BY <1>2

(* A step takes a task, finishes one, adds one or leaves them all alone.   *)
JobTaken(t) ==
  /\ queue # <<>> /\ queue' = Tail(queue)
  /\ t \notin AtWork /\ AtWork' = AtWork \cup {t}
  /\ job'[t][1] = Head(queue) /\ \A u \in AtWork : job'[u] = job[u]
  /\ UNCHANGED <<added, ran>>

JobFinished(t) ==
  /\ t \in AtWork /\ AtWork' = AtWork \ {t}
  /\ ran' = ran \cup {job[t][1]}
  /\ \A u \in AtWork \ {t} : job'[u] = job[u]
  /\ UNCHANGED <<queue, added>>

JobAdded(j) ==
  /\ j \notin added /\ added' = added \cup {j}
  /\ queue' = Append(queue, j)
  /\ UNCHANGED <<job, ran>> /\ AtWork' = AtWork

JobsAlone == UNCHANGED <<queue, job, added, ran>> /\ AtWork' = AtWork

LEMMA DetachedSteps ==
  ASSUME DetachedTypes, [DetachedNext]_poolState
  PROVE  \/ JobsAlone
         \/ \E t \in PoolThreads : JobTaken(t) \/ JobFinished(t)
         \/ \E j \in Jobs : JobAdded(j)
  <1> USE DEF DetachedTypes, AtWork
  <1>1. ASSUME NEW t \in PoolThreads, TakeJob(t) PROVE JobTaken(t)
        BY <1>1 DEF TakeJob, JobTaken
  <1>2. ASSUME NEW t \in PoolThreads, RunJob(t) PROVE JobFinished(t)
        BY <1>2 DEF RunJob, JobFinished
  <1>3. ASSUME NEW t \in PoolThreads, Leave(t) \/ Wait(t) \/ Wake(t) PROVE JobsAlone
        BY <1>3 DEF Leave, Wait, Wake, JobsAlone
  <1>4. ASSUME NEW o \in Owners, AddNotifies(o) PROVE JobsAlone
        BY <1>4 DEF AddNotifies, JobsAlone
  <1>5. ASSUME NEW o \in Owners, NEW j \in Jobs, AddTask(o, j) PROVE JobAdded(j)
        BY <1>5 DEF AddTask, JobAdded
  <1>6. CASE DtorCloses \/ DtorNotifies
        BY <1>6 DEF DtorCloses, DtorNotifies, JobsAlone
  <1>7. CASE UNCHANGED poolState
        BY <1>7 DEF poolState, JobsAlone
  <1>8. QED
        BY <1>1, <1>2, <1>3, <1>4, <1>5, <1>6, <1>7 DEF DetachedNext, PoolThreadStep

LEMMA DetachedTypesStep ==
  ASSUME DetachedTypes, [DetachedNext]_poolState
  PROVE  DetachedTypes'
  <1> USE DEF DetachedTypes
  <1>1. ASSUME NEW t \in PoolThreads, TakeJob(t) PROVE DetachedTypes'
    <2>1. Head(queue) \in Jobs /\ Tail(queue) \in Seq(Jobs)
          BY <1>1, TailLemma DEF TakeJob
    <2>2. <<Head(queue)>> \in {<<j>> : j \in Jobs} /\ <<Head(queue)>> # <<>>
          BY <2>1
    <2>3. QED
          BY <1>1, <2>1, <2>2 DEF TakeJob
  <1>2. ASSUME NEW t \in PoolThreads, RunJob(t) \/ Leave(t) \/ Wait(t) \/ Wake(t)
        PROVE  DetachedTypes'
        BY <1>2 DEF RunJob, Leave, Wait, Wake
  <1>3. ASSUME NEW o \in Owners, AddNotifies(o) PROVE DetachedTypes'
        BY <1>3 DEF AddNotifies
  <1>4. ASSUME NEW o \in Owners, NEW j \in Jobs, AddTask(o, j) PROVE DetachedTypes'
        BY <1>4, AppendLemma DEF AddTask
  <1>5. CASE DtorCloses \/ DtorNotifies
        BY <1>5 DEF DtorCloses, DtorNotifies
  <1>6. CASE UNCHANGED poolState
        BY <1>6 DEF poolState
  <1>7. QED
        BY <1>1, <1>2, <1>3, <1>4, <1>5, <1>6 DEF DetachedNext, PoolThreadStep

LEMMA LeftIsEmptyStep ==
  ASSUME DetachedTypes, LeftIsEmpty, [DetachedNext]_poolState
  PROVE  LeftIsEmpty'
  <1> USE DEF DetachedTypes, LeftIsEmpty
  <1>1. ASSUME NEW t \in PoolThreads, PoolThreadStep(t) \/ Wake(t) PROVE LeftIsEmpty'
        BY <1>1 DEF PoolThreadStep, TakeJob, RunJob, Leave, Wait, Wake, MayLeave
  <1>2. ASSUME NEW o \in Owners, AddNotifies(o) PROVE LeftIsEmpty'
        BY <1>2 DEF AddNotifies
  <1>3. ASSUME NEW o \in Owners, NEW j \in Jobs, AddTask(o, j) PROVE LeftIsEmpty'
        BY <1>3 DEF AddTask
  <1>4. CASE DtorCloses \/ DtorNotifies
        BY <1>4 DEF DtorCloses, DtorNotifies
  <1>5. CASE UNCHANGED poolState
        BY <1>5 DEF poolState
  <1>6. QED
        BY <1>1, <1>2, <1>3, <1>4, <1>5 DEF DetachedNext

(* What the steps do to the sets of tasks.                                 *)
LEMMA TakenMoves ==
  ASSUME DetachedTypes, JobsPlaced, NEW t \in PoolThreads, JobTaken(t)
  PROVE  /\ JobsRunning' = JobsRunning \cup {Head(queue)}
         /\ JobsPlaced'
  <1>1. /\ DOMAIN queue = 1 .. Len(queue) /\ Len(queue) \in Nat \ {0} /\ Head(queue) = queue[1]
        /\ DOMAIN queue' = 1 .. (Len(queue) - 1)
        /\ \A i \in 1 .. (Len(queue) - 1) : queue'[i] = queue[i + 1]
        BY TailLemma DEF JobTaken, DetachedTypes
  <1>2. JobsQueued = JobsQueued' \cup {Head(queue)}
    <2>1. \A i \in DOMAIN queue : i = 1 \/ (i - 1 \in DOMAIN queue' /\ queue'[i - 1] = queue[i])
          BY <1>1
    <2>2. \A i \in DOMAIN queue' : i + 1 \in DOMAIN queue /\ queue'[i] = queue[i + 1]
          BY <1>1
    <2>3. 1 \in DOMAIN queue
          BY <1>1
    <2>4. QED
          BY <1>1, <2>1, <2>2, <2>3 DEF JobsQueued
  <1>3. Head(queue) \notin JobsQueued'
        BY <1>1 DEF JobsQueued, JobsPlaced
  <1>4. JobsRunning' = JobsRunning \cup {Head(queue)}
        BY DEF JobTaken, JobsRunning
  <1>5. Head(queue) \notin JobsRunning \cup ran
        BY <1>2 DEF JobsPlaced
  <1>6. /\ added' = JobsQueued' \cup JobsRunning' \cup ran'
        /\ JobsQueued' \cap (JobsRunning' \cup ran') = {}
        /\ JobsRunning' \cap ran' = {}
        BY <1>2, <1>3, <1>4, <1>5 DEF JobsPlaced, JobTaken
  <1>7. ASSUME NEW i \in DOMAIN queue', NEW k \in DOMAIN queue', queue'[i] = queue'[k]
        PROVE  i = k
    <2>1. i + 1 \in DOMAIN queue /\ k + 1 \in DOMAIN queue /\ queue[i + 1] = queue[k + 1]
          BY <1>1, <1>7
    <2>2. i + 1 = k + 1
          BY <2>1 DEF JobsPlaced
    <2>3. QED
          BY <1>1, <2>2
  <1>8. \A u, v \in AtWork' : job'[u][1] = job'[v][1] => u = v
        BY <1>5 DEF JobsPlaced, JobTaken, JobsRunning
  <1>9. QED
        BY <1>4, <1>6, <1>7, <1>8 DEF JobsPlaced

LEMMA FinishedMoves ==
  ASSUME DetachedTypes, JobsPlaced, NEW t \in PoolThreads, JobFinished(t)
  PROVE  /\ job[t][1] \in JobsRunning
         /\ JobsRunning' = JobsRunning \ {job[t][1]}
         /\ JobsPlaced'
  <1>1. job[t][1] \in JobsRunning
        BY DEF JobFinished, JobsRunning
  <1>2. JobsRunning' = JobsRunning \ {job[t][1]}
        BY DEF JobFinished, JobsRunning, JobsPlaced
  <1>3. JobsQueued' = JobsQueued
        BY DEF JobFinished, JobsQueued
  <1>4. /\ added' = JobsQueued' \cup JobsRunning' \cup ran'
        /\ JobsQueued' \cap (JobsRunning' \cup ran') = {}
        /\ JobsRunning' \cap ran' = {}
        BY <1>1, <1>2, <1>3 DEF JobsPlaced, JobFinished
  <1>5. \A u, v \in AtWork' : job'[u][1] = job'[v][1] => u = v
        BY DEF JobsPlaced, JobFinished
  <1>6. QED
        BY <1>1, <1>2, <1>4, <1>5 DEF JobsPlaced, JobFinished

LEMMA AddedMoves ==
  ASSUME DetachedTypes, JobsPlaced, NEW j \in Jobs, JobAdded(j)
  PROVE  /\ JobsRunning' = JobsRunning
         /\ JobsPlaced'
  <1>1. /\ Len(queue) \in Nat /\ DOMAIN queue = 1 .. Len(queue)
        /\ DOMAIN queue' = 1 .. (Len(queue) + 1)
        /\ \A i \in 1 .. Len(queue) : queue'[i] = queue[i]
        /\ queue'[Len(queue) + 1] = j
        BY AppendLemma DEF JobAdded, DetachedTypes
  <1>2. JobsQueued' = JobsQueued \cup {j}
        BY <1>1 DEF JobsQueued
  <1>3. JobsRunning' = JobsRunning
        BY DEF JobAdded, JobsRunning
  <1>4. j \notin JobsQueued \cup JobsRunning \cup ran
        BY DEF JobsPlaced, JobAdded
  <1>5. \A i, k \in DOMAIN queue' : queue'[i] = queue'[k] => i = k
        BY <1>1, <1>4 DEF JobsPlaced, JobsQueued
  <1>6. /\ added' = JobsQueued' \cup JobsRunning' \cup ran'
        /\ JobsQueued' \cap (JobsRunning' \cup ran') = {}
        /\ JobsRunning' \cap ran' = {}
        BY <1>2, <1>3, <1>4 DEF JobsPlaced, JobAdded
  <1>7. QED
        BY <1>3, <1>5, <1>6 DEF JobsPlaced, JobAdded

LEMMA AloneKeeps ==
  ASSUME JobsPlaced, JobsAlone
  PROVE  JobsRunning' = JobsRunning /\ JobsPlaced'
  <1>1. JobsRunning' = JobsRunning /\ JobsQueued' = JobsQueued
        BY DEF JobsAlone, JobsRunning, JobsQueued
  <1>2. QED
        BY <1>1 DEF JobsPlaced, JobsAlone

LEMMA DetachedInvHolds == DetachedInit /\ [][DetachedNext]_poolState => []DetachedInv
  <1>1. DetachedInit => DetachedInv
    <2> SUFFICES ASSUME DetachedInit PROVE DetachedInv
        OBVIOUS
    <2>1. JobsQueued = {} /\ JobsRunning = {} /\ AtWork = {}
          BY DEF DetachedInit, JobsQueued, JobsRunning, AtWork
    <2>2. JobsPlaced
          BY <2>1 DEF DetachedInit, JobsPlaced
    <2>3. DetachedTypes
      <3>1. job \in [PoolThreads -> {<<>>} \cup {<<j>> : j \in Jobs}]
            BY Zenon DEF DetachedInit
      <3>a. queue = <<>> /\ <<>> \in Seq(Jobs)
            BY DEF DetachedInit
      <3>b. /\ isClosed \in BOOLEAN /\ added \in SUBSET Jobs
            /\ loop \in [PoolThreads -> {"test", "wait", "run", "left"}]
            BY Zenon DEF DetachedInit
      <3>2. /\ queue \in Seq(Jobs) /\ isClosed \in BOOLEAN /\ added \in SUBSET Jobs
            /\ loop \in [PoolThreads -> {"test", "wait", "run", "left"}]
            BY <3>a, <3>b
      <3>3. \A t \in PoolThreads : loop[t] # "run"
            BY DEF DetachedInit
      <3>4. QED
            BY <3>1, <3>2, <3>3, Zenon DEF DetachedTypes
    <2>5. LeftIsEmpty
          BY DEF DetachedInit, LeftIsEmpty
    <2>4. QED
          BY <2>2, <2>3, <2>5 DEF DetachedInv
  <1>2. DetachedInv /\ [DetachedNext]_poolState => DetachedInv'
    <2> SUFFICES ASSUME DetachedInv, [DetachedNext]_poolState PROVE DetachedInv'
        OBVIOUS
    <2> USE DEF DetachedInv
    <2>1. DetachedTypes' /\ LeftIsEmpty'
          BY DetachedTypesStep, LeftIsEmptyStep
    <2>2. JobsPlaced'
          BY DetachedSteps, TakenMoves, FinishedMoves, AddedMoves, AloneKeeps
    <2>3. QED
          BY <2>1, <2>2
  <1>3. QED
        BY <1>1, <1>2, PTL

(* The detached pool implements TaskChannel for as long as a thread is     *)
(* left, also when the ThreadPool object is destroyed under the threads:   *)
(* each task that AddTask has queued is started in its turn, once.         *)
THEOREM DetachedImplementsChannel ==
  DetachedInit /\ [][DetachedNext]_poolState => DetachedFifo
  <1> USE DEF DetachedChannel!vars, DetachedChannel!Queued
  <1>0. JobsRunning = {job[t][1] : t \in {u \in PoolThreads : loop[u] = "run"}}
        BY DEF JobsRunning, AtWork
  <1>1. DetachedInit => DetachedChannel!Init
        BY DEF DetachedInit, DetachedChannel!Init
  <1>2. DetachedInv /\ [DetachedNext]_poolState
          => [DetachedChannel!Next]_(DetachedChannel!vars)
    <2> SUFFICES ASSUME DetachedInv, [DetachedNext]_poolState
                 PROVE  [DetachedChannel!Next]_(DetachedChannel!vars)
        OBVIOUS
    <2> USE DEF DetachedInv
    <2>0. JobsRunning' = {job'[t][1] : t \in {u \in PoolThreads : loop'[u] = "run"}}
          BY DEF JobsRunning, AtWork
    <2>1. ASSUME NEW t \in PoolThreads, JobTaken(t) PROVE DetachedChannel!Start
          BY <1>0, <2>0, <2>1, TakenMoves DEF JobTaken, DetachedChannel!Start
    <2>2. ASSUME NEW t \in PoolThreads, JobFinished(t)
          PROVE  \E j \in Jobs : DetachedChannel!Finish(j)
      <3>1. PICK j \in Jobs : j = job[t][1]
            BY <2>2, RunningHasJob DEF JobFinished, JobOfRunning
      <3>2. DetachedChannel!Finish(j)
            BY <1>0, <2>0, <2>2, <3>1, FinishedMoves DEF JobFinished, DetachedChannel!Finish
      <3>3. QED
            BY <3>2
    <2>3. ASSUME NEW j \in Jobs, JobAdded(j) PROVE DetachedChannel!Submit(j)
          BY <1>0, <2>0, <2>3, AddedMoves
          DEF JobAdded, JobsPlaced, JobsQueued, DetachedChannel!Submit
    <2>4. ASSUME JobsAlone PROVE UNCHANGED DetachedChannel!vars
          BY <1>0, <2>0, <2>4, AloneKeeps DEF JobsAlone
    <2>5. \/ JobsAlone
          \/ \E t \in PoolThreads : JobTaken(t) \/ JobFinished(t)
          \/ \E j \in Jobs : JobAdded(j)
          BY DetachedSteps
    <2>6. CASE JobsAlone
          BY <2>4, <2>6
    <2>7. ASSUME NEW t \in PoolThreads, JobTaken(t) \/ JobFinished(t)
          PROVE  DetachedChannel!Next
          BY <2>1, <2>2, <2>7 DEF DetachedChannel!Next
    <2>8. CASE \E j \in Jobs : JobAdded(j)
          BY <2>3, <2>8 DEF DetachedChannel!Next
    <2>9. QED
          BY <2>5, <2>6, <2>7, <2>8
  <1>3. QED
        BY <1>1, <1>2, DetachedInvHolds, PTL DEF DetachedFifo, DetachedChannel!Spec

LastLeaves == (\A t \in PoolThreads : loop[t] = "left") => queue = <<>> /\ ran = added

(* Nobody joins the threads, and yet nothing is lost: when the last of     *)
(* them has left, which frees the queue they share, every task that was    *)
(* added has been run.                                                     *)
THEOREM LastLeavesNothing == DetachedInit /\ [][DetachedNext]_poolState => []LastLeaves
  <1>1. DetachedInv => LastLeaves
    <2> SUFFICES ASSUME DetachedInv, \A t \in PoolThreads : loop[t] = "left"
                 PROVE  queue = <<>> /\ ran = added
        BY DEF LastLeaves
    <2>1. queue = <<>>
          BY ThreadCountAssumption DEF DetachedInv, LeftIsEmpty
    <2>2. JobsQueued = {} /\ JobsRunning = {}
          BY <2>1 DEF JobsQueued, JobsRunning, AtWork
    <2>3. QED
          BY <2>1, <2>2 DEF DetachedInv, JobsPlaced
  <1>2. QED
        BY <1>1, DetachedInvHolds, PTL
=============================================================================
