---------------------------- MODULE DetachedPool ----------------------------
(***************************************************************************)
(* The pool of ThreadPool_C_C++/threadpool.h.  The threads are detached    *)
(* and hold the queue, its mutex and its condition variable through a      *)
(* shared_ptr, so the destructor waits for nobody: the pool object goes    *)
(* at once and the last thread to leave frees what they share.             *)
(*                                                                         *)
(* A critical section of mtx is one action.  A thread holds mtx from one   *)
(* round of its loop to the next except while it runs a task or waits.     *)
(* Tasks do not throw, the process outlives the threads, and the owner     *)
(* calls nothing after (or during) the destructor.                         *)
(***************************************************************************)
EXTENDS Integers, Sequences, FiniteSets

CONSTANTS PoolThreads,  \* the threadCount threads of the constructor
          Owners,       \* threads that call AddTask
          Jobs          \* the tasks, each added at most once

ASSUME ThreadCountAssumption == PoolThreads # {}   \* assert(threadCount > 0)

VARIABLES
    queue,     \* pool->tasks, front first
    isClosed,
    loop,      \* loop[t]: "test", "wait", "run" or "left"
    job,       \* job[t]: the sequence of at most one task that t runs
    adding,    \* owners between the unlock and the notify_one of AddTask
    object,    \* the ThreadPool object: "alive", "closed" or "destroyed"
    added, ran

poolState == <<queue, isClosed, loop, job, adding, object, added, ran>>

DetachedInit ==
    /\ queue = <<>> /\ isClosed = FALSE
    /\ loop = [t \in PoolThreads |-> "test"] /\ job = [t \in PoolThreads |-> <<>>]
    /\ adding = {} /\ object = "alive"
    /\ added = {} /\ ran = {}

MayLeave == queue = <<>> /\ isClosed

\* Mutant: the task added last is run first.
Mut_TakeJob(t) ==
    /\ loop[t] = "test" /\ queue # <<>> /\ ~ MayLeave
    /\ job' = [job EXCEPT ![t] = <<queue[Len(queue)]>>]
    /\ queue' = SubSeq(queue, 1, Len(queue) - 1)
    /\ loop' = [loop EXCEPT ![t] = "run"]
    /\ UNCHANGED <<isClosed, adding, object, added, ran>>

TakeJob(t) ==
    /\ loop[t] = "test" /\ queue # <<>> /\ ~ MayLeave
    /\ job' = [job EXCEPT ![t] = <<Head(queue)>>]
    /\ queue' = Tail(queue)
    /\ loop' = [loop EXCEPT ![t] = "run"]
    /\ UNCHANGED <<isClosed, adding, object, added, ran>>

RunJob(t) ==
    /\ loop[t] = "run"
    /\ ran' = ran \cup {job[t][1]}
    /\ job' = [job EXCEPT ![t] = <<>>]
    /\ loop' = [loop EXCEPT ![t] = "test"]
    /\ UNCHANGED <<queue, isClosed, adding, object, added>>

Leave(t) ==
    /\ loop[t] = "test" /\ MayLeave
    /\ loop' = [loop EXCEPT ![t] = "left"]
    /\ UNCHANGED <<queue, isClosed, job, adding, object, added, ran>>

Wait(t) ==
    /\ loop[t] = "test" /\ queue = <<>> /\ ~ isClosed
    /\ loop' = [loop EXCEPT ![t] = "wait"]
    /\ UNCHANGED <<queue, isClosed, job, adding, object, added, ran>>

Wake(t) ==
    /\ loop[t] = "wait"
    /\ loop' = [loop EXCEPT ![t] = "test"]
    /\ UNCHANGED <<queue, isClosed, job, adding, object, added, ran>>

AddTask(o, j) ==
    /\ object = "alive" /\ o \notin adding /\ j \notin added
    /\ queue' = Append(queue, j)
    /\ added' = added \cup {j}
    /\ adding' = adding \cup {o}
    /\ UNCHANGED <<isClosed, loop, job, object, ran>>

AddNotifies(o) ==
    /\ o \in adding
    /\ adding' = adding \ {o}
    /\ \/ \E t \in PoolThreads : loop[t] = "wait" /\ loop' = [loop EXCEPT ![t] = "test"]
       \/ (\A t \in PoolThreads : loop[t] # "wait") /\ UNCHANGED loop
    /\ UNCHANGED <<queue, isClosed, job, object, added, ran>>

DtorCloses ==
    /\ object = "alive" /\ adding = {}
    /\ isClosed' = TRUE
    /\ object' = "closed"
    /\ UNCHANGED <<queue, loop, job, adding, added, ran>>

DtorNotifies ==
    /\ object = "closed"
    /\ loop' = [t \in PoolThreads |-> IF loop[t] = "wait" THEN "test" ELSE loop[t]]
    /\ object' = "destroyed"
    /\ UNCHANGED <<queue, isClosed, job, adding, added, ran>>

PoolThreadStep(t) == TakeJob(t) \/ RunJob(t) \/ Leave(t) \/ Wait(t)

DetachedNext ==
    \/ \E t \in PoolThreads : PoolThreadStep(t) \/ Wake(t)
    \/ \E o \in Owners : AddNotifies(o) \/ \E j \in Jobs : AddTask(o, j)
    \/ DtorCloses \/ DtorNotifies

-----------------------------------------------------------------------------
DetachedChannel == INSTANCE TaskChannel
    WITH Tasks <- Jobs, pending <- queue, finished <- ran,
         running <- {job[t][1] : t \in {u \in PoolThreads : loop[u] = "run"}}

\* The pool implements the channel of tasks, also after the ThreadPool object
\* has gone: what was added is run in order and once.
DetachedFifo == DetachedChannel!Spec

\* The destructor joins nobody and yet loses nothing: what was added before it
\* is run, and then every thread leaves, which releases the state they share.
DetachedDrains ==
    /\ \A j \in Jobs : j \in added ~> j \in ran
    /\ isClosed ~> \A t \in PoolThreads : loop[t] = "left"
=============================================================================
