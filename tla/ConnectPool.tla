----------------------------- MODULE ConnectPool -----------------------------
(***************************************************************************)
(* The MySQL connection pool of mysql_connect_pool/src/connectPool.cpp: a  *)
(* queue of idle connections under one mutex, a producer thread that keeps *)
(* minSize of them ready, a recycler thread that deletes the ones that     *)
(* idled too long, and the clients that take a connection and give it back *)
(* through the deleter of its shared_ptr.                                  *)
(*                                                                         *)
(* Everything done under m_mutexQ is one action, the notify_all inside it  *)
(* included.  Time passes in Tick; the idle time of a connection is kept   *)
(* up to maxIdTime, the only value it is compared with.  The address of a  *)
(* deleted connection may be used again by the next one.                   *)
(***************************************************************************)
EXTENDS Naturals, Sequences, FiniteSets, FiniteSetsExt

CONSTANTS Conns,      \* addresses of databaseConnect objects
          NoConn,
          Clients,    \* threads that call getConnection
          MinSize,    \* m_minSize
          MaxSize,    \* m_maxSize
          MaxIdTime   \* m_maxIdTime

ASSUME ConstantsAssumption ==
  /\ NoConn \notin Conns
  /\ MinSize \in Nat
  /\ MaxSize \in Nat
  /\ MinSize <= MaxSize
  /\ MaxIdTime \in Nat
  /\ IsFiniteSet(Conns) /\ IsFiniteSet(Clients)
  \* the heap has room for every connection the pool may create
  /\ Cardinality(Conns) >= MinSize + Cardinality(Clients)

VARIABLES
  queue,     \* m_connectQ, front first
  age,       \* getAliveTime of each connection
  producer,  \* "test" or "waiting" on m_cond
  client,    \* where each client is in getConnection
  conn,      \* the connection a client holds
  pool       \* "alive", then ~connectPool until "destroyed"

vars == <<queue, age, producer, client, conn, pool>>

ClientPc == {"idle", "test", "waiting", "using"}

TypeOK ==
  /\ queue \in Seq(Conns)
  /\ age \in [Conns -> 0 .. MaxIdTime]
  /\ producer \in {"test", "waiting"}
  /\ client \in [Clients -> ClientPc]
  /\ conn \in [Clients -> Conns \cup {NoConn}]
  /\ pool \in {"alive", "destroying", "destroyed"}
  /\ \A c \in Clients : client[c] = "using" <=> conn[c] # NoConn

Queued == {queue[i] : i \in DOMAIN queue}
Using == {c \in Clients : client[c] = "using"}
InUse == {conn[c] : c \in Using}
Allocated == Queued \cup InUse

-----------------------------------------------------------------------------
(* The constructor has called addConnection m_minSize times.               *)
Init ==
  /\ queue \in {q \in [1 .. MinSize -> Conns] :
                  \A i, j \in 1 .. MinSize : q[i] = q[j] => i = j}
  /\ age = [x \in Conns |-> 0]
  /\ producer = "test"
  /\ client = [c \in Clients |-> "idle"]
  /\ conn = [c \in Clients |-> NoConn]
  /\ pool = "alive"

(* m_cond.notify_all(): producer and clients wait on the same variable.    *)
ProducerNotified == "test"
ClientsNotified ==
  [c \in Clients |-> IF client[c] = "waiting" THEN "test" ELSE client[c]]

(* conn->refreshAliveTime() and the push.                                  *)
Mut_Refreshed(x) == age
Refreshed(x) == [age EXCEPT ![x] = 0]

-----------------------------------------------------------------------------
(* produceConnection                                                       *)
EnoughReady == Len(queue) >= MinSize

ProducerWait ==
  /\ producer = "test"
  /\ EnoughReady
  /\ producer' = "waiting"
  /\ UNCHANGED <<queue, age, client, conn, pool>>

(* addConnection: whether connect succeeded is ignored.                    *)
Produce ==
  /\ producer = "test"
  /\ ~EnoughReady
  /\ \E x \in Conns \ Allocated :
       /\ queue' = Append(queue, x)
       /\ age' = [age EXCEPT ![x] = 0]
  /\ client' = ClientsNotified
  /\ UNCHANGED <<producer, conn, pool>>

ProducerSpurious ==
  /\ producer = "waiting"
  /\ producer' = "test"
  /\ UNCHANGED <<queue, age, client, conn, pool>>

-----------------------------------------------------------------------------
(* recycleConnection: connections are deleted from the front while there   *)
(* are more than minSize and the front one idled for maxIdTime.            *)
Excess == IF Len(queue) > MinSize THEN Len(queue) - MinSize ELSE 0
Expired(x) == age[x] >= MaxIdTime
RecycleCount ==
  Max({k \in 0 .. Excess : \A i \in 1 .. k : Expired(queue[i])})

Recycle ==
  /\ RecycleCount > 0
  /\ queue' = SubSeq(queue, RecycleCount + 1, Len(queue))
  /\ UNCHANGED <<age, producer, client, conn, pool>>

-----------------------------------------------------------------------------
(* getConnection                                                           *)
GetStart(c) ==
  /\ client[c] = "idle"
  /\ pool = "alive"
  /\ client' = [client EXCEPT ![c] = "test"]
  /\ UNCHANGED <<queue, age, producer, conn, pool>>

GetWait(c) ==
  /\ client[c] = "test"
  /\ queue = <<>>
  /\ client' = [client EXCEPT ![c] = "waiting"]
  /\ UNCHANGED <<queue, age, producer, conn, pool>>

(* wait_for ends by its timeout, or spuriously.                            *)
GetTimeout(c) ==
  /\ client[c] = "waiting"
  /\ client' = [client EXCEPT ![c] = "test"]
  /\ UNCHANGED <<queue, age, producer, conn, pool>>

Popped == Tail(queue)
Mut_AfterGet == producer
AfterGet == ProducerNotified

GetTake(c) ==
  /\ client[c] = "test"
  /\ queue # <<>>
  /\ conn' = [conn EXCEPT ![c] = Head(queue)]
  /\ queue' = Popped
  /\ client' = [ClientsNotified EXCEPT ![c] = "using"]
  /\ producer' = AfterGet
  /\ UNCHANGED <<age, pool>>

Given(c) == [conn EXCEPT ![c] = NoConn]

(* The deleter of the shared_ptr: the connection goes back, nobody is      *)
(* notified.                                                               *)
Release(c) ==
  /\ client[c] = "using"
  /\ age' = Refreshed(conn[c])
  /\ queue' = Append(queue, conn[c])
  /\ client' = [client EXCEPT ![c] = "idle"]
  /\ conn' = Given(c)
  /\ UNCHANGED <<producer, pool>>

-----------------------------------------------------------------------------
(* ~connectPool runs when main has joined its threads; it does not lock,   *)
(* and the detached producer and recycler go on beside it.                 *)
DtorStart ==
  /\ pool = "alive"
  /\ \A c \in Clients : client[c] = "idle"
  /\ pool' = "destroying"
  /\ UNCHANGED <<queue, age, producer, client, conn>>

DtorPop ==
  /\ pool = "destroying"
  /\ queue # <<>>
  /\ queue' = Tail(queue)
  /\ UNCHANGED <<age, producer, client, conn, pool>>

DtorEnd ==
  /\ pool = "destroying"
  /\ queue = <<>>
  /\ pool' = "destroyed"
  /\ UNCHANGED <<queue, age, producer, client, conn>>

(* The steady clock advances for every connection alike.                   *)
Tick ==
  /\ age' = [x \in Conns |-> Min({age[x] + 1, MaxIdTime})]
  /\ UNCHANGED <<queue, producer, client, conn, pool>>

-----------------------------------------------------------------------------
ProducerStep == ProducerWait \/ Produce
ClientStep(c) == GetWait(c) \/ GetTimeout(c) \/ GetTake(c)
DtorStep == DtorPop \/ DtorEnd

Next ==
  /\ pool # "destroyed"
  /\ \/ ProducerStep \/ ProducerSpurious
     \/ Recycle
     \/ \E c \in Clients : GetStart(c) \/ ClientStep(c) \/ Release(c)
     \/ DtorStart \/ DtorStep
     \/ Tick

Spec == Init /\ [][Next]_vars

(* The detached threads run, waits time out, the clock advances.  A client *)
(* may keep its connection for ever.                                       *)
Fairness ==
  /\ WF_vars(pool # "destroyed" /\ ProducerStep)
  /\ WF_vars(pool # "destroyed" /\ Recycle)
  /\ WF_vars(pool # "destroyed" /\ Tick)
  /\ \A c \in Clients : WF_vars(pool # "destroyed" /\ ClientStep(c))

FairSpec == Spec /\ Fairness

-----------------------------------------------------------------------------
(* A connection is in the queue once or with one client: no two threads    *)
(* ever talk over the same MYSQL handle.                                   *)
Exclusive ==
  /\ Queued \cap InUse = {}
  /\ \A i, j \in DOMAIN queue : queue[i] = queue[j] => i = j
  /\ \A c, d \in Using : conn[c] = conn[d] => c = d

(* The front of the queue has idled longest, so the recycler may stop at   *)
(* the first connection that is still young.                               *)
OldestFirst ==
  \A i, j \in DOMAIN queue : i <= j => age[queue[i]] >= age[queue[j]]


(* The producer sleeps only while enough connections are ready: the        *)
(* notify_all of getConnection never comes too early for it.               *)
ProducerSleepsOnlyWhenReady ==
  pool = "alive" /\ producer = "waiting" => Len(queue) >= MinSize

(* The number of connections is bounded by minSize and the number of       *)
(* clients, although m_maxSize is never read.                              *)
TotalBounded ==
  Cardinality(Allocated) <= MinSize + Cardinality(Clients)

(* The queue is sound: no connection is shared, the oldest is in front and *)
(* there are not more than the clients and minSize account for.            *)
QueueSound == TypeOK /\ Exclusive /\ OldestFirst /\ TotalBounded

(* getConnection returns unless other clients take connections for ever:   *)
(* a client starves only by being overtaken, even if no connection is ever *)
(* given back and although the deleter notifies nobody.                    *)
GetReturns ==
  \A c \in Clients :
    <>[](client[c] \in {"test", "waiting"})
      => []<><<\E d \in Clients : GetTake(d)>>_vars

(* When the clients are done, the connections that a burst of them left    *)
(* behind are deleted down to minSize, and not further while the pool      *)
(* lives: producer and recycler come to rest at the same number.           *)
SurplusRecycled ==
  <>[](\A c \in Clients : client[c] = "idle") =>
    <>[](/\ Len(queue) <= MinSize
         /\ pool = "alive" => Len(queue) = MinSize)

(* Liveness.  Producer and recycler do their part: a waiting client gets a *)
(* connection, and the connections nobody uses any more are deleted.       *)
SupplyFollowsDemand == GetReturns /\ SurplusRecycled

(* The connections of the pool stay within m_minSize .. m_maxSize.         *)
WithinMaxSize == Cardinality(Allocated) <= MaxSize
=============================================================================
