-------------------------- MODULE ConnectPoolProofs --------------------------
(***************************************************************************)
(* TLAPS proofs about ConnectPool, for every number of clients, every      *)
(* minimum of ready connections and every idle time.                       *)
(***************************************************************************)
EXTENDS ConnectPool, ProofLemmas

(* Which actions make up a step of the pool.                               *)
LEMMA NextCases ==
  ASSUME [Next]_vars
  PROVE  \/ ProducerWait \/ Produce \/ ProducerSpurious \/ Recycle
         \/ \E c \in Clients : \/ GetStart(c) \/ GetWait(c) \/ GetTimeout(c)
                               \/ GetTake(c) \/ Release(c)
         \/ DtorStart \/ DtorPop \/ DtorEnd \/ Tick
         \/ UNCHANGED vars
  BY DEF Next, ProducerStep, ClientStep, DtorStep

(* recycleConnection deletes as many connections as it may: every one of   *)
(* them expired, and minSize of them stay.                                 *)
LEMMA RecycleCountBounds ==
  ASSUME TypeOK
  PROVE  /\ Excess \in Nat /\ Excess <= Len(queue)
         /\ RecycleCount \in 0 .. Excess
         /\ RecycleCount > 0 => Len(queue) - RecycleCount >= MinSize
  <1> DEFINE T == {k \in 0 .. Excess : \A i \in 1 .. k : Expired(queue[i])}
  <1>1. Len(queue) \in Nat /\ MinSize \in Nat
        BY ConstantsAssumption DEF TypeOK
  <1>2. Excess \in Nat /\ Excess <= Len(queue)
        BY <1>1 DEF Excess
  <1>3. 0 \in T /\ T \in SUBSET (0 .. Excess)
        BY <1>2
  <1>4. Max(T) \in T
        BY <1>2, <1>3, MaxOfInterval
  <1>5. RecycleCount \in 0 .. Excess
        BY <1>4 DEF RecycleCount
  <1>6. QED
        BY <1>1, <1>2, <1>5 DEF Excess

-----------------------------------------------------------------------------
LEMMA TypeInit == Init => TypeOK
  <1> SUFFICES ASSUME Init PROVE TypeOK
      OBVIOUS
  <1> USE ConstantsAssumption DEF Init
  <1>1. queue \in Seq(Conns)
        OBVIOUS
  <1>2. age \in [Conns -> 0 .. MaxIdTime]
        OBVIOUS
  <1>3. /\ client \in [Clients -> ClientPc]
        /\ conn \in [Clients -> Conns \cup {NoConn}]
        /\ \A c \in Clients : client[c] = "using" <=> conn[c] # NoConn
        BY DEF ClientPc
  <1>4. QED
        BY <1>1, <1>2, <1>3 DEF TypeOK

LEMMA TypeStep == TypeOK /\ [Next]_vars => TypeOK'
  <1> SUFFICES ASSUME TypeOK, [Next]_vars PROVE TypeOK'
      OBVIOUS
  <1> USE ConstantsAssumption DEF TypeOK, ClientPc
  <1>1. CASE ProducerWait
        BY <1>1 DEF ProducerWait
  <1>2. CASE Produce
    <2>1. PICK x \in Conns \ Allocated :
             queue' = Append(queue, x) /\ age' = [age EXCEPT ![x] = 0]
          BY <1>2 DEF Produce
    <2>2. queue' \in Seq(Conns) /\ age' \in [Conns -> 0 .. MaxIdTime]
          BY <2>1, PushBack
    <2>3. QED
          BY <1>2, <2>2 DEF Produce, ClientsNotified
  <1>3. CASE ProducerSpurious
        BY <1>3 DEF ProducerSpurious
  <1>4. CASE Recycle
    <2>1. RecycleCount \in 0 .. Len(queue)
          BY RecycleCountBounds
    <2>2. queue' \in Seq(Conns)
          BY <1>4, <2>1, DropFront DEF Recycle
    <2>3. QED
          BY <1>4, <2>2 DEF Recycle
  <1>5. ASSUME NEW c \in Clients, GetStart(c) PROVE TypeOK'
        BY <1>5 DEF GetStart
  <1>6. ASSUME NEW c \in Clients, GetWait(c) PROVE TypeOK'
        BY <1>6 DEF GetWait
  <1>7. ASSUME NEW c \in Clients, GetTimeout(c) PROVE TypeOK'
        BY <1>7 DEF GetTimeout
  <1>8. ASSUME NEW c \in Clients, GetTake(c) PROVE TypeOK'
    <2>1. Tail(queue) \in Seq(Conns) /\ Head(queue) \in Conns
          BY <1>8, PopFront DEF GetTake
    <2>2. QED
          BY <1>8, <2>1 DEF GetTake, Popped, AfterGet, ProducerNotified, ClientsNotified
  <1>9. ASSUME NEW c \in Clients, Release(c) PROVE TypeOK'
    <2>1. conn[c] \in Conns
          BY <1>9 DEF Release
    <2>2. Append(queue, conn[c]) \in Seq(Conns)
          BY <2>1, PushBack
    <2>3. QED
          BY <1>9, <2>1, <2>2 DEF Release, Refreshed, Given
  <1>10. CASE DtorStart
        BY <1>10 DEF DtorStart
  <1>11. CASE DtorPop
        BY <1>11, PopFront DEF DtorPop
  <1>12. CASE DtorEnd
        BY <1>12 DEF DtorEnd
  <1>13. CASE Tick
    <2>1. ASSUME NEW x \in Conns PROVE Min({age[x] + 1, MaxIdTime}) \in 0 .. MaxIdTime
      <3>1. age[x] + 1 \in Nat /\ MaxIdTime \in Nat
            OBVIOUS
      <3>2. QED
            BY <3>1, MinOfTwo
    <2>2. QED
          BY <1>13, <2>1 DEF Tick
  <1>14. CASE UNCHANGED vars
        BY <1>14 DEF vars
  <1>15. QED
        BY NextCases, <1>1, <1>2, <1>3, <1>4, <1>5, <1>6, <1>7, <1>8, <1>9, <1>10,
           <1>11, <1>12, <1>13, <1>14

-----------------------------------------------------------------------------
(* Every variable keeps its type, and a client holds a connection exactly  *)
(* between getConnection and the deleter of its shared_ptr.                *)
THEOREM TypeCorrect == Spec => []TypeOK
  BY TypeInit, TypeStep, PTL DEF Spec

-----------------------------------------------------------------------------
(* Seen from the queue a step changes nothing, or it deletes connections   *)
(* from the front (the recycler and the destructor), or it is one of the   *)
(* three that move a connection, or the clock advances.                    *)
Quiet == UNCHANGED <<queue, age, conn>> /\ Using' = Using

Dropped ==
  /\ \E k \in 0 .. Len(queue) :
       /\ Len(queue') = Len(queue) - k
       /\ DOMAIN queue' = 1 .. (Len(queue) - k)
       /\ \A i \in 1 .. (Len(queue) - k) : queue'[i] = queue[i + k]
  /\ UNCHANGED <<age, conn>>
  /\ Using' = Using

LEMMA StepKinds ==
  ASSUME TypeOK, [Next]_vars
  PROVE  \/ Quiet \/ Dropped \/ Produce \/ Tick
         \/ \E c \in Clients : GetTake(c) \/ Release(c)
  <1> USE DEF TypeOK
  <1>1. CASE \/ ProducerWait \/ ProducerSpurious \/ DtorStart \/ DtorEnd
             \/ UNCHANGED vars
        BY <1>1 DEF Quiet, Using, ProducerWait, ProducerSpurious, DtorStart, DtorEnd,
           vars
  <1>2. ASSUME NEW c \in Clients, GetStart(c) \/ GetWait(c) \/ GetTimeout(c)
        PROVE  Quiet
        BY <1>2 DEF Quiet, Using, GetStart, GetWait, GetTimeout
  <1>3. CASE Recycle
    <2>1. RecycleCount \in 0 .. Len(queue)
          BY RecycleCountBounds
    <2>2. QED
          BY <1>3, <2>1, DropFront DEF Recycle, Dropped, Using
  <1>4. CASE DtorPop
    <2>1. /\ Len(queue) \in Nat \ {0}
          /\ Len(queue') = Len(queue) - 1
          /\ DOMAIN queue' = 1 .. (Len(queue) - 1)
          /\ \A i \in 1 .. (Len(queue) - 1) : queue'[i] = queue[i + 1]
          BY <1>4, PopFront DEF DtorPop
    <2>2. 1 \in 0 .. Len(queue)
          BY <2>1
    <2>3. QED
          BY <1>4, <2>1, <2>2 DEF DtorPop, Dropped, Using
  <1>5. QED
        BY NextCases, <1>1, <1>2, <1>3, <1>4

-----------------------------------------------------------------------------
(* The indices of the queue.                                               *)
LEMMA QueueIndices ==
  ASSUME TypeOK
  PROVE  /\ Len(queue) \in Nat
         /\ DOMAIN queue = 1 .. Len(queue)
         /\ \A i \in DOMAIN queue : queue[i] \in Conns /\ age[queue[i]] \in Nat
  BY DEF TypeOK

(* Disjoint images, element by element.                                    *)
LEMMA DisjointImages ==
  ASSUME NEW q, NEW h, NEW U
  PROVE  {q[i] : i \in DOMAIN q} \cap {h[c] : c \in U} = {}
           <=> \A i \in DOMAIN q : \A c \in U : q[i] # h[c]
  OBVIOUS

(* No connection is ever shared: taking and returning move it, and the     *)
(* producer's new one is at an address nobody holds.                       *)
LEMMA ExclusiveStep ==
  TypeOK /\ Exclusive /\ [Next]_vars => Exclusive'
  <1> SUFFICES ASSUME TypeOK, Exclusive, [Next]_vars PROVE Exclusive'
      OBVIOUS
  <1> DEFINE Apart == \A i \in DOMAIN queue : \A c \in Using : queue[i] # conn[c]
             Once == \A i, j \in DOMAIN queue : queue[i] = queue[j] => i = j
             OwnHands == \A c, d \in Using : conn[c] = conn[d] => c = d
  <1>a. Apart /\ Once /\ OwnHands
        BY DisjointImages DEF Exclusive, Queued, InUse
  <1>b. SUFFICES Apart' /\ Once' /\ OwnHands'
        BY DisjointImages DEF Exclusive, Queued, InUse
  <1>c. /\ Len(queue) \in Nat
        /\ DOMAIN queue = 1 .. Len(queue)
        BY QueueIndices
  <1>1. CASE Quiet
        BY <1>1, <1>a DEF Quiet
  <1>2. CASE Dropped
    <2>1. PICK k \in 0 .. Len(queue) :
             /\ DOMAIN queue' = 1 .. (Len(queue) - k)
             /\ \A i \in 1 .. (Len(queue) - k) : queue'[i] = queue[i + k]
          BY <1>2 DEF Dropped
    <2>2. \A i \in DOMAIN queue' : i \in Int /\ i + k \in DOMAIN queue
                                   /\ queue'[i] = queue[i + k]
          BY <1>c, <2>1
    <2>3. conn' = conn /\ Using' = Using
          BY <1>2 DEF Dropped
    <2>4. Apart' /\ OwnHands'
          BY <1>a, <2>2, <2>3
    <2>5. ASSUME NEW i \in DOMAIN queue', NEW j \in DOMAIN queue', queue'[i] = queue'[j]
          PROVE  i = j
      <3>1. i + k = j + k
            BY <1>a, <2>2, <2>5
      <3>2. QED
            BY <2>2, <3>1
    <2>6. QED
          BY <2>4, <2>5
  <1>3. CASE Produce
    <2>1. PICK x \in Conns \ Allocated : queue' = Append(queue, x)
          BY <1>3 DEF Produce
    <2>2. /\ DOMAIN queue' = 1 .. (Len(queue) + 1) /\ queue'[Len(queue) + 1] = x
          /\ \A i \in 1 .. Len(queue) : queue'[i] = queue[i]
          BY <2>1, PushBack DEF TypeOK
    <2>3. Using' = Using /\ conn' = conn
          BY <1>3 DEF Produce, ClientsNotified, Using, TypeOK
    <2>4. /\ \A i \in DOMAIN queue : queue[i] # x
          /\ \A c \in Using : conn[c] # x
          BY DEF Allocated, Queued, InUse
    <2>5. QED
          BY <1>a, <1>c, <2>2, <2>3, <2>4
  <1>4. CASE Tick
        BY <1>4, <1>a DEF Tick, Using
  <1>5. ASSUME NEW c \in Clients, GetTake(c) PROVE Apart' /\ Once' /\ OwnHands'
    <2>1. /\ DOMAIN queue' = 1 .. (Len(queue) - 1)
          /\ 1 \in DOMAIN queue
          /\ \A i \in 1 .. (Len(queue) - 1) : queue'[i] = queue[i + 1]
          /\ conn'[c] = queue[1]
          /\ \A d \in Clients \ {c} : conn'[d] = conn[d]
          BY <1>5, PopFront DEF GetTake, Popped, TypeOK
    <2>2. Using' = Using \cup {c} /\ c \notin Using /\ Using \subseteq Clients
          BY <1>5 DEF GetTake, ClientsNotified, Using, TypeOK
    <2>3. \A d \in Using : conn'[d] = conn[d] /\ conn[d] # queue[1]
          BY <1>a, <2>1, <2>2
    <2>4. \A i \in DOMAIN queue' : /\ i \in Int /\ i + 1 \in DOMAIN queue
                                   /\ queue'[i] = queue[i + 1]
          BY <1>c, <2>1
    <2>5. ASSUME NEW i \in DOMAIN queue' PROVE queue'[i] # queue[1]
      <3>1. i + 1 # 1 /\ i + 1 \in DOMAIN queue
            BY <1>c, <2>1, <2>4
      <3>2. QED
            BY <1>a, <2>1, <2>4, <3>1
    <2>6. Apart'
          BY <1>a, <2>1, <2>2, <2>3, <2>4, <2>5
    <2>7. OwnHands'
          BY <1>a, <2>1, <2>2, <2>3
    <2>8. ASSUME NEW i \in DOMAIN queue', NEW j \in DOMAIN queue', queue'[i] = queue'[j]
          PROVE  i = j
      <3>1. i + 1 = j + 1
            BY <1>a, <2>4, <2>8
      <3>2. QED
            BY <2>4, <3>1
    <2>9. QED
          BY <2>6, <2>7, <2>8
  <1>6. ASSUME NEW c \in Clients, Release(c) PROVE Apart' /\ Once' /\ OwnHands'
    <2>1. conn[c] \in Conns
          BY <1>6, ConstantsAssumption DEF Release, TypeOK
    <2>2. /\ DOMAIN queue' = 1 .. (Len(queue) + 1) /\ queue'[Len(queue) + 1] = conn[c]
          /\ \A i \in 1 .. Len(queue) : queue'[i] = queue[i]
          BY <1>6, <2>1, PushBack DEF Release, TypeOK
    <2>3. Using' = Using \ {c} /\ c \in Using
          BY <1>6 DEF Release, Using, TypeOK
    <2>4. \A d \in Using \ {c} : conn'[d] = conn[d] /\ conn[d] # conn[c]
          BY <1>6, <1>a, <2>3 DEF Release, Given, TypeOK, Using
    <2>5. \A i \in DOMAIN queue : queue[i] # conn[c]
          BY <1>a, <2>3
    <2>6. QED
          BY <1>a, <1>c, <2>2, <2>3, <2>4, <2>5
  <1>7. QED
        BY StepKinds, <1>1, <1>2, <1>3, <1>4, <1>5, <1>6

-----------------------------------------------------------------------------
(* A fresh connection that was not in the queue goes to the back: the      *)
(* producer's new one, and the one a client returns.                       *)
LEMMA FreshAtBack ==
  ASSUME TypeOK, OldestFirst, NEW x \in Conns,
         queue' = Append(queue, x), age' = [age EXCEPT ![x] = 0],
         \A i \in DOMAIN queue : queue[i] # x
  PROVE  OldestFirst'
  <1>1. /\ DOMAIN queue' = 1 .. (Len(queue) + 1) /\ queue'[Len(queue) + 1] = x
        /\ \A i \in 1 .. Len(queue) : queue'[i] = queue[i]
        BY PushBack DEF TypeOK
  <1>2. /\ \A i \in DOMAIN queue : age'[queue[i]] = age[queue[i]]
        /\ age'[x] = 0
        BY QueueIndices DEF TypeOK
  <1>3. ASSUME NEW i \in DOMAIN queue', NEW j \in DOMAIN queue', i <= j
        PROVE  age'[queue'[i]] >= age'[queue'[j]]
    <2>1. CASE j = Len(queue) + 1
      <3>1. age'[queue'[j]] = 0
            BY <1>1, <1>2, <2>1
      <3>2. age'[queue'[i]] \in Nat
            BY <1>1, <1>2, QueueIndices
      <3>3. QED
            BY <3>1, <3>2
    <2>2. CASE j # Len(queue) + 1
      <3>1. i \in DOMAIN queue /\ j \in DOMAIN queue
            BY <1>1, <1>3, <2>2, QueueIndices
      <3>2. age[queue[i]] >= age[queue[j]]
            BY <1>3, <3>1 DEF OldestFirst
      <3>3. QED
            BY <1>1, <1>2, <3>1, <3>2, QueueIndices
    <2>3. QED
          BY <2>1, <2>2
  <1>4. QED
        BY <1>3 DEF OldestFirst

(* What leaves the queue leaves it from the front.                         *)
LEMMA OrderBehindFront ==
  ASSUME TypeOK, OldestFirst, NEW k \in Nat,
         DOMAIN queue' = 1 .. (Len(queue) - k),
         \A i \in 1 .. (Len(queue) - k) : queue'[i] = queue[i + k],
         age' = age
  PROVE  OldestFirst'
  <1>1. ASSUME NEW i \in DOMAIN queue', NEW j \in DOMAIN queue', i <= j
        PROVE  age'[queue'[i]] >= age'[queue'[j]]
    <2>1. i + k \in DOMAIN queue /\ j + k \in DOMAIN queue /\ i + k <= j + k
          BY <1>1, QueueIndices
    <2>2. QED
          BY <2>1 DEF OldestFirst
  <1>2. QED
        BY <1>1 DEF OldestFirst

(* The queue stays sorted by idle time.                                    *)
LEMMA OldestFirstStep ==
  TypeOK /\ Exclusive /\ OldestFirst /\ [Next]_vars => OldestFirst'
  <1> SUFFICES ASSUME TypeOK, Exclusive, OldestFirst, [Next]_vars
               PROVE  OldestFirst'
      OBVIOUS
  <1>1. CASE Quiet
        BY <1>1 DEF Quiet, OldestFirst
  <1>2. CASE Dropped
        BY <1>2, OrderBehindFront DEF Dropped
  <1>3. CASE Produce
    <2>1. PICK x \in Conns \ Allocated :
             queue' = Append(queue, x) /\ age' = [age EXCEPT ![x] = 0]
          BY <1>3 DEF Produce
    <2>2. \A i \in DOMAIN queue : queue[i] # x
          BY DEF Allocated, Queued
    <2>3. QED
          BY <2>1, <2>2, FreshAtBack
  <1>4. CASE Tick
    <2>1. ASSUME NEW x \in Conns
          PROVE  /\ age[x] \in Nat /\ MaxIdTime \in Nat /\ age[x] <= MaxIdTime
                 /\ age'[x] = IF age[x] + 1 <= MaxIdTime THEN age[x] + 1 ELSE MaxIdTime
      <3>1. age[x] \in 0 .. MaxIdTime /\ MaxIdTime \in Nat
            BY ConstantsAssumption DEF TypeOK
      <3>2. age[x] \in Nat /\ age[x] <= MaxIdTime /\ age[x] + 1 \in Int /\ MaxIdTime \in Int
            BY <3>1
      <3>3. age'[x] = Min({age[x] + 1, MaxIdTime})
            BY <1>4 DEF Tick
      <3>4. QED
            BY <3>1, <3>2, <3>3, MinOfTwo
    <2>2. ASSUME NEW i \in DOMAIN queue, NEW j \in DOMAIN queue, i <= j
          PROVE  age'[queue[i]] >= age'[queue[j]]
      <3>1. age[queue[i]] >= age[queue[j]] /\ queue[i] \in Conns /\ queue[j] \in Conns
            BY <2>2, QueueIndices DEF OldestFirst
      <3> DEFINE a == age[queue[i]]
                 b == age[queue[j]]
                 a1 == age'[queue[i]]
                 b1 == age'[queue[j]]
      <3>2. /\ a \in Nat /\ b \in Nat /\ a >= b /\ MaxIdTime \in Nat
            /\ a1 = IF a + 1 <= MaxIdTime THEN a + 1 ELSE MaxIdTime
            /\ b1 = IF b + 1 <= MaxIdTime THEN b + 1 ELSE MaxIdTime
            BY <2>1, <3>1
      <3> HIDE DEF a, b, a1, b1
      <3>3. a1 >= b1
            BY <3>2
      <3>4. QED
            BY <3>3 DEF a1, b1
    <2>3. queue' = queue
          BY <1>4 DEF Tick
    <2>4. QED
          BY <2>2, <2>3 DEF OldestFirst
  <1>5. ASSUME NEW c \in Clients, GetTake(c) PROVE OldestFirst'
    <2>1. /\ DOMAIN queue' = 1 .. (Len(queue) - 1)
          /\ \A i \in 1 .. (Len(queue) - 1) : queue'[i] = queue[i + 1]
          /\ age' = age
          BY <1>5, PopFront DEF GetTake, Popped, TypeOK
    <2>2. QED
          BY <2>1, OrderBehindFront
  <1>6. ASSUME NEW c \in Clients, Release(c) PROVE OldestFirst'
    <2>1. conn[c] \in Conns /\ c \in Using
          BY <1>6, ConstantsAssumption DEF Release, TypeOK, Using
    <2>2. \A i \in DOMAIN queue : queue[i] # conn[c]
          BY <2>1, DisjointImages DEF Exclusive, Queued, InUse
    <2>3. QED
          BY <1>6, <2>1, <2>2, FreshAtBack DEF Release, Refreshed
  <1>7. QED
        BY StepKinds, <1>1, <1>2, <1>3, <1>4, <1>5, <1>6

-----------------------------------------------------------------------------
(* A push of the producer finds less than minSize connections queued, and  *)
(* every other step leaves the set of connections as it was or shrinks it. *)
LEMMA TotalBoundedStep ==
  TypeOK /\ TypeOK' /\ TotalBounded /\ [Next]_vars => TotalBounded'
  <1> SUFFICES ASSUME TypeOK, TypeOK', TotalBounded, [Next]_vars PROVE TotalBounded'
      OBVIOUS
  <1>a. /\ Len(queue) \in Nat /\ DOMAIN queue = 1 .. Len(queue)
        /\ MinSize \in Nat /\ Cardinality(Clients) \in Nat
        BY QueueIndices, ConstantsAssumption, FS_CardinalityType
  <1>b. Using \subseteq Clients /\ Using' \subseteq Clients
        BY DEF Using
  <1>c. /\ IsFiniteSet(Allocated) /\ Cardinality(Allocated) \in Nat
        /\ Cardinality(Allocated) <= MinSize + Cardinality(Clients)
    <2>1. Allocated \subseteq Conns
          BY QueueIndices DEF Allocated, Queued, InUse, Using, TypeOK
    <2>2. QED
          BY <2>1, ConstantsAssumption, FS_Subset, FS_CardinalityType DEF TotalBounded
  <1>d. ASSUME Allocated' \subseteq Allocated PROVE TotalBounded'
    <2>1. IsFiniteSet(Allocated') /\ Cardinality(Allocated') <= Cardinality(Allocated)
          BY <1>c, <1>d, FS_Subset
    <2>2. QED
          BY <1>a, <1>c, <2>1, FS_CardinalityType DEF TotalBounded
  <1>1. CASE Quiet
        BY <1>1, <1>d DEF Quiet, Allocated, Queued, InUse
  <1>2. CASE Dropped
    <2>1. PICK k \in 0 .. Len(queue) :
             /\ DOMAIN queue' = 1 .. (Len(queue) - k)
             /\ \A i \in 1 .. (Len(queue) - k) : queue'[i] = queue[i + k]
          BY <1>2 DEF Dropped
    <2>2. \A i \in DOMAIN queue' : i + k \in DOMAIN queue /\ queue'[i] = queue[i + k]
          BY <1>a, <2>1
    <2>3. Queued' \subseteq Queued
          BY <2>2 DEF Queued
    <2>4. InUse' = InUse
          BY <1>2 DEF Dropped, InUse
    <2>5. QED
          BY <1>d, <2>3, <2>4 DEF Allocated
  <1>3. CASE Produce
    <2>1. PICK x \in Conns \ Allocated : queue' = Append(queue, x)
          BY <1>3 DEF Produce
    <2>2. Len(queue') = Len(queue) + 1 /\ Len(queue) + 1 <= MinSize
          BY <1>3, <1>a, <2>1, PushBack DEF TypeOK, Produce, EnoughReady
    <2>3. /\ IsFiniteSet(Queued') /\ Cardinality(Queued') \in Nat
          /\ Cardinality(Queued') <= Len(queue')
          BY ElementsOfQueue DEF Queued, TypeOK
    <2>4. /\ IsFiniteSet(InUse') /\ Cardinality(InUse') \in Nat
          /\ Cardinality(InUse') <= Cardinality(Clients)
      <3>1. IsFiniteSet(Using') /\ Cardinality(Using') <= Cardinality(Clients)
            BY <1>b, ConstantsAssumption, FS_Subset
      <3>2. /\ IsFiniteSet(InUse') /\ Cardinality(InUse') \in Nat
            /\ Cardinality(InUse') <= Cardinality(Using')
            BY <3>1, ImageOfFinite DEF InUse
      <3>3. QED
            BY <1>a, <3>1, <3>2, FS_CardinalityType
    <2>5. /\ Cardinality(Queued' \cup InUse') \in Nat
          /\ Cardinality(Queued' \cup InUse') <= Cardinality(Queued') + Cardinality(InUse')
      <3>1. /\ IsFiniteSet(Queued' \cup InUse') /\ IsFiniteSet(Queued' \cap InUse')
            /\ Cardinality(Queued' \cup InUse')
                 = Cardinality(Queued') + Cardinality(InUse') - Cardinality(Queued' \cap InUse')
            BY <2>3, <2>4, FS_Union, FS_Subset
      <3>2. /\ Cardinality(Queued' \cap InUse') \in Nat
            /\ Cardinality(Queued' \cup InUse') \in Nat
            BY <3>1, FS_CardinalityType
      <3>3. QED
            BY <2>3, <2>4, <3>1, <3>2
    <2>6. QED
          BY <1>a, <2>2, <2>3, <2>4, <2>5 DEF TotalBounded, Allocated
  <1>4. CASE Tick
        BY <1>4, <1>d DEF Tick, Allocated, Queued, InUse, Using
  <1>5. ASSUME NEW c \in Clients, GetTake(c) PROVE TotalBounded'
    <2>1. /\ DOMAIN queue' = 1 .. (Len(queue) - 1)
          /\ 1 \in DOMAIN queue
          /\ \A i \in 1 .. (Len(queue) - 1) : queue'[i] = queue[i + 1]
          /\ conn'[c] = queue[1]
          /\ \A d \in Clients \ {c} : conn'[d] = conn[d]
          BY <1>5, PopFront DEF GetTake, Popped, TypeOK
    <2>2. Using' = Using \cup {c} /\ c \notin Using
          BY <1>5 DEF GetTake, ClientsNotified, Using, TypeOK
    <2>3. \A i \in DOMAIN queue' : i + 1 \in DOMAIN queue /\ queue'[i] = queue[i + 1]
          BY <1>a, <2>1
    <2>4. Queued' \subseteq Queued
          BY <2>3 DEF Queued
    <2>5. \A d \in Using' : conn'[d] \in Allocated
          BY <1>b, <2>1, <2>2 DEF Allocated, Queued, InUse
    <2>6. QED
          BY <1>d, <2>4, <2>5 DEF Allocated, InUse
  <1>6. ASSUME NEW c \in Clients, Release(c) PROVE TotalBounded'
    <2>1. conn[c] \in Conns
          BY <1>6, ConstantsAssumption DEF Release, TypeOK
    <2>2. /\ DOMAIN queue' = 1 .. (Len(queue) + 1) /\ queue'[Len(queue) + 1] = conn[c]
          /\ \A i \in 1 .. Len(queue) : queue'[i] = queue[i]
          BY <1>6, <2>1, PushBack DEF Release, TypeOK
    <2>3. /\ Using' \subseteq Using /\ c \in Using
          /\ \A d \in Using' : conn'[d] = conn[d]
          BY <1>6 DEF Release, Given, Using, TypeOK
    <2>4. \A i \in DOMAIN queue' : queue'[i] \in Allocated
          BY <1>a, <2>2, <2>3 DEF Allocated, Queued, InUse
    <2>5. InUse' \subseteq InUse
          BY <2>3 DEF InUse
    <2>6. QED
          BY <1>d, <2>4, <2>5 DEF Allocated, Queued
  <1>7. QED
        BY StepKinds, <1>1, <1>2, <1>3, <1>4, <1>5, <1>6

-----------------------------------------------------------------------------
(* The constructor has queued minSize different connections, none in use.  *)
LEMMA SoundInit == Init => QueueSound
  <1> SUFFICES ASSUME Init PROVE QueueSound
      OBVIOUS
  <1>1. TypeOK
        BY TypeInit
  <1>2. Using = {} /\ InUse = {}
        BY DEF Init, Using, InUse
  <1>3. /\ DOMAIN queue = 1 .. MinSize
        /\ \A i, j \in DOMAIN queue : queue[i] = queue[j] => i = j
        /\ \A x \in Conns : age[x] = 0
        BY DEF Init
  <1>4. Exclusive
        BY <1>2, <1>3 DEF Exclusive
  <1>5. OldestFirst
        BY <1>1, <1>3, QueueIndices DEF OldestFirst
  <1>6. TotalBounded
    <2>1. /\ Len(queue) = MinSize /\ MinSize \in Nat /\ Cardinality(Clients) \in Nat
          BY <1>1, <1>3, QueueIndices, ConstantsAssumption, FS_CardinalityType DEF Init
    <2>2. Cardinality(Queued) \in Nat /\ Cardinality(Queued) <= Len(queue)
          BY <1>1, ElementsOfQueue DEF Queued, TypeOK
    <2>3. Allocated = Queued
          BY <1>2 DEF Allocated
    <2>4. QED
          BY <2>1, <2>2, <2>3 DEF TotalBounded
  <1>7. QED
        BY <1>1, <1>4, <1>5, <1>6 DEF QueueSound

(* No two threads ever hold or can be given the same connection, the       *)
(* recycler may trust the front of the queue, and the pool holds no more   *)
(* than minSize connections and one for each client.                       *)
THEOREM QueueIsSound == Spec => []QueueSound
  <1>1. QueueSound /\ [Next]_vars => QueueSound'
    <2> SUFFICES ASSUME QueueSound, [Next]_vars PROVE QueueSound'
        OBVIOUS
    <2>1. TypeOK /\ Exclusive /\ OldestFirst /\ TotalBounded
          BY DEF QueueSound
    <2>2. TypeOK'
          BY <2>1, TypeStep
    <2>3. QED
          BY <2>1, <2>2, ExclusiveStep, OldestFirstStep, TotalBoundedStep DEF QueueSound
  <1>2. QED
        BY <1>1, SoundInit, PTL DEF Spec

-----------------------------------------------------------------------------
(* Who may leave the queue short of minSize connections wakes the producer *)
(* (getConnection), never happens while the pool lives (the destructor) or *)
(* stops at minSize (the recycler).                                        *)
LEMMA ProducerSleepsStep ==
  TypeOK /\ ProducerSleepsOnlyWhenReady /\ [Next]_vars
    => ProducerSleepsOnlyWhenReady'
  <1> SUFFICES ASSUME TypeOK, ProducerSleepsOnlyWhenReady, [Next]_vars
               PROVE  ProducerSleepsOnlyWhenReady'
      OBVIOUS
  <1> USE DEF ProducerSleepsOnlyWhenReady
  <1>1. CASE ProducerWait
        BY <1>1 DEF ProducerWait, EnoughReady
  <1>2. CASE Produce
        BY <1>2 DEF Produce
  <1>3. CASE ProducerSpurious
        BY <1>3 DEF ProducerSpurious
  <1>4. CASE Recycle
    <2>1. /\ RecycleCount \in 0 .. Len(queue)
          /\ Len(queue) - RecycleCount >= MinSize
          BY <1>4, RecycleCountBounds DEF Recycle
    <2>2. Len(queue') = Len(queue) - RecycleCount
          BY <1>4, <2>1, DropFront DEF Recycle, TypeOK
    <2>3. QED
          BY <2>1, <2>2
  <1>5. ASSUME NEW c \in Clients, GetStart(c) \/ GetWait(c) \/ GetTimeout(c)
        PROVE  ProducerSleepsOnlyWhenReady'
        BY <1>5 DEF GetStart, GetWait, GetTimeout
  <1>6. ASSUME NEW c \in Clients, GetTake(c) PROVE ProducerSleepsOnlyWhenReady'
        BY <1>6 DEF GetTake, AfterGet, ProducerNotified
  <1>7. ASSUME NEW c \in Clients, Release(c) PROVE ProducerSleepsOnlyWhenReady'
    <2>1. conn[c] \in Conns
          BY <1>7, ConstantsAssumption DEF Release, TypeOK
    <2>2. Len(queue') = Len(queue) + 1 /\ Len(queue) \in Nat
          BY <1>7, <2>1, PushBack DEF Release, TypeOK
    <2>3. QED
          BY <1>7, <2>2, ConstantsAssumption DEF Release
  <1>8. CASE DtorStart \/ DtorPop \/ DtorEnd
        BY <1>8 DEF DtorStart, DtorPop, DtorEnd
  <1>9. CASE Tick \/ UNCHANGED vars
        BY <1>9 DEF Tick, vars
  <1>10. QED
        BY NextCases, <1>1, <1>2, <1>3, <1>4, <1>5, <1>6, <1>7, <1>8, <1>9

(* The producer sleeps only while minSize connections are ready.           *)
THEOREM ProducerNeverOversleeps == Spec => []ProducerSleepsOnlyWhenReady
  <1>1. Init => ProducerSleepsOnlyWhenReady
        BY DEF Init, ProducerSleepsOnlyWhenReady
  <1>2. QED
        BY <1>1, ProducerSleepsStep, TypeInit, TypeStep, PTL DEF Spec
=============================================================================
