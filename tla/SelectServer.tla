---------------------------- MODULE SelectServer ----------------------------
(***************************************************************************)
(* select/server.c: main waits in select and starts a detached thread for  *)
(* each ready descriptor, selectConn for the listening one and selectRead  *)
(* for the others.  They share rdset under a mutex and maxfd without one.  *)
(* Both kinds of thread are given the listening descriptor, so that        *)
(* selectRead reads from a socket that is not connected and fails.         *)
(***************************************************************************)
EXTENDS Integers, Functions, FiniteSets

CONSTANTS Peers,       \* clients, each connects once
          Threads,     \* selectConn threads that can exist at a time
          MaxReaders   \* and selectRead threads

VARIABLES
    queue,     \* peers that wait in the listen queue
    fdNum,     \* fdNum[p]: the descriptor that accept gave to p, or 0
    data,      \* peers whose data nobody has read
    rdset, maxfd,      \* shared with the threads
    rdtemp, nfds, main,\* the copy select works on, its first argument, where main is
    job,       \* job[t]: [pc, fd, max] of a selectConn thread
    readers,   \* selectRead threads that run
    lost       \* a thread has put back a maxfd that another had raised

mainVars == <<rdtemp, nfds, main>>
selectVars == <<queue, fdNum, data, rdset, maxfd, rdtemp, nfds, main, job, readers, lost>>

lfd == 3
FdNums == (lfd + 1) .. (lfd + Cardinality(Peers))
Idle == [pc |-> "none", fd |-> 0, max |-> 0]
NewFd == CHOOSE f \in FdNums \ Range(fdNum) : \A g \in FdNums \ Range(fdNum) : f <= g
Readable(f) == IF f = lfd THEN queue # {} ELSE \E p \in data : fdNum[p] = f

SelectInit ==
    /\ queue = {} /\ data = {} /\ fdNum = [p \in Peers |-> 0]
    /\ rdset = {lfd} /\ maxfd = lfd
    /\ rdtemp = {} /\ nfds = lfd /\ main = "copy"
    /\ job = [t \in Threads |-> Idle] /\ readers = 0
    /\ lost = FALSE

\* A client connects, and writes.
PeerConnects(p) ==
    /\ p \notin queue /\ fdNum[p] = 0
    /\ queue' = queue \cup {p}
    /\ UNCHANGED <<fdNum, data, rdset, maxfd, rdtemp, nfds, main, job, readers, lost>>

PeerWrites(p) ==
    /\ fdNum[p] # 0 /\ p \notin data
    /\ data' = data \cup {p}
    /\ UNCHANGED <<queue, fdNum, rdset, maxfd, rdtemp, nfds, main, job, readers, lost>>

\* select works on a copy, which it overwrites.
MainCopies ==
    /\ main = "copy"
    /\ rdtemp' = rdset /\ nfds' = maxfd
    /\ main' = "select"
    /\ UNCHANGED <<queue, fdNum, data, rdset, maxfd, job, readers, lost>>

SelectReturns ==
    /\ main = "select"
    /\ rdtemp' = {f \in rdtemp : f <= nfds /\ Readable(f)}
    /\ rdtemp' # {}
    /\ main' = "spawn"
    /\ UNCHANGED <<queue, fdNum, data, rdset, maxfd, nfds, job, readers, lost>>

\* A thread per ready descriptor.  If none can be created nobody notices.
Spawn ==
    /\ main = "spawn"
    /\ \E f \in rdtemp :
          /\ rdtemp' = rdtemp \ {f}
          /\ LET free == {t \in Threads : job[t] = Idle}
             IN  IF f = lfd /\ free # {}
                 THEN \E t \in free : job' = [job EXCEPT ![t] = [Idle EXCEPT !.pc = "accept"]]
                 ELSE job' = job
          /\ readers' = IF f # lfd /\ f <= maxfd /\ readers < MaxReaders THEN readers + 1 ELSE readers
    /\ UNCHANGED <<queue, fdNum, data, rdset, maxfd, nfds, main, lost>>

SpawnEnds ==
    /\ main = "spawn" /\ rdtemp = {}
    /\ main' = "copy"
    /\ UNCHANGED <<queue, fdNum, data, rdset, maxfd, rdtemp, nfds, job, readers, lost>>

\* selectConn.  main may have seen the same pending connection several times,
\* so that accept may wait for the next one.
ConnAccepts(t) ==
    /\ job[t].pc = "accept"
    /\ \E p \in queue :
          /\ queue' = queue \ {p}
          /\ fdNum' = [fdNum EXCEPT ![p] = NewFd]
    /\ job' = [job EXCEPT ![t].pc = "set", ![t].fd = NewFd]
    /\ UNCHANGED <<data, rdset, maxfd, rdtemp, nfds, main, readers, lost>>

ConnSets(t) ==
    /\ job[t].pc = "set"
    /\ rdset' = rdset \cup {job[t].fd}
    /\ job' = [job EXCEPT ![t].pc = "max"]
    /\ UNCHANGED <<queue, fdNum, data, maxfd, rdtemp, nfds, main, readers, lost>>

\* maxfd is read and written without the mutex.
ConnReadsMax(t) ==
    /\ job[t].pc = "max"
    /\ job' = [job EXCEPT ![t].pc = "store", ![t].max = IF job[t].fd > maxfd THEN job[t].fd ELSE maxfd]
    /\ UNCHANGED <<queue, fdNum, data, rdset, maxfd, rdtemp, nfds, main, readers, lost>>

ConnStoresMax(t) ==
    /\ job[t].pc = "store"
    /\ maxfd' = job[t].max
    /\ lost' = (lost \/ job[t].max < maxfd)
    /\ job' = [job EXCEPT ![t] = Idle]
    /\ UNCHANGED <<queue, fdNum, data, rdset, rdtemp, nfds, main, readers>>

\* read(lfd) returns -1, a message is printed, and nothing is removed.
selectRead ==
    /\ readers > 0
    /\ readers' = readers - 1
    /\ UNCHANGED <<queue, fdNum, data, rdset, maxfd, mainVars, job, lost>>

MainStep == MainCopies \/ SelectReturns \/ Spawn \/ SpawnEnds
ThreadStep(t) == ConnAccepts(t) \/ ConnSets(t) \/ ConnReadsMax(t) \/ ConnStoresMax(t)

SelectNext ==
    \/ MainStep \/ selectRead
    \/ \E t \in Threads : ThreadStep(t)
    \/ \E p \in Peers : PeerConnects(p) \/ PeerWrites(p)

-----------------------------------------------------------------------------
\* Liveness.  Every client gets its connection and a place in the part of the
\* read set that select looks at, unless a thread overwrites the maxfd of
\* another, although main starts threads for connections that another thread
\* has already taken, and although all threads may be busy.
AllAccepted ==
    \A p \in Peers :
        p \in queue ~> (fdNum[p] # 0 /\ fdNum[p] \in rdset /\ (fdNum[p] <= maxfd \/ lost))

=============================================================================
