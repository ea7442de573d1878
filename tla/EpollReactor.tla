---------------------------- MODULE EpollReactor -----------------------------
(***************************************************************************)
(* The callback-driven echo server of epoll/main.c: a table g_events of    *)
(* MAX_EVENTS connections, each in turn monitored for input (recvdata) and *)
(* for output (senddata), an acceptor, and a scan that closes connections  *)
(* that were silent too long.                                              *)
(*                                                                         *)
(* The server is one thread: a callback, one scan of the table and one     *)
(* epoll_wait are actions, and between any two of them the clients and the *)
(* clock move.  A file descriptor is named by the client it belongs to.    *)
(* Bytes are counted; a message of BUFLEN bytes is one that fills ev->buf. *)
(* The listening socket's entry g_events[MAX_EVENTS] is Listen.            *)
(***************************************************************************)
EXTENDS Integers, FiniteSets, FiniteSetsExt

CONSTANTS MAX_EVENTS,  \* size of the connection table
          BUFLEN,      \* size of ev->buf
          ScanLen,     \* entries tested per iteration (100 in the code)
          Timeout,     \* idle limit (60 seconds in the code)
          FdLimits,    \* the descriptors the process may have for connections
          Clients, NoFd,
          Talkers,     \* bound: the clients that send at all
          MaxSend      \* bound: bytes a client sends in its life

ASSUME ConstantsAssumption ==
  /\ MAX_EVENTS \in Nat \ {0}
  /\ BUFLEN \in 1 .. 255
  /\ ScanLen \in 1 .. MAX_EVENTS
  /\ Timeout \in Nat \ {0}
  /\ FdLimits \subseteq Nat \ {0}
  /\ NoFd \notin Clients /\ Talkers \subseteq Clients
  /\ MaxSend \in Nat

Slots == 0 .. MAX_EVENTS - 1
Listen == MAX_EVENTS

VARIABLES
  g_events,  \* the table
  loop,      \* where the main loop is
  batch,     \* events returned by epoll_wait and not yet dispatched
  checkpos,  \* next entry to test for a timeout
  sock,      \* the server's end of each client's connection
  peer,      \* the client's end
  sent, received, echoed,  \* bytes, per client
  nofile     \* the limit of descriptors that the process was started with

clientVars == <<peer, sent, nofile>>
vars == <<g_events, loop, batch, checkpos, sock, clientVars, received, echoed>>

Event == [fd : Clients \cup {NoFd}, status : 0 .. 1, call_back : {"recv", "send"},
          len : 0 .. BUFLEN, idle : 0 .. Timeout]

TypeOK ==
  /\ g_events \in [Slots -> Event]
  /\ loop \in {"scan", "wait", "dispatch", "killed"}
  /\ nofile \in FdLimits
  /\ batch \in SUBSET (Slots \cup {Listen})
  /\ checkpos \in 0 .. MAX_EVENTS
  /\ sock \in [Clients -> {"none", "pending", "open", "closed"}]
  /\ peer \in [Clients -> {"open", "closed"}]
  /\ \A c \in Clients : echoed[c] <= received[c] /\ received[c] <= sent[c]
                        /\ sent[c] \in 0 .. MaxSend /\ echoed[c] \in Nat
                        /\ received[c] \in Nat

Monitored == {i \in Slots : g_events[i].status = 1}
Unread(c) == sent[c] - received[c]

-----------------------------------------------------------------------------
(* An entry that is not monitored.  Static storage is zero, and eventdel   *)
(* clears status; the other members are set again before they are read     *)
(* (BatchIsLive), so the model forgets them.                               *)
Disarmed == [fd |-> NoFd, status |-> 0, call_back |-> "recv", len |-> 0, idle |-> 0]

(* initlistensocket has registered the listener.                           *)
Init ==
  /\ g_events = [i \in Slots |-> Disarmed]
  /\ loop = "scan" /\ batch = {} /\ checkpos = 0
  /\ sock = [c \in Clients |-> "none"]
  /\ peer = [c \in Clients |-> "open"]
  /\ sent = [c \in Clients |-> 0]
  /\ received = [c \in Clients |-> 0]
  /\ echoed = [c \in Clients |-> 0]
  /\ nofile \in FdLimits

(* eventset followed by eventadd.                                          *)
Armed(ev, fd, cb) ==
  [ev EXCEPT !.fd = fd, !.call_back = cb, !.status = 1, !.idle = 0]

Closed(c) == [sock EXCEPT ![c] = "closed"]

-----------------------------------------------------------------------------
(* The timeout scan at the top of the loop.                                *)
ScanWindow == {(checkpos + k) % MAX_EVENTS : k \in 0 .. ScanLen - 1}
Mut_NextCheck == 0
NextCheck == ((checkpos + ScanLen - 1) % MAX_EVENTS) + 1
TimedOut == {i \in ScanWindow \cap Monitored : g_events[i].idle >= Timeout}

Scan ==
  /\ loop = "scan"
  /\ g_events' = [i \in Slots |-> IF i \in TimedOut THEN Disarmed
                                  ELSE g_events[i]]
  /\ sock' = [c \in Clients |-> IF \E i \in TimedOut : g_events[i].fd = c
                                THEN "closed" ELSE sock[c]]
  /\ checkpos' = NextCheck
  /\ loop' = "wait"
  /\ UNCHANGED <<batch, clientVars, received, echoed>>

(* epoll_wait, level triggered: everything that is ready is reported; with *)
(* nothing ready it times out after a second.                              *)
Readable(c) == Unread(c) > 0 \/ peer[c] = "closed"
ReadySlots ==
  {i \in Monitored : g_events[i].call_back = "send" \/ Readable(g_events[i].fd)}
Waiting == {c \in Clients : sock[c] = "pending"}

(* initlistensocket leaves the listener monitored for input for ever.      *)
ListenReady == IF Waiting = {} THEN {} ELSE {Listen}

EpollWait ==
  /\ loop = "wait"
  /\ batch' = ReadySlots \cup ListenReady
  /\ loop' = "dispatch"
  /\ UNCHANGED <<g_events, checkpos, sock, clientVars, received, echoed>>

DispatchEnds ==
  /\ loop = "dispatch"
  /\ batch = {}
  /\ loop' = "scan"
  /\ UNCHANGED <<g_events, batch, checkpos, sock, clientVars, received, echoed>>

Dispatch(i) ==
  /\ loop = "dispatch"
  /\ i \in batch
  /\ batch' = batch \ {i}
  /\ UNCHANGED <<loop, checkpos, clientVars>>

-----------------------------------------------------------------------------
(* acceptconn: the first entry that is not monitored is used.              *)
FreeSlots == Slots \ Monitored
OutOfFds == Cardinality({c \in Clients : sock[c] = "open"}) >= nofile

AcceptConn(c) ==
  /\ Dispatch(Listen)
  /\ sock[c] = "pending" /\ ~ OutOfFds
  /\ FreeSlots # {}
  /\ sock' = [sock EXCEPT ![c] = "open"]
  /\ g_events' = [g_events EXCEPT ![Min(FreeSlots)] = Armed(@, c, "recv")]
  /\ UNCHANGED <<received, echoed>>

(* With the table full the accepted descriptor is neither stored nor       *)
(* closed.                                                                 *)
AcceptLimit(c) ==
  /\ Dispatch(Listen)
  /\ sock[c] = "pending" /\ ~ OutOfFds
  /\ FreeSlots = {}
  /\ sock' = [sock EXCEPT ![c] = "open"]
  /\ UNCHANGED <<g_events, received, echoed>>

(* accept fails with no descriptor left.  The connection stays in the      *)
(* queue, and the listener, level triggered, is reported again.            *)
AcceptFails ==
  /\ Dispatch(Listen)
  /\ OutOfFds
  /\ UNCHANGED <<g_events, sock, received, echoed>>

(* ev->len = len; ev->buf[len] = '\0': with a full buffer the terminator   *)
(* falls on the lowest byte of ev->len, the next member of the structure,  *)
(* and that byte is all of len while BUFLEN < 256.                         *)
LenAfterTerminator(len) == IF len = BUFLEN THEN 0 ELSE len

RecvData(i) ==
  LET c == g_events[i].fd
      len == Min({Unread(c), BUFLEN})
  IN  /\ Dispatch(i)
      /\ g_events[i].call_back = "recv"
      /\ Unread(c) > 0
      /\ received' = [received EXCEPT ![c] = @ + len]
      /\ g_events' = [g_events EXCEPT ![i] =
                        [Armed(@, c, "send") EXCEPT !.len = LenAfterTerminator(len)]]
      /\ UNCHANGED <<sock, echoed>>

(* recv returns 0 at the end of the stream, or fails after a reset.        *)
RecvCloses(i) ==
  /\ Dispatch(i)
  /\ g_events[i].call_back = "recv"
  /\ peer[g_events[i].fd] = "closed"
  /\ g_events' = [g_events EXCEPT ![i] = Disarmed]
  /\ sock' = Closed(g_events[i].fd)
  /\ UNCHANGED <<received, echoed>>

Mut_Echoed(i) == echoed
Echoed(i) == [echoed EXCEPT ![g_events[i].fd] = @ + g_events[i].len]

(* EPOLLOUT is reported only while there is room for far more than BUFLEN  *)
(* bytes, so a send that does not fail is complete.                        *)
SendData(i) ==
  /\ Dispatch(i)
  /\ g_events[i].call_back = "send"
  /\ g_events[i].len > 0
  /\ echoed' = Echoed(i)
  /\ g_events' = [g_events EXCEPT ![i] = Armed(@, g_events[i].fd, "recv")]
  /\ UNCHANGED <<sock, received>>

(* send returns 0 for an empty message, or fails after a reset.            *)
SendCloses(i) ==
  /\ Dispatch(i)
  /\ g_events[i].call_back = "send"
  /\ g_events[i].len = 0 \/ peer[g_events[i].fd] = "closed"
  /\ g_events' = [g_events EXCEPT ![i] = Disarmed]
  /\ sock' = Closed(g_events[i].fd)
  /\ UNCHANGED <<received, echoed>>

(* An echo that reaches a client after its close is answered by a reset,   *)
(* and the next send raises SIGPIPE, which is neither ignored nor masked   *)
(* by MSG_NOSIGNAL: the process ends.                                      *)
SendKills(i) ==
  /\ loop = "dispatch"
  /\ i \in batch
  /\ g_events[i].call_back = "send"
  /\ g_events[i].len > 0
  /\ peer[g_events[i].fd] = "closed"
  /\ echoed[g_events[i].fd] > 0
  /\ loop' = "killed"
  /\ batch' = {}
  /\ UNCHANGED <<g_events, checkpos, sock, clientVars, received, echoed>>

-----------------------------------------------------------------------------
serverVars == <<g_events, loop, batch, checkpos, received, echoed>>

Connect(c) ==
  /\ sock[c] = "none"
  /\ loop # "killed"
  /\ sock' = [sock EXCEPT ![c] = "pending"]
  /\ UNCHANGED <<serverVars, clientVars>>

ClientSend(c) ==
  /\ c \in Talkers
  /\ sock[c] \in {"pending", "open"}
  /\ peer[c] = "open"
  /\ \E n \in 1 .. MaxSend - sent[c] : sent' = [sent EXCEPT ![c] = @ + n]
  /\ UNCHANGED <<serverVars, sock, peer, nofile>>

ClientClose(c) ==
  /\ sock[c] \in {"pending", "open"}
  /\ peer[c] = "open"
  /\ peer' = [peer EXCEPT ![c] = "closed"]
  /\ UNCHANGED <<serverVars, sock, sent, nofile>>

(* The clock: every monitored entry that is not at the limit ages.         *)
Tick ==
  /\ g_events' = [i \in Slots |->
                    [g_events[i] EXCEPT !.idle = Min({@ + g_events[i].status, Timeout})]]
  /\ UNCHANGED <<loop, batch, checkpos, sock, clientVars, received, echoed>>

-----------------------------------------------------------------------------
ServerStep ==
  \/ Scan \/ EpollWait \/ DispatchEnds \/ AcceptFails
  \/ \E c \in Clients : AcceptConn(c) \/ AcceptLimit(c)
  \/ \E i \in Slots : \/ RecvData(i) \/ RecvCloses(i)
                       \/ SendData(i) \/ SendCloses(i) \/ SendKills(i)

Next ==
  \/ ServerStep
  \/ \E c \in Clients : Connect(c) \/ ClientSend(c) \/ ClientClose(c)
  \/ Tick

Spec == Init /\ [][Next]_vars

(* The server runs and the clock advances; clients owe nothing.            *)
FairSpec == Spec /\ WF_vars(ServerStep) /\ WF_vars(Tick)

-----------------------------------------------------------------------------
(* A monitored entry belongs to an open connection, and no connection is   *)
(* in two entries: closing always goes with eventdel, so a descriptor that *)
(* is reused is never served through an old entry.                         *)
EntriesAreOpen ==
  /\ \A i \in Monitored : sock[g_events[i].fd] = "open"
  /\ \A i, j \in Monitored : g_events[i].fd = g_events[j].fd => i = j

(* An event still to be dispatched is for an entry that is monitored and   *)
(* ready: no callback earlier in the same batch has closed or reused it.   *)
BatchIsLive == batch \ {Listen} \subseteq ReadySlots

(* The table is sound: no entry and no event outlives its connection.      *)
TableSound == TypeOK /\ EntriesAreOpen /\ BatchIsLive

(* What was received is sent back: while an entry waits for output its len *)
(* is all that was received and not yet echoed, and while it waits for     *)
(* input nothing is outstanding.  What is lost is the message that fills   *)
(* ev->buf, all of it: its terminator has cleared len.  The table stays    *)
(* sound meanwhile, and the process ends only when a client has left with  *)
(* an echo behind it and an echo to come.                                  *)
EchoPending ==
  /\ TableSound
  /\ \A i \in Monitored :
       LET c == g_events[i].fd
       IN  received[c] - echoed[c] =
             CASE g_events[i].call_back = "recv" -> 0
               [] g_events[i].call_back = "send" ->
                    IF g_events[i].len = 0 THEN BUFLEN ELSE g_events[i].len
  /\ loop = "killed" =>
       \E c \in Clients : peer[c] = "closed" /\ 0 < echoed[c] /\ echoed[c] < received[c]

(* A connection in the table whose client stays silent is closed: by the   *)
(* client, by an error or by the timeout scan, which reaches every entry.  *)
(* (Clients send at most MaxSend bytes, so each is silent some time.  A    *)
(* descriptor accepted with the table full is in no entry and stays open.) *)
InTable(c) == \E i \in Monitored : g_events[i].fd = c
SilentIsClosed ==
  \A c \in Clients : InTable(c) ~> sock[c] = "closed" \/ loop = "killed"

(* Everyone in the accept queue is accepted, also when descriptors are     *)
(* short: those that the full table leaks never take all of them.          *)
EveryoneIsAccepted ==
  \A c \in Clients : sock[c] = "pending" ~> sock[c] # "pending" \/ loop = "killed"

(* Liveness.  While the process lives no client is forgotten, neither in   *)
(* the accept queue nor, if it falls silent, in the table.                 *)
NobodyIsForgotten == EveryoneIsAccepted /\ SilentIsClosed
=============================================================================
