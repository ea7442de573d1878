------------------------- MODULE EpollReactorProofs --------------------------
(***************************************************************************)
(* TLAPS proofs about the callback echo server, for any size of the table, *)
(* of the buffer and of the scan, and any number of clients; and about the *)
(* three servers of the socket examples, for any clients and lines.        *)
(*                                                                         *)
(* The table is sound whatever the clients send and whenever they leave,   *)
(* and what is not sent back is a message that fills ev->buf: its          *)
(* terminator falls on ev->len.                                            *)
(***************************************************************************)
EXTENDS SocketServers, EpollReactor, ProofLemmas

Counters ==
  /\ sent \in [Clients -> 0 .. MaxSend]
  /\ received \in [Clients -> Nat] /\ echoed \in [Clients -> Nat]
  /\ \A c \in Clients : echoed[c] <= received[c] /\ received[c] <= sent[c]

Types ==
  /\ g_events \in [Slots -> Event]
  /\ loop \in {"scan", "wait", "dispatch", "killed"}
  /\ nofile \in FdLimits
  /\ batch \in SUBSET (Slots \cup {Listen})
  /\ checkpos \in 0 .. MAX_EVENTS
  /\ sock \in [Clients -> {"none", "pending", "open", "closed"}]
  /\ peer \in [Clients -> {"open", "closed"}]
  /\ Counters

(* A monitored entry has the descriptor of an open connection of its own.  *)
EntriesOwned ==
  /\ \A i \in Slots : g_events[i].status = 1 =>
       g_events[i].fd \in Clients /\ sock[g_events[i].fd] = "open"
  /\ \A i, j \in Slots :
       g_events[i].status = 1 /\ g_events[j].status = 1 /\ g_events[i].fd = g_events[j].fd => i = j

(* Nothing is received on a connection that is not accepted.               *)
FreshIsEmpty ==
  \A c \in Clients : sock[c] \in {"none", "pending"} => received[c] = 0 /\ echoed[c] = 0

(* What is outstanding on the connection c of an entry ev: nothing while   *)
(* it waits for input, and its len while it waits for output, or BUFLEN if *)
(* the terminator has cleared that.                                        *)
Outstanding(ev, c) ==
  LET n == received[c] - echoed[c]
  IN  /\ ev.call_back = "recv" => n = 0
      /\ ev.call_back = "send" => n = IF ev.len = 0 THEN BUFLEN ELSE ev.len

Counted == \A i \in Slots : g_events[i].status = 1 => Outstanding(g_events[i], g_events[i].fd)

(* An event still to be dispatched is for a monitored and ready entry, and *)
(* there is none outside the dispatch loop.                                *)
Ready(i) ==
  /\ g_events[i].status = 1
  /\ g_events[i].call_back = "send" \/ Readable(g_events[i].fd)
Live ==
  /\ \A i \in Slots : i \in batch => Ready(i)
  /\ loop # "dispatch" => batch = {}

TableInv == Types /\ EntriesOwned /\ FreshIsEmpty /\ Counted /\ Live

(* What has ended the process: a client that left with an echo to come.    *)
KilledByEcho ==
  loop = "killed" =>
    \E c \in Clients : peer[c] = "closed" /\ 0 < echoed[c] /\ echoed[c] < received[c]

IInv == TableInv /\ KilledByEcho

LEMMA DisarmedIs ==
  Disarmed \in Event /\ Disarmed.status = 0
  BY ConstantsAssumption DEF Disarmed, Event

LEMMA ListenIsNoSlot == Listen \notin Slots
  BY ConstantsAssumption DEF Listen, Slots

LEMMA ArmedIs ==
  ASSUME NEW ev \in Event, NEW fd \in Clients, NEW cb \in {"recv", "send"}
  PROVE  /\ Armed(ev, fd, cb) = [fd |-> fd, status |-> 1, call_back |-> cb, len |-> ev.len, idle |-> 0]
         /\ Armed(ev, fd, cb) \in Event
  <1>1. ev = [fd |-> ev.fd, status |-> ev.status, call_back |-> ev.call_back, len |-> ev.len, idle |-> ev.idle]
        BY DEF Event
  <1> DEFINE e1 == [ev EXCEPT !.fd = fd]
             e2 == [e1 EXCEPT !.call_back = cb]
             e3 == [e2 EXCEPT !.status = 1]
             e4 == [e3 EXCEPT !.idle = 0]
  <1>2. e1 = [fd |-> fd, status |-> ev.status, call_back |-> ev.call_back, len |-> ev.len, idle |-> ev.idle]
        BY <1>1
  <1> HIDE DEF e1
  <1>3. e2 = [fd |-> fd, status |-> ev.status, call_back |-> cb, len |-> ev.len, idle |-> ev.idle]
        BY <1>2
  <1> HIDE DEF e2
  <1>4. e3 = [fd |-> fd, status |-> 1, call_back |-> cb, len |-> ev.len, idle |-> ev.idle]
        BY <1>3
  <1> HIDE DEF e3
  <1>5. e4 = [fd |-> fd, status |-> 1, call_back |-> cb, len |-> ev.len, idle |-> 0]
        BY <1>4
  <1>6. e4 = Armed(ev, fd, cb)
        BY DEF Armed, e1, e2, e3
  <1> HIDE DEF e4
  <1>7. ev.len \in 0 .. BUFLEN
        BY DEF Event
  <1>8. QED
        BY <1>5, <1>6, <1>7, ConstantsAssumption DEF Event

LEMMA InvInitially == Init => TableInv
  <1>1. SUFFICES ASSUME Init PROVE TableInv
        OBVIOUS
  <1>2. \A i \in Slots : g_events[i] = Disarmed
        BY <1>1 DEF Init
  <1>3. Types
        BY <1>1, DisarmedIs, ConstantsAssumption DEF Init, Types, Counters
  <1>4. \A i \in Slots : g_events[i].status # 1
        BY <1>2, DisarmedIs
  <1>5. QED
        BY <1>1, <1>3, <1>4 DEF Init, TableInv, EntriesOwned, FreshIsEmpty, Counted, Live

-----------------------------------------------------------------------------
(* A callback that keeps its connection: the entry i is armed again, and   *)
(* only the counters of its own connection have changed.                   *)
LEMMA RearmKeeps ==
  ASSUME TableInv, NEW i \in Slots, g_events[i].status = 1,
         NEW ev \in Event, ev.fd = g_events[i].fd, ev.status = 1,
         g_events' = [g_events EXCEPT ![i] = ev],
         batch' = batch \ {i}, loop' = loop, checkpos' = checkpos,
         sock' = sock, peer' = peer, sent' = sent, nofile' = nofile,
         NEW r \in Nat, NEW e \in Nat, e <= r, r <= sent[ev.fd],
         received' = [received EXCEPT ![ev.fd] = r],
         echoed' = [echoed EXCEPT ![ev.fd] = e],
         ev.call_back = "recv" => r = e,
         ev.call_back = "send" => r - e = IF ev.len = 0 THEN BUFLEN ELSE ev.len
  PROVE  TableInv'
  <1> DEFINE c == ev.fd
  <1>1. c \in Clients /\ sock[c] = "open"
        BY DEF TableInv, EntriesOwned
  <1>2. /\ g_events'[i] = ev
        /\ \A j \in Slots \ {i} : g_events'[j] = g_events[j]
        BY DEF TableInv, Types
  <1>3. /\ received'[c] = r /\ echoed'[c] = e
        /\ \A d \in Clients \ {c} : received'[d] = received[d] /\ echoed'[d] = echoed[d]
        BY <1>1 DEF TableInv, Types, Counters
  <1>4. \A j \in Slots \ {i} : g_events[j].status = 1 => g_events[j].fd \in Clients \ {c}
        BY DEF TableInv, EntriesOwned
  <1> HIDE DEF c
  <1>5. Types'
    <2>1. g_events' \in [Slots -> Event]
          BY DEF TableInv, Types
    <2>2. Counters'
      <3>1. received' \in [Clients -> Nat] /\ echoed' \in [Clients -> Nat]
            BY <1>1 DEF TableInv, Types, Counters, c
      <3>2. QED
            BY <3>1, <1>3 DEF TableInv, Types, Counters, c
    <2>3. QED
          BY <2>1, <2>2 DEF TableInv, Types
  <1>6. EntriesOwned'
    <2>1. \A j \in Slots : /\ g_events'[j].status = 1 <=> g_events[j].status = 1
                           /\ g_events'[j].fd = g_events[j].fd
          BY <1>2
    <2>2. QED
          BY <2>1 DEF TableInv, EntriesOwned
  <1>7. FreshIsEmpty'
        BY <1>1, <1>3 DEF TableInv, FreshIsEmpty
  <1>8. Counted'
    <2>1. Outstanding(g_events[i], g_events[i].fd)'
          BY <1>2, <1>3 DEF Outstanding, c
    <2>2. ASSUME NEW j \in Slots \ {i}, g_events[j].status = 1
          PROVE  Outstanding(g_events[j], g_events[j].fd)'
          BY <2>2, <1>2, <1>3, <1>4 DEF TableInv, Counted, Outstanding
    <2>3. QED
          BY <2>1, <2>2, <1>2 DEF Counted
  <1>9. Live'
    <2>1. ASSUME NEW j \in Slots, j \in batch' PROVE Ready(j)'
      <3>1. j # i /\ j \in batch /\ Ready(j)
            BY <2>1 DEF TableInv, Live
      <3>2. g_events[j].status = 1 /\ g_events[j].fd \in Clients \ {c}
            BY <3>1, <1>4 DEF Ready
      <3>3. QED
            BY <3>1, <3>2, <1>2, <1>3 DEF Ready, Readable, Unread
    <2>2. QED
          BY <2>1 DEF TableInv, Live
  <1>10. QED
         BY <1>5, <1>6, <1>7, <1>8, <1>9 DEF TableInv

(* eventdel and close: the entries of a set D are given up, and with them  *)
(* their connections and events.                                           *)
LEMMA DropKeeps ==
  ASSUME TableInv, NEW D \in SUBSET Slots, \A i \in D : g_events[i].status = 1,
         g_events' \in [Slots -> Event],
         \A i \in Slots : g_events'[i] = IF i \in D THEN Disarmed ELSE g_events[i],
         sock' \in [Clients -> {"none", "pending", "open", "closed"}],
         \A c \in Clients : sock'[c] = IF \E i \in D : g_events[i].fd = c THEN "closed" ELSE sock[c],
         batch' = batch \ D, loop' \in {"scan", "wait", "dispatch", "killed"},
         loop' # "dispatch" => batch' = {},
         checkpos' \in 0 .. MAX_EVENTS,
         UNCHANGED <<peer, sent, nofile, received, echoed>>
  PROVE  TableInv'
  <1>1. \A j \in Slots : g_events'[j].status = 1 =>
          j \notin D /\ g_events'[j] = g_events[j] /\ g_events[j].status = 1
        BY DisarmedIs
  <1>2. Types'
        BY DEF TableInv, Types, Counters
  <1>3. EntriesOwned'
    <2>1. ASSUME NEW j \in Slots, g_events'[j].status = 1
          PROVE  g_events'[j].fd \in Clients /\ sock'[g_events'[j].fd] = "open"
      <3>1. j \notin D /\ g_events'[j] = g_events[j] /\ g_events[j].status = 1
            BY <2>1, <1>1
      <3>2. \A i \in D : g_events[i].fd # g_events[j].fd
            BY <3>1 DEF TableInv, EntriesOwned
      <3>3. QED
            BY <3>1, <3>2 DEF TableInv, EntriesOwned
    <2>2. QED
          BY <2>1, <1>1 DEF TableInv, EntriesOwned
  <1>4. FreshIsEmpty'
        BY DEF TableInv, FreshIsEmpty
  <1>5. Counted'
        BY <1>1 DEF TableInv, Counted, Outstanding
  <1>6. Live'
    <2>1. ASSUME NEW j \in Slots, j \in batch' PROVE Ready(j)'
      <3>1. g_events'[j] = g_events[j] /\ Ready(j)
            BY <2>1 DEF TableInv, Live
      <3>2. QED
            BY <3>1 DEF Ready, Readable, Unread
    <2>2. QED
          BY <2>1 DEF Live
  <1>7. QED
        BY <1>2, <1>3, <1>4, <1>5, <1>6 DEF TableInv

(* A step that leaves the entries as they are but for their age.           *)
LEMMA EntriesKept ==
  ASSUME TableInv, g_events' \in [Slots -> Event],
         \A i \in Slots : /\ g_events'[i].fd = g_events[i].fd
                          /\ g_events'[i].status = g_events[i].status
                          /\ g_events'[i].call_back = g_events[i].call_back
                          /\ g_events'[i].len = g_events[i].len,
         sock' \in [Clients -> {"none", "pending", "open", "closed"}],
         \A c \in Clients : \/ sock'[c] = sock[c]
                            \/ sock[c] = "none" /\ sock'[c] = "pending"
                            \/ sock[c] = "pending" /\ sock'[c] = "open",
         peer' \in [Clients -> {"open", "closed"}], sent' \in [Clients -> 0 .. MaxSend],
         \A c \in Clients : sent[c] <= sent'[c] /\ (peer[c] = "closed" => peer'[c] = "closed"),
         received' = received, echoed' = echoed, nofile' = nofile,
         batch' \in SUBSET (Slots \cup {Listen}), loop' \in {"scan", "wait", "dispatch", "killed"},
         \A i \in Slots : i \in batch' => Ready(i),
         loop' # "dispatch" => batch' = {},
         checkpos' = checkpos
  PROVE  TableInv'
  <1>1. Types'
    <2>1. Counters'
      <3>1. \A c \in Clients : received[c] <= sent'[c]
            BY DEF TableInv, Types, Counters
      <3>2. QED
            BY <3>1 DEF TableInv, Types, Counters
    <2>2. QED
          BY <2>1 DEF TableInv, Types
  <1>2. EntriesOwned'
        BY DEF TableInv, EntriesOwned
  <1>3. FreshIsEmpty'
        BY DEF TableInv, FreshIsEmpty
  <1>4. Counted'
        BY DEF TableInv, Counted, Outstanding
  <1>5. Live'
    <2>1. ASSUME NEW j \in Slots, j \in batch' PROVE Ready(j)'
      <3>1. Ready(j) /\ g_events[j].fd \in Clients
            BY <2>1 DEF Ready, TableInv, EntriesOwned
      <3>2. \A c \in Clients : Readable(c) => Readable(c)'
            BY DEF Readable, Unread, TableInv, Types, Counters
      <3>3. QED
            BY <3>1, <3>2 DEF Ready, Readable, Unread
    <2>2. QED
          BY <2>1 DEF Live
  <1>6. QED
        BY <1>1, <1>2, <1>3, <1>4, <1>5 DEF TableInv

-----------------------------------------------------------------------------
LEMMA ScanKeeps ==
  ASSUME TableInv, Scan PROVE TableInv'
  <1>1. TimedOut \in SUBSET Slots /\ \A i \in TimedOut : g_events[i].status = 1
        BY DEF TimedOut, Monitored
  <1>2. /\ g_events' = [i \in Slots |-> IF i \in TimedOut THEN Disarmed ELSE g_events[i]]
        /\ sock' = [c \in Clients |-> IF \E i \in TimedOut : g_events[i].fd = c THEN "closed" ELSE sock[c]]
        /\ loop' = "wait" /\ UNCHANGED <<peer, sent, nofile, received, echoed>>
        BY DEF Scan, clientVars
  <1>3. batch' = {} /\ batch' = batch \ TimedOut
        BY DEF Scan, TableInv, Live
  <1>4. checkpos' \in 0 .. MAX_EVENTS
    <2>1. checkpos + ScanLen - 1 \in Nat /\ MAX_EVENTS \in Nat \ {0}
          BY ConstantsAssumption DEF TableInv, Types
    <2>2. (checkpos + ScanLen - 1) % MAX_EVENTS \in 0 .. (MAX_EVENTS - 1)
          BY <2>1, WrapRange
    <2>3. QED
          BY <2>1, <2>2 DEF Scan, NextCheck
  <1>5. g_events' \in [Slots -> Event] /\ sock' \in [Clients -> {"none", "pending", "open", "closed"}]
        BY <1>2, DisarmedIs DEF TableInv, Types
  <1> DEFINE D == TimedOut
  <1> HIDE DEF D
  <1>6. /\ D \in SUBSET Slots /\ \A i \in D : g_events[i].status = 1
        /\ \A i \in Slots : g_events'[i] = IF i \in D THEN Disarmed ELSE g_events[i]
        /\ \A c \in Clients : sock'[c] = IF \E i \in D : g_events[i].fd = c THEN "closed" ELSE sock[c]
        /\ batch' = batch \ D
        BY <1>1, <1>2, <1>3 DEF D
  <1>7. QED
        BY <1>2, <1>3, <1>4, <1>5, <1>6, DropKeeps

LEMMA WaitKeeps ==
  ASSUME TableInv, EpollWait PROVE TableInv'
  <1>1. /\ UNCHANGED <<g_events, checkpos, sock, peer, sent, nofile, received, echoed>>
        /\ loop' = "dispatch" /\ batch' = ReadySlots \cup ListenReady
        BY DEF EpollWait, clientVars
  <1>2. \A i \in ReadySlots : i \in Slots /\ Ready(i)
        BY DEF ReadySlots, Monitored, Ready
  <1>3. ListenReady \subseteq {Listen}
        BY DEF ListenReady
  <1>4. batch' \in SUBSET (Slots \cup {Listen}) /\ \A i \in Slots : i \in batch' => Ready(i)
        BY <1>1, <1>2, <1>3, ListenIsNoSlot
  <1>5. \A c \in Clients : sent[c] <= sent'[c]
        BY <1>1 DEF TableInv, Types, Counters
  <1>6. QED
        BY <1>1, <1>4, <1>5, EntriesKept DEF TableInv, Types, Counters

LEMMA AcceptKeeps ==
  ASSUME TableInv, NEW c \in Clients, AcceptConn(c) PROVE TableInv'
  <1>0. FreeSlots # {}
        BY DEF AcceptConn
  <1>2. Min(FreeSlots) \in FreeSlots
    <2>1. FreeSlots \in SUBSET Nat
          BY DEF FreeSlots, Slots
    <2>2. \E x \in FreeSlots : \A y \in FreeSlots : x <= y
          BY <1>0, <2>1, LeastElement
    <2>3. QED
          BY <2>2 DEF Min
  <1>s. PICK s \in FreeSlots : s = Min(FreeSlots)
        BY <1>2
  <1>1. /\ sock[c] = "pending"
        /\ sock' = [sock EXCEPT ![c] = "open"]
        /\ g_events' = [g_events EXCEPT ![s] = Armed(g_events[s], c, "recv")]
        /\ batch' = batch \ {Listen}
        /\ UNCHANGED <<loop, checkpos, peer, sent, nofile, received, echoed>>
        BY <1>s DEF AcceptConn, Dispatch, clientVars
  <1>3. s \in Slots /\ g_events[s].status # 1 /\ g_events[s] \in Event
        BY DEF FreeSlots, Monitored, TableInv, Types
  <1> DEFINE ev == Armed(g_events[s], c, "recv")
  <1>4. ev \in Event /\ ev.fd = c /\ ev.status = 1 /\ ev.call_back = "recv"
        BY <1>3, ArmedIs
  <1>5. g_events' = [g_events EXCEPT ![s] = ev]
        BY <1>1
  <1> HIDE DEF ev
  <1>6. /\ g_events'[s] = ev
        /\ \A j \in Slots \ {s} : g_events'[j] = g_events[j]
        /\ g_events' \in [Slots -> Event]
        BY <1>3, <1>4, <1>5 DEF TableInv, Types
  <1>7. /\ sock'[c] = "open" /\ \A d \in Clients \ {c} : sock'[d] = sock[d]
        /\ sock' \in [Clients -> {"none", "pending", "open", "closed"}]
        BY <1>1 DEF TableInv, Types
  <1>8. \A j \in Slots : g_events[j].status = 1 => j # s /\ g_events[j].fd \in Clients \ {c}
        BY <1>1, <1>3 DEF TableInv, EntriesOwned
  <1>9. Types'
    <2>1. Counters'
          BY <1>1 DEF TableInv, Types, Counters
    <2>2. QED
          BY <2>1, <1>1, <1>6, <1>7 DEF TableInv, Types
  <1>10. EntriesOwned'
    <2>1. ASSUME NEW j \in Slots, g_events'[j].status = 1
          PROVE  g_events'[j].fd \in Clients /\ sock'[g_events'[j].fd] = "open"
          BY <2>1, <1>4, <1>6, <1>7, <1>8 DEF TableInv, EntriesOwned
    <2>2. ASSUME NEW i \in Slots, NEW j \in Slots, g_events'[i].status = 1, g_events'[j].status = 1,
                 g_events'[i].fd = g_events'[j].fd
          PROVE  i = j
          BY <2>2, <1>4, <1>6, <1>8 DEF TableInv, EntriesOwned
    <2>3. QED
          BY <2>1, <2>2 DEF EntriesOwned
  <1>11. FreshIsEmpty'
         BY <1>1, <1>7 DEF TableInv, FreshIsEmpty
  <1>12. Counted'
    <2>1. received[c] = 0 /\ echoed[c] = 0
          BY <1>1 DEF TableInv, FreshIsEmpty
    <2>2. Outstanding(g_events[s], g_events[s].fd)'
          BY <2>1, <1>1, <1>4, <1>6 DEF Outstanding
    <2>3. ASSUME NEW j \in Slots \ {s}, g_events'[j].status = 1
          PROVE  Outstanding(g_events[j], g_events[j].fd)'
          BY <2>3, <1>1, <1>6 DEF TableInv, Counted, Outstanding
    <2>4. QED
          BY <2>2, <2>3 DEF Counted
  <1>13. Live'
    <2>1. ASSUME NEW j \in Slots, j \in batch' PROVE Ready(j)'
      <3>1. Ready(j) /\ j # s
            BY <2>1, <1>1, <1>3 DEF TableInv, Live, Ready
      <3>2. g_events'[j] = g_events[j]
            BY <3>1, <1>6
      <3>3. QED
            BY <3>1, <3>2, <1>1 DEF Ready, Readable, Unread
    <2>2. QED
          BY <2>1, <1>1 DEF TableInv, Live
  <1>14. QED
         BY <1>9, <1>10, <1>11, <1>12, <1>13 DEF TableInv

LEMMA RecvKeeps ==
  ASSUME TableInv, NEW i \in Slots, RecvData(i) PROVE TableInv'
  <1> DEFINE c == g_events[i].fd
             len == Min({Unread(c), BUFLEN})
             ev == [Armed(g_events[i], c, "send") EXCEPT !.len = LenAfterTerminator(len)]
  <1>1. /\ i \in batch /\ batch' = batch \ {i}
        /\ g_events[i].call_back = "recv" /\ Unread(c) > 0
        /\ received' = [received EXCEPT ![c] = received[c] + len]
        /\ UNCHANGED <<loop, checkpos, peer, sent, nofile, sock, echoed>>
        BY DEF RecvData, Dispatch, clientVars
  <1>2. g_events' = [g_events EXCEPT ![i] = ev]
        BY DEF RecvData
  <1>3. g_events[i].status = 1 /\ c \in Clients /\ g_events[i] \in Event
        BY <1>1 DEF TableInv, Live, Ready, EntriesOwned, Types
  <1>4. /\ sent[c] \in 0 .. MaxSend /\ received[c] \in Nat /\ echoed[c] \in Nat
        /\ received[c] <= sent[c] /\ MaxSend \in Nat /\ BUFLEN \in 1 .. 255
        BY <1>3, ConstantsAssumption DEF TableInv, Types, Counters
  <1>5. echoed[c] = received[c]
        BY <1>1, <1>3, <1>4 DEF TableInv, Counted, Outstanding
  <1>6. Unread(c) = sent[c] - received[c]
        BY DEF Unread
  <1>7. len = IF Unread(c) <= BUFLEN THEN Unread(c) ELSE BUFLEN
    <2>1. Unread(c) \in Int /\ BUFLEN \in Int
          BY <1>4, <1>6
    <2>2. Min({Unread(c), BUFLEN}) = IF Unread(c) <= BUFLEN THEN Unread(c) ELSE BUFLEN
          BY <2>1, MinOfTwo
    <2>3. QED
          BY <2>2
  <1> HIDE DEF len, c
  <1>8. len \in 1 .. BUFLEN /\ len <= MaxSend /\ received[c] + len <= sent[c]
        BY <1>1, <1>4, <1>6, <1>7
  <1> DEFINE l == LenAfterTerminator(len)
  <1>9. l \in 0 .. BUFLEN /\ len = IF l = 0 THEN BUFLEN ELSE l
        BY <1>4, <1>8 DEF LenAfterTerminator
  <1> HIDE DEF l
  <1>10. ev = [fd |-> c, status |-> 1, call_back |-> "send", len |-> l, idle |-> 0]
    <2> DEFINE ar == Armed(g_events[i], c, "send")
    <2>1. ar = [fd |-> c, status |-> 1, call_back |-> "send", len |-> g_events[i].len, idle |-> 0]
          BY <1>3, ArmedIs
    <2> HIDE DEF ar
    <2>2. [ar EXCEPT !.len = l] = [fd |-> c, status |-> 1, call_back |-> "send", len |-> l, idle |-> 0]
          BY <2>1
    <2>3. QED
          BY <2>2 DEF ar, l
  <1>11. ev \in Event /\ ev.fd = c /\ ev.status = 1 /\ ev.call_back = "send" /\ ev.len = l
         BY <1>3, <1>9, <1>10, ConstantsAssumption DEF Event
  <1>12. echoed' = [echoed EXCEPT ![c] = echoed[c]]
         BY <1>1 DEF TableInv, Types, Counters
  <1> DEFINE r == received[c] + len
             e == echoed[c]
  <1>13. /\ r \in Nat /\ e \in Nat /\ e <= r /\ r <= sent[c]
         /\ r - e = IF l = 0 THEN BUFLEN ELSE l
         BY <1>4, <1>5, <1>8, <1>9
  <1>14. received' = [received EXCEPT ![c] = r] /\ echoed' = [echoed EXCEPT ![c] = e]
         BY <1>1, <1>12
  <1> HIDE DEF ev, r, e
  <1>15. /\ ev.fd = g_events[i].fd /\ r <= sent[ev.fd]
         /\ received' = [received EXCEPT ![ev.fd] = r] /\ echoed' = [echoed EXCEPT ![ev.fd] = e]
         /\ ev.call_back = "recv" => r = e
         /\ ev.call_back = "send" => r - e = IF ev.len = 0 THEN BUFLEN ELSE ev.len
         BY <1>11, <1>13, <1>14 DEF c
  <1>16. ev \in Event /\ r \in Nat /\ e \in Nat /\ e <= r /\ ev.status = 1
         BY <1>11, <1>13
  <1>17. QED
         BY <1>1, <1>2, <1>3, <1>15, <1>16, RearmKeeps

LEMMA SendKeeps ==
  ASSUME TableInv, NEW i \in Slots, SendData(i) PROVE TableInv'
  <1> DEFINE c == g_events[i].fd
             ev == Armed(g_events[i], c, "recv")
             len == g_events[i].len
  <1>1. /\ i \in batch /\ batch' = batch \ {i}
        /\ g_events[i].call_back = "send" /\ len > 0
        /\ echoed' = [echoed EXCEPT ![c] = echoed[c] + len]
        /\ g_events' = [g_events EXCEPT ![i] = ev]
        /\ UNCHANGED <<loop, checkpos, peer, sent, nofile, sock, received>>
        BY DEF SendData, Dispatch, clientVars, Echoed
  <1>2. g_events[i].status = 1 /\ c \in Clients /\ g_events[i] \in Event
        BY <1>1 DEF TableInv, Live, Ready, EntriesOwned, Types
  <1>3. /\ received[c] \in Nat /\ echoed[c] \in Nat /\ len \in Nat /\ received[c] <= sent[c]
        BY <1>2 DEF TableInv, Types, Counters, Event
  <1>4. received[c] - echoed[c] = len
        BY <1>1, <1>2, <1>3 DEF TableInv, Counted, Outstanding
  <1>5. received' = [received EXCEPT ![c] = received[c]]
        BY <1>1 DEF TableInv, Types, Counters
  <1>6. ev \in Event /\ ev.fd = c /\ ev.status = 1 /\ ev.call_back = "recv"
        BY <1>2, ArmedIs
  <1> DEFINE r == received[c]
             e == echoed[c] + len
  <1>7. r \in Nat /\ e \in Nat /\ e = r /\ r <= sent[c]
        BY <1>3, <1>4
  <1>8. received' = [received EXCEPT ![c] = r] /\ echoed' = [echoed EXCEPT ![c] = e]
        BY <1>1, <1>5
  <1> HIDE DEF ev, len, r, e
  <1>9. /\ ev.fd = g_events[i].fd /\ r <= sent[ev.fd] /\ e <= r
        /\ received' = [received EXCEPT ![ev.fd] = r] /\ echoed' = [echoed EXCEPT ![ev.fd] = e]
        /\ ev.call_back = "recv" => r = e
        /\ ev.call_back = "send" => r - e = IF ev.len = 0 THEN BUFLEN ELSE ev.len
        BY <1>6, <1>7, <1>8
  <1>10. QED
         BY <1>1, <1>2, <1>6, <1>7, <1>9, RearmKeeps

LEMMA CloseKeeps ==
  ASSUME TableInv, NEW i \in Slots, RecvCloses(i) \/ SendCloses(i) PROVE TableInv'
  <1> DEFINE c == g_events[i].fd
             D == {i}
  <1>1. /\ i \in batch /\ batch' = batch \ {i} /\ loop = "dispatch"
        /\ g_events' = [g_events EXCEPT ![i] = Disarmed]
        /\ sock' = [sock EXCEPT ![c] = "closed"]
        /\ UNCHANGED <<loop, checkpos, peer, sent, nofile, received, echoed>>
        BY DEF RecvCloses, SendCloses, Dispatch, clientVars, Closed
  <1>2. g_events[i].status = 1 /\ c \in Clients
        BY <1>1 DEF TableInv, Live, Ready, EntriesOwned
  <1>3. /\ g_events' \in [Slots -> Event]
        /\ \A j \in Slots : g_events'[j] = IF j \in D THEN Disarmed ELSE g_events[j]
        BY <1>1, DisarmedIs DEF TableInv, Types
  <1>4. /\ sock' \in [Clients -> {"none", "pending", "open", "closed"}]
        /\ \A d \in Clients : sock'[d] = IF \E j \in D : g_events[j].fd = d THEN "closed" ELSE sock[d]
        BY <1>1, <1>2 DEF TableInv, Types
  <1>5. D \in SUBSET Slots /\ (\A j \in D : g_events[j].status = 1) /\ batch' = batch \ D
        BY <1>1, <1>2
  <1>6. checkpos' \in 0 .. MAX_EVENTS /\ loop' = "dispatch"
        BY <1>1 DEF TableInv, Types
  <1> HIDE DEF D
  <1>7. QED
        BY <1>1, <1>3, <1>4, <1>5, <1>6, DropKeeps

(* The clients and the accept queue, and the end of a batch.               *)
LEMMA OutsideKeeps ==
  ASSUME TableInv,
         DispatchEnds \/ AcceptFails \/ \E c \in Clients : AcceptLimit(c) \/ Connect(c) \/ ClientSend(c) \/ ClientClose(c)
  PROVE  TableInv'
  <1>1. /\ g_events' = g_events /\ checkpos' = checkpos /\ received' = received /\ echoed' = echoed
        /\ nofile' = nofile
        BY DEF DispatchEnds, AcceptFails, AcceptLimit, Connect, ClientSend, ClientClose, Dispatch, serverVars, clientVars
  <1>2. batch' \subseteq batch
        BY DEF DispatchEnds, AcceptFails, AcceptLimit, Connect, ClientSend, ClientClose, Dispatch, serverVars
  <1>3. loop' \in {"scan", "wait", "dispatch", "killed"} /\ (loop' # "dispatch" => batch' = {})
        BY DEF DispatchEnds, AcceptFails, AcceptLimit, Connect, ClientSend, ClientClose, Dispatch, serverVars,
               TableInv, Types, Live
  <1>4. /\ sock' \in [Clients -> {"none", "pending", "open", "closed"}]
        /\ \A c \in Clients : \/ sock'[c] = sock[c]
                              \/ sock[c] = "none" /\ sock'[c] = "pending"
                              \/ sock[c] = "pending" /\ sock'[c] = "open"
        BY DEF DispatchEnds, AcceptFails, AcceptLimit, Connect, ClientSend, ClientClose, TableInv, Types
  <1>5. /\ peer' \in [Clients -> {"open", "closed"}]
        /\ \A c \in Clients : peer[c] = "closed" => peer'[c] = "closed"
        BY DEF DispatchEnds, AcceptFails, AcceptLimit, Connect, ClientSend, ClientClose, Dispatch, clientVars, TableInv, Types
  <1>6. sent' \in [Clients -> 0 .. MaxSend] /\ \A c \in Clients : sent[c] <= sent'[c]
    <2>1. CASE sent' = sent
          BY <2>1 DEF TableInv, Types, Counters
    <2>2. ASSUME NEW c \in Clients, ClientSend(c)
          PROVE  sent' \in [Clients -> 0 .. MaxSend] /\ \A d \in Clients : sent[d] <= sent'[d]
      <3>1. PICK n \in 1 .. MaxSend - sent[c] : sent' = [sent EXCEPT ![c] = @ + n]
            BY <2>2 DEF ClientSend
      <3>2. QED
            BY <3>1, ConstantsAssumption DEF TableInv, Types, Counters
    <2>3. QED
          BY <2>1, <2>2 DEF DispatchEnds, AcceptFails, AcceptLimit, Connect, ClientClose, Dispatch, clientVars
  <1>7. batch' \in SUBSET (Slots \cup {Listen}) /\ \A i \in Slots : i \in batch' => Ready(i)
        BY <1>2 DEF TableInv, Types, Live
  <1>8. g_events' \in [Slots -> Event]
        BY <1>1 DEF TableInv, Types
  <1>9. QED
        BY <1>1, <1>3, <1>4, <1>5, <1>6, <1>7, <1>8, EntriesKept

(* SIGPIPE: the table stays as it is, and nothing is dispatched any more.   *)
LEMMA KillsKeeps ==
  ASSUME TableInv, NEW i \in Slots, SendKills(i)
  PROVE  TableInv' /\ KilledByEcho'
  <1> DEFINE c == g_events[i].fd
             len == g_events[i].len
  <1>1. /\ UNCHANGED <<g_events, checkpos, sock, peer, sent, nofile, received, echoed>>
        /\ loop' = "killed" /\ batch' = {} /\ i \in batch
        /\ g_events[i].call_back = "send" /\ len > 0
        /\ peer[c] = "closed" /\ echoed[c] > 0
        BY DEF SendKills, clientVars
  <1>2. \A d \in Clients : sent[d] <= sent'[d]
        BY <1>1 DEF TableInv, Types, Counters
  <1>3. TableInv'
        BY <1>1, <1>2, EntriesKept DEF TableInv, Types, Counters
  <1>4. g_events[i].status = 1 /\ c \in Clients /\ g_events[i] \in Event
        BY <1>1 DEF TableInv, Live, Ready, EntriesOwned, Types
  <1>5. received[c] \in Nat /\ echoed[c] \in Nat /\ len \in Nat
        BY <1>4 DEF TableInv, Types, Counters, Event
  <1>6. received[c] - echoed[c] = len
        BY <1>1, <1>4, <1>5 DEF TableInv, Counted, Outstanding
  <1> HIDE DEF len, c
  <1>7. 0 < echoed[c] /\ echoed[c] < received[c]
        BY <1>1, <1>5, <1>6
  <1>8. QED
        BY <1>1, <1>3, <1>4, <1>7 DEF KilledByEcho

LEMMA TickKeeps ==
  ASSUME TableInv, Tick PROVE TableInv'
  <1>1. /\ UNCHANGED <<loop, batch, checkpos, sock, peer, sent, nofile, received, echoed>>
        /\ g_events' = [i \in Slots |->
              [g_events[i] EXCEPT !.idle = Min({g_events[i].idle + g_events[i].status, Timeout})]]
        BY DEF Tick, clientVars
  <1>2. ASSUME NEW i \in Slots
        PROVE  /\ g_events'[i] \in Event
               /\ g_events'[i].fd = g_events[i].fd /\ g_events'[i].status = g_events[i].status
               /\ g_events'[i].call_back = g_events[i].call_back /\ g_events'[i].len = g_events[i].len
    <2> DEFINE n == g_events[i].idle + g_events[i].status
               m == Min({n, Timeout})
    <2>1. g_events[i] \in Event
          BY DEF TableInv, Types
    <2>2. n \in Nat /\ Timeout \in Nat
          BY <2>1, ConstantsAssumption DEF Event
    <2>3. m = IF n <= Timeout THEN n ELSE Timeout
          BY <2>2, MinOfTwo
    <2> HIDE DEF n
    <2>4. m \in 0 .. Timeout
          BY <2>2, <2>3
    <2>5. g_events'[i] = [g_events[i] EXCEPT !.idle = m]
          BY <1>1 DEF n
    <2> HIDE DEF m
    <2>6. QED
          BY <2>1, <2>4, <2>5 DEF Event
  <1>3. g_events' \in [Slots -> Event]
        BY <1>1, <1>2
  <1>4. batch' \in SUBSET (Slots \cup {Listen}) /\ \A i \in Slots : i \in batch' => Ready(i)
        BY <1>1 DEF TableInv, Types, Live
  <1>5. \A c \in Clients : sent[c] <= sent'[c]
        BY <1>1 DEF TableInv, Types, Counters
  <1>6. QED
        BY <1>1, <1>2, <1>3, <1>4, <1>5, EntriesKept DEF TableInv, Types, Counters, Live

LEMMA StepKeeps ==
  ASSUME TableInv, [Next]_vars PROVE TableInv'
  <1>1. CASE Scan
        BY <1>1, ScanKeeps
  <1>2. CASE EpollWait
        BY <1>2, WaitKeeps
  <1>3. CASE \E c \in Clients : AcceptConn(c)
        BY <1>3, AcceptKeeps
  <1>4. CASE \E i \in Slots : RecvData(i)
        BY <1>4, RecvKeeps
  <1>5. CASE \E i \in Slots : SendData(i)
        BY <1>5, SendKeeps
  <1>6. CASE \E i \in Slots : RecvCloses(i) \/ SendCloses(i)
        BY <1>6, CloseKeeps
  <1>7. CASE \E i \in Slots : SendKills(i)
        BY <1>7, KillsKeeps
  <1>8. CASE \/ DispatchEnds \/ AcceptFails
             \/ \E c \in Clients : AcceptLimit(c) \/ Connect(c) \/ ClientSend(c) \/ ClientClose(c)
        BY <1>8, OutsideKeeps
  <1>9. CASE Tick
        BY <1>9, TickKeeps
  <1>10. CASE UNCHANGED vars
         BY <1>10 DEF vars, clientVars, TableInv, Types, Counters, EntriesOwned, FreshIsEmpty,
                      Counted, Outstanding, Live, Ready, Readable, Unread
  <1>11. QED
         BY <1>1, <1>2, <1>3, <1>4, <1>5, <1>6, <1>7, <1>8, <1>9, <1>10 DEF Next, ServerStep

(* Nobody but SendKills ends the process, and an ended process receives    *)
(* and sends nothing more.                                                 *)
LEMMA KilledKeeps ==
  ASSUME TableInv, KilledByEcho, [Next]_vars PROVE KilledByEcho'
  <1>1. CASE \E i \in Slots : SendKills(i)
        BY <1>1, KillsKeeps
  <1>2. CASE ServerStep /\ ~ \E i \in Slots : SendKills(i)
    <2>1. loop' # "killed"
          BY <1>2 DEF ServerStep, Scan, EpollWait, DispatchEnds, AcceptFails, AcceptConn,
             AcceptLimit, RecvData, RecvCloses, SendData, SendCloses, Dispatch
    <2>2. QED
          BY <2>1 DEF KilledByEcho
  <1>3. CASE \/ Tick \/ UNCHANGED vars
             \/ \E c \in Clients : Connect(c) \/ ClientSend(c) \/ ClientClose(c)
    <2>1. UNCHANGED <<loop, received, echoed>>
          BY <1>3 DEF Tick, vars, Connect, ClientSend, ClientClose, serverVars
    <2>2. \A d \in Clients : peer[d] = "closed" => peer'[d] = "closed"
          BY <1>3 DEF Tick, vars, Connect, ClientSend, ClientClose, clientVars, TableInv, Types
    <2>3. QED
          BY <2>1, <2>2 DEF KilledByEcho
  <1>4. QED
        BY <1>1, <1>2, <1>3 DEF Next

(* The inductive invariant of the server holds throughout.                 *)
THEOREM InvCorrect == Spec => []IInv
  <1>1. Init => IInv
        BY InvInitially DEF IInv, KilledByEcho, Init
  <1>2. IInv /\ [Next]_vars => IInv'
        BY StepKeeps, KilledKeeps DEF IInv
  <1>3. QED
        BY <1>1, <1>2, PTL DEF Spec

LEMMA InvIsSound ==
  ASSUME TableInv PROVE TableSound
  <1>1. TypeOK
        BY DEF TableInv, Types, Counters, TypeOK
  <1>2. EntriesAreOpen
        BY DEF TableInv, EntriesOwned, EntriesAreOpen, Monitored
  <1>3. BatchIsLive
    <2>1. ASSUME NEW i \in batch \ {Listen} PROVE i \in ReadySlots
      <3>1. i \in Slots /\ Ready(i)
            BY DEF TableInv, Types, Live
      <3>2. QED
            BY <3>1 DEF Ready, ReadySlots, Monitored
    <2>2. QED
          BY <2>1 DEF BatchIsLive
  <1>4. QED
        BY <1>1, <1>2, <1>3 DEF TableSound

(* The table g_events is sound whatever clients send, messages that fill    *)
(* ev->buf included: a monitored entry has an open connection of its own,  *)
(* and no event of a batch is dispatched to an entry that a callback or    *)
(* the scan has closed or given to somebody else since epoll_wait.         *)
THEOREM TableStaysSound == Spec => []TableSound
  <1>1. IInv => TableSound
        BY InvIsSound DEF IInv
  <1>2. QED
        BY <1>1, InvCorrect, PTL

(* Whatever the clients send and however they come, go and time out:       *)
(* senddata owes a client exactly what recvdata has taken from it, but for *)
(* a message that fills ev->buf, which is lost whole.  The process ends    *)
(* only when a client has left with an echo behind it and one to come.     *)
THEOREM EchoIsComplete == Spec => []EchoPending
  <1>1. ASSUME IInv PROVE EchoPending
    <2>1. ASSUME NEW i \in Monitored
          PROVE  received[g_events[i].fd] - echoed[g_events[i].fd] =
                   CASE g_events[i].call_back = "recv" -> 0
                     [] g_events[i].call_back = "send" ->
                          IF g_events[i].len = 0 THEN BUFLEN ELSE g_events[i].len
      <3>1. i \in Slots /\ g_events[i] \in Event /\ Outstanding(g_events[i], g_events[i].fd)
            BY <1>1 DEF Monitored, IInv, TableInv, Types, Counted
      <3>2. g_events[i].call_back \in {"recv", "send"}
            BY <3>1 DEF Event
      <3>3. QED
            BY <3>1, <3>2 DEF Outstanding
    <2>2. TableSound
          BY <1>1, InvIsSound DEF IInv
    <2>3. QED
          BY <1>1, <2>1, <2>2 DEF EchoPending, IInv, KilledByEcho
  <1>2. QED
        BY <1>1, InvCorrect, PTL

-----------------------------------------------------------------------------
(* The socket examples.                                                    *)

SocketTypes ==
  /\ kind \in {"epoll", "thread", "process"}
  /\ user \in [Users -> {"away", "typing", "waiting", "closed"}]
  /\ split \in [Users -> BOOLEAN]
  /\ coming \in [Users -> Nat] /\ arrived \in [Users -> Nat] /\ answers \in [Users -> Nat]
  /\ fin \in [Users -> BOOLEAN] /\ reset \in [Users -> {"", "conn", "pipe"}]
  /\ accepted \subseteq Users
  /\ holders \in [Users -> SUBSET {"server", "child"}]
  /\ handler \in [Users -> {"off", "recv", "send"}]
  /\ edges \subseteq Users \cup {"listen"} /\ reported \subseteq Users \cup {"listen"}
  /\ main \in Users \cup {"idle", "listen"}
  /\ proc \in [Users -> {"none", "run", "zombie", "reaped"}]
  /\ peak \in Nat /\ running \in BOOLEAN

(* Who has the descriptor of c open: a handler only runs on an open one,   *)
(* the epoll server's is the one the main loop is at, and with processes   *)
(* the child has it while it runs, the parent while it is at c.            *)
Place(c) ==
  /\ handler[c] # "off" => /\ c \in accepted /\ holders[c] # {}
                           /\ kind = "epoll" => main = c
                           /\ kind = "process" => proc[c] = "run"
  /\ c \notin accepted => proc[c] = "none" /\ holders[c] = {} /\ (reset[c] # "" => fin[c])
  /\ kind # "process" => holders[c] \subseteq {"server"} /\ proc[c] = "none"
  /\ kind = "process" => /\ "child" \in holders[c] <=> proc[c] = "run"
                         /\ "server" \in holders[c] <=> main = c
                         /\ main = c => c \in accepted

(* An event is only ever about an open descriptor, and every descriptor    *)
(* with something to see that nobody is reading has one.                   *)
Seen(c) ==
  kind = "epoll" /\ running =>
    /\ c \in edges \cup reported => c \in accepted /\ holders[c] # {}
    /\ c \in accepted /\ holders[c] # {} /\ handler[c] = "off"
         /\ (arrived[c] > 0 \/ fin[c] \/ reset[c] # "") => c \in edges \cup reported

(* What is on its way between c and its handler, in either direction.      *)
Sending(c) == IF handler[c] = "send" THEN 1 ELSE 0
Load(c) == coming[c] + arrived[c] + answers[c] + Sending(c)

(* A client none of whose lines was split has at most one message on its   *)
(* way, none when it is not waiting for an answer, and resets nothing.     *)
Paced(c) ==
  ~split[c] =>
    /\ reset[c] = ""
    /\ user[c] \in {"away", "typing"} => Load(c) = 0
    /\ user[c] = "waiting" => Load(c) <= 1
    /\ user[c] = "closed" => answers[c] = 0 /\ (Gone(c) \/ Load(c) = 0)

UserInv(c) == Place(c) /\ Seen(c) /\ Paced(c)

MainInv ==
  /\ kind # "epoll" => edges = {} /\ reported = {} /\ main # "listen"
  /\ main \notin reported
  /\ kind = "epoll" /\ running /\ Pending \ short # {} =>
       main = "listen" \/ "listen" \in edges \cup reported

(* Between fork and the waitpid that follows it there may be one child     *)
(* more than ever ran at the same time.                                    *)
JustForked == main \in Users /\ proc[main] # "none"
Reaping ==
  kind = "process" =>
    /\ Cardinality(Alive) <= peak
    /\ Cardinality(Unreaped) <= peak + (IF JustForked THEN 1 ELSE 0)

(* What has ended the server: SIGPIPE, or a thread that was not created.   *)
WhyEnded == running \/ (\E c \in Users : split[c]) \/ (kind = "thread" /\ short # {})

(* The inductive invariant.  Reaping and WhyEnded speak of all clients at  *)
(* once; the rest is said of each client on its own, so that a step of one *)
(* client keeps what is known of the others (KeptUser).                    *)
SocketInv ==
  /\ SocketTypes /\ MainInv /\ Reaping /\ WhyEnded
  /\ \A c \in Users : UserInv(c)

LEMMA SocketInitially == SocketInit => SocketInv
  <1> SUFFICES ASSUME SocketInit PROVE SocketInv
      OBVIOUS
  <1>1. SocketTypes
        BY DEF SocketTypes, SocketInit, All
  <1>2. MainInv
        BY DEF MainInv, SocketInit, All, Pending
  <1>3. ASSUME NEW c \in Users PROVE UserInv(c)
    <2>1. /\ coming[c] = 0 /\ arrived[c] = 0 /\ answers[c] = 0 /\ handler[c] = "off"
          /\ split[c] = FALSE /\ reset[c] = "" /\ fin[c] = FALSE /\ user[c] = "away"
          /\ proc[c] = "none" /\ holders[c] = {} /\ edges = {} /\ reported = {}
          /\ main = "idle" /\ accepted = {} /\ c # "idle"
          BY UsersAssumption DEF SocketInit, All
    <2>2. Load(c) = 0
      <3>1. Load(c) = 0 + 0 + 0 + 0
            BY <2>1 DEF Load, Sending
      <3>2. QED
            BY <3>1
    <2>3. Place(c) /\ Paced(c)
          BY <2>1, <2>2 DEF Place, Paced
    <2>4. Seen(c)
          BY <2>1 DEF Seen
    <2>5. QED
          BY <2>3, <2>4 DEF UserInv
  <1>4. Reaping
    <2>1. Alive = {} /\ Unreaped = {} /\ main \notin Users
          BY UsersAssumption DEF Alive, Unreaped, SocketInit, All
    <2>2. peak = 0
          BY DEF SocketInit
    <2>3. QED
          BY <2>1, <2>2, FS_EmptySet DEF Reaping, JustForked
  <1>5. WhyEnded
        BY DEF WhyEnded, SocketInit
  <1>6. QED
        BY <1>1, <1>2, <1>3, <1>4, <1>5 DEF SocketInv

LEMMA UserTypes ==
  ASSUME SocketTypes, NEW c \in Users
  PROVE  /\ user[c] \in {"away", "typing", "waiting", "closed"} /\ split[c] \in BOOLEAN
         /\ coming[c] \in Nat /\ arrived[c] \in Nat /\ answers[c] \in Nat
         /\ fin[c] \in BOOLEAN /\ reset[c] \in {"", "conn", "pipe"}
         /\ holders[c] \in SUBSET {"server", "child"} /\ handler[c] \in {"off", "recv", "send"}
         /\ proc[c] \in {"none", "run", "zombie", "reaped"}
         /\ c # "idle" /\ c # "listen"
  BY UsersAssumption DEF SocketTypes

LEMMA LoadIs ==
  ASSUME SocketTypes, NEW c \in Users
  PROVE  /\ Load(c) \in Nat /\ Load(c) >= Sending(c) + answers[c]
         /\ Load(c) = 0 => coming[c] = 0 /\ arrived[c] = 0 /\ answers[c] = 0 /\ handler[c] # "send"
  <1>1. Sending(c) \in Nat /\ (handler[c] = "send" => Sending(c) = 1)
        BY DEF Sending
  <1>2. coming[c] \in Nat /\ arrived[c] \in Nat /\ answers[c] \in Nat
        BY UserTypes
  <1>3. PICK a \in Nat, b \in Nat, x \in Nat, s \in Nat :
          a = coming[c] /\ b = arrived[c] /\ x = answers[c] /\ s = Sending(c)
        BY <1>1, <1>2
  <1>4. Load(c) = a + b + x + s
        BY <1>3 DEF Load
  <1>5. Load(c) \in Nat /\ Load(c) >= s + x /\ (Load(c) = 0 => a = 0 /\ b = 0 /\ x = 0 /\ s = 0)
        BY <1>4
  <1>6. QED
        BY <1>1, <1>3, <1>5

(* A step that leaves c alone keeps what is known of c.                    *)
UserKept(c) ==
  /\ kind' = kind /\ user'[c] = user[c] /\ split'[c] = split[c]
  /\ coming'[c] = coming[c] /\ arrived'[c] = arrived[c] /\ answers'[c] = answers[c]
  /\ fin'[c] = fin[c] /\ reset'[c] = reset[c]
  /\ holders'[c] = holders[c] /\ handler'[c] = handler[c]
  /\ proc'[c] = "none" <=> proc[c] = "none"
  /\ proc'[c] = "run" <=> proc[c] = "run"
  /\ c \in accepted' <=> c \in accepted
  /\ main' = c <=> main = c
  /\ c \in edges' \cup reported' <=> c \in edges \cup reported
  /\ running' => running

LEMMA KeptUser ==
  ASSUME NEW c \in Users, UserInv(c), UserKept(c)
  PROVE  UserInv(c)'
  <1>1. Place(c)'
        BY DEF UserKept, UserInv, Place
  <1>2. Seen(c)'
        BY DEF UserKept, UserInv, Seen
  <1>3. Load(c)' = Load(c) /\ (Gone(c) => Gone(c)')
        BY DEF UserKept, Load, Sending, Gone
  <1>4. Paced(c)'
        BY <1>3 DEF UserKept, UserInv, Paced
  <1>5. QED
        BY <1>1, <1>2, <1>4 DEF UserInv

LEMMA UserConnectsKeeps ==
  ASSUME SocketInv, NEW c \in Users, UserConnects(c)
  PROVE  SocketInv'
  <1> USE DEF UserConnects, wire, handling, mainVars, procVars
  <1>1. SocketTypes /\ UserInv(c) /\ SocketTypes'
        BY DEF SocketInv, SocketTypes
  <1>2. ASSUME NEW d \in Users, d # c PROVE UserInv(d)'
    <2>1. user'[d] = user[d]
          BY <1>1, <1>2 DEF SocketTypes
    <2>2. d \in edges' <=> d \in edges
          BY UsersAssumption
    <2>3. UserKept(d)
          BY <2>1, <2>2 DEF UserKept
    <2>4. QED
          BY <2>3, KeptUser DEF SocketInv
  <1>3. UserInv(c)'
    <2>1. user[c] = "away" /\ user'[c] = "typing" /\ split'[c] = split[c] /\ reset'[c] = reset[c]
          BY <1>1 DEF SocketTypes
    <2>2. Load(c)' = Load(c)
          BY DEF Load, Sending
    <2>3. Paced(c)'
          BY <1>1, <2>1, <2>2 DEF UserInv, Paced
    <2>4. Place(c)'
          BY <1>1 DEF UserInv, Place
    <2>5. Seen(c)'
          BY <1>1, UserTypes DEF UserInv, Seen
    <2>6. QED
          BY <2>3, <2>4, <2>5 DEF UserInv
  <1>4. MainInv'
        BY DEF SocketInv, MainInv
  <1>5. Reaping' /\ WhyEnded'
        BY DEF SocketInv, Reaping, JustForked, Alive, Unreaped, WhyEnded
  <1>6. QED
        BY <1>1, <1>2, <1>3, <1>4, <1>5 DEF SocketInv

LEMMA SendLineKeeps ==
  ASSUME SocketInv, NEW c \in Users, SendLine(c)
  PROVE  SocketInv'
  <1>1. SocketTypes /\ UserInv(c)
        BY DEF SocketInv
  <1>2. PICK n \in SizesOf[c] :
          /\ coming' = [coming EXCEPT ![c] = IF Gone(c) THEN 0 ELSE @ + n]
          /\ split' = [split EXCEPT ![c] = @ \/ n > 1]
        BY DEF SendLine
  <1>3. n \in Nat
        BY SizesAssumption
  <1>4. /\ user[c] = "typing" /\ user' = [user EXCEPT ![c] = "waiting"]
        /\ UNCHANGED <<kind, arrived, answers, fin, reset, holders, handler, edges, accepted,
                       reported, main, short, proc, peak, running>>
        BY DEF SendLine, handling, mainVars, procVars
  <1>5. coming[c] \in Nat /\ split[c] \in BOOLEAN
        BY <1>1, UserTypes
  <1>6. SocketTypes'
    <2>1. coming' \in [Users -> Nat]
      <3>1. PICK v \in Nat : v = IF Gone(c) THEN 0 ELSE coming[c] + n
            BY <1>3, <1>5
      <3>2. coming' = [coming EXCEPT ![c] = v]
            BY <1>2, <3>1
      <3>3. QED
            BY <1>1, <3>2 DEF SocketTypes
    <2>2. split' \in [Users -> BOOLEAN]
      <3>1. (split[c] \/ n > 1) \in BOOLEAN
            OBVIOUS
      <3>2. QED
            BY <1>1, <1>2, <3>1, Zenon DEF SocketTypes
    <2>3. QED
          BY <1>1, <1>4, <2>1, <2>2 DEF SocketTypes
  <1>7. ASSUME NEW d \in Users, d # c PROVE UserInv(d)'
        BY <1>1, <1>2, <1>4, <1>7, KeptUser DEF SocketInv, SocketTypes, UserKept
  <1>8. UserInv(c)'
    <2>1. /\ user'[c] = "waiting" /\ split'[c] = (split[c] \/ n > 1)
          /\ coming'[c] = IF Gone(c) THEN 0 ELSE coming[c] + n
          BY <1>1, <1>2, <1>4 DEF SocketTypes
    <2>2. ASSUME ~ split'[c] PROVE reset[c] = "" /\ Load(c) = 0 /\ n <= 1
      <3>1. ~ split[c] /\ ~ (n > 1)
            BY <2>1, <2>2, Zenon
      <3>2. n <= 1
            BY <1>3, <3>1
      <3>3. reset[c] = "" /\ Load(c) = 0
            BY <1>1, <1>4, <3>1 DEF UserInv, Paced
      <3>4. QED
            BY <3>2, <3>3
    <2>3. ASSUME ~ split'[c] PROVE Load(c)' <= 1
      <3>1. coming[c] = 0 /\ arrived[c] = 0 /\ answers[c] = 0 /\ handler[c] # "send"
            BY <1>1, <2>2, <2>3, LoadIs
      <3>2. coming'[c] \in Nat /\ coming'[c] <= 1
        <4>1. 0 + n = n
              BY <1>3
        <4>2. coming'[c] = 0 \/ coming'[c] = n
              BY <2>1, <3>1, <4>1
        <4>3. n <= 1
              BY <2>2, <2>3
        <4>4. QED
              BY <1>3, <4>2, <4>3
      <3>3. QED
            BY <1>4, <3>1, <3>2 DEF Load, Sending
    <2>4. Paced(c)'
          BY <1>4, <2>1, <2>2, <2>3 DEF Paced
    <2>5. Place(c)' /\ Seen(c)'
          BY <1>1, <1>4 DEF UserInv, Place, Seen
    <2>6. QED
          BY <2>4, <2>5 DEF UserInv
  <1>9. MainInv'
    <2>1. Pending' = Pending
          BY <1>1, <1>4 DEF Pending, SocketTypes
    <2>2. QED
          BY <1>4, <2>1 DEF SocketInv, MainInv
  <1>10. Reaping' /\ WhyEnded'
    <2>1. WhyEnded'
          BY <1>1, <1>2, <1>4 DEF SocketInv, WhyEnded, SocketTypes
    <2>2. Reaping'
          BY <1>4 DEF SocketInv, Reaping, JustForked, Alive, Unreaped
    <2>3. QED
          BY <2>1, <2>2
  <1>11. QED
        BY <1>6, <1>7, <1>8, <1>9, <1>10 DEF SocketInv

(* A step of c that sends nothing and does not change what c does.         *)
LEMMA PacedKept ==
  ASSUME SocketTypes, SocketTypes', NEW c \in Users, Paced(c),
         split'[c] = split[c], user'[c] = user[c], reset'[c] = reset[c], answers'[c] = answers[c],
         Load(c)' <= Load(c), Gone(c) => Gone(c)'
  PROVE  Paced(c)'
  <1>1. Load(c) \in Nat /\ Load(c)' \in Nat
    <2>1. Load(c) \in Nat
          BY LoadIs
    <2>2. coming'[c] \in Nat /\ arrived'[c] \in Nat /\ answers'[c] \in Nat /\ Sending(c)' \in Nat
          BY DEF SocketTypes, Sending
    <2>3. QED
          BY <2>1, <2>2 DEF Load
  <1>2. Load(c) = 0 => Load(c)' = 0
        BY <1>1
  <1>3. Load(c) <= 1 => Load(c)' <= 1
        BY <1>1
  <1>4. QED
        BY <1>2, <1>3 DEF Paced

LEMMA ReapingKept ==
  ASSUME Reaping, kind' = kind, proc' = proc, peak' = peak, kind = "process" => main' = main
  PROVE  Reaping'
  BY DEF Reaping, JustForked, Alive, Unreaped

LEMMA TypeExitKeeps ==
  ASSUME SocketInv, NEW c \in Users, TypeExit(c)
  PROVE  SocketInv'
  <1>1. SocketTypes /\ UserInv(c)
        BY DEF SocketInv
  <1>2. /\ user[c] = "typing" /\ user' = [user EXCEPT ![c] = "closed"]
        /\ UNCHANGED <<kind, split, coming, arrived, answers, fin, reset, holders, handler, edges,
                       accepted, reported, main, short, proc, peak, running>>
        BY DEF TypeExit, wire, handling, mainVars, procVars
  <1>3. SocketTypes' /\ user'[c] = "closed"
        BY <1>1, <1>2 DEF SocketTypes
  <1>4. ASSUME NEW d \in Users, d # c PROVE UserInv(d)'
        BY <1>1, <1>2, <1>4, KeptUser DEF SocketInv, SocketTypes, UserKept
  <1>5. UserInv(c)'
    <2>1. Load(c)' = Load(c) /\ (Load(c) = 0 => answers[c] = 0)
          BY <1>1, <1>2, LoadIs DEF Load, Sending
    <2>2. Paced(c)'
          BY <1>1, <1>2, <1>3, <2>1 DEF UserInv, Paced
    <2>3. Place(c)' /\ Seen(c)'
          BY <1>1, <1>2 DEF UserInv, Place, Seen
    <2>4. QED
          BY <2>2, <2>3 DEF UserInv
  <1>6. MainInv'
    <2>1. Pending' = Pending
          BY <1>1, <1>2 DEF Pending, SocketTypes
    <2>2. QED
          BY <1>2, <2>1 DEF SocketInv, MainInv
  <1>7. Reaping' /\ WhyEnded'
        BY <1>2, ReapingKept DEF SocketInv, WhyEnded
  <1>8. QED
        BY <1>3, <1>4, <1>5, <1>6, <1>7 DEF SocketInv

LEMMA ReceiveAnswerKeeps ==
  ASSUME SocketInv, NEW c \in Users, ReceiveAnswer(c)
  PROVE  SocketInv'
  <1>1. SocketTypes /\ UserInv(c) /\ answers[c] \in Nat /\ Load(c) \in Nat
        BY UserTypes, LoadIs DEF SocketInv
  <1>2. /\ user[c] = "waiting"
        /\ UNCHANGED <<kind, split, coming, arrived, fin, reset, holders, handler, edges,
                       accepted, reported, main, short, proc, peak, running>>
        BY DEF ReceiveAnswer, handling, mainVars, procVars
  <1>3. \/ /\ answers[c] > 0 /\ answers' = [answers EXCEPT ![c] = 0]
           /\ user' = [user EXCEPT ![c] = "typing"]
        \/ /\ answers[c] = 0 /\ Gone(c) /\ answers' = answers
           /\ user' = [user EXCEPT ![c] = "closed"]
        BY DEF ReceiveAnswer
  <1> DEFINE Moods == {"away", "typing", "waiting", "closed"}
  <1>a. user \in [Users -> Moods] /\ answers \in [Users -> Nat]
        BY <1>1 DEF SocketTypes
  <1>b. /\ user' \in [Users -> Moods] /\ user'[c] \in {"typing", "closed"}
        /\ \A d \in Users : d # c => user'[d] = user[d]
        BY <1>3, <1>a
  <1>c. /\ answers' \in [Users -> Nat]
        /\ \A d \in Users : d # c => answers'[d] = answers[d]
        BY <1>3, <1>a
  <1>4. SocketTypes'
        BY <1>1, <1>2, <1>b, <1>c DEF SocketTypes
  <1>5. ASSUME NEW d \in Users, d # c PROVE UserInv(d)'
    <2>1. user'[d] = user[d] /\ answers'[d] = answers[d]
          BY <1>b, <1>c, <1>5
    <2>2. QED
          BY <1>2, <2>1, KeptUser DEF SocketInv, UserKept
  <1>6. Paced(c)'
    <2>1. CASE /\ answers[c] > 0 /\ answers' = [answers EXCEPT ![c] = 0]
               /\ user' = [user EXCEPT ![c] = "typing"]
      <3>1. user'[c] = "typing" /\ answers'[c] = 0
            BY <1>1, <2>1 DEF SocketTypes
      <3>2. ASSUME ~ split[c] PROVE Load(c)' = 0
        <4>1. Load(c) <= 1
              BY <1>1, <1>2, <3>2 DEF UserInv, Paced
        <4>2. PICK a \in Nat, b \in Nat, x \in Nat, s \in Nat :
                a = coming[c] /\ b = arrived[c] /\ x = answers[c] /\ s = Sending(c)
              BY <1>1, UserTypes DEF Sending
        <4>3. a + b + x + s <= 1 /\ x > 0
              BY <2>1, <4>1, <4>2 DEF Load
        <4>4. a = 0 /\ b = 0 /\ s = 0
              BY <4>3
        <4>5. Sending(c)' = Sending(c)
              BY <1>2 DEF Sending
        <4>6. Load(c)' = 0 + 0 + 0 + 0
              BY <1>2, <3>1, <4>2, <4>4, <4>5 DEF Load
        <4>7. QED
              BY <4>6
      <3>3. QED
            BY <1>1, <1>2, <3>1, <3>2 DEF UserInv, Paced
    <2>2. CASE /\ answers[c] = 0 /\ Gone(c) /\ answers' = answers
               /\ user' = [user EXCEPT ![c] = "closed"]
      <3>1. user'[c] = "closed" /\ Gone(c)'
            BY <1>1, <1>2, <2>2 DEF SocketTypes, Gone
      <3>2. QED
            BY <1>1, <1>2, <2>2, <3>1 DEF UserInv, Paced
    <2>3. QED
          BY <1>3, <2>1, <2>2
  <1>7. Place(c)' /\ Seen(c)'
        BY <1>1, <1>2 DEF UserInv, Place, Seen
  <1>8. MainInv'
    <2>1. ASSUME NEW d \in Users PROVE (user'[d] # "away") <=> (user[d] # "away")
          BY <1>2, <1>b
    <2>2. Pending' = Pending
          BY <1>2, <2>1 DEF Pending
    <2>3. QED
          BY <1>2, <2>2 DEF SocketInv, MainInv
  <1>9. Reaping' /\ WhyEnded'
        BY <1>2, ReapingKept DEF SocketInv, WhyEnded
  <1>10. QED
        BY <1>4, <1>5, <1>6, <1>7, <1>8, <1>9 DEF SocketInv, UserInv

(* The parts of the type invariant that the steps of the wire and of the   *)
(* handlers change.                                                        *)
LEMMA WireTypes ==
  ASSUME SocketTypes
  PROVE  /\ coming \in [Users -> Nat] /\ arrived \in [Users -> Nat] /\ answers \in [Users -> Nat]
         /\ fin \in [Users -> BOOLEAN] /\ reset \in [Users -> {"", "conn", "pipe"}]
         /\ holders \in [Users -> SUBSET {"server", "child"}]
         /\ handler \in [Users -> {"off", "recv", "send"}]
         /\ proc \in [Users -> {"none", "run", "zombie", "reaped"}]
         /\ kind \in {"epoll", "thread", "process"} /\ running \in BOOLEAN
         /\ edges \subseteq Users \cup {"listen"} /\ reported \subseteq Users \cup {"listen"}
  BY DEF SocketTypes

LEMMA DataArrivesKeeps ==
  ASSUME SocketInv, NEW c \in Users, Arrive(c), coming[c] > 0
  PROVE  SocketInv'
  <1>1. SocketTypes /\ UserInv(c)
        BY DEF SocketInv
  <1>2. /\ running /\ coming' = [coming EXCEPT ![c] = @ - 1]
        /\ arrived' = [arrived EXCEPT ![c] = @ + 1]
        /\ edges' = IF kind = "epoll" /\ c \in accepted /\ holders[c] # {} THEN edges \cup {c} ELSE edges
        /\ UNCHANGED <<kind, user, split, answers, fin, reset, holders, handler, accepted,
                       reported, main, short, proc, peak, running>>
    <2>1. coming[c] \in Nat
          BY <1>1, UserTypes
    <2>2. coming[c] # 0
          BY <2>1
    <2>3. QED
          BY <2>2 DEF Arrive, Edge, clientSide, handling, mainVars, procVars
  <1>3. /\ coming' \in [Users -> Nat] /\ coming'[c] = coming[c] - 1
        /\ arrived' \in [Users -> Nat] /\ arrived'[c] = arrived[c] + 1
        /\ \A d \in Users : d # c => coming'[d] = coming[d] /\ arrived'[d] = arrived[d]
    <2>0. coming[c] \in Nat /\ arrived[c] \in Nat
          BY <1>1, UserTypes
    <2>1. PICK a \in Nat, b \in Nat : a = coming[c] - 1 /\ b = arrived[c] + 1
          BY <2>0
    <2>2. coming' = [coming EXCEPT ![c] = a] /\ arrived' = [arrived EXCEPT ![c] = b]
          BY <1>2, <2>1
    <2>3. QED
          BY <1>1, <2>1, <2>2, WireTypes
  <1>4. edges' \subseteq Users \cup {"listen"} /\ \A d \in Users : d # c => (d \in edges' <=> d \in edges)
        BY <1>1, <1>2, WireTypes
  <1>5. SocketTypes'
        BY <1>1, <1>2, <1>3, <1>4 DEF SocketTypes
  <1>6. ASSUME NEW d \in Users, d # c PROVE UserInv(d)'
    <2>1. UserKept(d)
          BY <1>2, <1>3, <1>4, <1>6 DEF UserKept
    <2>2. QED
          BY <2>1, KeptUser DEF SocketInv
  <1>7. Paced(c)'
    <2>1. Load(c)' <= Load(c)
      <3>1. PICK a \in Nat, b \in Nat, x \in Nat, s \in Nat :
              a = coming[c] /\ b = arrived[c] /\ x = answers[c] /\ s = Sending(c)
            BY <1>1, UserTypes DEF Sending
      <3>2. Load(c)' = (a - 1) + (b + 1) + x + s /\ Load(c) = a + b + x + s
            BY <1>2, <1>3, <3>1 DEF Load, Sending
      <3>3. QED
            BY <3>2
    <2>2. Gone(c) => Gone(c)'
          BY <1>2 DEF Gone
    <2>3. QED
          BY <1>1, <1>2, <1>5, <2>1, <2>2, PacedKept DEF UserInv
  <1>8. Place(c)' /\ Seen(c)'
    <2>1. Place(c)'
          BY <1>1, <1>2 DEF UserInv, Place
    <2>2. Seen(c)'
          BY <1>1, <1>2 DEF UserInv, Seen
    <2>3. QED
          BY <2>1, <2>2
  <1>9. MainInv'
    <2>1. Pending' = Pending
          BY <1>2 DEF Pending
    <2>2. QED
          BY <1>2, <2>1 DEF SocketInv, MainInv
  <1>10. Reaping' /\ WhyEnded'
        BY <1>2, ReapingKept DEF SocketInv, WhyEnded
  <1>11. QED
        BY <1>5, <1>6, <1>7, <1>8, <1>9, <1>10 DEF SocketInv, UserInv

LEMMA EndArrivesKeeps ==
  ASSUME SocketInv, NEW c \in Users, Arrive(c), ~ (coming[c] > 0)
  PROVE  SocketInv'
  <1>1. SocketTypes /\ UserInv(c)
        BY DEF SocketInv
  <1>2. /\ running /\ coming[c] = 0 /\ user[c] = "closed"
        /\ fin' = [fin EXCEPT ![c] = TRUE]
        /\ reset' = [reset EXCEPT ![c] = IF answers[c] > 0 /\ @ = "" THEN "conn" ELSE @]
        /\ edges' = IF kind = "epoll" /\ c \in accepted /\ holders[c] # {} THEN edges \cup {c} ELSE edges
        /\ UNCHANGED <<kind, user, split, coming, arrived, answers, holders, handler, accepted,
                       reported, main, short, proc, peak, running>>
        BY DEF Arrive, Edge, clientSide, handling, mainVars, procVars
  <1>3. /\ fin' \in [Users -> BOOLEAN] /\ fin'[c] = TRUE
        /\ \A d \in Users : d # c => fin'[d] = fin[d]
        BY <1>1, <1>2, WireTypes, Zenon
  <1>4. /\ reset' \in [Users -> {"", "conn", "pipe"}]
        /\ reset'[c] = IF answers[c] > 0 /\ reset[c] = "" THEN "conn" ELSE reset[c]
        /\ \A d \in Users : d # c => reset'[d] = reset[d]
        BY <1>1, <1>2, WireTypes
  <1>5. edges' \subseteq Users \cup {"listen"} /\ \A d \in Users : d # c => (d \in edges' <=> d \in edges)
        BY <1>1, <1>2, WireTypes
  <1>6. SocketTypes'
        BY <1>1, <1>2, <1>3, <1>4, <1>5 DEF SocketTypes
  <1>7. ASSUME NEW d \in Users, d # c PROVE UserInv(d)'
    <2>1. UserKept(d)
          BY <1>2, <1>3, <1>4, <1>5, <1>7 DEF UserKept
    <2>2. QED
          BY <2>1, KeptUser DEF SocketInv
  <1>8. Paced(c)'
    <2>1. Load(c)' = Load(c) /\ (Gone(c) => Gone(c)')
          BY <1>2 DEF Load, Sending, Gone
    <2>2. ~ split[c] => answers[c] = 0 /\ reset'[c] = reset[c]
      <3>1. ~ split[c] => answers[c] = 0
            BY <1>1, <1>2 DEF UserInv, Paced
      <3>2. answers[c] = 0 => ~ (answers[c] > 0)
            OBVIOUS
      <3>3. QED
            BY <1>4, <3>1, <3>2
    <2>3. QED
          BY <1>1, <1>2, <2>1, <2>2 DEF UserInv, Paced
  <1>9. Place(c)' /\ Seen(c)'
    <2>1. Place(c)'
          BY <1>1, <1>2, <1>3 DEF UserInv, Place
    <2>2. Seen(c)'
          BY <1>1, <1>2 DEF UserInv, Seen
    <2>3. QED
          BY <2>1, <2>2
  <1>10. MainInv'
    <2>1. Pending' = Pending
          BY <1>2 DEF Pending
    <2>2. QED
          BY <1>2, <2>1 DEF SocketInv, MainInv
  <1>11. Reaping' /\ WhyEnded'
        BY <1>2, ReapingKept DEF SocketInv, WhyEnded
  <1>12. QED
        BY <1>6, <1>7, <1>8, <1>9, <1>10, <1>11 DEF SocketInv, UserInv

LEMMA RecvLineKeeps ==
  ASSUME SocketInv, NEW c \in Users, RecvLine(c)
  PROVE  SocketInv'
  <1>1. SocketTypes /\ UserInv(c)
        BY DEF SocketInv
  <1>2. /\ handler[c] = "recv" /\ arrived[c] > 0
        /\ handler' = [handler EXCEPT ![c] = "send"]
        /\ UNCHANGED <<kind, user, split, coming, answers, fin, reset, holders, edges, accepted,
                       reported, main, short, proc, peak, running>>
        BY DEF RecvLine, clientSide, mainVars, procVars
  <1>3. PICK k \in 1 .. arrived[c] : arrived' = [arrived EXCEPT ![c] = @ - k]
        BY DEF RecvLine
  <1>4. arrived' \in [Users -> Nat] /\ arrived'[c] = arrived[c] - k
        /\ \A d \in Users : d # c => arrived'[d] = arrived[d]
    <2>1. arrived[c] \in Nat /\ arrived[c] > 0
          BY <1>1, <1>2, UserTypes
    <2>2. PICK b \in Nat : b = arrived[c] - k
          BY <2>1
    <2>3. arrived' = [arrived EXCEPT ![c] = b]
          BY <1>3, <2>2
    <2>4. QED
          BY <1>1, <2>2, <2>3, WireTypes
  <1>5. /\ handler' \in [Users -> {"off", "recv", "send"}] /\ handler'[c] = "send"
        /\ \A d \in Users : d # c => handler'[d] = handler[d]
        BY <1>1, <1>2, WireTypes
  <1>6. SocketTypes'
        BY <1>1, <1>2, <1>4, <1>5 DEF SocketTypes
  <1>7. ASSUME NEW d \in Users, d # c PROVE UserInv(d)'
    <2>1. UserKept(d)
          BY <1>2, <1>4, <1>5, <1>7 DEF UserKept
    <2>2. QED
          BY <2>1, KeptUser DEF SocketInv
  <1>8. Paced(c)'
    <2>1. Load(c)' <= Load(c)
      <3>1. PICK a \in Nat, b \in Nat, x \in Nat : a = coming[c] /\ b = arrived[c] /\ x = answers[c]
            BY <1>1, UserTypes
      <3>2. Sending(c) = 0 /\ Sending(c)' = 1
            BY <1>2, <1>5 DEF Sending
      <3>3. Load(c)' = a + (b - k) + x + 1 /\ Load(c) = a + b + x + 0
            BY <1>2, <1>4, <3>1, <3>2 DEF Load
      <3>4. k \in Int /\ k >= 1
            BY <3>1
      <3>5. QED
            BY <3>3, <3>4
    <2>2. Gone(c) => Gone(c)'
          BY <1>2 DEF Gone
    <2>3. QED
          BY <1>1, <1>2, <1>6, <2>1, <2>2, PacedKept DEF UserInv
  <1>9. Place(c)' /\ Seen(c)'
    <2>1. Place(c)'
          BY <1>1, <1>2 DEF UserInv, Place
    <2>2. Seen(c)'
          BY <1>1, <1>2, <1>5 DEF UserInv, Seen
    <2>3. QED
          BY <2>1, <2>2
  <1>10. MainInv'
    <2>1. Pending' = Pending
          BY <1>2 DEF Pending
    <2>2. QED
          BY <1>2, <2>1 DEF SocketInv, MainInv
  <1>11. Reaping' /\ WhyEnded'
        BY <1>2, ReapingKept DEF SocketInv, WhyEnded
  <1>12. QED
        BY <1>6, <1>7, <1>8, <1>9, <1>10, <1>11 DEF SocketInv, UserInv

LEMMA AnswerGoesKeeps ==
  ASSUME SocketInv, running, NEW c \in Users, SendAnswer(c), reset[c] # "pipe"
  PROVE  SocketInv'
  <1>1. SocketTypes /\ UserInv(c)
        BY DEF SocketInv
  <1>2. /\ handler[c] = "send" /\ handler' = [handler EXCEPT ![c] = "recv"]
        /\ UNCHANGED <<kind, user, split, coming, arrived, fin, holders, accepted,
                       reported, main, short, proc, peak, running>>
        BY DEF SendAnswer, clientSide, mainVars, procVars
  <1>3. \/ /\ user[c] # "closed" /\ answers' = [answers EXCEPT ![c] = @ + 1]
           /\ reset' = reset /\ edges' = edges
        \/ /\ user[c] = "closed" /\ answers' = answers
           /\ reset' = [reset EXCEPT ![c] = IF @ = "" /\ fin[c] THEN "pipe" ELSE "conn"]
           /\ edges' = IF kind = "epoll" /\ c \in accepted /\ holders[c] # {} THEN edges \cup {c} ELSE edges
        BY DEF SendAnswer, Edge
  <1>4. /\ handler' \in [Users -> {"off", "recv", "send"}] /\ handler'[c] = "recv"
        /\ \A d \in Users : d # c => handler'[d] = handler[d]
        BY <1>1, <1>2, WireTypes
  <1>5. /\ answers' \in [Users -> Nat] /\ \A d \in Users : d # c => answers'[d] = answers[d]
        /\ user[c] # "closed" => answers'[c] = answers[c] + 1
    <2>1. CASE user[c] # "closed"
      <3>0. answers[c] \in Nat
            BY <1>1, UserTypes
      <3>1. PICK x \in Nat : x = answers[c] + 1
            BY <3>0
      <3>2. answers' = [answers EXCEPT ![c] = x]
            BY <1>3, <2>1, <3>1
      <3>3. QED
            BY <1>1, <3>1, <3>2, WireTypes
    <2>2. CASE user[c] = "closed"
          BY <1>1, <1>3, <2>2, WireTypes
    <2>3. QED
          BY <2>1, <2>2
  <1>6. /\ reset' \in [Users -> {"", "conn", "pipe"}]
        /\ \A d \in Users : d # c => reset'[d] = reset[d]
        BY <1>1, <1>3, WireTypes
  <1>7. /\ edges' \subseteq Users \cup {"listen"} /\ edges \subseteq edges'
        /\ \A d \in Users : d # c => (d \in edges' <=> d \in edges)
        /\ kind # "epoll" => edges' = edges
        /\ c \in edges' => c \in edges \/ (c \in accepted /\ holders[c] # {})
    <2>1. CASE edges' = edges
          BY <1>1, <2>1, WireTypes
    <2>2. CASE edges' = edges \cup {c} /\ kind = "epoll" /\ c \in accepted /\ holders[c] # {}
          BY <1>1, <2>2, WireTypes
    <2>3. QED
          BY <1>3, <2>1, <2>2
  <1>8. SocketTypes'
        BY <1>1, <1>2, <1>4, <1>5, <1>6, <1>7 DEF SocketTypes
  <1>9. ASSUME NEW d \in Users, d # c PROVE UserInv(d)'
    <2>1. UserKept(d)
          BY <1>2, <1>4, <1>5, <1>6, <1>7, <1>9 DEF UserKept
    <2>2. QED
          BY <2>1, KeptUser DEF SocketInv
  <1>10. Place(c)
        BY <1>1 DEF UserInv
  <1>11. Paced(c)'
    <2>1. ~ Gone(c) /\ Load(c) # 0
      <3>1. ~ Gone(c)
            BY <1>2, <1>10 DEF Place, Gone
      <3>2. QED
            BY <1>1, <1>2, <3>1, LoadIs
    <2>2. ~ split[c] => user[c] # "closed" /\ reset[c] = "" /\ user[c] = "waiting" /\ Load(c) <= 1
          BY <1>1, <2>1, UserTypes DEF UserInv, Paced
    <2>3. user[c] # "closed" => Load(c)' = Load(c) /\ reset' = reset
      <3>1. PICK a \in Nat, b \in Nat, x \in Nat : a = coming[c] /\ b = arrived[c] /\ x = answers[c]
            BY <1>1, UserTypes
      <3>2. Sending(c) = 1 /\ Sending(c)' = 0
            BY <1>2, <1>4 DEF Sending
      <3>3. user[c] # "closed" => Load(c)' = a + b + (x + 1) + 0
            BY <1>2, <1>5, <3>1, <3>2 DEF Load
      <3>4. Load(c) = a + b + x + 1
            BY <3>1, <3>2 DEF Load
      <3>5. a + b + (x + 1) + 0 = a + b + x + 1
            OBVIOUS
      <3>6. user[c] # "closed" => reset' = reset
            BY <1>3
      <3>7. QED
            BY <3>3, <3>4, <3>5, <3>6
    <2>4. QED
          BY <1>2, <2>2, <2>3 DEF Paced
  <1>12. Place(c)' /\ Seen(c)'
    <2>1. Place(c)'
          BY <1>2, <1>10 DEF Place
    <2>2. Seen(c)'
          BY <1>1, <1>2, <1>4, <1>7 DEF UserInv, Seen
    <2>3. QED
          BY <2>1, <2>2
  <1>13. MainInv'
    <2>1. Pending' = Pending
          BY <1>2 DEF Pending
    <2>2. QED
          BY <1>2, <1>7, <2>1 DEF SocketInv, MainInv
  <1>14. Reaping' /\ WhyEnded'
        BY <1>2, ReapingKept DEF SocketInv, WhyEnded
  <1>15. QED
        BY <1>8, <1>9, <1>11, <1>12, <1>13, <1>14 DEF SocketInv, UserInv

(* The end of a handler, with or without the process it runs in.           *)
LEMMA HandlerEndsKeeps ==
  ASSUME SocketInv, running, NEW c \in Users, handler[c] # "off", HandlerEnds(c),
         UNCHANGED <<kind, user, split, coming, arrived, answers, fin, reset>>,
         \/ edges' = edges \ {c} /\ running' = running /\ handler[c] = "recv"
         \/ edges' = edges /\ running' = (kind = "process") /\ split[c]
  PROVE  SocketInv'
  <1>1. SocketTypes /\ UserInv(c)
        BY DEF SocketInv
  <1>2. /\ holders' = [holders EXCEPT ![c] = @ \ {IF kind = "process" THEN "child" ELSE "server"}]
        /\ handler' = [handler EXCEPT ![c] = "off"]
        /\ proc' = IF kind = "process" THEN [proc EXCEPT ![c] = "zombie"] ELSE proc
        /\ main' = IF kind = "epoll" THEN "idle" ELSE main
        /\ UNCHANGED <<peak, accepted, reported, short>>
        BY DEF HandlerEnds
  <1>3. /\ holders' \in [Users -> SUBSET {"server", "child"}]
        /\ holders'[c] = holders[c] \ {IF kind = "process" THEN "child" ELSE "server"}
        /\ \A d \in Users : d # c => holders'[d] = holders[d]
    <2>1. PICK H \in SUBSET {"server", "child"} :
            H = holders[c] \ {IF kind = "process" THEN "child" ELSE "server"}
          BY <1>1, UserTypes
    <2>2. holders' = [holders EXCEPT ![c] = H]
          BY <1>2, <2>1
    <2>3. QED
          BY <1>1, <2>1, <2>2, WireTypes
  <1>4. /\ handler' \in [Users -> {"off", "recv", "send"}] /\ handler'[c] = "off"
        /\ \A d \in Users : d # c => handler'[d] = handler[d]
        BY <1>1, <1>2, WireTypes
  <1>5. /\ proc' \in [Users -> {"none", "run", "zombie", "reaped"}]
        /\ proc'[c] = IF kind = "process" THEN "zombie" ELSE proc[c]
        /\ \A d \in Users : d # c => proc'[d] = proc[d]
        BY <1>1, <1>2, WireTypes
  <1>6. /\ Place(c) /\ MainInv
        /\ kind = "epoll" => main = c
        BY <1>1 DEF SocketInv, UserInv, Place
  <1>7. /\ edges' \subseteq Users \cup {"listen"} /\ running' \in BOOLEAN
        /\ \A d \in Users : d # c => (d \in edges' <=> d \in edges)
        /\ "listen" \in edges => "listen" \in edges'
        /\ edges = {} => edges' = {}
        BY <1>1, WireTypes, UsersAssumption
  <1>8. SocketTypes'
    <2>1. main' \in Users \cup {"idle", "listen"}
          BY <1>1, <1>2 DEF SocketTypes
    <2>2. QED
          BY <1>1, <1>2, <1>3, <1>4, <1>5, <1>7, <2>1 DEF SocketTypes
  <1>9. ASSUME NEW d \in Users, d # c PROVE UserInv(d)'
    <2>1. main' = d <=> main = d
          BY <1>2, <1>6, <1>9, UsersAssumption
    <2>2. UserKept(d)
          BY <1>2, <1>3, <1>4, <1>5, <1>7, <1>9, <2>1 DEF UserKept
    <2>3. QED
          BY <2>2, KeptUser DEF SocketInv
  <1>10. Place(c)'
    <2>1. c \in accepted' /\ handler'[c] = "off"
          BY <1>2, <1>4, <1>6 DEF Place
    <2>2. kind # "process" => holders'[c] \subseteq {"server"} /\ proc'[c] = "none"
          BY <1>3, <1>5, <1>6 DEF Place
    <2>3. kind = "process" => /\ "child" \notin holders'[c] /\ proc'[c] # "run"
                              /\ "server" \in holders'[c] <=> main' = c
          BY <1>2, <1>3, <1>5, <1>6 DEF Place
    <2>4. QED
          BY <2>1, <2>2, <2>3 DEF Place
  <1>11. Seen(c)'
    <2>1. CASE kind = "epoll" /\ edges' = edges \ {c}
      <3>1. holders'[c] = {}
            BY <1>3, <1>6, <2>1 DEF Place
      <3>2. c \notin edges' \cup reported'
            BY <1>2, <1>6, <2>1 DEF MainInv
      <3>3. QED
            BY <3>1, <3>2 DEF Seen
    <2>2. CASE kind # "epoll" \/ ~ running'
          BY <2>2 DEF Seen
    <2>3. QED
          BY <2>1, <2>2
  <1>12. Paced(c)'
    <2>1. CASE split[c]
          BY <2>1 DEF Paced
    <2>2. CASE ~ split[c]
      <3>1. handler[c] = "recv" /\ running' = running
            BY <2>2
      <3>2. Load(c)' = Load(c)
            BY <1>4, <3>1 DEF Load, Sending
      <3>3. Load(c) <= Load(c)
            BY <1>1, LoadIs
      <3>4. ~ Gone(c)
            BY <1>6 DEF Place, Gone
      <3>5. QED
            BY <1>1, <1>8, <3>2, <3>3, <3>4, PacedKept DEF UserInv
    <2>3. QED
          BY <2>1, <2>2
  <1>13. MainInv'
    <2>1. Pending' = Pending
          BY <1>2 DEF Pending
    <2>2. "idle" \notin reported
          BY <1>1, UsersAssumption DEF SocketTypes
    <2>3. main \notin reported /\ (kind # "epoll" => edges = {} /\ reported = {} /\ main # "listen")
          BY <1>6 DEF MainInv
    <2>4. kind = "epoll" /\ Pending \ short # {} => "listen" \in edges \cup reported
          BY <1>6, UsersAssumption DEF MainInv
    <2>5. QED
          BY <1>2, <1>7, <2>1, <2>2, <2>3, <2>4 DEF MainInv
  <1>14. Reaping'
    <2>1. CASE kind = "process"
      <3>1. proc[c] = "run" /\ proc'[c] = "zombie" /\ main' = main
            BY <1>2, <1>5, <1>6, <2>1 DEF Place
      <3>2. Alive' = Alive \ {c} /\ c \in Alive
            BY <1>5, <3>1 DEF Alive
      <3>3. Unreaped' = Unreaped
            BY <1>5, <3>1 DEF Unreaped
      <3>4. JustForked' = JustForked
            BY <1>5, <3>1 DEF JustForked
      <3>5. IsFiniteSet(Alive)
            BY UsersAssumption, FS_Subset DEF Alive
      <3>6. Cardinality(Alive') <= Cardinality(Alive) /\ Cardinality(Alive) \in Nat /\ Cardinality(Alive') \in Nat
            BY <3>2, <3>5, FS_Subset, FS_CardinalityType
      <3>7. peak \in Nat
            BY <1>1 DEF SocketTypes
      <3>8. Cardinality(Alive') <= peak
            BY <2>1, <3>6, <3>7 DEF SocketInv, Reaping
      <3>9. QED
            BY <1>2, <2>1, <3>3, <3>4, <3>8 DEF SocketInv, Reaping
    <2>2. CASE kind # "process"
          BY <2>2 DEF Reaping
    <2>3. QED
          BY <2>1, <2>2
  <1>15. WhyEnded'
        BY DEF WhyEnded
  <1>16. QED
        BY <1>8, <1>9, <1>10, <1>11, <1>12, <1>13, <1>14, <1>15 DEF SocketInv, UserInv

LEMMA SendAnswerKeeps ==
  ASSUME SocketInv, running, NEW c \in Users, SendAnswer(c)
  PROVE  SocketInv'
  <1>1. CASE reset[c] # "pipe"
        BY <1>1, AnswerGoesKeeps
  <1>2. CASE reset[c] = "pipe"
    <2>1. /\ handler[c] # "off" /\ HandlerEnds(c) /\ edges' = edges /\ running' = (kind = "process")
          /\ UNCHANGED <<kind, user, split, coming, arrived, answers, fin, reset>>
          BY <1>2 DEF SendAnswer, clientSide
    <2>2. split[c]
          BY <1>2 DEF SocketInv, UserInv, Paced
    <2>3. QED
          BY <2>1, <2>2, HandlerEndsKeeps
  <1>3. QED
        BY <1>1, <1>2

LEMMA RecvEndsKeeps ==
  ASSUME SocketInv, running, NEW c \in Users, RecvEnds(c)
  PROVE  SocketInv'
  <1>1. /\ handler[c] = "recv" /\ HandlerEnds(c) /\ edges' = edges \ {c} /\ running' = running
        /\ UNCHANGED <<kind, user, split, coming, arrived, answers, fin, reset>>
        BY DEF RecvEnds, clientSide, wire
  <1>2. handler[c] # "off"
        BY <1>1
  <1>3. QED
        BY <1>1, <1>2, HandlerEndsKeeps

(* A step of the main loop that touches no user's part of the state.       *)
LEMMA LoopKeeps ==
  ASSUME SocketInv, running,
         UNCHANGED <<kind, user, split, wire, handling, accepted, procVars, running>>,
         main' \in {main, "idle", "listen"}, main \in {main', "idle", "listen"},
         edges' \cup reported' \subseteq Users \cup {"listen"},
         \A d \in Users : d \in edges' \cup reported' <=> d \in edges \cup reported,
         kind = "process" => main' = main,
         MainInv'
  PROVE  SocketInv'
  <1>1. UNCHANGED <<kind, user, split, coming, arrived, answers, fin, reset, holders, handler,
                    accepted, proc, peak, running>>
        BY DEF wire, handling, procVars
  <1>2. SocketTypes
        BY DEF SocketInv
  <1>3. SocketTypes'
    <2>1. main' \in Users \cup {"idle", "listen"}
          BY <1>2 DEF SocketTypes
    <2>2. QED
          BY <1>1, <1>2, <2>1 DEF SocketTypes
  <1>4. ASSUME NEW d \in Users PROVE UserInv(d)'
    <2>1. main' = d <=> main = d
          BY UsersAssumption
    <2>2. UserKept(d)
          BY <1>1, <2>1 DEF UserKept
    <2>3. QED
          BY <2>2, KeptUser DEF SocketInv
  <1>5. Reaping' /\ WhyEnded'
        BY <1>1, ReapingKept DEF SocketInv, WhyEnded
  <1>6. QED
        BY <1>3, <1>4, <1>5 DEF SocketInv

LEMMA EpollReportsKeeps ==
  ASSUME SocketInv, running, EpollReports
  PROVE  SocketInv'
  <1>1. /\ kind = "epoll" /\ main = "idle" /\ reported = {} /\ reported' = edges /\ edges' = {}
        /\ UNCHANGED <<kind, user, split, wire, handling, accepted, main, short, procVars, running>>
        BY DEF EpollReports, clientSide
  <1>2. edges \subseteq Users \cup {"listen"}
        BY DEF SocketInv, SocketTypes
  <1>3. MainInv'
    <2>1. Pending' = Pending
          BY <1>1 DEF Pending
    <2>2. "idle" \notin edges
          BY <1>2, UsersAssumption
    <2>3. QED
          BY <1>1, <2>1, <2>2 DEF SocketInv, MainInv
  <1>4. QED
        BY <1>1, <1>2, <1>3, LoopKeeps

LEMMA AcceptAgainKeeps ==
  ASSUME SocketInv, running, AcceptAgain
  PROVE  SocketInv'
  <1>1. /\ main = "listen" /\ Pending = {} /\ main' = "idle"
        /\ UNCHANGED <<kind, user, split, wire, handling, edges, accepted, reported, procVars, running>>
        BY DEF AcceptAgain, clientSide
  <1>2. edges \subseteq Users \cup {"listen"} /\ reported \subseteq Users \cup {"listen"}
        BY DEF SocketInv, SocketTypes
  <1>3. kind = "epoll"
        BY <1>1 DEF SocketInv, MainInv
  <1>4. MainInv'
    <2>1. Pending' = {}
          BY <1>1 DEF Pending
    <2>2. "idle" \notin reported
          BY <1>2, UsersAssumption
    <2>3. QED
          BY <1>1, <1>3, <2>1, <2>2 DEF MainInv
  <1>5. QED
        BY <1>1, <1>2, <1>3, <1>4, LoopKeeps

LEMMA ListenFailsKeeps ==
  ASSUME SocketInv, running, ListenFails
  PROVE  SocketInv'
  <1>1. /\ main = "listen" /\ main' = "idle" /\ short' = short \cup Pending
        /\ UNCHANGED <<kind, user, split, wire, handling, edges, accepted, reported, procVars, running>>
        BY DEF ListenFails, clientSide
  <1>2. edges \subseteq Users \cup {"listen"} /\ reported \subseteq Users \cup {"listen"}
        BY DEF SocketInv, SocketTypes
  <1>3. kind = "epoll"
        BY <1>1 DEF SocketInv, MainInv
  <1>4. MainInv'
    <2>1. Pending' \ short' = {}
          BY <1>1 DEF Pending
    <2>2. "idle" \notin reported
          BY <1>2, UsersAssumption
    <2>3. QED
          BY <1>1, <1>3, <2>1, <2>2 DEF MainInv
  <1>5. QED
        BY <1>1, <1>2, <1>3, <1>4, LoopKeeps

LEMMA EpollPicksKeeps ==
  ASSUME SocketInv, running, EpollPicks
  PROVE  SocketInv'
  <1>1. PICK e \in reported :
          /\ reported' = reported \ {e} /\ main' = e
          /\ handler' = [c \in Users |-> IF c = e THEN "recv" ELSE handler[c]]
        BY DEF EpollPicks
  <1>2. /\ main = "idle"
        /\ UNCHANGED <<kind, user, split, wire, holders, edges, accepted, short, procVars, running>>
        BY DEF EpollPicks, clientSide
  <1>3. SocketTypes /\ MainInv
        BY DEF SocketInv
  <1>4. kind = "epoll" /\ e \in Users \cup {"listen"}
        BY <1>1, <1>3 DEF SocketTypes, MainInv
  <1>5. MainInv'
    <2>1. Pending' = Pending
          BY <1>2 DEF Pending
    <2>2. QED
          BY <1>1, <1>2, <1>3, <1>4, <2>1 DEF MainInv
  <1>6. CASE e = "listen"
    <2>1. handler' = handler
      <3>1. handler = [d \in Users |-> handler[d]]
            BY <1>3, WireTypes
      <3>2. \A d \in Users : d # e
            BY <1>6, UsersAssumption
      <3>3. QED
            BY <1>1, <3>1, <3>2
    <2>2. /\ edges' \cup reported' \subseteq Users \cup {"listen"}
          /\ \A d \in Users : d \in edges' \cup reported' <=> d \in edges \cup reported
          BY <1>1, <1>2, <1>3, <1>6, UsersAssumption DEF SocketTypes
    <2>3. QED
          BY <1>1, <1>2, <1>4, <1>5, <1>6, <2>1, <2>2, LoopKeeps DEF handling
  <1>7. CASE e \in Users
    <2>1. UNCHANGED <<kind, user, split, coming, arrived, answers, fin, reset, holders, edges,
                      accepted, short, proc, peak, running>>
          BY <1>2 DEF wire, procVars
    <2>2. /\ handler' \in [Users -> {"off", "recv", "send"}] /\ handler'[e] = "recv"
          /\ \A d \in Users : d # e => handler'[d] = handler[d]
          BY <1>1, <1>3, <1>7, WireTypes
    <2>3. SocketTypes'
      <3>1. main' \in Users \cup {"idle", "listen"} /\ reported' \subseteq Users \cup {"listen"}
            BY <1>1, <1>3, <1>7 DEF SocketTypes
      <3>2. QED
            BY <1>3, <2>1, <2>2, <3>1 DEF SocketTypes
    <2>4. ASSUME NEW d \in Users, d # e PROVE UserInv(d)'
      <3>1. main' = d <=> main = d
            BY <1>1, <1>2, <2>4, UsersAssumption
      <3>2. UserKept(d)
            BY <1>1, <2>1, <2>2, <2>4, <3>1 DEF UserKept
      <3>3. QED
            BY <3>2, KeptUser DEF SocketInv
    <2>5. UserInv(e)
          BY <1>7 DEF SocketInv
    <2>6. e \in accepted /\ holders[e] # {} /\ (handler[e] # "off" => main = e)
          BY <1>1, <1>4, <2>5 DEF UserInv, Seen, Place
    <2>7. handler[e] = "off"
          BY <1>2, <1>7, <2>6, UsersAssumption
    <2>8. Place(e)'
          BY <1>1, <1>4, <2>1, <2>5, <2>6 DEF UserInv, Place
    <2>9. Seen(e)'
          BY <2>1, <2>2, <2>6 DEF Seen
    <2>10. Paced(e)'
      <3>1. Load(e)' = Load(e)
            BY <2>1, <2>2, <2>7 DEF Load, Sending
      <3>2. Load(e) <= Load(e)
            BY <1>3, <1>7, LoadIs
      <3>3. Gone(e) => Gone(e)'
            BY <2>1 DEF Gone
      <3>4. QED
            BY <1>3, <1>7, <2>1, <2>3, <2>5, <3>1, <3>2, <3>3, PacedKept DEF UserInv
    <2>11. Reaping' /\ WhyEnded'
          BY <1>4, <2>1, ReapingKept DEF SocketInv, WhyEnded
    <2>12. QED
          BY <1>5, <2>3, <2>4, <2>8, <2>9, <2>10, <2>11 DEF SocketInv, UserInv
  <1>8. QED
        BY <1>4, <1>6, <1>7

LEMMA RecvAgainKeeps ==
  ASSUME SocketInv, running, NEW c \in Users, RecvAgain(c)
  PROVE  SocketInv'
  <1>1. SocketTypes /\ UserInv(c) /\ MainInv
        BY DEF SocketInv
  <1>2. /\ kind = "epoll" /\ handler[c] = "recv" /\ arrived[c] = 0 /\ ~ fin[c] /\ reset[c] = ""
        /\ handler' = [handler EXCEPT ![c] = "off"] /\ main' = "idle"
        /\ UNCHANGED <<kind, user, split, coming, arrived, answers, fin, reset, holders, edges,
                       accepted, reported, short, proc, peak, running>>
        BY DEF RecvAgain, Closes, clientSide, wire, procVars
  <1>3. /\ handler' \in [Users -> {"off", "recv", "send"}] /\ handler'[c] = "off"
        /\ \A d \in Users : d # c => handler'[d] = handler[d]
        BY <1>1, <1>2, WireTypes
  <1>4. main = c
        BY <1>1, <1>2 DEF UserInv, Place
  <1>5. SocketTypes'
        BY <1>1, <1>2, <1>3 DEF SocketTypes
  <1>6. ASSUME NEW d \in Users, d # c PROVE UserInv(d)'
    <2>1. main' = d <=> main = d
          BY <1>2, <1>4, <1>6, UsersAssumption
    <2>2. UserKept(d)
          BY <1>2, <1>3, <1>6, <2>1 DEF UserKept
    <2>3. QED
          BY <2>2, KeptUser DEF SocketInv
  <1>7. Place(c)'
        BY <1>1, <1>2, <1>3 DEF UserInv, Place
  <1>8. Seen(c)'
    <2>1. arrived'[c] = 0
          BY <1>2
    <2>2. ~ (arrived'[c] > 0)
          BY <2>1
    <2>3. QED
          BY <1>1, <1>2, <2>2 DEF UserInv, Seen
  <1>9. Paced(c)'
    <2>1. Load(c)' = Load(c)
          BY <1>2, <1>3 DEF Load, Sending
    <2>2. Load(c) <= Load(c)
          BY <1>1, LoadIs
    <2>3. Gone(c) => Gone(c)'
          BY <1>2 DEF Gone
    <2>4. QED
          BY <1>1, <1>2, <1>5, <2>1, <2>2, <2>3, PacedKept DEF UserInv
  <1>10. MainInv'
    <2>1. Pending' = Pending
          BY <1>2 DEF Pending
    <2>2. "idle" \notin reported /\ main # "listen"
          BY <1>1, <1>4, UsersAssumption DEF SocketTypes
    <2>3. QED
          BY <1>1, <1>2, <2>1, <2>2 DEF MainInv
  <1>11. Reaping' /\ WhyEnded'
        BY <1>2, ReapingKept DEF SocketInv, WhyEnded
  <1>12. QED
        BY <1>5, <1>6, <1>7, <1>8, <1>9, <1>10, <1>11 DEF SocketInv, UserInv

LEMMA AcceptOneKeeps ==
  ASSUME SocketInv, running, NEW c \in Users, AcceptOne(c)
  PROVE  SocketInv'
  <1>1. SocketTypes /\ UserInv(c) /\ MainInv
        BY DEF SocketInv
  <1>2. /\ c \notin accepted /\ main = IF kind = "epoll" THEN "listen" ELSE "idle"
        /\ accepted' = accepted \cup {c} /\ holders' = [holders EXCEPT ![c] = {"server"}]
        /\ handler' = [handler EXCEPT ![c] = IF kind = "thread" THEN "recv" ELSE "off"]
        /\ main' = IF kind = "process" THEN c ELSE main
        /\ edges' = IF kind = "epoll" /\ (arrived[c] > 0 \/ fin[c]) THEN edges \cup {c} ELSE edges
        /\ UNCHANGED <<kind, user, split, coming, arrived, answers, fin, reset, reported, short, proc, peak,
                       running>>
        BY DEF AcceptOne, Pending, clientSide, wire, procVars
  <1>3. /\ holders' \in [Users -> SUBSET {"server", "child"}] /\ holders'[c] = {"server"}
        /\ \A d \in Users : d # c => holders'[d] = holders[d]
        BY <1>1, <1>2, WireTypes
  <1>4. /\ handler' \in [Users -> {"off", "recv", "send"}]
        /\ handler'[c] = IF kind = "thread" THEN "recv" ELSE "off"
        /\ \A d \in Users : d # c => handler'[d] = handler[d]
        BY <1>1, <1>2, WireTypes
  <1>5. /\ edges' \subseteq Users \cup {"listen"}
        /\ \A d \in Users : d # c => (d \in edges' <=> d \in edges)
        /\ kind # "epoll" => edges' = edges
        /\ kind = "epoll" /\ (arrived[c] > 0 \/ fin[c]) => c \in edges'
    <2>1. CASE kind = "epoll" /\ (arrived[c] > 0 \/ fin[c])
          BY <1>1, <1>2, <2>1, WireTypes
    <2>2. CASE ~ (kind = "epoll" /\ (arrived[c] > 0 \/ fin[c]))
          BY <1>1, <1>2, <2>2, WireTypes
    <2>3. QED
          BY <2>1, <2>2
  <1>6. handler[c] = "off" /\ proc[c] = "none" /\ (reset[c] # "" => fin[c])
        BY <1>1, <1>2 DEF UserInv, Place
  <1>7. SocketTypes'
    <2>1. main' \in Users \cup {"idle", "listen"} /\ accepted' \subseteq Users
          BY <1>1, <1>2 DEF SocketTypes
    <2>2. QED
          BY <1>1, <1>2, <1>3, <1>4, <1>5, <2>1 DEF SocketTypes
  <1>8. ASSUME NEW d \in Users, d # c PROVE UserInv(d)'
    <2>1. (main' = d <=> main = d) /\ (d \in accepted' <=> d \in accepted)
          BY <1>2, <1>8, UsersAssumption
    <2>2. UserKept(d)
          BY <1>2, <1>3, <1>4, <1>5, <1>8, <2>1 DEF UserKept
    <2>3. QED
          BY <2>2, KeptUser DEF SocketInv
  <1>9. Place(c)'
    <2>1. c \in accepted' /\ proc'[c] = "none" /\ (kind = "process" => main' = c)
          BY <1>2, <1>6
    <2>2. QED
          BY <1>2, <1>3, <1>4, <2>1 DEF Place
  <1>10. Seen(c)'
    <2>1. c \in accepted' /\ holders'[c] # {}
          BY <1>2, <1>3
    <2>2. QED
          BY <1>2, <1>5, <1>6, <2>1 DEF Seen
  <1>11. Paced(c)'
    <2>1. Load(c)' = Load(c)
      <3>1. Sending(c) = 0 /\ Sending(c)' = 0
            BY <1>4, <1>6 DEF Sending
      <3>2. QED
            BY <1>2, <3>1 DEF Load
    <2>2. Load(c) <= Load(c)
          BY <1>1, LoadIs
    <2>3. ~ Gone(c)
          BY <1>2 DEF Gone
    <2>4. QED
          BY <1>1, <1>2, <1>7, <2>1, <2>2, <2>3, PacedKept DEF UserInv
  <1>12. MainInv'
    <2>1. kind # "epoll" => main' # "listen" /\ edges' = {} /\ reported' = {}
          BY <1>1, <1>2, <1>5, UsersAssumption DEF MainInv
    <2>2. kind = "epoll" => main' = "listen" /\ main' \notin reported'
          BY <1>1, <1>2 DEF MainInv
    <2>3. QED
          BY <1>2, <2>1, <2>2 DEF MainInv
  <1>13. Reaping'
    <2>1. ~ JustForked' /\ (kind = "process" => ~ JustForked)
          BY <1>2, <1>6, UsersAssumption DEF JustForked
    <2>2. Alive' = Alive /\ Unreaped' = Unreaped
          BY <1>2 DEF Alive, Unreaped
    <2>3. QED
          BY <1>2, <2>1, <2>2 DEF SocketInv, Reaping
  <1>14. WhyEnded'
        BY <1>2 DEF SocketInv, WhyEnded
  <1>15. QED
        BY <1>7, <1>8, <1>9, <1>10, <1>11, <1>12, <1>13, <1>14 DEF SocketInv, UserInv

(* A connection that is accepted and given up at once.                     *)
LEMMA AcceptDropsKeeps ==
  ASSUME SocketInv, running, NEW c \in Users, AcceptDrops(c)
  PROVE  SocketInv'
  <1>1. SocketTypes /\ UserInv(c) /\ MainInv
        BY DEF SocketInv
  <1>2. /\ c \notin accepted /\ accepted' = accepted \cup {c}
        /\ UNCHANGED <<kind, user, split, coming, arrived, answers, fin, reset, holders, handler,
                       edges, reported, main, proc, peak>>
        BY DEF AcceptDrops, Pending, clientSide, wire, handling, procVars
  <1>3. \/ kind = "epoll" /\ main = "listen" /\ running' = running
        \/ kind = "thread" /\ short' = short \cup {c} /\ running' = FALSE
        BY DEF AcceptDrops
  <1>4. SocketTypes'
    <2>1. accepted' \subseteq Users /\ running' \in BOOLEAN
          BY <1>1, <1>2, <1>3 DEF SocketTypes
    <2>2. QED
          BY <1>1, <1>2, <2>1 DEF SocketTypes
  <1>5. ASSUME NEW d \in Users, d # c PROVE UserInv(d)'
    <2>1. UserKept(d)
          BY <1>2, <1>5 DEF UserKept
    <2>2. QED
          BY <2>1, KeptUser DEF SocketInv
  <1>6. handler[c] = "off" /\ proc[c] = "none" /\ holders[c] = {}
        BY <1>1, <1>2 DEF UserInv, Place
  <1>7. Place(c)'
        BY <1>2, <1>3, <1>6 DEF Place
  <1>8. Seen(c)'
    <2>1. kind = "epoll" => c \notin edges \cup reported
          BY <1>1, <1>2 DEF UserInv, Seen
    <2>2. QED
          BY <1>2, <1>6, <2>1 DEF Seen
  <1>9. Paced(c)'
    <2>1. Load(c)' = Load(c)
          BY <1>2 DEF Load, Sending
    <2>2. Load(c) <= Load(c)
          BY <1>1, LoadIs
    <2>3. ~ Gone(c)
          BY <1>2 DEF Gone
    <2>4. QED
          BY <1>1, <1>2, <1>4, <2>1, <2>2, <2>3, PacedKept DEF UserInv
  <1>10. MainInv'
         BY <1>1, <1>2, <1>3 DEF MainInv
  <1>11. Reaping' /\ WhyEnded'
    <2>1. WhyEnded'
      <3>1. CASE running' = running
            BY <3>1 DEF WhyEnded
      <3>2. CASE kind = "thread" /\ short' = short \cup {c}
            BY <1>2, <3>2 DEF WhyEnded
      <3>3. QED
            BY <1>3, <3>1, <3>2
    <2>2. QED
          BY <1>2, <2>1, ReapingKept DEF SocketInv
  <1>12. QED
         BY <1>4, <1>5, <1>7, <1>8, <1>9, <1>10, <1>11 DEF SocketInv, UserInv

LEMMA ForkChildKeeps ==
  ASSUME SocketInv, running, NEW c \in Users, ForkChild(c)
  PROVE  SocketInv'
  <1>1. SocketTypes /\ UserInv(c) /\ MainInv
        BY DEF SocketInv
  <1>2. /\ kind = "process" /\ main = c /\ proc[c] = "none"
        /\ UNCHANGED <<kind, user, split, coming, arrived, answers, fin, reset, edges, accepted,
                       reported, short, running>>
        BY DEF ForkChild, clientSide, wire
  <1>3. \/ /\ proc' = [proc EXCEPT ![c] = "run"]
           /\ peak' = IF Cardinality(Alive) + 1 > peak THEN Cardinality(Alive) + 1 ELSE peak
           /\ handler' = [handler EXCEPT ![c] = "recv"]
           /\ holders' = [holders EXCEPT ![c] = {"server", "child"}]
           /\ main' = main
        \/ /\ holders' = [holders EXCEPT ![c] = {}] /\ main' = "idle"
           /\ UNCHANGED <<handler, proc, peak>>
        BY DEF ForkChild, procVars
  <1>4. handler[c] = "off" /\ c \in accepted /\ "server" \in holders[c]
        BY <1>1, <1>2 DEF UserInv, Place
  <1>5. /\ holders' \in [Users -> SUBSET {"server", "child"}]
        /\ handler' \in [Users -> {"off", "recv", "send"}] /\ handler'[c] # "send"
        /\ proc' \in [Users -> {"none", "run", "zombie", "reaped"}]
        /\ \A d \in Users : d # c =>
             holders'[d] = holders[d] /\ handler'[d] = handler[d] /\ proc'[d] = proc[d]
    <2>1. CASE proc' = [proc EXCEPT ![c] = "run"] /\ handler' = [handler EXCEPT ![c] = "recv"]
               /\ holders' = [holders EXCEPT ![c] = {"server", "child"}]
          BY <1>1, <2>1, WireTypes
    <2>2. CASE holders' = [holders EXCEPT ![c] = {}] /\ UNCHANGED <<handler, proc>>
          BY <1>1, <1>4, <2>2, WireTypes
    <2>3. QED
          BY <1>3, <2>1, <2>2
  <1>6. IsFiniteSet(Alive) /\ Cardinality(Alive) \in Nat /\ IsFiniteSet(Unreaped) /\ Cardinality(Unreaped) \in Nat
        BY UsersAssumption, FS_Subset, FS_CardinalityType DEF Alive, Unreaped
  <1>7. peak \in Nat /\ peak' \in Nat /\ peak' >= peak
    <2>1. peak \in Nat
          BY <1>1 DEF SocketTypes
    <2>2. QED
          BY <1>3, <1>6, <2>1
  <1>8. SocketTypes'
    <2>1. main' \in Users \cup {"idle", "listen"}
          BY <1>2, <1>3
    <2>2. QED
          BY <1>1, <1>2, <1>5, <1>7, <2>1 DEF SocketTypes
  <1>9. ASSUME NEW d \in Users, d # c PROVE UserInv(d)'
    <2>1. main' = d <=> main = d
          BY <1>2, <1>3, <1>9, UsersAssumption
    <2>2. UserKept(d)
          BY <1>2, <1>5, <1>9, <2>1 DEF UserKept
    <2>3. QED
          BY <2>2, KeptUser DEF SocketInv
  <1>10. Place(c)' /\ Seen(c)'
    <2>1. \/ proc'[c] = "run" /\ holders'[c] = {"server", "child"} /\ main' = c
          \/ proc'[c] = "none" /\ holders'[c] = {} /\ main' # c /\ handler'[c] = "off"
      <3>1. CASE proc' = [proc EXCEPT ![c] = "run"] /\ main' = main
                 /\ holders' = [holders EXCEPT ![c] = {"server", "child"}]
            BY <1>1, <1>2, <3>1, WireTypes
      <3>2. CASE holders' = [holders EXCEPT ![c] = {}] /\ main' = "idle" /\ UNCHANGED <<handler, proc>>
            BY <1>1, <1>2, <1>4, <3>2, WireTypes, UsersAssumption
      <3>3. QED
            BY <1>3, <3>1, <3>2
    <2>2. Place(c)'
          BY <1>2, <1>4, <2>1 DEF Place
    <2>3. Seen(c)'
          BY <1>2 DEF Seen
    <2>4. QED
          BY <2>2, <2>3
  <1>11. Paced(c)'
    <2>1. Load(c)' = Load(c)
      <3>1. Sending(c) = 0 /\ Sending(c)' = 0
            BY <1>4, <1>5 DEF Sending
      <3>2. QED
            BY <1>2, <3>1 DEF Load
    <2>2. Load(c) <= Load(c)
          BY <1>1, LoadIs
    <2>3. ~ Gone(c)
          BY <1>4 DEF Gone
    <2>4. QED
          BY <1>1, <1>2, <1>8, <2>1, <2>2, <2>3, PacedKept DEF UserInv
  <1>12. MainInv'
        BY <1>1, <1>2, <1>3, UsersAssumption DEF MainInv
  <1>13. Reaping'
    <2>1. ~ JustForked
          BY <1>2 DEF JustForked
    <2>2. Cardinality(Alive) <= peak /\ Cardinality(Unreaped) <= peak + 0
          BY <1>2, <2>1 DEF SocketInv, Reaping
    <2>3. CASE proc' = proc
      <3>1. Alive' = Alive /\ Unreaped' = Unreaped /\ peak' = peak /\ main' = "idle"
            BY <1>1, <1>2, <1>3, <2>3, WireTypes DEF Alive, Unreaped
      <3>2. ~ JustForked'
            BY <3>1, UsersAssumption DEF JustForked
      <3>3. QED
            BY <2>2, <3>1, <3>2 DEF Reaping
    <2>4. CASE /\ proc' = [proc EXCEPT ![c] = "run"] /\ main' = main
               /\ peak' = IF Cardinality(Alive) + 1 > peak THEN Cardinality(Alive) + 1 ELSE peak
      <3>1. proc'[c] = "run" /\ c \notin Alive /\ c \notin Unreaped
            BY <1>1, <1>2, <2>4, WireTypes DEF Alive, Unreaped
      <3>2. Alive' = Alive \cup {c} /\ Unreaped' = Unreaped \cup {c}
        <4>1. Alive' = Alive \cup {c}
              BY <1>5, <3>1 DEF Alive
        <4>2. Unreaped' = Unreaped \cup {c}
              BY <1>5, <3>1 DEF Unreaped
        <4>3. QED
              BY <4>1, <4>2
      <3>3. /\ Cardinality(Alive') = Cardinality(Alive) + 1
            /\ Cardinality(Unreaped') = Cardinality(Unreaped) + 1
            BY <1>6, <3>1, <3>2, FS_AddElement
      <3>4. JustForked'
            BY <1>2, <2>4, <3>1 DEF JustForked
      <3>5. Cardinality(Alive') <= peak' /\ Cardinality(Unreaped') <= peak' + 1
            BY <1>6, <1>7, <2>2, <2>4, <3>3
      <3>6. QED
            BY <3>4, <3>5 DEF Reaping
    <2>5. QED
          BY <1>3, <2>3, <2>4
  <1>14. WhyEnded'
        BY <1>2 DEF SocketInv, WhyEnded
  <1>15. QED
        BY <1>8, <1>9, <1>10, <1>11, <1>12, <1>13, <1>14 DEF SocketInv, UserInv

LEMMA ParentGoesOnKeeps ==
  ASSUME SocketInv, running, NEW c \in Users, ParentGoesOn(c)
  PROVE  SocketInv'
  <1>1. SocketTypes /\ UserInv(c) /\ MainInv
        BY DEF SocketInv
  <1>2. /\ kind = "process" /\ main = c /\ proc[c] # "none" /\ main' = "idle"
        /\ holders' = [holders EXCEPT ![c] = @ \ {"server"}]
        /\ UNCHANGED <<kind, user, split, coming, arrived, answers, fin, reset, handler, edges,
                       accepted, reported, short, peak, running>>
        BY DEF ParentGoesOn, clientSide, wire
  <1>3. \/ \E z \in Users : proc[z] = "zombie" /\ proc' = [proc EXCEPT ![z] = "reaped"]
        \/ (\A z \in Users : proc[z] # "zombie") /\ proc' = proc
        BY DEF ParentGoesOn
  <1>4. /\ holders' \in [Users -> SUBSET {"server", "child"}]
        /\ holders'[c] = holders[c] \ {"server"}
        /\ \A d \in Users : d # c => holders'[d] = holders[d]
    <2>1. PICK H \in SUBSET {"server", "child"} : H = holders[c] \ {"server"}
          BY <1>1, UserTypes
    <2>2. holders' = [holders EXCEPT ![c] = H]
          BY <1>2, <2>1
    <2>3. QED
          BY <1>1, <2>1, <2>2, WireTypes
  <1>5. /\ proc' \in [Users -> {"none", "run", "zombie", "reaped"}]
        /\ \A d \in Users : /\ proc'[d] = "none" <=> proc[d] = "none"
                            /\ proc'[d] = "run" <=> proc[d] = "run"
        BY <1>1, <1>3, WireTypes
  <1>6. SocketTypes'
        BY <1>1, <1>2, <1>4, <1>5 DEF SocketTypes
  <1>7. ASSUME NEW d \in Users, d # c PROVE UserInv(d)'
    <2>1. main' = d <=> main = d
          BY <1>2, <1>7, UsersAssumption
    <2>2. UserKept(d)
          BY <1>2, <1>4, <1>5, <1>7, <2>1 DEF UserKept
    <2>3. QED
          BY <2>2, KeptUser DEF SocketInv
  <1>8. c \in accepted /\ "server" \in holders[c] /\ Place(c)
        BY <1>1, <1>2 DEF UserInv, Place
  <1>9. Place(c)' /\ Seen(c)'
    <2>1. /\ main' # c /\ "server" \notin holders'[c]
          /\ "child" \in holders'[c] <=> "child" \in holders[c]
          BY <1>2, <1>4, UsersAssumption
    <2>2. Place(c)'
          BY <1>2, <1>5, <1>8, <2>1 DEF Place
    <2>3. Seen(c)'
          BY <1>2 DEF Seen
    <2>4. QED
          BY <2>2, <2>3
  <1>10. Paced(c)'
    <2>1. Load(c)' = Load(c)
          BY <1>2 DEF Load, Sending
    <2>2. Load(c) <= Load(c)
          BY <1>1, LoadIs
    <2>3. ~ Gone(c)
          BY <1>8 DEF Gone
    <2>4. QED
          BY <1>1, <1>2, <1>6, <2>1, <2>2, <2>3, PacedKept DEF UserInv
  <1>11. MainInv'
        BY <1>1, <1>2 DEF MainInv
  <1>12. Reaping'
    <2>1. /\ IsFiniteSet(Alive) /\ Cardinality(Alive) \in Nat
          /\ IsFiniteSet(Unreaped) /\ Cardinality(Unreaped) \in Nat
          BY UsersAssumption, FS_Subset, FS_CardinalityType DEF Alive, Unreaped
    <2>2. peak \in Nat
          BY <1>1 DEF SocketTypes
    <2>3. JustForked
          BY <1>2 DEF JustForked
    <2>4. Cardinality(Alive) <= peak /\ Cardinality(Unreaped) <= peak + 1
          BY <1>2, <2>3 DEF SocketInv, Reaping
    <2>5. Alive' = Alive
          BY <1>5 DEF Alive
    <2>6. Cardinality(Unreaped') <= peak
      <3>1. CASE \E z \in Users : proc[z] = "zombie" /\ proc' = [proc EXCEPT ![z] = "reaped"]
        <4>1. PICK z \in Users : proc[z] = "zombie" /\ proc' = [proc EXCEPT ![z] = "reaped"]
              BY <3>1
        <4>2. proc'[z] = "reaped" /\ \A d \in Users : d # z => proc'[d] = proc[d]
              BY <1>1, <4>1, WireTypes
        <4>3. Unreaped' = Unreaped \ {z} /\ z \in Unreaped
              BY <4>1, <4>2 DEF Unreaped
        <4>4. Cardinality(Unreaped') = Cardinality(Unreaped) - 1
              BY <2>1, <4>3, FS_RemoveElement
        <4>5. QED
              BY <2>1, <2>2, <2>4, <4>4
      <3>2. CASE (\A z \in Users : proc[z] # "zombie") /\ proc' = proc
        <4>1. Unreaped' = Alive
              BY <3>2 DEF Unreaped, Alive
        <4>2. QED
              BY <2>4, <4>1
      <3>3. QED
            BY <1>3, <3>1, <3>2
    <2>7. ~ JustForked'
          BY <1>2, UsersAssumption DEF JustForked
    <2>8. peak' = peak /\ peak + 0 = peak
          BY <1>2, <2>2
    <2>9. QED
          BY <2>4, <2>5, <2>6, <2>7, <2>8 DEF Reaping
  <1>13. WhyEnded'
        BY <1>2 DEF SocketInv, WhyEnded
  <1>14. QED
        BY <1>6, <1>7, <1>9, <1>10, <1>11, <1>12, <1>13 DEF SocketInv, UserInv

LEMMA SocketStepKeeps == SocketInv /\ [SocketNext]_socketVars => SocketInv'
  <1> SUFFICES ASSUME SocketInv, [SocketNext]_socketVars PROVE SocketInv'
      OBVIOUS
  <1>1. CASE UNCHANGED socketVars
    <2>1. UNCHANGED <<kind, user, split, coming, arrived, answers, fin, reset, holders, handler,
                      accepted, edges, reported, main, short, proc, peak, running>>
          BY <1>1 DEF socketVars, clientSide, wire, handling, mainVars, procVars
    <2>2. SocketTypes' /\ MainInv' /\ WhyEnded' /\ Reaping'
          BY <2>1, ReapingKept DEF SocketInv, SocketTypes, MainInv, Pending, WhyEnded
    <2>3. ASSUME NEW c \in Users PROVE UserInv(c)'
          BY <2>1, KeptUser DEF SocketInv, UserKept
    <2>4. QED
          BY <2>2, <2>3 DEF SocketInv
  <1>2. ASSUME NEW c \in Users, UserStep(c) PROVE SocketInv'
        BY <1>2, UserConnectsKeeps, SendLineKeeps, ReceiveAnswerKeeps, TypeExitKeeps DEF UserStep
  <1>3. ASSUME NEW c \in Users, Arrive(c) PROVE SocketInv'
        BY <1>3, DataArrivesKeeps, EndArrivesKeeps
  <1>4. ASSUME NEW c \in Users, HandlerStep(c) PROVE SocketInv'
        BY <1>4, RecvLineKeeps, SendAnswerKeeps, RecvEndsKeeps, RecvAgainKeeps DEF HandlerStep
  <1>5. CASE ServerMain
        BY <1>5, AcceptOneKeeps, AcceptDropsKeeps, ForkChildKeeps, ParentGoesOnKeeps,
           EpollReportsKeeps, EpollPicksKeeps, AcceptAgainKeeps, ListenFailsKeeps DEF ServerMain
  <1>6. QED
        BY <1>1, <1>2, <1>3, <1>4, <1>5 DEF SocketNext

(* What the clients of the three servers rely on, for any number of        *)
(* clients, lines and lengths: children are reaped in time; client and     *)
(* server stay in step and the server stays up while every line arrives in *)
(* one piece and every thread can be created; and no event that a handler  *)
(* has to see is lost, but for the connections that accept failed for.     *)
THEOREM ExamplesAreSound == SocketInit /\ [][SocketNext]_socketVars => []ExamplesSound
  <1>1. SocketInv => ExamplesSound
    <2> SUFFICES ASSUME SocketInv PROVE ExamplesSound
        OBVIOUS
    <2>1. SocketTypes /\ \A c \in Users : UserInv(c)
          BY DEF SocketInv
    <2>2. ReapedInTime
      <3>1. CASE kind = "process"
        <4>1. main = "idle" => ~ JustForked
              BY UsersAssumption DEF JustForked
        <4>2. peak \in Nat
              BY <2>1 DEF SocketTypes
        <4>3. peak + 0 = peak
              BY <4>2
        <4>4. QED
              BY <3>1, <4>1, <4>3 DEF SocketInv, Reaping, ReapedInTime
      <3>2. CASE kind # "process"
        <4>1. Unreaped = {}
              BY <2>1, <3>2 DEF Unreaped, UserInv, Place
        <4>2. peak \in Nat
              BY <2>1 DEF SocketTypes
        <4>3. QED
              BY <4>1, <4>2, FS_EmptySet DEF ReapedInTime
      <3>3. QED
            BY <3>1, <3>2
    <2>3. InStep
      <3>1. ASSUME NEW c \in Users, user[c] = "typing", ~ split[c]
            PROVE  answers[c] = 0 /\ arrived[c] = 0 /\ coming[c] = 0
            BY <2>1, <3>1, LoadIs DEF UserInv, Paced
      <3>2. QED
            BY <3>1 DEF InStep, SocketInv, WhyEnded
    <2>4. NoEventLost
      <3>1. kind = "epoll" /\ running =>
              /\ Pending \ short # {} => main = "listen" \/ "listen" \in edges \cup reported
              /\ \A c \in accepted :
                   holders[c] # {} /\ handler[c] = "off" /\ (arrived[c] > 0 \/ fin[c] \/ reset[c] # "")
                     => c \in edges \cup reported
        <4>1. accepted \subseteq Users
              BY <2>1 DEF SocketTypes
        <4>2. QED
              BY <2>1, <4>1 DEF SocketInv, MainInv, UserInv, Seen
      <3>2. ASSUME kind = "process", NEW c \in Users, proc[c] # "run", main # c PROVE holders[c] = {}
            BY <2>1, <3>2, UserTypes DEF UserInv, Place
      <3>3. QED
            BY <3>1, <3>2 DEF NoEventLost
    <2>5. QED
          BY <2>2, <2>3, <2>4 DEF ExamplesSound
  <1>2. QED
        BY <1>1, SocketInitially, SocketStepKeeps, PTL

=============================================================================
