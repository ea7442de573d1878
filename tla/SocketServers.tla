--------------------------- MODULE SocketServers ----------------------------
(***************************************************************************)
(* The socket examples (the network programming directory): three servers  *)
(* for one kind of client.  The client sends a line, waits for an answer   *)
(* and repeats; the server answers every successful recv.  `kind' tells    *)
(* the servers apart: edge-triggered epoll, a thread or a process for      *)
(* each connection.                                                        *)
(*                                                                         *)
(* Data is counted in pieces: what arrives at once, BUFFER_SIZE at most.   *)
(* The empty line has none and a longer one any number, a short line too:  *)
(* TCP does not keep it together.  One recv takes one piece or several.    *)
(* Answers are short: the client's recv takes all there are.  epoll_wait   *)
(* does not fail, and no send buffer is full.                              *)
(***************************************************************************)
EXTENDS Integers, FiniteSets

CONSTANTS Users,      \* the clients, each connects once
          SizesOf,    \* in how many pieces each client's lines may arrive
          LinesOf     \* bound: how many lines each client sends

ASSUME UsersAssumption == IsFiniteSet(Users) /\ "idle" \notin Users /\ "listen" \notin Users
ASSUME SizesAssumption == \A c \in Users : SizesOf[c] \subseteq Nat

VARIABLES
    kind,
    user,      \* user[c]: "away", "typing", "waiting" in recv, "closed"
    lines,     \* lines[c]: how many lines c has sent
    split,     \* history: c has sent a line that arrives in several pieces
    mute,      \* history: the last line of c was empty
    coming,    \* coming[c]: pieces sent and not yet arrived
    arrived,   \* arrived[c]: pieces in the server's socket
    answers,   \* answers[c]: answers in the client's socket
    fin,       \* fin[c]: the end of c's stream has arrived
    reset,     \* reset[c]: "", "conn" (ECONNRESET) or "pipe" (EPIPE)
    accepted,  \* connections taken from the listen queue
    holders,   \* holders[c]: who has the descriptor open: "server", "child"
    handler,   \* handler[c]: "off", or next call of the loop: "recv", "send"
    edges,     \* epoll: descriptors with an event that is not reported yet
    reported,  \* epoll: events[], reported and not handled
    short,     \* history: connections that accept or a new thread was refused for
    main,      \* what the main loop is at: "idle", "listen" or a client
    proc,      \* proc[c]: "none", "run", "zombie", "reaped"
    peak,      \* history: most children that ran at the same time
    running    \* the server process has not been killed

clientSide == <<user, lines, split, mute>>
wire == <<coming, arrived, answers, fin, reset>>
handling == <<holders, handler>>
mainVars == <<accepted, reported, main, short>>
procVars == <<proc, peak>>
socketVars == <<kind, clientSide, wire, handling, edges, mainVars, procVars, running>>

All(x) == [c \in Users |-> x]
Pending == {c \in Users : user[c] # "away"} \ accepted
Gone(c) == (c \in accepted /\ holders[c] = {}) \/ ~running
Alive == {c \in Users : proc[c] = "run"}
Unreaped == {c \in Users : proc[c] \in {"run", "zombie"}}
Edge(c) == IF kind = "epoll" /\ c \in accepted /\ holders[c] # {} THEN edges \cup {c} ELSE edges

SocketInit ==
    /\ kind \in {"epoll", "thread", "process"}
    /\ user = All("away") /\ lines = All(0) /\ split = All(FALSE) /\ mute = All(FALSE)
    /\ coming = All(0) /\ arrived = All(0) /\ answers = All(0)
    /\ fin = All(FALSE) /\ reset = All("")
    /\ accepted = {} /\ holders = All({}) /\ handler = All("off")
    /\ edges = {} /\ reported = {} /\ main = "idle" /\ short = {}
    /\ proc = All("none") /\ peak = 0 /\ running = TRUE

-----------------------------------------------------------------------------
\* The client.
UserConnects(c) ==
    /\ running /\ user[c] = "away"
    /\ user' = [user EXCEPT ![c] = "typing"]
    /\ edges' = IF kind = "epoll" THEN edges \cup {"listen"} ELSE edges
    /\ UNCHANGED <<kind, lines, split, mute, wire, handling, mainVars, procVars, running>>

\* An empty line sends nothing and waits for an answer all the same.
SendLine(c) ==
    /\ user[c] = "typing" /\ lines[c] < LinesOf[c]
    /\ \E n \in SizesOf[c] :
          /\ coming' = [coming EXCEPT ![c] = IF Gone(c) THEN 0 ELSE @ + n]
          /\ split' = [split EXCEPT ![c] = @ \/ n > 1]
          /\ mute' = [mute EXCEPT ![c] = n = 0]
    /\ lines' = [lines EXCEPT ![c] = @ + 1]
    /\ user' = [user EXCEPT ![c] = "waiting"]
    /\ UNCHANGED <<kind, arrived, answers, fin, reset, handling, edges, mainVars, procVars, running>>

ReceiveAnswer(c) ==
    /\ user[c] = "waiting"
    /\ \/ /\ answers[c] > 0
          /\ answers' = [answers EXCEPT ![c] = 0]
          /\ user' = [user EXCEPT ![c] = "typing"]
       \/ /\ answers[c] = 0 /\ Gone(c)
          /\ user' = [user EXCEPT ![c] = "closed"]
          /\ UNCHANGED answers
    /\ UNCHANGED <<kind, lines, split, mute, coming, arrived, fin, reset, handling, edges, mainVars, procVars, running>>

TypeExit(c) ==
    /\ user[c] = "typing"
    /\ user' = [user EXCEPT ![c] = "closed"]
    /\ UNCHANGED <<kind, lines, split, mute, wire, handling, edges, mainVars, procVars, running>>

\* The network: data and the end of the stream arrive in order.  A client that
\* closes with answers unread resets the connection.
Arrive(c) ==
    /\ running
    /\ \/ /\ coming[c] > 0
          /\ coming' = [coming EXCEPT ![c] = @ - 1]
          /\ arrived' = [arrived EXCEPT ![c] = @ + 1]
          /\ UNCHANGED <<fin, reset>>
       \/ /\ coming[c] = 0 /\ user[c] = "closed" /\ ~fin[c]
          /\ fin' = [fin EXCEPT ![c] = TRUE]
          /\ reset' = [reset EXCEPT ![c] = IF answers[c] > 0 /\ @ = "" THEN "conn" ELSE @]
          /\ UNCHANGED <<coming, arrived>>
    /\ edges' = Edge(c)
    /\ UNCHANGED <<kind, clientSide, answers, handling, mainVars, procVars, running>>

-----------------------------------------------------------------------------
\* handle_client, and the loop of the epoll server on a readable descriptor.
RecvLine(c) ==
    /\ handler[c] = "recv" /\ arrived[c] > 0
    /\ \E k \in 1 .. arrived[c] : arrived' = [arrived EXCEPT ![c] = @ - k]
    /\ handler' = [handler EXCEPT ![c] = "send"]
    /\ UNCHANGED <<kind, clientSide, coming, answers, fin, reset, holders, edges, mainVars, procVars, running>>

\* The process that handles c is the server, or c's child: it ends, and its
\* descriptors with it.
HandlerEnds(c) ==
    /\ holders' = [holders EXCEPT ![c] = @ \ {IF kind = "process" THEN "child" ELSE "server"}]
    /\ handler' = [handler EXCEPT ![c] = "off"]
    /\ proc' = IF kind = "process" THEN [proc EXCEPT ![c] = "zombie"] ELSE proc
    /\ main' = IF kind = "epoll" THEN "idle" ELSE main
    /\ UNCHANGED <<peak, accepted, reported, short>>

\* An answer to a client that has closed comes back as a reset; one after that
\* raises SIGPIPE unless the error is still ECONNRESET.
SendAnswer(c) ==
    /\ handler[c] = "send"
    /\ \/ /\ reset[c] # "pipe"
          /\ IF user[c] # "closed"
             THEN answers' = [answers EXCEPT ![c] = @ + 1] /\ UNCHANGED <<reset, edges>>
             ELSE /\ reset' = [reset EXCEPT ![c] = IF @ = "" /\ fin[c] THEN "pipe" ELSE "conn"]
                  /\ edges' = Edge(c)
                  /\ UNCHANGED answers
          /\ handler' = [handler EXCEPT ![c] = "recv"]
          /\ UNCHANGED <<holders, mainVars, procVars, running>>
       \/ /\ reset[c] = "pipe"
          /\ running' = (kind = "process")
          /\ HandlerEnds(c)
          /\ UNCHANGED <<answers, reset, edges>>
    /\ UNCHANGED <<kind, clientSide, coming, arrived, fin>>

\* recv gives 0 or an error; a reset may overtake data.  The epoll server's
\* close also takes the descriptor out of the epoll set.
Closes(c) == (arrived[c] = 0 /\ fin[c]) \/ reset[c] # ""

RecvEnds(c) ==
    /\ handler[c] = "recv" /\ Closes(c)
    /\ HandlerEnds(c)
    /\ edges' = edges \ {c}
    /\ UNCHANGED <<kind, clientSide, wire, running>>

\* EAGAIN: only the epoll server's sockets do not block.
RecvAgain(c) ==
    /\ kind = "epoll" /\ handler[c] = "recv" /\ arrived[c] = 0 /\ ~Closes(c)
    /\ handler' = [handler EXCEPT ![c] = "off"]
    /\ main' = "idle"
    /\ UNCHANGED <<kind, clientSide, wire, holders, edges, accepted, reported, short, procVars, running>>

HandlerStep(c) == running /\ (RecvLine(c) \/ SendAnswer(c) \/ RecvEnds(c) \/ RecvAgain(c))

-----------------------------------------------------------------------------
\* The main loops.  accept takes a connection; with threads its handler starts.
AcceptOne(c) ==
    /\ c \in Pending
    /\ main = IF kind = "epoll" THEN "listen" ELSE "idle"
    /\ accepted' = accepted \cup {c}
    /\ holders' = [holders EXCEPT ![c] = {"server"}]
    /\ handler' = [handler EXCEPT ![c] = IF kind = "thread" THEN "recv" ELSE "off"]
    /\ main' = IF kind = "process" THEN c ELSE main
    /\ edges' = IF kind = "epoll" /\ (arrived[c] > 0 \/ fin[c]) THEN edges \cup {c} ELSE edges
    /\ UNCHANGED <<kind, clientSide, wire, reported, short, procVars, running>>

\* fork; the parent's copy of the descriptor stays open until it closes it.
ForkChild(c) ==
    /\ kind = "process" /\ main = c /\ proc[c] = "none"
    /\ \/ /\ proc' = [proc EXCEPT ![c] = "run"]
          /\ peak' = IF Cardinality(Alive) + 1 > peak THEN Cardinality(Alive) + 1 ELSE peak
          /\ handler' = [handler EXCEPT ![c] = "recv"]
          /\ holders' = [holders EXCEPT ![c] = {"server", "child"}]
          /\ UNCHANGED main
       \/ /\ holders' = [holders EXCEPT ![c] = {}]
          /\ main' = "idle"
          /\ UNCHANGED <<handler, procVars>>
    /\ UNCHANGED <<kind, clientSide, wire, edges, accepted, reported, short, running>>

\* The parent closes its copy; waitpid with WNOHANG reaps one child, if any
\* has ended.
Mut_ParentGoesOn(c) ==
    /\ kind = "process" /\ main = c /\ proc[c] # "none"
    /\ holders' = [holders EXCEPT ![c] = @ \ {"server"}]
    /\ main' = "idle"
    /\ UNCHANGED <<kind, clientSide, wire, handler, edges, accepted, reported, short, proc, peak, running>>
ParentGoesOn(c) ==
    /\ kind = "process" /\ main = c /\ proc[c] # "none"
    /\ holders' = [holders EXCEPT ![c] = @ \ {"server"}]
    /\ main' = "idle"
    /\ \/ \E d \in Users : proc[d] = "zombie" /\ proc' = [proc EXCEPT ![d] = "reaped"]
       \/ (\A d \in Users : proc[d] # "zombie") /\ UNCHANGED proc
    /\ UNCHANGED <<kind, clientSide, wire, handler, edges, accepted, reported, short, peak, running>>

EpollReports ==
    /\ kind = "epoll" /\ main = "idle" /\ reported = {} /\ edges # {}
    /\ reported' = edges
    /\ edges' = {}
    /\ UNCHANGED <<kind, clientSide, wire, handling, accepted, main, short, procVars, running>>

EpollPicks ==
    /\ main = "idle"
    /\ \E e \in reported :
          /\ reported' = reported \ {e}
          /\ main' = e
          /\ handler' = [c \in Users |-> IF c = e THEN "recv" ELSE handler[c]]
    /\ UNCHANGED <<kind, clientSide, wire, holders, edges, accepted, short, procVars, running>>

AcceptAgain ==
    /\ main = "listen" /\ Pending = {}
    /\ main' = "idle"
    /\ UNCHANGED <<kind, clientSide, wire, handling, edges, accepted, reported, short, procVars, running>>

\* Any other error of accept (no descriptor is left) ends the inner loop of
\* the epoll server too, with the queue as it is.  The other two servers try
\* again, which is no step of the model.
ListenFails ==
    /\ main = "listen" /\ Pending # {}
    /\ main' = "idle"
    /\ short' = short \cup Pending
    /\ UNCHANGED <<kind, clientSide, wire, handling, edges, accepted, reported, procVars, running>>

\* epoll_ctl fails and the connection is closed; or the thread cannot be
\* created: std::thread throws, nothing catches it and the process ends.
AcceptDrops(c) ==
    /\ c \in Pending
    /\ \/ kind = "epoll" /\ main = "listen" /\ UNCHANGED <<short, running>>
       \/ kind = "thread" /\ short' = short \cup {c} /\ running' = FALSE
    /\ accepted' = accepted \cup {c}
    /\ UNCHANGED <<kind, clientSide, wire, handling, edges, reported, main, procVars>>

ServerMain ==
    /\ running
    /\ \/ \E c \in Users : AcceptOne(c) \/ AcceptDrops(c) \/ ForkChild(c) \/ ParentGoesOn(c)
       \/ EpollReports \/ EpollPicks \/ AcceptAgain \/ ListenFails

UserStep(c) == UserConnects(c) \/ SendLine(c) \/ ReceiveAnswer(c) \/ TypeExit(c)

SocketNext == ServerMain \/ \E c \in Users : UserStep(c) \/ Arrive(c) \/ HandlerStep(c)

-----------------------------------------------------------------------------
\* One process is reaped for each connection accepted, and that is enough:
\* between two accepts the children that run or wait to be reaped are never
\* more than have run at the same time.
ReapedInTime == main = "idle" => Cardinality(Unreaped) <= peak

\* As long as every line arrives in one piece, client and server stay in
\* step: a client that types has no answer outstanding, and no answer meets a
\* closed socket twice, so SIGPIPE never ends the server.  What else ends it is
\* a thread that cannot be created.
InStep ==
    /\ (\A c \in Users : ~split[c]) /\ ~(kind = "thread" /\ short # {}) => running
    /\ \A c \in Users :
          user[c] = "typing" /\ ~split[c] => answers[c] = 0 /\ arrived[c] = 0 /\ coming[c] = 0

\* Nothing that a handler has to see is left without an event, although the
\* epoll server's sockets report an edge only once: data, an end or a reset on
\* a connection nobody is reading, or a connection nobody has accepted, unless
\* accept has failed for it.  With processes, the parent keeps no copy of a
\* descriptor, so the client of a child that has ended is not left waiting.
NoEventLost ==
    /\ kind = "epoll" /\ running =>
         /\ Pending \ short # {} => main = "listen" \/ "listen" \in edges \cup reported
         /\ \A c \in accepted :
              holders[c] # {} /\ handler[c] = "off" /\ (arrived[c] > 0 \/ fin[c] \/ reset[c] # "")
                => c \in edges \cup reported
    /\ kind = "process" =>
         \A c \in Users : proc[c] # "run" /\ main # c => holders[c] = {}

\* The three servers do what their clients rely on.
ExamplesSound == ReapedInTime /\ InStep /\ NoEventLost
=============================================================================
