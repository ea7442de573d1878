----------------------------- MODULE EdgeServer -----------------------------
(***************************************************************************)
(* The single-threaded server of epoll/epoll_server.cpp: a level-triggered *)
(* listening socket and edge-triggered, non-blocking client sockets.  The  *)
(* kernel remembers an edge in `edge' until epoll_wait reports it; data    *)
(* that is left unread afterwards raises no event of its own.              *)
(*                                                                         *)
(* Events and handlers go by descriptor number, and numbers are reused.    *)
(* A line is one unit of data: "m", or "q" for a line that contains quit.  *)
(* Clients read fast enough that send, whose result the server ignores,    *)
(* never finds the send buffer full.  SIGPIPE keeps its default action, so *)
(* that a send to a client that has gone can end the server.               *)
(***************************************************************************)
EXTENDS Integers, Sequences, FiniteSets, SequencesExt

CONSTANTS Clients,     \* connections, each made once
          Buffer,      \* lines that fit the receive buffer (BUFFER_SIZE - 1)
          Rooms        \* connections that the descriptor table may have room for

ASSUME ClientsAssumption == IsFiniteSet(Clients)

VARIABLES
    conn,      \* conn[c]: "none", "backlog", "open", "closed" by the server
    fdOf,      \* fdOf[c]: descriptor number of an open connection, or 0
    upstream,  \* lines sent by the client and not received yet
    downstream,\* messages sent by the server and not received yet
    fin,       \* fin[c]: "", how the client closed ("fin" or "rst"), or "pipe"
               \* once the next send to it raises SIGPIPE
    asked,     \* asked[c]: the server has received a quit
    edge,      \* edge[c]: events of c that the kernel has yet to report
    batch,     \* events[]: reported and not handled yet
    cur,       \* the event being handled, or NoEvent
    alive,     \* the server runs
    room       \* its descriptor table has room for that many connections

sockVars == <<conn, upstream, downstream, fin, edge>>
serverVars == <<fdOf, asked, batch, cur, alive, room>>

Listener == 3
NoEvent == [fd |-> 0, ev |-> {}, data |-> FALSE]
Event(f, e) == [fd |-> f, ev |-> e, data |-> "IN" \in e]
FdRange == (Listener + 1) .. (Listener + Cardinality(Clients))
FreeFd == CHOOSE f \in FdRange :
             /\ \A c \in Clients : fdOf[c] # f
             /\ \A g \in FdRange : g < f => \E c \in Clients : fdOf[c] = g
Owner(f) == {c \in Clients : conn[c] = "open" /\ fdOf[c] = f}

ServerInit ==
    /\ conn = [c \in Clients |-> "none"] /\ fdOf = [c \in Clients |-> 0]
    /\ upstream = [c \in Clients |-> <<>>] /\ downstream = upstream
    /\ asked = [c \in Clients |-> FALSE]
    /\ fin = [c \in Clients |-> ""]
    /\ edge = [c \in Clients |-> {}]
    /\ batch = {} /\ cur = NoEvent
    /\ alive = TRUE /\ room \in Rooms

\* epoll_wait reports the listening socket while someone waits there, and the
\* others once for an edge.  The order within the batch is the kernel's.
EpollWait ==
    /\ batch = {} /\ cur = NoEvent
    /\ batch' = {Event(fdOf[c], edge[c]) : c \in {d \in Clients : edge[d] # {}}}
                \cup {Event(Listener, {"IN"}) : c \in {d \in Clients : conn[d] = "backlog"}}
    /\ batch' # {}
    /\ edge' = [c \in Clients |-> {}]
    /\ UNCHANGED <<conn, upstream, downstream, fin, fdOf, asked, cur, alive, room>>

Dispatch ==
    /\ cur = NoEvent
    /\ \E e \in batch : e.fd # Listener /\ cur' = e /\ batch' = batch \ {e}
    /\ UNCHANGED <<sockVars, fdOf, asked, alive, room>>

\* What a send makes of the other side: a client that has closed may reset the
\* connection before the server's next call, and a reset is reported once.
AfterSend(f) == CASE f = "" -> {""} [] f = "fin" -> {"fin", "pipe"} [] f = "rst" -> {"pipe"} [] OTHER -> {}
Raised(c, f) == IF fin[c] = "fin" /\ f = "pipe" THEN {"IN", "HUP"} ELSE {}
Sends(c, text, f) ==
    /\ fin' = [fin EXCEPT ![c] = f]
    /\ downstream' = [downstream EXCEPT ![c] = Append(@, text)]

Crowded == Cardinality({c \in Clients : conn[c] = "open"}) >= room

\* add_to_epoll reports at once what has arrived before.
handle_new_connection ==
    /\ cur = NoEvent /\ ~Crowded
    /\ \E e \in batch, c \in Clients : \E f \in AfterSend(fin[c]) :
          /\ e.fd = Listener /\ conn[c] = "backlog"
          /\ batch' = batch \ {e}
          /\ conn' = [conn EXCEPT ![c] = "open"]
          /\ fdOf' = [fdOf EXCEPT ![c] = FreeFd]
          /\ edge' = [edge EXCEPT ![c] = (IF upstream[c] # <<>> \/ fin[c] # "" THEN {"IN"} ELSE {})
                                          \cup (IF fin[c] = "rst" THEN {"HUP"} ELSE {})
                                          \cup Raised(c, f)]
          /\ Sends(c, "welcome", f)
    /\ UNCHANGED <<upstream, asked, cur, alive, room>>

\* accept fails with EMFILE; the listening socket is reported again.
AcceptFails ==
    /\ cur = NoEvent /\ Crowded
    /\ \E e \in batch : e.fd = Listener /\ batch' = batch \ {e}
    /\ UNCHANGED <<sockVars, fdOf, asked, cur, alive, room>>

\* remove_from_epoll and close; both fail quietly on a number that is free.
handle_client_disconnect(fd) ==
    /\ conn' = [c \in Clients |-> IF c \in Owner(fd) THEN "closed" ELSE conn[c]]
    /\ fdOf' = [c \in Clients |-> IF c \in Owner(fd) THEN 0 ELSE fdOf[c]]
    /\ edge' = [c \in Clients |-> IF c \in Owner(fd) THEN {} ELSE edge[c]]

\* Mutant: one recv per event.
Mut_RecvSome ==
    /\ cur.data
    /\ \E c \in Owner(cur.fd) : \E f \in AfterSend(fin[c]) :
          /\ upstream[c] # <<>>
          /\ upstream' = [upstream EXCEPT ![c] = Tail(@)]
          /\ asked' = [asked EXCEPT ![c] = Head(upstream[c]) = "q"]
          /\ Sends(c, "echo", f)
          /\ cur' = [cur EXCEPT !.data = FALSE]
          /\ IF asked'[c] THEN handle_client_disconnect(cur.fd) ELSE UNCHANGED <<conn, fdOf, edge>>
    /\ UNCHANGED <<batch, alive, room>>

\* One turn of the loop in handle_client_data that receives something.
RecvSome ==
    /\ cur.data
    /\ \E c \in Owner(cur.fd) : \E f \in AfterSend(fin[c]) :
          /\ upstream[c] # <<>>
          /\ LET n == IF Len(upstream[c]) > Buffer THEN Buffer ELSE Len(upstream[c])
                 message == SubSeq(upstream[c], 1, n)
             IN  /\ upstream' = [upstream EXCEPT ![c] = SubSeq(@, n + 1, Len(@))]
                 /\ asked' = [asked EXCEPT ![c] = "q" \in Range(message)]
                 /\ Sends(c, "echo", f)
                 /\ IF "q" \in Range(message)
                    THEN handle_client_disconnect(cur.fd) /\ cur' = [cur EXCEPT !.data = FALSE]
                    ELSE /\ edge' = [edge EXCEPT ![c] = @ \cup Raised(c, f)]
                         /\ UNCHANGED <<conn, fdOf, cur>>
    /\ UNCHANGED <<batch, alive, room>>

\* The same turn when its send raises SIGPIPE, before the server looks for quit.
EchoKills ==
    /\ cur.data
    /\ \E c \in Owner(cur.fd) : fin[c] = "pipe" /\ upstream[c] # <<>>
    /\ alive' = FALSE
    /\ UNCHANGED <<sockVars, fdOf, asked, batch, cur, room>>

\* Mutant: EAGAIN is taken for an error.
Mut_RecvEnds ==
    /\ cur.data
    /\ cur' = [cur EXCEPT !.data = FALSE]
    /\ \A c \in Owner(cur.fd) : fin[c] \in {"rst", "pipe"} \/ upstream[c] = <<>>
    /\ handle_client_disconnect(cur.fd)
    /\ UNCHANGED <<upstream, downstream, fin, asked, batch, alive, room>>

\* The turn that ends the loop: EAGAIN, or an error or the end of the stream,
\* which disconnect.  A reset may have overtaken what the client sent last.
RecvEnds ==
    /\ cur.data
    /\ cur' = [cur EXCEPT !.data = FALSE]
    /\ \/ /\ \E c \in Owner(cur.fd) : fin[c] = "" /\ upstream[c] = <<>>
          /\ UNCHANGED <<conn, fdOf, edge>>
       \/ /\ \A c \in Owner(cur.fd) : fin[c] \in {"rst", "pipe"} \/ (fin[c] = "fin" /\ upstream[c] = <<>>)
          /\ handle_client_disconnect(cur.fd)
    /\ UNCHANGED <<upstream, downstream, fin, asked, batch, alive, room>>

\* After the data, EPOLLERR or EPOLLHUP of the same event disconnects, whether
\* or not handle_client_data has already done so.
HandleHup ==
    /\ cur # NoEvent /\ ~cur.data
    /\ cur' = NoEvent
    /\ IF "HUP" \in cur.ev THEN handle_client_disconnect(cur.fd) ELSE UNCHANGED <<conn, fdOf, edge>>
    /\ UNCHANGED <<upstream, downstream, fin, asked, batch, alive, room>>

ServerNext ==
    /\ alive
    /\ \/ EpollWait \/ Dispatch \/ handle_new_connection \/ AcceptFails
       \/ RecvSome \/ EchoKills \/ RecvEnds \/ HandleHup

-----------------------------------------------------------------------------
\* Safety.  The server closes a connection only after the client has closed
\* it or has sent quit, although an event can disconnect twice and the number
\* of a closed descriptor is given to the next connection.
OnlyDeadClosed ==
    \A c \in Clients : conn[c] = "closed" => fin[c] # "" \/ asked[c]

\* Liveness.  Edge-triggered or not, a connection is served to its end: what
\* a client sends is received unless the server closes the connection, and the
\* descriptor of a client that has gone is released.  This ends when a send
\* kills the server, and waits while there is no descriptor for a connection.
ServedToTheEnd ==
    \A c \in Clients :
        LET stalled == ~alive \/ (conn[c] = "backlog" /\ Crowded)
        IN  /\ upstream[c] # <<>> ~> (upstream[c] = <<>> \/ conn[c] = "closed" \/ stalled)
            /\ (fin[c] # "" /\ conn[c] # "none") ~> (conn[c] = "closed" \/ stalled)

=============================================================================
