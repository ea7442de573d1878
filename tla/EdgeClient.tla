----------------------------- MODULE EdgeClient -----------------------------
(***************************************************************************)
(* The client of epoll/epoll_client.cpp, connected to EdgeServer: the main *)
(* thread reads lines from the user and sends them, a second thread waits  *)
(* for the server with a timeout.  They share the atomic flag running_.    *)
(***************************************************************************)
EXTENDS EdgeServer

CONSTANT MaxLines      \* MaxLines[c]: lines that the user of c types

VARIABLES running, input, net, typed

clientVars == <<running, input, net, typed>>
edgeVars == <<conn, fdOf, upstream, downstream, fin, asked, edge, batch, cur, alive, room, running, input, net, typed>>

EdgeInit ==
    /\ ServerInit
    /\ running = [c \in Clients |-> TRUE]
    /\ input = [c \in Clients |-> "off"]
    /\ net = [c \in Clients |-> "off"]
    /\ typed = [c \in Clients |-> 0]

\* The kernel: an event is recorded for a connection that the server watches.
Raise(c, ev) == edge' = [edge EXCEPT ![c] = IF conn[c] = "open" THEN @ \cup ev ELSE @]

\* The server has closed the connection, or has gone.
SeesEnd(c) == conn[c] = "closed" \/ ~alive

\* close(sockfd_) with unread messages resets the connection.
CloseSocket(c) ==
    LET how == IF downstream[c] = <<>> THEN "fin" ELSE "rst"
    IN  /\ fin' = [fin EXCEPT ![c] = how]
        /\ Raise(c, IF how = "rst" THEN {"IN", "HUP"} ELSE {"IN"})

connect_to_server(c) ==
    /\ conn[c] = "none" /\ alive
    /\ conn' = [conn EXCEPT ![c] = "backlog"]
    /\ input' = [input EXCEPT ![c] = "check"]
    /\ net' = [net EXCEPT ![c] = "poll"]
    /\ UNCHANGED <<upstream, downstream, fin, edge, serverVars, running, typed>>

\* while (running_)
InputCheck(c) ==
    /\ input[c] = "check"
    /\ input' = [input EXCEPT ![c] = IF running[c] THEN "getline" ELSE "join"]
    /\ UNCHANGED <<sockVars, serverVars, running, net, typed>>

\* A line that was typed while running_ went false is dropped; quit stops.
InputStops(c) ==
    /\ input[c] = "getline" /\ typed[c] < MaxLines[c]
    /\ typed' = [typed EXCEPT ![c] = @ + 1]
    /\ running' = [running EXCEPT ![c] = FALSE]
    /\ input' = [input EXCEPT ![c] = "join"]
    /\ UNCHANGED <<sockVars, serverVars, net>>

\* send.  After the server has closed, it may succeed once more, fail with
\* ECONNRESET, or raise SIGPIPE, which ends the program.
InputSends(c) ==
    /\ input[c] = "getline" /\ running[c] /\ typed[c] < MaxLines[c]
    /\ typed' = [typed EXCEPT ![c] = @ + 1]
    /\ \/ /\ ~SeesEnd(c)
          /\ \E line \in {"m", "q"} : upstream' = [upstream EXCEPT ![c] = Append(@, line)]
          /\ Raise(c, {"IN"})
          /\ input' = [input EXCEPT ![c] = "check"]
          /\ UNCHANGED <<conn, downstream, fin, running, net>>
       \/ /\ SeesEnd(c)
          /\ input' = [input EXCEPT ![c] = "check"]
          /\ UNCHANGED <<sockVars, running, net>>
       \/ /\ SeesEnd(c)
          /\ running' = [running EXCEPT ![c] = FALSE]
          /\ input' = [input EXCEPT ![c] = "join"]
          /\ UNCHANGED <<sockVars, net>>
       \/ /\ SeesEnd(c)
          /\ input' = [input EXCEPT ![c] = "killed"]
          /\ net' = [net EXCEPT ![c] = "ended"]
          /\ CloseSocket(c)
          /\ UNCHANGED <<conn, upstream, downstream, running>>
    /\ UNCHANGED serverVars

\* run sets running_ again and joins; the destructor closes the socket.
JoinAndClose(c) ==
    /\ input[c] = "join" /\ net[c] = "ended"
    /\ running' = [running EXCEPT ![c] = FALSE]
    /\ input' = [input EXCEPT ![c] = "done"]
    /\ CloseSocket(c)
    /\ UNCHANGED <<conn, upstream, downstream, serverVars, net, typed>>

\* network_loop: epoll_wait returns without an event after 100 ms, and the
\* loop looks at running_.
NetTimeout(c) ==
    /\ net[c] = "poll" /\ ~running[c] /\ downstream[c] = <<>> /\ ~SeesEnd(c)
    /\ net' = [net EXCEPT ![c] = "ended"]
    /\ UNCHANGED <<sockVars, serverVars, running, input, typed>>

\* handle_server_data reads all there is; at the end of the stream, or on
\* EPOLLHUP, running_ goes false.  The loop looks at running_ again.
handle_server_data(c) ==
    /\ net[c] = "poll" /\ (downstream[c] # <<>> \/ SeesEnd(c))
    /\ downstream' = [downstream EXCEPT ![c] = <<>>]
    /\ running' = [running EXCEPT ![c] = @ /\ ~SeesEnd(c)]
    /\ net' = [net EXCEPT ![c] = IF running'[c] THEN "poll" ELSE "ended"]
    /\ UNCHANGED <<conn, upstream, fin, edge, serverVars, input, typed>>

NetStep(c) == NetTimeout(c) \/ handle_server_data(c)
InputStep(c) == InputCheck(c) \/ JoinAndClose(c)
UserStep(c) == connect_to_server(c) \/ InputStops(c) \/ InputSends(c)

EdgeNext ==
    \/ ServerNext /\ UNCHANGED clientVars
    \/ \E c \in Clients : UserStep(c) \/ InputStep(c) \/ NetStep(c)

-----------------------------------------------------------------------------
\* Liveness.  Once the main thread waits in join, after quit, a failed send or
\* a flag that the other thread has cleared, the client ends: the timeout of
\* epoll_wait brings the network thread back to running_ even if the server
\* stays silent.
ClientReturns == \A c \in Clients : input[c] = "join" ~> input[c] = "done"

=============================================================================
