----------------------------- MODULE MCTinyHttp -----------------------------
(* The HTTP server and the socket examples, which have nothing to do with    *)
(* each other: a behaviour is one of one of them, chosen by `which'.         *)
(*                                                                           *)
(* HTTP: two connections.  The first makes every kind of request, the second *)
(* those whose process may hold descriptors of the first for long.  Socket   *)
(* examples: the first client sends two lines, empty, in one or in several   *)
(* pieces, the second a short one.                                           *)
EXTENDS TinyHttp, SocketServers, TLC

CONSTANTS c1, c2

MCSizesOf == (c1 :> {0, 1, 2}) @@ (c2 :> {1})
MCLinesOf == (c1 :> 2) @@ (c2 :> 1)

Req(m, q, t, n, p) == [method |-> m, query |-> q, target |-> t, len |-> n, prog |-> p]
Post(t, n, p) == Req("POST", FALSE, t, n, p)
Get(t, p) == Req("GET", FALSE, t, -1, p)

MCRequestsOf ==
    (c1 :> {Get("file", "none"), Get("file", "noeol"), Get("unreadable", "none"), Get("missing", "none"),
            Get("dir", "none"), Get("exec", "eof"), Req("GET", TRUE, "file", -1, "none"),
            Req("other", FALSE, "file", -1, "none"), Post("exec", -1, "drain"), Post("file", 1, "none"),
            Post("exec", 1, "ignore"), Post("exec", 2, "drain"), Post("exec", 3, "echo"), Post("exec", 4, "echo")})
    @@ (c2 :> {Get("exec", "drain"), Post("exec", 1, "drain"), Get("exec", "eof")})

VARIABLE which

NetInit ==
    /\ which \in {"http", "sockets"}
    /\ Init /\ SocketInit
    /\ which = "http" => kind = "epoll"

NetNext ==
    /\ which' = which
    /\ \/ which = "http" /\ Next /\ UNCHANGED socketVars
       \/ which = "sockets" /\ SocketNext /\ UNCHANGED httpVars

\* Every thread of the HTTP server and every program that can step does so.
NetSpec ==
    /\ NetInit /\ [][NetNext]_<<which, httpVars, socketVars>>
    /\ \A c \in Conn : /\ WF_httpVars(which = "http" /\ ServerStep(c) /\ nofile' = nofile)
                       /\ WF_httpVars(which = "http" /\ ChildStep(c) /\ nofile' = nofile)
=============================================================================
