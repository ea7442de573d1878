------------------------------ MODULE TinyHttp ------------------------------
(***************************************************************************)
(* The HTTP server of tinyHttp/httpd.c: main accepts, a thread per         *)
(* connection reads one request and answers it with an error page, a file  *)
(* or the output of a CGI program that runs in a forked process behind two *)
(* pipes.  Threads share one descriptor table, and a fork by one thread    *)
(* copies the descriptors of all of them: `open' says which process holds  *)
(* which descriptor.  A pipe or a socket reaches its end of file when no   *)
(* process holds the other side any more.                                  *)
(*                                                                         *)
(* The text of requests and pages is abstracted to what the control looks  *)
(* at; a pipe is a number of bytes.  The CGI programs, the clients and the *)
(* failures of pipe, fork and pthread_create are the environment.          *)
(***************************************************************************)
EXTENDS Integers, Sequences, FiniteSets

CONSTANTS Conn,        \* connections
          RequestsOf,  \* RequestsOf[c]: what the client of c may ask for
          Impatient,   \* connections whose client may leave early
          Unlucky,     \* connections the system may have no room to accept
          FdLimits,    \* descriptors the process may have for its connections
          PipeCap,     \* bytes that a pipe holds (65536 on Linux)
          OutLen       \* bytes that a CGI program writes by itself

VARIABLES
    open,      \* open[p]: the descriptors of process p
    pc,        \* where the thread of a connection is
    req,       \* its request
    status,    \* the status lines that were sent to its client
    left,      \* bytes of the body still to be passed on
    sent,      \* bytes of the body in the socket
    inq, outq, \* bytes in the pipes to and from the program
    got,       \* lines of a file or bytes of output sent to the client
    child,     \* the forked process: "none", "setup", "run", "gone"
    toRead, toWrite,   \* what the program has yet to read and to write
    gone,      \* the client has left
    up,        \* the server runs
    nofile     \* the limit of descriptors that the server was started with

cgiVars == <<left, inq, outq, child, toRead, toWrite>>
httpVars == <<open, pc, req, status, left, sent, inq, outq, got, child, toRead, toWrite, gone, up, nofile>>

Server == "server"
Procs == {Server} \cup Conn    \* a connection also names its CGI process
Fds(c) == {c} \X {"sock", "outr", "outw", "inr", "inw"}
sock(c) == <<c, "sock">>
outr(c) == <<c, "outr">>
outw(c) == <<c, "outw">>
inr(c) == <<c, "inr">>
inw(c) == <<c, "inw">>
Held(fd) == \E p \in Procs : fd \in open[p]

NoReq == [method |-> "none", query |-> FALSE, target |-> "missing", len |-> -1, prog |-> "none"]
Requests == [method : {"GET", "POST", "other"}, query : BOOLEAN,
             target : {"missing", "file", "unreadable", "exec", "dir"}, len : -1 .. 6,
             prog : {"none", "noeol", "drain", "echo", "ignore", "eof"}]

ASSUME HttpAssumption ==
    /\ Server \notin Conn /\ IsFiniteSet(Conn)
    /\ Unlucky \subseteq Conn /\ FdLimits \subseteq Nat
    /\ PipeCap \in Nat \ {0} /\ OutLen \in Nat
    /\ \A c \in Conn : RequestsOf[c] \subseteq Requests

Init ==
    /\ open = [p \in Procs |-> {}]
    /\ pc = [c \in Conn |-> "idle"]
    /\ req = [c \in Conn |-> NoReq]
    /\ status = [c \in Conn |-> <<>>]
    /\ child = [c \in Conn |-> "none"]
    /\ gone = [c \in Conn |-> FALSE]
    /\ left = [c \in Conn |-> 0] /\ sent = left /\ inq = left /\ outq = left
    /\ got = left /\ toRead = left /\ toWrite = left
    /\ up = TRUE
    /\ nofile \in FdLimits

-----------------------------------------------------------------------------
(* The clients. *)

Connect(c) ==
    /\ pc[c] = "idle"
    /\ \E r \in RequestsOf[c] :
          /\ req' = [req EXCEPT ![c] = r]
          /\ sent' = [sent EXCEPT ![c] = IF r.len > 0 THEN r.len ELSE 0]
    /\ pc' = [pc EXCEPT ![c] = "queued"]
    /\ UNCHANGED <<open, status, left, inq, outq, got, child, toRead, toWrite, gone, up>>

\* A client that leaves early has sent its headers and a part of its body.
ClientLeaves(c) ==
    /\ c \in Impatient /\ pc[c] \notin {"idle", "done"} /\ ~gone[c]
    /\ gone' = [gone EXCEPT ![c] = TRUE]
    /\ \E k \in 0 .. sent[c] : sent' = [sent EXCEPT ![c] = k]
    /\ UNCHANGED <<open, pc, req, status, left, inq, outq, got, child, toRead, toWrite, up>>

-----------------------------------------------------------------------------
(* The server process.  SIGPIPE keeps its default action and exit ends all *)
(* the threads.                                                            *)

Dies == up' = FALSE /\ open' = [open EXCEPT ![Server] = {}]

\* The descriptor table is full, with the files that other threads may have
\* open, or has room for n more without them.
Files(c) == {<<d, "file">> : d \in {e \in Conn \ {c} : pc[e] = "start"}}
Full(c) == Cardinality(open[Server] \cup Files(c)) >= nofile
Room(n) == Cardinality(open[Server]) + n <= nofile

\* accept; a thread is started or, if that fails, only a message printed.
\* An accept that fails ends the program: the client has left the queue, the
\* descriptor table is full, or the system has no room for a connection.
Accept(c) ==
    /\ up /\ pc[c] = "queued"
    /\ \/ /\ Room(1)
          /\ open' = [open EXCEPT ![Server] = @ \cup {sock(c)}]
          /\ \E next \in {"start", "lost"} : pc' = [pc EXCEPT ![c] = next]
          /\ up' = up
       \/ (gone[c] \/ Full(c) \/ c \in Unlucky) /\ Dies /\ pc' = pc
    /\ UNCHANGED <<req, status, left, sent, inq, outq, got, child, toRead, toWrite, gone>>

\* What accept_request decides from the request line and from stat.  A
\* directory has an x bit, so that its index page counts as a program.
IsCgi(r) == r.method = "POST" \/ r.query \/ r.target \in {"exec", "dir"}

\* The pages: each is several calls of send, of which one after the first
\* raises SIGPIPE when the client has left.
Reply(c, code, next, kept) ==
    \/ /\ status' = [status EXCEPT ![c] = Append(@, code)]
       /\ pc' = [pc EXCEPT ![c] = next]
       /\ open' = [open EXCEPT ![Server] = @ \cup kept]
       /\ up' = up
    \/ gone[c] /\ Dies /\ UNCHANGED <<status, pc>>

\* An unknown method returns without close(client).
unimplemented(c) == Reply(c, 501, "done", {})
not_found(c) == Reply(c, 404, "close", {})
bad_request(c) == Reply(c, 400, "close", {})
headers(c) == Reply(c, 200, "close", {})
\* execute_cgi returns without closing the pipes it has made so far.
cannot_execute(c, kept) == Reply(c, 500, "close", kept)

accept_request(c) ==
    /\ up /\ pc[c] = "start"
    /\ LET r == req[c]
           known == r.method \in {"GET", "POST"}
       IN  \/ r.method = "other" /\ unimplemented(c)
           \/ known /\ r.target = "missing" /\ not_found(c)
           \/ known /\ r.target # "missing" /\ IsCgi(r) /\ r.method = "POST" /\ r.len = -1 /\ bad_request(c)
           \/ /\ known /\ r.target # "missing" /\ IsCgi(r) /\ ~(r.method = "POST" /\ r.len = -1)
              /\ pc' = [pc EXCEPT ![c] = "pipes"]
              /\ UNCHANGED <<open, status, up>>
    /\ UNCHANGED <<req, sent, got, gone, cgiVars>>

\* cat stops at the first fgets that meets the end of the file, before it
\* sends what that call has read: a last line without a newline.
cat(r) == IF r.prog = "noeol" THEN OutLen - 1 ELSE OutLen

\* A file that stat finds and fopen does not open, for want of a permission or
\* of a descriptor: the page is followed by fclose(NULL), which a C library may
\* survive or not.
serve_file(c) ==
    /\ up /\ pc[c] = "start" /\ req[c].method = "GET" /\ ~IsCgi(req[c])
    /\ \/ /\ req[c].target = "file" /\ Room(1) /\ headers(c)
          /\ got' = [got EXCEPT ![c] = cat(req[c])]
       \/ /\ req[c].target = "unreadable" \/ Full(c)
          /\ not_found(c) \/ (Dies /\ UNCHANGED <<status, pc>>)
          /\ got' = got
    /\ UNCHANGED <<req, sent, gone, cgiVars>>

close_client(c) ==
    /\ up /\ pc[c] = "close"
    /\ open' = [open EXCEPT ![Server] = @ \ {sock(c)}]
    /\ pc' = [pc EXCEPT ![c] = "done"]
    /\ UNCHANGED <<req, status, sent, got, gone, up, cgiVars>>

-----------------------------------------------------------------------------
(* execute_cgi. *)

MakePipes(c) ==
    /\ up /\ pc[c] = "pipes"
    /\ \/ /\ Room(4)
          /\ open' = [open EXCEPT ![Server] = @ \cup {outr(c), outw(c), inr(c), inw(c)}]
          /\ pc' = [pc EXCEPT ![c] = "fork"]
          /\ UNCHANGED <<status, up>>
       \/ cannot_execute(c, {})
       \/ Room(2) /\ cannot_execute(c, {outr(c), outw(c)})
    /\ UNCHANGED <<req, sent, got, gone, cgiVars>>

\* The child gets a copy of every descriptor of the process.
Fork(c) ==
    /\ up /\ pc[c] = "fork"
    /\ \/ /\ open' = [open EXCEPT ![c] = open[Server]]
          /\ child' = [child EXCEPT ![c] = "setup"]
          /\ pc' = [pc EXCEPT ![c] = "parent"]
          /\ UNCHANGED <<status, up>>
       \/ cannot_execute(c, {}) /\ child' = child
    /\ UNCHANGED <<req, sent, got, gone, left, inq, outq, toRead, toWrite>>

\* Mutant: the parent keeps the write end of the output pipe.
Mut_ParentStarts(c) ==
    /\ up /\ pc[c] = "parent"
    /\ \/ /\ open' = [open EXCEPT ![Server] = @ \ {inr(c)}]
          /\ left' = [left EXCEPT ![c] = IF req[c].method = "POST" THEN req[c].len ELSE 0]
          /\ status' = [status EXCEPT ![c] = Append(@, 200)]
          /\ pc' = [pc EXCEPT ![c] = "feed"]
          /\ up' = up
       \/ gone[c] /\ Dies /\ UNCHANGED <<left, status, pc>>
    /\ UNCHANGED <<req, sent, got, gone, inq, outq, child, toRead, toWrite>>

\* Both processes send the status line.
ParentStarts(c) ==
    /\ up /\ pc[c] = "parent"
    /\ \/ /\ open' = [open EXCEPT ![Server] = @ \ {outw(c), inr(c)}]
          /\ left' = [left EXCEPT ![c] = IF req[c].method = "POST" THEN req[c].len ELSE 0]
          /\ status' = [status EXCEPT ![c] = Append(@, 200)]
          /\ pc' = [pc EXCEPT ![c] = "feed"]
          /\ up' = up
       \/ gone[c] /\ Dies /\ UNCHANGED <<left, status, pc>>
    /\ UNCHANGED <<req, sent, got, gone, inq, outq, child, toRead, toWrite>>

\* A byte of the body: the result of recv is not looked at, so that after the
\* end of the stream the last byte is repeated.  The write waits for room, or
\* raises SIGPIPE when no process can read the pipe any more.
FeedByte(c) ==
    /\ up /\ pc[c] = "feed" /\ left[c] > 0
    /\ sent[c] > 0 \/ gone[c]
    /\ sent' = [sent EXCEPT ![c] = IF @ > 0 THEN @ - 1 ELSE @]
    /\ \/ /\ Held(inr(c)) /\ inq[c] < PipeCap
          /\ inq' = [inq EXCEPT ![c] = @ + 1]
          /\ left' = [left EXCEPT ![c] = @ - 1]
          /\ UNCHANGED <<open, up>>
       \/ ~Held(inr(c)) /\ Dies /\ UNCHANGED <<inq, left>>
    /\ UNCHANGED <<pc, req, status, got, gone, outq, child, toRead, toWrite>>

FeedEnds(c) ==
    /\ up /\ pc[c] = "feed" /\ left[c] = 0
    /\ pc' = [pc EXCEPT ![c] = "relay"]
    /\ UNCHANGED <<open, req, status, sent, got, gone, up, cgiVars>>

RelayByte(c) ==
    /\ up /\ pc[c] = "relay" /\ outq[c] > 0
    /\ outq' = [outq EXCEPT ![c] = @ - 1]
    /\ \/ got' = [got EXCEPT ![c] = @ + 1] /\ UNCHANGED <<open, up>>
       \/ gone[c] /\ Dies /\ got' = got
    /\ UNCHANGED <<pc, req, status, sent, gone, left, inq, child, toRead, toWrite>>

\* Mutant: the end of the process is taken for the end of its output.
Mut_RelayEnds(c) ==
    /\ up /\ pc[c] = "relay" /\ child[c] = "gone"
    /\ open' = [open EXCEPT ![Server] = @ \ {outr(c), inw(c)}]
    /\ pc' = [pc EXCEPT ![c] = "reap"]
    /\ UNCHANGED <<req, status, sent, got, gone, up, cgiVars>>

\* Mutant: the input pipe is not closed.
Mut_RelayEndsLeak(c) ==
    /\ up /\ pc[c] = "relay" /\ outq[c] = 0 /\ ~Held(outw(c))
    /\ open' = [open EXCEPT ![Server] = @ \ {outr(c)}]
    /\ pc' = [pc EXCEPT ![c] = "reap"]
    /\ UNCHANGED <<req, status, sent, got, gone, up, cgiVars>>

\* read returns 0: the pipe is empty and no process holds its write end.
RelayEnds(c) ==
    /\ up /\ pc[c] = "relay" /\ outq[c] = 0 /\ ~Held(outw(c))
    /\ open' = [open EXCEPT ![Server] = @ \ {outr(c), inw(c)}]
    /\ pc' = [pc EXCEPT ![c] = "reap"]
    /\ UNCHANGED <<req, status, sent, got, gone, up, cgiVars>>

Reap(c) ==
    /\ up /\ pc[c] = "reap" /\ child[c] = "gone"
    /\ pc' = [pc EXCEPT ![c] = "close"]
    /\ UNCHANGED <<open, req, status, sent, got, gone, up, cgiVars>>

-----------------------------------------------------------------------------
(* The forked process. *)

Exits(c) == child' = [child EXCEPT ![c] = "gone"] /\ open' = [open EXCEPT ![c] = {}]

\* What the program does with its input: drain and echo read CONTENT_LENGTH
\* bytes, eof reads to the end of the file, ignore does not read.
Reads(r) == IF r.prog \in {"drain", "echo"} /\ r.method = "POST" THEN r.len
            ELSE IF r.prog = "eof" THEN 1 ELSE 0

\* Mutant: the child closes the read end of its input.
Mut_ChildStarts(c) ==
    /\ child[c] = "setup"
    /\ \/ /\ status' = [status EXCEPT ![c] = Append(@, 200)]
          /\ IF req[c].target = "exec"
             THEN /\ child' = [child EXCEPT ![c] = "run"]
                  /\ open' = [open EXCEPT ![c] = @ \ {outr(c), inr(c)}]
                  /\ toRead' = [toRead EXCEPT ![c] = Reads(req[c])]
                  /\ toWrite' = [toWrite EXCEPT ![c] = OutLen]
             ELSE Exits(c) /\ UNCHANGED <<toRead, toWrite>>
       \/ gone[c] /\ Exits(c) /\ UNCHANGED <<status, toRead, toWrite>>
    /\ UNCHANGED <<pc, req, sent, got, gone, up, left, inq, outq>>

\* From fork to execl.  The status line may raise SIGPIPE in the child too.
\* execl returns for what is not a program, and the process exits.
ChildStarts(c) ==
    /\ child[c] = "setup"
    /\ \/ /\ status' = [status EXCEPT ![c] = Append(@, 200)]
          /\ IF req[c].target = "exec"
             THEN /\ child' = [child EXCEPT ![c] = "run"]
                  /\ open' = [open EXCEPT ![c] = @ \ {outr(c), inw(c)}]
                  /\ toRead' = [toRead EXCEPT ![c] = Reads(req[c])]
                  /\ toWrite' = [toWrite EXCEPT ![c] = OutLen]
             ELSE Exits(c) /\ UNCHANGED <<toRead, toWrite>>
       \/ gone[c] /\ Exits(c) /\ UNCHANGED <<status, toRead, toWrite>>
    /\ UNCHANGED <<pc, req, sent, got, gone, up, left, inq, outq>>

ChildReads(c) ==
    /\ child[c] = "run" /\ toRead[c] > 0
    /\ \/ /\ inq[c] > 0
          /\ inq' = [inq EXCEPT ![c] = @ - 1]
          /\ toRead' = [toRead EXCEPT ![c] = IF req[c].prog = "eof" THEN @ ELSE @ - 1]
          /\ req[c].prog = "echo" => toWrite[c] <= OutLen
          /\ toWrite' = [toWrite EXCEPT ![c] = IF req[c].prog = "echo" THEN @ + 1 ELSE @]
       \/ /\ inq[c] = 0 /\ ~Held(inw(c))
          /\ toRead' = [toRead EXCEPT ![c] = 0]
          /\ UNCHANGED <<inq, toWrite>>
    /\ UNCHANGED <<open, pc, req, status, sent, got, gone, up, left, outq, child>>

\* An echo writes what it has read before it reads on, the others write once
\* they have read.
ChildWrites(c) ==
    /\ child[c] = "run" /\ toWrite[c] > 0
    /\ toRead[c] = 0 \/ (req[c].prog = "echo" /\ toWrite[c] > OutLen)
    /\ \/ /\ Held(outr(c)) /\ outq[c] < PipeCap
          /\ outq' = [outq EXCEPT ![c] = @ + 1]
          /\ toWrite' = [toWrite EXCEPT ![c] = @ - 1]
          /\ UNCHANGED <<open, child>>
       \/ ~Held(outr(c)) /\ Exits(c) /\ UNCHANGED <<outq, toWrite>>
    /\ UNCHANGED <<pc, req, status, sent, got, gone, up, left, inq, toRead>>

ChildExits(c) ==
    /\ child[c] = "run" /\ toRead[c] = 0 /\ toWrite[c] = 0
    /\ Exits(c)
    /\ UNCHANGED <<pc, req, status, sent, got, gone, up, left, inq, outq, toRead, toWrite>>

-----------------------------------------------------------------------------
ServerStep(c) ==
    \/ Accept(c) \/ accept_request(c) \/ serve_file(c) \/ close_client(c)
    \/ MakePipes(c) \/ Fork(c) \/ ParentStarts(c)
    \/ FeedByte(c) \/ FeedEnds(c) \/ RelayByte(c) \/ RelayEnds(c) \/ Reap(c)
ChildStep(c) == ChildStarts(c) \/ ChildReads(c) \/ ChildWrites(c) \/ ChildExits(c)

Next ==
    /\ \E c \in Conn : Connect(c) \/ ClientLeaves(c) \/ ServerStep(c) \/ ChildStep(c)
    /\ nofile' = nofile

-----------------------------------------------------------------------------
\* A CGI program that takes all of its input, or a request that gives it none.
Harmless(r) ==
    /\ r.target # "unreadable"
    /\ r.method = "POST" /\ r.target # "missing" /\ r.len > 0 => r.target = "exec" /\ r.prog \in {"drain", "echo", "eof"}

\* What a connection may take of the descriptor table: its socket and, for a
\* time, four ends of pipes or a file, and what its handler leaves behind.
MayHold(c) ==
    CASE pc[c] \in {"idle", "queued"} -> {}
      [] pc[c] = "lost" -> {"sock"}
      [] pc[c] = "start" -> {"sock", "file"}
      [] pc[c] = "done" -> (IF status[c] = <<501>> THEN {"sock"}
                            ELSE IF status[c] = <<500>> THEN {"outr", "outw", "inr", "inw"} ELSE {})
      [] OTHER -> {"sock", "outr", "outw", "inr", "inw"}
InUse == {fd \in Conn \X {"sock", "outr", "outw", "inr", "inw", "file"} : fd[2] \in MayHold(fd[1])}

\* Safety.  The whole server goes down with SIGPIPE, with fclose(NULL) or in
\* error_die, but only when a client has left, a program does not read its
\* input, a file found by stat cannot be opened, the system has no room for a
\* connection, or the connections under way and those that leak are as many as
\* fill the descriptor table.  The order in which parent and child close the
\* ends of the pipes never leaves a write without a reader.
StaysUp ==
    [][up /\ ~up' =>
         \/ \E c \in Conn : gone[c] \/ ~Harmless(req[c])
         \/ \E c \in Unlucky : pc[c] = "queued"
         \/ Cardinality(InUse) >= nofile]_httpVars

\* Safety.  A handler that returns has closed every descriptor that it opened,
\* except on two paths: the socket after an unknown method, and pipes after
\* a pipe or a fork that failed.
DescriptorsClosed ==
    \A c \in Conn : up /\ pc[c] = "done" =>
        CASE status[c] = <<501>> -> open[Server] \cap Fds(c) = {sock(c)}
          [] status[c] = <<500>> -> sock(c) \notin open[Server]
          [] OTHER -> open[Server] \cap Fds(c) = {}

\* Safety.  When the handler of a request that ran a program is done, all
\* that the program wrote has been passed on, and both processes have sent a
\* status line unless the client has left; of a file every line that ends in a
\* newline has been sent.
AnswerComplete ==
    \A c \in Conn : up /\ pc[c] = "done" =>
        /\ status[c] = <<200, 200>> /\ req[c].target = "exec" =>
              got[c] = OutLen + (IF req[c].prog = "echo" /\ req[c].method = "POST" THEN req[c].len ELSE 0)
        /\ status[c] = <<200>> =>
              IF IsCgi(req[c]) THEN gone[c] /\ got[c] = 0
              ELSE got[c] \in {OutLen, OutLen - 1} /\ (got[c] # OutLen => req[c].prog = "noeol")

\* The requests that the server can finish: the method is known, the program
\* does not wait for the end of its input, which the server closes only after
\* it has read the end of the output, and a program that answers while it
\* reads gets no longer a body than both pipes and the program itself hold,
\* for the server reads nothing before it has written the whole body.
Completing(r) ==
    /\ r.method # "other" /\ r.prog # "eof"
    /\ r.prog = "echo" /\ r.method = "POST" => r.len <= 2 * PipeCap + 1

\* Liveness.  If all requests are of that kind, every client sees the end of
\* its answer unless the server goes down or has no thread for it, although
\* the children of other requests inherit its socket and its pipes.
EveryRequestEnds ==
    (\A d \in Conn : [](Completing(req[d]))) =>
        \A c \in Conn : pc[c] = "queued" ~> (~up \/ pc[c] = "lost" \/ (pc[c] = "done" /\ ~Held(sock(c))))

=============================================================================
