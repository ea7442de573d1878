# Verification of cpp_projects_Learning

The repository is a collection of small C and C++ programs: thread pools, a
connection pool, lock-free structures, memory pools, containers, network
servers, parsers. They share no code; each is a system of its own. This
directory models those whose correctness depends on interleavings, on memory, on
positions in a buffer or on long sequences of calls, checks the models with TLC
and proves with TLAPS what holds of the pools, the servers, the timers, the lock-free
stack, the lookup table, the vectors, the Json documents and the logger for every
size of the instance.

`PROJECT.json` lists components, runs, the source lines behind every definition,
findings, hazards and theorems. A definition named `Mut_X` is a plausible wrong
version of a definition; no specification uses it. Each shows that the
properties can tell it from the code.

## 1. Inventory

| Component (src/) | State | Operations | What is hard | Correct when |
|---|---|---|---|---|
| Fixed pool, `ThreadPool_C_C++/ThreadPoll.hpp` | queue, `stop`, one mutex, one condition variable | worker loop, `enqueue` (from clients and from tasks), destructor | notification after the unlock, spurious wakeups, enqueue racing the destructor | no task lost or run twice, futures become ready, the join ends with an empty queue |
| Detached pool, `ThreadPool_C_C++/threadpool.h` | queue and flag behind a `shared_ptr` | thread loop, `AddTask`, destructor | nobody joins; the object goes before the threads | what was added is run, then every thread leaves |
| Elastic pool in C, `ThreadPool_C_C++/C` | ring of tasks, three counters, two mutexes, two condition variables | create, manager, worker, `threadPoolAdd`, destroy | counters sampled in one critical section and used in another, shrinking by waking a worker, freeing without joining | ring consistent, counters agree with threads, FIFO, every task runs |
| Elastic pool in C++, `ThreadPool_C_C++/C++` | `TaskQueue` with a mutex of its own, counters under another | as above | test and wait under one mutex, push under another | as above |
| Connection pool, `mysql_connect_pool` | queue of idle connections | producer thread, recycler thread, `getConnection`, release, destructor | one condition variable for two roles, timeouts | a connection is never held twice, every get returns, surplus is recycled |
| Echo server, `epoll/main.c` | table of connections, scan position | accept, receive, send, timeout scan | batches of events against a table that callbacks change, full table, full buffer | entries are open connections, what is received is echoed, silent clients are closed |
| Edge-triggered server and client, `epoll/epoll_server.cpp`, `epoll_client.cpp` | descriptors, unreported edges; a flag shared by two threads of the client | accept, drain, disconnect; input and network thread | an edge is reported once, descriptor numbers are reused, an event may disconnect twice | only dead connections are closed, every connection is served to its end, the client ends |
| Select server, `select` | read set under a mutex, `maxfd` without | main loop, a thread per ready descriptor | threads started for what another thread has taken, copies that go stale | everyone is accepted |
| Socket examples, `网络编程` | connections with a handler in the epoll loop, a thread or a process | accept, receive, answer, reap | edges, processes that inherit descriptors, a single `SIGCHLD` for several children | no edge lost, question and answer stay in step, no zombie stays |
| HTTP server, `tinyHttp` | descriptor tables of the server and of forked programs, two pipes per CGI request | accept, parse, file, CGI | two bounded pipes used one after the other, descriptors inherited across threads, early returns that must close | requests are answered and closed, the server stays up |
| Timers, `Timer` | flags shared with a detached thread; a multimap of deadlines | start, stop; schedule, update | restart within a period; insertion into the map that is walked | no calls after stop; as many calls as are due |
| Lookup table, `第六章` | buckets with reader-writer locks | get, update, remove, `get_map` | locking all buckets against single-bucket writers | calls take effect at one moment |
| Lock-free stack, `compare_exchange_weak_cpp`, `第五章` | `head`, heap | `push`, `pop` | ABA, use after delete | linearizable LIFO, no node lost or freed twice |
| Memory pool and stack, `MemoryPool` | four pointers, lists kept in the managed memory | allocate, deallocate, push, pop, clear | pointer arithmetic at boundaries, one word for three purposes | slots inside blocks and disjoint, lists intact |
| Serialisation, `cpp-serialize` | byte buffer, read position | write, read, display | every read must leave the position right for the next | reading back gives what was written |
| List and vectors, `list`, `vector/version02`, `version03` | nodes and links; array, size and capacity | every member | sequences of calls, arguments that are elements of the container, lifetimes across reallocation | after every sequence of calls the contents are those of a sequence |
| JSON, XML, `json`, `xml` | a value tree on the heap | construct, copy, index, append, remove, clear | copies that share, assignment from a part of itself | each block has one owner |
| INI file, logger, `ini-parse`, `logger` | sections and entries; a file, its size, its archives | load, save, get, set; log, rotate | names that look like syntax; rotation within one second | what is saved is loaded; no line is lost |
| Spin lock, CAS counters, `compare_exchange_weak_cpp`, `第五章` | one atomic | lock, increment | retries | mutual exclusion, no lost update |
| Socket classes of `server-client`, singleton, array, SQL access, libevent, future and memory-order examples | - | - | behaviour of libraries or of the memory model | - |

The components do not call each other, with these exceptions: `StackAlloc` uses
the memory pool (module `StackAlloc` extends `MemoryPool`), the edge-triggered
client talks to its server (`EdgeClient` extends `EdgeServer`), and inside each
pool and server the threads and processes interact through what they share. The
four pools are shown to implement one abstract channel (`TaskChannel`), both
stacks one abstract stack (`AbstractStack`).

## 2. Modules

**TaskChannel** - a FIFO channel of tasks: added, started in order, finished.

**FixedThreadPool** - `worker[w]` is the place of a worker in its lambda:
`poll` (holding the mutex, about to test the predicate), `waiting`, `running`,
`returned`. A critical section is one action, because one mutex protects all
shared state; `notify_one` after the unlock is an action of its own, and so is
each step of the destructor. `task[w]` is the local task; `enq` the callers
between unlock and notification; `accepted`, `rejected`, `done` are history.
A worker may be woken at any time. A running task may call `enqueue`. Only the
thread that owns the pool destroys it, after the clients stopped calling.

**DetachedPool** - the same for `threadpool.h`: `loop[t]` is the place of a
thread in its loop, `job[t]` the task it runs, `object` the pool object, which the
destructor takes away while the threads go on.

**ThreadPoolC** - the ring `taskQ`, `queueSize`, `queueFront`, `queueRear`, the
counters and `mutexPool` explicit. A worker goes through lock, test, wait, retire
or dequeue, busy, run, not busy; the manager through sample, grow, shrink,
signal, with its sampled values in `manager`. The window between the test of the
queue and the sleep is there, but for this pool it is closed by the mutex. An
`add` that meets `shutdown` unlocks and goes on without it, as the code does;
`JoinProducers` says whether the program destroys the pool only after its
producers are done (as `main.c` does). Producer and worker threads that the
manager creates are in the slots of `threadIDs`.

**ThreadPoolCpp** - the C++ version. `addTask` has three steps (test, push,
signal) because it holds no lock across them, and the worker has a separate
state `toWait` between the test and `pthread_cond_wait`.

**ConnectPool** - `queue` of idle connections with their ages (capped at the
limit), a producer, the recycler as one action that pops expired connections from
the front down to the minimum, clients that wait with a timeout, and the
destructor.

**EpollReactor** - `g_events`, the batch returned by `epoll_wait`, the scan
position, and for each client both ends of the connection with byte counts. The
callbacks are actions; clients and the clock move between any two.
`LenAfterTerminator` is the write of the terminating zero behind the buffer. The
process may have `nofile` connections open, beyond which `accept` fails; a send
to a client that has left may end it (`SendKills`).

**EdgeServer**, **EdgeClient** - the kernel's edges (`edge`), the reported batch,
and handlers that go by descriptor number, which is reused as the kernel reuses
it. The server receives until `EAGAIN`, in pieces of at most `Buffer` lines. The
client is two threads with the flag `running`; its close with unread data resets
the connection. What the server sends to a client that has closed makes the next
send raise `SIGPIPE` (`fin` = "pipe"), which ends the server (`alive`); `room` is the
number of connections its descriptor table has room for.

**SelectServer** - main's copy of the read set, `maxfd` read and written without
the lock, and threads that exist beside main. As in the code, both kinds of
thread are given the listening descriptor. `lost` records that a thread has stored
a `maxfd` smaller than the one there.

**SocketServers** - the three servers of `网络编程` and their client in one module;
`kind` says which server runs. `holders[c]` are the processes that have the
descriptor open, `edges` the events the kernel has yet to report, `proc` the
children. A line arrives in any number of pieces, however short it is, and one
`recv` takes any number of them. `accept`, `epoll_ctl`, `fork` and the creation of a
thread may fail; `short` are the connections that a failure has left out.

**TinyHttp** - `open[p]` are the descriptors of process `p`; a fork by one thread
copies those of all threads, and a pipe ends when no process holds its other
side. The table has `nofile` places, and `accept`, `fopen` and `pipe` fail when
it is full; `accept` may also fail because the system has no room for a
connection (`Unlucky`). A handler is a sequence of actions from the first line of the request to
the close; each write and read of a pipe is one. The programs are classes: they
drain their input, ignore it, echo it or read up to its end.

**TimerThread** - the statements of the thread's function one by one, since
`m_active` and `m_repeat` are shared by the threads of successive starts.
**TimerManager** - the multimap as a sequence, and `update` one entry at a time.

**LookupTable** - the lock of each bucket; `get_map` takes them one after the
other. `seen[t]` is the set of tables there were during the call of `t`.

**LockFreeStack** - one action for each access to shared memory, an explicit
heap whose addresses are reused, and `chain`, a history of the order of the
successful swaps. Any threads push and pop. Reading a deleted node gives any
pointer. `stale` records that a pop has deleted a node that another pop had loaded,
which the code does not prevent and after which nothing is promised: the
properties say that the stack is right up to that step, whatever else the threads
and the allocator do. The atomics are sequentially consistent, as in the code.

**MemoryPool**, **StackAlloc** - addresses are numbers of `AddrBits` bits and
memory is a function of words, so that elements, free-list links and block links
overwrite each other when they overlap. `allocate` is the set of its possible
results; `operator new` may return any address that overlaps no block.

**DataStream** - the buffer byte by byte, positions as in the code. Scalars are
their bytes, containers hold `int32_t`. A read that would be undefined is not made;
`NextIsReadable` says that none is met before the stream has read a list or a
container with an element, from where on it is out of step. `RoundTrip` is an
equivalence like those of the containers below.

**List** - the heap of nodes with `m_next`, `m_prev`, and the three members of
each list; **MyVector** - the array of cells with size and capacity; **StdVector**
- raw storage in which every element has a lifetime. Each runs beside the
sequence it should be. Calls that do not work for all arguments are modelled as
they are: the flag `listLegal` (`vecLegal`, ...) says whether all calls so far were
ones that work, and the invariant is an equivalence: the container is right
exactly as long as the flag is set. A property of this form fails both when a
call said to work does not and when a call said not to work does. An argument by
reference may be an element of the container. In `List` the `end()` of an empty list
is a pointer that was never set (`Wild`), which may differ from call to call, and the
`insert` without a return statement keeps its effect or not.

**Json**, **Xml** - blocks with an address and the pointers to them; **IniFile** -
names and values as sequences of the characters the format gives a meaning (line
breaks among them), so that saving and loading are real conversions; **Logger** -
lines as numbers, files as sequences of them, archives named by the second; a line
on a closed stream is lost, but counted, and may start a rotation. They use the
same form.

### Composition for TLC

`MCConnectPool`, `MCEpollReactor`, `MCLockFreeStack`, `MCThreadPoolC` and
`MCThreadPoolCpp` add the symmetry set, the constraint or the values of one component's run. The
others put several independent components into one run: `MCFixedThreadPool` (the
two fixed pools), `MCLayouts` (stream; stack on the memory pool), `MCTinyHttp` (HTTP
server; socket examples), `MCServers` (edge-triggered server and client, select
server, timers, lookup table), `MCContainers` (list, vectors, documents, files).
There the variable `which` chooses in the initial state whose behaviour this is and
the others stay as they are, so that the state space is the sum and not the product.
Fairness is guarded by `which`, and these modules define the conjunctions that
the runs check.

## 3. Runs

Where a property is a conjunction, its definition names the parts: `Accounting` is
ring, counters and tasks, `QueueSound` exclusiveness, order and bound,
`EchoPending` includes the soundness of the table, `HeapSound` the links, owners
and values, `RoundTrip` positions and capacity, `MemorySound` slots, lists and nodes,
`LoopsEnd` is `display` and `clear`,
`DocumentsSound` the XML elements and the ini file. The liveness of a component is
one conjunction: `PoolsServe` (futures, both destructors, the detached queue),
`PoolServes` (tasks, adds, destroy), `SupplyFollowsDemand` (gets and the recycler),
`NobodyIsForgotten` (accept queue and silent connections), `EveryoneServed` (both
servers and the client of the edge-triggered one).

Each passing run checks the safety and, where there are any, the liveness
properties of its components, under fairness. The pool in C needs two runs: its
liveness holds only where the pool does not shrink (section 4). The run of safety
alone, `ThreadPoolCSafety.cfg`, uses symmetry; the others do not. `LockFreeStack.cfg`
has a constraint, `Defined`: TLC checks the step in which a pop deletes a node that
another pop has loaded, and goes no further, since from there on the program's
behaviour is undefined and the properties, which say so themselves (`stale`), promise
nothing.

| Run | Instance | Shows |
|---|---|---|
| `fixed_pool` | 2 workers, 2 clients, 3 tasks, for each of the two pools | joined pool: tasks conserved, no lost wakeup although the notification comes after the unlock, the queue is empty after the join, FIFO; futures become ready, the destructor returns. Detached pool: what was added is run in order and once, then the threads leave |
| `c_pool_safety` | 1 to 2 workers, ring of 2, 2 producers, 4 tasks | ring and counters consistent, number of threads within bounds, tasks conserved and FIFO |
| `c_pool_liveness` | 2 workers, ring of 1, 2 producers, 3 tasks | with `minNum = maxNum` every task runs, blocked adds return, destroy returns |
| `cpp_pool` | 1 to 2 workers, 2 producers, 2 tasks | tasks conserved, counters agree, FIFO; the destructor returns |
| `connect_pool` | 4 connections, 2 clients, minimum 1 | exclusive connections, the queue is ordered by age (the recycler stops at the first young one), the producer sleeps only when enough are ready, the total is bounded by minimum plus clients; a get starves only if it is overtaken for ever; an idle pool comes to rest at exactly the minimum |
| `epoll` | table of 2, 3 clients of which one sends up to 3 bytes, buffer of 2, 2 or 3 descriptors | entries are open, no event of a batch is stale, everything received is echoed but for the messages that fill the buffer, only an echo to a client that has left ends the server; until then everyone is accepted and silent connections of the table are closed |
| `stack` | 3 threads that push and pop, 2 addresses, 3 values | until a pop deletes a node that another has loaded: list intact, no use after free, no leak, each value popped once and in the end, linearizable |
| `layouts` | every type, 3 values; slots of 24 in blocks of 88 bytes at 5 addresses, 4 values | stream: round trip, position and capacity exactly as long as no list and no container with an element is read; pool: slots inside blocks and disjoint, lists intact; stack: LIFO, nodes are exactly the held slots; `clear` ends, and `display` exactly if no container is in its way |
| `http` | HTTP: 2 connections, pipes of 1 byte, bodies up to 4, 17 requests, 5 or 11 descriptors; sockets: 2 clients, 3 lines | the server goes down only through a client that leaves, a program that does not read, a file that cannot be opened, no room for a connection or a full descriptor table; descriptors are closed but on the named paths; a program's output is passed on whole; every request whose body fits the pipes ends although other programs inherit its descriptors. Socket examples: no edge lost but that of a failed `accept`, client and server in step while lines arrive in one piece, children reaped in time |
| `servers` | 2 clients, 3 lines, room for 1 or 2; 2 accepting threads; 2 starts; 2 timers, periods 1 to 3, clock to 4; 3 keys in 2 buckets, 3 callers | only dead connections closed; every connection served to its end until a send kills the server; client ends; everyone accepted unless an update of `maxfd` is lost; at most one call per thread after stop; calls exactly as due however late `update` comes; linearizable table |
| `containers` | 2 lists with 4 nodes, 2 vectors with 4 cells, 2 with 5 slots, 2 documents with 3 blocks, 3 entries, 4 lines | list and vectors do what a sequence does, documents own their blocks once, saved entries are loaded, log lines are kept, each exactly as long as only calls are made that the model names as working |

One run TLC must refute, a finding in `PROJECT.json`: in `cpp_pool_lost_wakeup` push
and signal fall between a worker's test and its wait, and the task stays in the
queue.

### Bounds

Two or three threads of each kind and three or four tasks give every pair of
roles at each pair of program points, one more task than the ring holds, and one
more worker than tasks waiting. The ring has one or two entries so that it wraps
and is full. The connection pool has one connection more than clients plus minimum,
so that the supply never ends. The event table has two entries for three clients,
so that it is full and entries are reused, and the scan covers half of it per
iteration, as the code scans 100 of 1024. In `epoll` one of the three clients sends
(`Talkers`), `MaxSend` bytes in all the time it is connected and in as many messages as it
likes; that is one more than `BUFLEN`, so that a message falls short of the buffer,
fills it or is cut by it. With two descriptors (`FdLimits`) the third client finds
none, with three it finds the table full. The stack has fewer addresses than values,
so that addresses are reused. The memory pool uses slots of 24 bytes with 8-bit addresses: 256 is no
multiple of 24, as 2^64 is not. The bytes of the stream's sample values are tags
and lengths. Values are unique where a property counts them.

In `http` a pipe holds one byte (`PipeCap`), so that bodies of one to four bytes lie
on both sides of what the two pipes and the program hold; the second connection
makes the requests whose processes live long. Five descriptors are what one
connection needs at most, eleven are enough for two and a file each (`FdLimits`). The
lines of the socket client arrive in no, one or two pieces (`MCSizesOf`). In `servers`
the receive buffer holds one line, so that draining takes several calls, the
descriptor table has room for one client or for both (`Rooms`), and three keys share
two buckets. In `containers` the nodes suffice for two lists of two, the vectors grow through
capacities 1, 2 and 4, and the names include those characters that the INI format
uses. `Tasks`, `Jobs`, `Values`, `Talkers`, `MaxSend`, `MaxItems`, `Bases`,
`MaxLines`, `MaxReaders`, `MaxStarts`, `Horizon` and the other `Max...` constants
are the bounds.

Where a program ends (all tasks done and the pool destroyed, all connections made),
deadlock is not an error and the configuration says so; the echo server, the
stacks, the memory pool and the stream are checked for deadlock.

### Fairness

Every thread or process that can take a step takes one eventually (weak fairness
for each worker, manager, client thread, handler, destructor): that is what the
operating system's scheduler gives. For producers of `ThreadPoolC` that have been
woken and contend for `mutexPool` it is strong fairness: other threads take the
mutex again and again, and a pthread mutex does not starve a waiter for ever in
practice. New calls, spurious wakeups, what clients of a server send, and that a
client gives its connection back are never assumed to happen. For the servers
with timeouts, the clock advances. Tasks and CGI programs run on. The socket
examples, the timers, the lookup table and everything in `containers` are checked
for safety only and have no fairness.

## 4. Where code and comments disagree

Besides the refuted run, the models show the following. Each row of the first
table is a property of a module and an instance on which TLC refutes it.

| Code | What happens | Property and instance |
|---|---|---|
| `threadPool.c:249-263` | `threadPoolDestroy` signals the workers and frees the pool without joining them ("唤醒阻塞的消费者线程", "释放堆内存") | `ThreadPoolC!NoThreadInFreedPool`, 1 worker, 1 task |
| `threadPool.c:150` | `exitNum` is set even if no worker waits; the worker later woken for a task uses it up and exits, while the task stays | `ThreadPoolC!EveryTaskRuns` with `MinNum` = 1, `MaxNum` = 2 |
| `threadPool.c:201` | an add released by `shutdown` unlocks, has no return, and writes into a full ring | `ThreadPoolC!RingConsistent` with `JoinProducers` = FALSE, 1 producer, ring of 1 |
| `connectPool.cpp:36` | `m_maxSize` is never used ("连接池中，可连接数范围") | `ConnectPool!WithinMaxSize` with `MaxSize` = 2 and 2 clients |
| `epoll/main.c:116` | a connection accepted at the limit is neither stored nor closed | `AcceptLimit`: `sock[c]` stays open for ever, although line 243 promises a close after 60 seconds |
| `线程栈CAS.cpp:39` | use after free: one of two consumers reads `next` of a node that the other has deleted, in what `simple_test1` (line 103) announces as a test of a thread-safe stack ("开始测试线程安全栈") | `LockFreeStack!NoUseAfterFree`, 1 pushing and 2 popping threads, 2 addresses, 2 values |
| `线程栈CAS.cpp:39` | ABA: a reused address equals `old_head`, and a stale `next` becomes head | `LockFreeStack!StackIsLinked`, 2 popping threads, behaviours with `NoUseAfterFree` |
| `MemoryPool.cc:64` | the copy constructors contain the statement `MemoryPool();`, which makes a temporary and leaves the members unset | not modelled: the pool starts as its default constructor leaves it |

In most modules the cases that do not work are part of the model, as the
conditions of the properties (`Harmless`, `Completing`, `split`, `short`, `stale`, `lost`,
`Kept`, `Displayable`, `listLegal` and its like), which name them exactly.

| Component | What the code does |
|---|---|
| `epoll/main.c` | The terminator of a message of `BUFLEN` bytes overwrites `ev->len` (line 152), and the message is not sent back. A send to a client that has left raises `SIGPIPE` (line 177), which ends the server for everyone |
| `DataStream.h` | After a container with elements was read the position is too far by its length (line 335), or for a map short of its end, since `read` counts two for each pair (line 382). `write` of a list stores the tag of a vector, which `read` of a list refuses (line 312). `display` does not move past a container (line 442) |
| `httpd.c` | A CGI answer has the status line twice (server and child). `cat` drops a last line without a newline ("Put the entire contents of a file out on a socket", line 194). A 501 answer leaves the socket open. A POST with a body to a program that does not read it (`htdocs/check.c`) or to a file that is not executable ends the server with `SIGPIPE`; `fclose(NULL)` after a failed `fopen` and any failed `accept` (line 603) end it too, so that descriptors left open by 501 answers bring it down in the end. A program that echoes deadlocks with the server when the body exceeds what both pipes and the program hold; a program that reads up to the end of its input waits for ever, since the handler keeps the pipe open. A directory is handled as CGI |
| `select/server.c` | The reading threads get the listening descriptor, so nothing is ever read, although lines 41 to 43 describe reading. `maxfd` is written without the lock by several threads and an update can be lost (line 31) |
| `Timer/version01` | With a limit, `m_func` is called twice per repetition (`timer.h:23`, "定时器重复触发的次数"); `m_active` stays set after the last one; stop and start within a period leave two threads |
| `Timer/version02` | The comment says milliseconds, the cast is to microseconds (`timer.cpp:17`). A new timer is due at once. A period of 0 without a limit keeps `update` for ever: hence `PeriodsAssumption` |
| `epoll_client.cpp`, `epoll_server.cpp` | After the server has closed, the input thread stays in `getline`. A `send` to a peer that has gone may raise `SIGPIPE`, also in the server, which ends for all its clients. The server ignores partial sends, and a `quit` that arrives in two pieces is not seen |
| `网络编程` | An empty line leaves the client waiting for ever. A line that arrives in pieces, because it is longer than the buffer or because TCP splits it, gets several answers, client and server get out of step, and an answer to a client that has gone ends the epoll and the thread server (in the process server, the child). In the epoll server an `accept` that fails leaves the connections in the queue without an event (`epoll之socket/server.cpp:91`). A thread that cannot be created ends the thread server. A full buffer is printed without a terminator |
| `threadpool.h` | The default argument makes `ThreadPool p;` ambiguous with the defaulted constructor. A process that ends drops the tasks still queued |
| `threadsafe_look_up.cpp` | `get_map` uses a `unique_ptr` as the bucket and does not compile as it stands |
| `list.inl` | `pop_front` of two or more nodes deletes the second (line 86). `erase` of the last node leaves `m_tail` dangling, the `end()` of an empty list is a pointer that was never set, so that it equals neither `begin()` nor itself but by chance, `erase` there makes the size -1 or crashes, `erase` of a range steps from a freed node. `insert` at `end()` returns the old tail, `insert` of one value has no return statement. `assign` of an element of the list reads it after `clear` has freed it, `remove` may do so. `remove` (`emplate`) compares where it should assign, dereferences null and skips consecutive matches. `resize` makes half the difference. `merge` fails if either list is empty and loses everything when merged with itself |
| `vector/version02` | `push_back` and `assign` of an element of the vector itself read freed memory after a reallocation; an in-place `insert` reads the shifted value. The implicit copy is shallow |
| `vector/version03` | Copy assignment into a vector that holds elements and has the capacity constructs over live objects. `emplace`, `emplace_back` and `resize` with an element of the vector itself read a moved or freed object |
| `json.cpp` | There is no destructor. The copy constructor leaves `m_type` indeterminate and shares the pointers; `clear`, `remove` and replacing an element leak nested blocks; `x = x["k"]` reads freed memory; `operator==` compares pointers; a negative index throws after the value has become an array. `asString` and `remove` do not compile as they stand |
| `xml.cpp` | `append` and `operator=` share blocks, which are then deleted twice. Self-assignment empties the element, assigning a child to its parent reads freed memory. `setAttr` does not find an existing key, `operator[](index)` makes nameless elements whose `str` throws, `attr` does not compile |
| `inifile.cpp` | `Value(int)` and `operator=(int)` store nothing (`==` for `=`). Names with `]`, `=`, a leading `[`, blanks around them or line breaks are not read back. `get` creates what it does not find; `load` merges into what is there |
| `Logger.cpp` | A line of exactly the threshold's level is dropped. `cur_size` counts neither the blank nor the newline. Two rotations in one second overwrite an archive. `log` on a closed stream loses the line, counts it, and may rename the file and open the stream again; before any `open` that rotation throws. A second `open` fails |

## 5. Proofs

The theorems hold for all values of the constants: any number of threads, clients,
connections, tasks and buckets, any size of ring, table, pipe and buffer. Assumptions
on constants are the named `ASSUME`s of the component's module; only the theorems
of the C pool need more (`JoinProducers`), and their statements say so. Each proof has one step per action, and below it
one per conjunct that the action can disturb.

| Module | Theorem | Run property | Needs besides the `ASSUME`s |
|---|---|---|---|
| `FixedThreadPoolProofs` | `TypeCorrect`, `ControlCorrect`, `JoinIsSafe` | | |
| | `NoWakeupIsLost` | `NoLostWakeup` | |
| | `TasksAreConserved` | `Conservation` | |
| | `DestructorDrains` | `DrainedAtJoin` | |
| | `PoolImplementsChannel` | `ImplementsChannel` | |
| | `DetachedImplementsChannel` | `DetachedFifo` | |
| | `LastLeavesNothing` | (the safe part of `DetachedDrains`) | |
| `ThreadPoolCProofs` | `InvCorrect`, `AccountsBalance` | `Accounting` | `JoinProducers` |
| | `PoolImplementsChannel` | `ImplementsChannel` | `JoinProducers` |
| `PoolProofs` | `InvCorrect`, `AccountsBalance` | `Accounting` | |
| | `PoolImplementsChannel` | `ImplementsChannel` | |
| | `MemoryIsSound` | `MemorySound` | |
| | `NodesImplementStack` | `ImplementsStack` | |
| `ConnectPoolProofs` | `TypeCorrect`, `QueueIsSound` | `QueueSound` | |
| | `ProducerNeverOversleeps` | `ProducerSleepsOnlyWhenReady` | |
| `ContainerProofs` | `InvCorrect`, `HeapIsSound` | `HeapSound` | |
| | `ListImplementsStack` | `ImplementsStack` | |
| | `VectorsMatch` | `VectorMatches` | |
| | `LifetimesAreSound` | `LifetimesSound` | |
| | `BlocksAreOwned` | `JsonOwnership` | |
| | `LinesAreKept` | `LogKept` | |
| `EpollReactorProofs` | `InvCorrect`, `TableStaysSound` | (part of `EchoPending`) | |
| | `EchoIsComplete` | `EchoPending` | |
| | `ExamplesAreSound` | `ExamplesSound` | |
| `ServersProofs` | `TableIsLinearizable` | `Linearizable` | |
| | `ServerClosesOnlyTheDead` | `OnlyDeadClosed` | |
| | `OneCallAfterStop` | `CallsAfterStop` | |
| | `TimersFireExactly` | `FiredExactly` | |
| | `ServerStaysUp` | `StaysUp` | |
| | `HandlersClose` | `DescriptorsClosed` | |
| | `AnswersAreComplete` | `AnswerComplete` | |

The hypothesis `JoinProducers` cannot be dropped: with FALSE the ring overflows
(section 4). `main.c` of the C pool adds everything before it destroys the pool.

### Arguments

- **Fixed pool.** `Control` is the conjunction of `ReturnedSawEmpty` (a worker that
  returned saw `stop` and an empty queue, and no one can add after that),
  `StopIsDtor` and `DestroyedIsJoined`. `DrainedAtJoin` is not inductive: it follows
  from these. `NoLostWakeup` is the argument for why notifying after the unlock is
  safe. Actions that leave queue and tasks alone are dealt with once (`QuietKeeps`,
  `QuietSteps`).
- **Detached pool.** The refinement of `TaskChannel` needs that every job is in
  exactly one place: not added, queued, held by one thread, or run. For
  `LastLeavesNothing` a thread that left saw the flag and an empty queue, and
  after the flag nobody adds.
- **Elastic pools.** `Accounting` says that no more workers are busy than live, which
  no single step preserves by itself: the counters change apart from the states
  they count. `IInv` says what is counted (`Threads`: `busyNum` is the number of
  workers between the two critical sections, `liveNum` until the shutdown that of
  workers not leaving), who is inside an add and with which task (`Calls`), and
  where each task is (`TasksPlaced`). In the C pool the ring is the hard part:
  `Pending` reads it from `front` on, modulo the capacity, and the lemmas show what a
  put at the rear and a get at the front do to that sequence. Both refine
  `TaskChannel` by the same four kinds of step: start, finish, submit, and quiet.
- **Connection pool.** `QueueSound` is inductive with the types. Its parts need each
  other: a connection may be put at the back with age 0 because it is nowhere
  else, and the recycler may delete from the front because the queue is ordered
  by age. The recycler and the destructor both cut off a front of the queue, which
  is one lemma.
- **Lock-free stack.** Until `stale`, a node is owned by the list or by one operation
  (`Ownership`), and the node a pop has loaded stays live, in the list or with the
  one other pop that has unlinked it, until its own swap: a swap that finds it at
  the head finds it with the `next` that was read. Only the delete of such a
  node breaks this, and that is the step that sets `stale`. That the walk from `head` finds exactly the
  values of `chain` is shown with an explicit function from steps to nodes and
  induction over a set of numbers (`SetInduction`): the library's induction theorems
  take an operator, which the provers do not instantiate.
- **Callback server.** A monitored entry has a connection of its own
  (`EntriesOwned`), a connection not yet accepted has nothing received or echoed
  (`FreshIsEmpty`, needed when an entry is reused), the entry's `len` counts what is
  outstanding, or a message that filled the buffer and is lost (`Counted`), and what
  a batch says is still true when it is dispatched (`Live`): an event's own callback
  can change only its own entry, and the timeout scan runs between batches. That only
  an echo to a client that has left ends the process is `KilledByEcho`.
- **Lookup table.** A caller holds the lock of the bucket it works on, shared or
  exclusive (`Exclusive`, `Holding`), and its answer so far was the content of the
  bucket at one moment of its call (`Answer`). `get_map` holds all locks when the
  last is taken, so that its answer is one moment's table. Values the caller has
  passed stay in the snapshot because nobody else may write under its locks.
- **Edge-triggered server.** `handle_client_disconnect` closes by number, and numbers
  are reused. `NumbersOwned` says that open connections have different numbers,
  `EdgesTrue`, `BatchTrue` and `CurTrue` that a hang-up recorded, taken or being
  handled for a number is that of its present owner; a hang-up that the server's own
  send has provoked is one of a client that has closed. That `accept` finds a free
  number is a pigeonhole argument over finite sets (`FreeFdIsFree`).
- **Timer.** `CallsAfterStop` says at which points of its loop a thread may stand if it
  has called since the stop.
- **Timer manager.** `update` inserts into the multimap it walks. `ManagerInv` says
  that its iterator never leaves `begin()`: the map is ordered by deadline
  (`Ordered`), each timer has one entry at most (`OneEach`), an entry's deadline is
  the one its timer's calls so far make next (`EntryTrue`, `TimerTrue`), and the
  time `update` works with is not ahead of the clock. Hence a timer was called exactly as
  often as it was due, however late `update` came.
- **Socket examples.** `SocketInv` says for each client where its connection is and who
  holds the descriptor (`Place`), that what is unread has an edge or a handler that
  reads (`Seen`) unless its `accept` failed, and that a line asked and not answered is
  in one place at a time while all arrived in one piece (`Paced`). `Reaping` counts the children: between `fork`
  and the `waitpid` after it there may be one more than ever ran at the same time.
  `WhyEnded` says that only a line in pieces, or a thread that cannot be created, ends
  the server.
- **Vector, version 2.** `Holds` says that the cells in front are the sequence the
  calls should leave. The lemmas give for each call the cells afterwards, and for an
  argument by reference what it reads by then; where the flag says that the call
  does not work, a cell is exhibited that differs. That the loop which doubles the
  capacity reaches the size asked for (`GrowIs`) is by induction over a set.
- **Vector, version 3.** `Lives` says that exactly the first `size_` cells hold
  objects, those of the sequence, the others are raw and nothing was misused. Each
  call is a chain of destroying, giving back, taking and constructing, with one lemma
  each; `emplace` in the middle goes through a state with one gap (`GapIs`,
  `GapFilled`). A call that does not work leaves a `Spoilt` vector: an object was
  made from raw memory or over another one, or a cell has other contents.
- **Json.** In a sound document every pointer goes to a live block of the right kind,
  no block has two owners, elements stand only in the blocks of objects, and no place
  stands in its own block (`JsonSound`). A call that does not work leaves a block
  nobody points to, or a place of indeterminate type (`JsonBroken`).
- **Logger.** The numbers of lines in the files are those written (`Numbered`), no two
  files share one (`FilesApart`), and a line is missing exactly if a rotation has
  overwritten an archive (`HeldIffLegal`).
- **Memory pool and stack.** `Sound` names the three lists that lie in the managed
  memory, as sequences of words (`Chain`): the free list, the nodes of the stack and
  the blocks. Every held or free slot is the k-th of a block, for some k, ends within
  the block and, in the current block, before the part that is not cut (`Cut`). So
  two slots, and a slot and the pointer at the start of a block, never share a word
  (`CutsApart`, `BlockFar`), and what the client writes leaves the lists as they are.
  `FirstSlotFits` is the arithmetic of `padPointer`: the padding is a multiple of the
  size of a pointer, also when the subtraction wraps, and leaves room for one slot in
  the smallest block the (commented) assertion allows. Slots are counted as pairs of
  a block and an index (`SlotsCounted`), which bounds the walks along the lists.
- **HTTP server.** `HttpInv` follows a connection through handler and child: what the
  request looks like at each point, which ends of the pipes server and child hold,
  and how bytes fed, read, written and relayed add up (`Before` to `After`, `Input`,
  `Output`, `Descriptors`). Other children inherit descriptors at their fork, which
  is why `ChildHolds` speaks of every process. `ServerStaysUp` is about the step that
  ends the server, whose cause must hold at that moment (`DownHasCause`); that a full
  table is full of what connections under way may hold or have leaked is
  `TableIsFull`, by counting.
  TLC checked `HttpInv` on the instance of the run first.

Two results of the proofs changed the model. `Harmless` had counted programs that
only write ("noeol") among those that read their input; the proof of `ServerStaysUp`
failed for them, rightly, and the condition now names the programs that read. And
what the models had left implicit is assumed by name: the addresses and the clients
are finite sets, the server is no connection, the table has a bucket; limits of
timers are integers and periods positive; names of users are none of the states of
the loop; raw memory, a moved object and an unset type are told from the values a
caller stores, and `T()` is one of those; the size of the address space is a
multiple of that of a pointer. None of these restricts the code.

`ProofLemmas` holds what several proofs need: induction over a set, least elements,
cutting and extending sequences, counting, wrapping around, conservation of tasks.

### Only model-checked

- All liveness properties: fairness and `ENABLED` are outside what the prover does.
- `RoundTrip` and `ListMatches`: they
  speak of walks through a buffer or along links, functions
  defined by recursion over the data, and what such a function computes is shown by
  an induction the provers do not do.
- `DocumentsSound`: the clearing of an XML element and the parsing of a file are
  folds over trees and lines, for the same reason.

## 6. Not modelled

`PROJECT.json` gives the reason for each part. libevent programs exercise an
external library; the memory-order examples need a weak memory model; SQL calls
are I/O; the examples around `std::future`, the singleton, the array and the first
version of the vector have no state worth a model; the classes of `server-client`
wrap one system call each. Spin lock and CAS counters are left for the plan.

Of the modelled components: failures of set-up calls (`socket`, `bind`, `fcntl`,
`epoll_create`, thread creation outside `TinyHttp`); `~MemoryPool`, whose walk is
the property `DestructorFreesAll` and not an action, and the pool's copy and move
constructors; of Json removal by index and what only reads; full send buffers of
the edge-triggered server; constructors of elements that throw.

## 7. Plan

1. `SpinLock` with an abstract mutual-exclusion lock, the copy and move of the
   memory pool, the socket classes of `server-client`.
2. Abstract specifications: an atomic map for `LookupTable` (now the property
   `Linearizable`), a request/response service for the servers.
3. Theorems, in the existing proof modules: slots inside the blocks of `MemoryPool`
   apart from the lists kept in them, positions of `DataStream` apart from the
   values, the links of `List` with an explicit function from positions to nodes,
   as for the lock-free stack.
