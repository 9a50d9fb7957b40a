----------------------------- MODULE TcpServer -----------------------------
(***************************************************************************)
(* The server process (hl/net/tcp/tcp_server.cc, tcp_acceptor.cc, hl/net/  *)
(* io_thread.cc, io_thread_group.cc, fd_event_group.cc): the main thread   *)
(* makes a group of I/O threads, each waiting on a semaphore for its start,*)
(* accepts clients in its own event loop, and hands their connections out  *)
(* to the loops of the I/O threads in turn.  What a loop does with its     *)
(* requests is in EventLoop, what a connection does in TcpConnection.      *)
(***************************************************************************)
EXTENDS Integers, SequencesExt

CONSTANTS N,        \* m_io_threads of the configuration
          Port,     \* m_port of the configuration
          Clients,  \* the clients that may connect
          FirstFd,  \* the first descriptor number the server does not use itself
          FdLimit,  \* the process has the numbers below this one
          GroupSize \* the FdEvents that FdEventGroup starts with (128)

(* A configuration with no I/O thread lets getIOThread index an empty      *)
(* vector; FdEventGroup does not grow by (int)(fd * 1.5) from nothing.     *)
ASSUME ServerAssumption ==
  /\ N \in Nat \ {0}
  /\ Port \in Int
  /\ FirstFd \in Nat /\ FdLimit \in Nat
  /\ GroupSize \in Nat \ {0, 1}

Threads == 1..N

VARIABLES
  main,      \* where the main thread is
  built,     \* m_io_thread_groups: the IOThreads whose constructor returned
  thread,    \* where each I/O thread is in IOThread::Main
  initSem,   \* m_init_semaphore of each IOThread
  startSem,  \* m_start_semaphore of each IOThread
  started,   \* the IOThreads start() has been called of
  index,     \* m_index of the group
  backlog,   \* clients whose connection the kernel holds for accept
  gone,      \* clients that have closed their side
  counts,    \* m_client_counts
  state,     \* m_state of each client's connection, "none" before there is one
  fdOf,      \* m_fd of each client's connection
  groupSize, \* size of m_fd_group
  loopOf,    \* the I/O thread whose loop a connection has, 0 before
  given,     \* how many connections each I/O thread was given
  tasks,     \* m_pending_tasks of each loop: the connections to register
  watched    \* the connections in the epoll set of each loop

startVars == <<built, initSem, startSem, started>>
connVars == <<index, counts, state, fdOf, groupSize, loopOf, given>>
vars == <<main, startVars, thread, backlog, gone, connVars, tasks, watched>>

Init ==
  /\ main = "acceptor"
  /\ built = 0 /\ started = 0
  /\ thread = [i \in Threads |-> "none"]
  /\ initSem = [i \in Threads |-> 0] /\ startSem = [i \in Threads |-> 0]
  /\ index = 0 /\ counts = 0
  /\ backlog = <<>> /\ gone = {}
  /\ state = [c \in Clients |-> "none"]
  /\ fdOf = [c \in Clients |-> -1]
  /\ groupSize = GroupSize
  /\ loopOf = [c \in Clients |-> 0]
  /\ given = [i \in Threads |-> 0]
  /\ tasks = [i \in Threads |-> <<>>]
  /\ watched = [i \in Threads |-> {}]

-----------------------------------------------------------------------------
(* IPNetAddr keeps the port in 16 bits, so that its check never fails.     *)
SinPort == Port % 2^16
CheckVaild == ~(SinPort < 0 \/ SinPort > 65536)

(* The TcpAcceptor binds and listens, or ends the process.                 *)
MakeAcceptor ==
  /\ main = "acceptor"
  /\ CheckVaild
  /\ main' = "create"
  /\ UNCHANGED <<startVars, thread, backlog, gone, connVars, tasks, watched>>

AcceptorExits ==
  /\ main = "acceptor"
  /\ main' = "exited"
  /\ UNCHANGED <<startVars, thread, backlog, gone, connVars, tasks, watched>>

(* IOThread::IOThread, for one IOThread after the other: it creates the    *)
(* thread and waits until that has made its event loop.                    *)
CreateThread ==
  /\ main = "create" /\ built < N
  /\ thread' = [thread EXCEPT ![built + 1] = "created"]
  /\ main' = "waitInit"
  /\ UNCHANGED <<startVars, backlog, gone, connVars, tasks, watched>>

(* Mutant of WaitInit: it does not wait.                                   *)
WaitInitNot ==
  /\ main = "waitInit"
  /\ built' = built + 1
  /\ main' = "create"
  /\ UNCHANGED <<thread, initSem, startSem, started, backlog, gone, connVars,
                 tasks, watched>>

WaitInit ==
  /\ main = "waitInit" /\ initSem[built + 1] > 0
  /\ initSem' = [initSem EXCEPT ![built + 1] = @ - 1]
  /\ built' = built + 1
  /\ main' = "create"
  /\ UNCHANGED <<thread, startSem, started, backlog, gone, connVars, tasks, watched>>

(* init() ends with the listening socket in the main loop's epoll.         *)
Listen ==
  /\ main = "create" /\ built = N
  /\ main' = "listening"
  /\ UNCHANGED <<startVars, thread, backlog, gone, connVars, tasks, watched>>

(* start(): IOThreadGroup::start posts every start semaphore, then the     *)
(* main thread runs its loop.  Mutant: the last thread is left out.        *)
StartAllButLast ==
  /\ main = "listening" /\ started < N - 1
  /\ startSem' = [startSem EXCEPT ![started + 1] = @ + 1]
  /\ started' = started + 1
  /\ UNCHANGED <<main, built, thread, initSem, backlog, gone, connVars, tasks, watched>>

StartThread ==
  /\ main = "listening" /\ started < N
  /\ startSem' = [startSem EXCEPT ![started + 1] = @ + 1]
  /\ started' = started + 1
  /\ UNCHANGED <<main, built, thread, initSem, backlog, gone, connVars, tasks, watched>>

EnterLoop ==
  /\ main = "listening" /\ started = N
  /\ main' = "loop"
  /\ UNCHANGED <<startVars, thread, backlog, gone, connVars, tasks, watched>>

-----------------------------------------------------------------------------
(* IOThread::Main: the event loop is made, then the two semaphores meet.   *)
MakeLoop(i) ==
  /\ thread[i] = "created"
  /\ thread' = [thread EXCEPT ![i] = "made"]
  /\ UNCHANGED <<main, startVars, backlog, gone, connVars, tasks, watched>>

PostInit(i) ==
  /\ thread[i] = "made"
  /\ thread' = [thread EXCEPT ![i] = "waiting"]
  /\ initSem' = [initSem EXCEPT ![i] = @ + 1]
  /\ UNCHANGED <<main, built, startSem, started, backlog, gone, connVars, tasks, watched>>

StartLoop(i) ==
  /\ thread[i] = "waiting" /\ startSem[i] > 0
  /\ thread' = [thread EXCEPT ![i] = "looping"]
  /\ startSem' = [startSem EXCEPT ![i] = @ - 1]
  /\ UNCHANGED <<main, built, initSem, started, backlog, gone, connVars, tasks, watched>>

-----------------------------------------------------------------------------
Up == main \notin {"exited", "crashed"}

(* A client connects as soon as the server listens, and may close its side *)
(* whenever it likes.                                                      *)
Connect(c) ==
  /\ Up /\ main # "acceptor"
  /\ c \notin Range(backlog) \cup gone /\ state[c] = "none"
  /\ backlog' = Append(backlog, c)
  /\ UNCHANGED <<main, startVars, thread, gone, connVars, tasks, watched>>

Leave(c) ==
  /\ Up
  /\ c \notin gone
  /\ c \in Range(backlog) \/ state[c] # "none"
  /\ gone' = gone \cup {c}
  /\ UNCHANGED <<main, startVars, thread, backlog, connVars, tasks, watched>>

-----------------------------------------------------------------------------
(* IOThreadGroup::getIOThread: the I/O threads in turn.                    *)
(* Mutants: the index is not reset, or not advanced.                       *)
NextThreadOver == index + 1
NextThreadStuck == IF index = 0 THEN 1 ELSE index
NextThread == IF index = N THEN 1 ELSE index + 1

(* FdEventGroup::getFdEvent grows the vector by half the number asked for. *)
(* Mutant: up to the number.                                               *)
GrownTo(fd) == IF fd < groupSize THEN groupSize ELSE fd
Grown(fd) == IF fd < groupSize THEN groupSize ELSE (3 * fd) \div 2

(* No descriptor is closed, so that the next is the lowest not yet used.   *)
NextFd == FirstFd + counts

(* onAccept: the connection takes the next loop and the FdEvent of its     *)
(* number, and asks the loop, on another thread, to register it for        *)
(* reading (addTask).  Mutant: it asks the first loop, whatever its own.   *)
AsksFirst(i, c) == tasks' = [tasks EXCEPT ![1] = Append(@, c)]
Asks(i, c) == tasks' = [tasks EXCEPT ![i] = Append(@, c)]

OnAccept ==
  LET c == Head(backlog)
      i == NextThread
  IN  /\ main = "loop" /\ backlog # <<>>
      /\ NextFd < FdLimit
      /\ backlog' = Tail(backlog)
      /\ counts' = counts + 1
      /\ index' = i
      /\ given' = [given EXCEPT ![i] = @ + 1]
      /\ loopOf' = [loopOf EXCEPT ![c] = i]
      /\ fdOf' = [fdOf EXCEPT ![c] = NextFd]
      /\ groupSize' = Grown(NextFd)
      /\ state' = [state EXCEPT ![c] = "NotConnected"]
      /\ Asks(i, c)
      /\ main' = "setState"
      /\ UNCHANGED <<startVars, thread, gone, watched>>

(* It ends with the connection Connected and kept for ever in m_client.    *)
SetState ==
  /\ main = "setState"
  /\ state' = [c \in Clients |-> IF state[c] = "NotConnected" THEN "Connected" ELSE state[c]]
  /\ main' = "loop"
  /\ UNCHANGED <<startVars, thread, backlog, gone, index, counts, fdOf, groupSize,
                 loopOf, given, tasks, watched>>

(* An accept that fails, for want of a descriptor or because the client is *)
(* gone, is only logged: the connection is made for descriptor -1, and     *)
(* m_fd_group[-1] is undefined.  It reads what the allocator keeps before  *)
(* the vector, which is no address: the signal ends the process, or, for   *)
(* the logger's handler, leaves the main thread in a join (Logger).        *)
AcceptFails ==
  /\ main = "loop" /\ backlog # <<>>
  /\ NextFd >= FdLimit \/ Head(backlog) \in gone
  /\ main' \in {"crashed", "stuck"}
  /\ UNCHANGED <<startVars, thread, backlog, gone, connVars, tasks, watched>>

-----------------------------------------------------------------------------
(* A loop runs the request: the connection's descriptor goes to its epoll. *)
Register(i) ==
  /\ Up /\ thread[i] = "looping" /\ tasks[i] # <<>>
  /\ watched' = [watched EXCEPT ![i] = @ \cup {Head(tasks[i])}]
  /\ tasks' = [tasks EXCEPT ![i] = Tail(@)]
  /\ UNCHANGED <<main, startVars, thread, backlog, gone, connVars>>

(* onRead that reads the end of the stream: TcpConnection::clear takes the *)
(* descriptor out of epoll, and nothing closes it.                         *)
Clear(i, c) ==
  /\ Up /\ c \in watched[i] \cap gone /\ state[c] = "Connected"
  /\ watched' = [watched EXCEPT ![i] = @ \ {c}]
  /\ state' = [state EXCEPT ![c] = "Closed"]
  /\ UNCHANGED <<main, startVars, thread, backlog, gone, index, counts, fdOf,
                 groupSize, loopOf, given, tasks>>

MainStep ==
  \/ MakeAcceptor \/ AcceptorExits
  \/ CreateThread \/ WaitInit \/ Listen \/ StartThread \/ EnterLoop
  \/ OnAccept \/ SetState \/ AcceptFails

ThreadStep(i) ==
  /\ Up
  /\ MakeLoop(i) \/ PostInit(i) \/ StartLoop(i) \/ Register(i) \/ \E c \in Clients : Clear(i, c)

Next ==
  \/ MainStep
  \/ \E i \in Threads : ThreadStep(i)
  \/ \E c \in Clients : Connect(c) \/ Leave(c)

Spec == Init /\ [][Next]_vars

(* Threads run, and EventLoop's RequestsRun; clients do what they like.    *)
FairSpec ==
  /\ Spec
  /\ WF_vars(MainStep)
  /\ \A i \in Threads : WF_vars(ThreadStep(i))

-----------------------------------------------------------------------------
(* What the members of TcpServer, IOThreadGroup and IOThread hold.         *)
TypeOK ==
  /\ main \in {"acceptor", "create", "waitInit", "listening", "loop", "setState",
               "exited", "crashed", "stuck"}
  /\ built \in 0..N /\ started \in 0..N
  /\ thread \in [Threads -> {"none", "created", "made", "waiting", "looping"}]
  /\ initSem \in [Threads -> 0..1] /\ startSem \in [Threads -> 0..1]
  /\ index \in 0..N /\ counts \in Nat
  /\ backlog \in Seq(Clients) /\ gone \subseteq Clients
  /\ state \in [Clients -> {"none", "NotConnected", "Connected", "Closed"}]
  /\ fdOf \in [Clients -> Int] /\ groupSize \in Nat
  /\ loopOf \in [Clients -> 0..N]
  /\ given \in [Threads -> Nat]
  /\ tasks \in [Threads -> Seq(Clients)]
  /\ watched \in [Threads -> SUBSET Clients]

(* A connection is only given to an I/O thread that has made its event     *)
(* loop, and only when start() has released every I/O thread: the main     *)
(* thread uses m_event_loop, which another thread has set, without a lock. *)
LoopMadeFirst ==
  \A c \in Clients : loopOf[c] # 0 =>
    /\ thread[loopOf[c]] \in {"waiting", "looping"}
    /\ \A i \in Threads : thread[i] = "waiting" => startSem[i] = 1

(* The I/O threads get the same share of the connections, up to one.       *)
Balanced == \A i, j \in Threads : given[i] <= given[j] + 1

(* The FdEvent of a connection's number exists when the connection asks    *)
(* for it, however the group had to grow, and no two connections share one.*)
OwnFdEvent ==
  \A c \in Clients : fdOf[c] # -1 =>
    /\ fdOf[c] \in 0..groupSize - 1
    /\ \A d \in Clients \ {c} : fdOf[c] # fdOf[d]

(* A connection is with its own loop and no other: about to be registered, *)
(* once, or watched, or, when closed, neither.                             *)
OneLoop ==
  \A c \in Clients : \A i \in Threads :
    LET asked == {k \in DOMAIN tasks[i] : tasks[i][k] = c}
    IN  IF loopOf[c] = i /\ state[c] # "Closed"
        THEN IF c \in watched[i] THEN asked = {} ELSE \E k \in asked : asked = {k}
        ELSE c \notin watched[i] /\ asked = {}

(* start() gets every I/O thread into its loop, unless the process ends.   *)
ThreadsLoop == <>(~Up \/ \A i \in Threads : thread[i] = "looping")

(* A client that has connected is watched by the loop of an I/O thread in  *)
(* the end, also one that connects before start(), unless accept failed.   *)
ClientWatched ==
  \A c \in Clients :
    c \in Range(backlog) ~> (~Up \/ main = "stuck" \/ \E i \in Threads : c \in watched[i])
=============================================================================
