# hl-tinyrpc: a TLA+ model of its event loop, connections and calls

hl-tinyrpc is a small RPC framework in C++: a reactor (one `EventLoop` per
thread over epoll), TCP connections with a length-delimited protobuf protocol
(`TinyPB`), an RPC channel with timeouts on the client, a dispatcher on the
server, and an asynchronous logger. The modules in this directory describe its
control flow: what each handler does, in which order, and what threads, the
kernel and the peer may do in between. TLC checks them on small instances;
TLAPS proves every safety property the runs check, for any number of threads,
descriptors, events, clients, calls, lines and messages, and for buffers and
packets of any size.

Everything is translated from the code under `src/hl`. `PROJECT.json` names, for
every definition, the lines it stands for (`map`), and, for every property, a
change of the code that would break it (`mutants`).

    tlc -config MCEventLoop.cfg MCEventLoop      # and the other .cfg files
    tlapm EventLoopProofs.tla                    # and the other *Proofs.tla
    tlapm SequenceLemmas.tla


## 1. Inventory of the system

| component | state | operations | talks to |
|---|---|---|---|
| `EventLoop`, `WakeUpFdEvent` (net/eventloop.cc, net/wakeup_fd_event.cc) | queue of pending tasks, `m_listen_fds`, stop flag, eventfd, epoll set | `loop`, `stop`, `wakeup`, `addTask`, `add/deleteEpollEvent`, `addTimeEvent` | every other component; other threads through the queue and the eventfd |
| `FdEvent` (net/fd_event.cc) | event mask, read, write and error callback | `listen`, `cancle`, `handle` | EventLoop |
| `Timer`, `TimerEvent` (net/timer.cc) | multimap of pending events, timerfd, cancelled flags | `addTimerEvent`, `deleteTimerEvent`, `setCancle`, `onTimer`, `resetArriveTime` | EventLoop; called from any thread |
| `Mutex`, `ScopeMutex` (common/mutex.h) | the lock, `m_is_lock` | construction, `unlock`, destruction | EventLoop, Timer, Logger, FdEventGroup |
| `TcpBuffer` (net/tcp/tcp_buffer.cc) | vector, read and write index | write, resize, adjust, move the indexes | TcpConnection, TinyPBCoder |
| `TinyPBCoder` (net/coder/tinypb_coder.cc) | none | `encode`, `decode` | TcpConnection |
| `TcpConnection` (net/tcp/tcp_connection.cc) | state, two buffers, pending write and read callbacks | constructor, `onRead`, `excute`, `onWrite`, `clear`, `setState` | EventLoop, TcpClient, TcpServer, RpcDispatcher |
| `TcpClient` (net/tcp/tcp_client.cc) | socket, connection, connect error | `connect`, `writeMessage`, `readMessage`, `stop`, `addTimerEvent` | EventLoop, TcpConnection, RpcChannel |
| `TcpServer`, `TcpAcceptor` (net/tcp/tcp_server.cc) | listening socket, set of clients, `IOThreadGroup` | `onAccept`, `start` | IOThread, TcpConnection |
| `IOThread`, `IOThreadGroup` (net/io_thread*.cc) | thread, two semaphores, round robin index | `start`, `join`, `getIOThread` | EventLoop |
| `RpcChannel`, `RpcConroller` (net/rpc/rpc_channel.cc) | controller, messages, closure, timer event | `init`, `CallMethod` and its four callbacks | TcpClient, Timer |
| `RpcDispatcher` (net/rpc/rpc_dispatcher.cc) | services | `dispatch` | TcpConnection |
| `Logger`, `AsyncLogger` (common/log.cc) | line buffers, queues of batches, writer threads, files, stop flags | `pushLog`, `syncLoop`, `pushLogBuffer`, `loop`, `stop`, `flush`, the signal handler | Timer (periodic `syncLoop`), all threads |
| `FdEventGroup` | vector of `FdEvent`s by descriptor | `getFdEvent` | TcpClient, TcpConnection |
| `MsgIDUtil` | the thread's last id, its maximum | `GenMsgID` | RpcChannel |
| `Config`, `RunTime`, util, `StringCoder`, generator, tests | constants, names | - | - |

What is hard in it, and what has to hold:

* **EventLoop**. Other threads queue requests and wake the loop with an eventfd
  while the loop swaps the queue, runs the batch, blocks, dispatches. A
  request must run once, in its thread's order, and not be slept upon;
  callbacks of level-triggered descriptors must not be queued twice or left
  behind; `stop` must end the loop.
* **Timer**. The decision to set the timerfd is taken under a lock and carried
  out after it; events are added, cancelled and added again while `onTimer`
  runs. Pending events must keep the timerfd armed; no event may be lost,
  doubled or run early.
* **ScopeMutex**. An object that was unlocked by hand is destroyed later; two
  threads must never be in a critical section together.
* **TcpBuffer, TinyPBCoder, TcpConnection**. Packets arrive in parts and in
  bunches; writes are partial; a connection closes while callbacks are queued;
  the server makes a connection on one thread while another already reads
  from it. What was received must be kept until it is decoded; a request must be
  dispatched once, answered once, and answered.
* **TcpServer, IOThreadGroup, FdEventGroup**. Threads are made and started over
  two semaphores while clients already connect; connections are handed to the
  loops of other threads; descriptors run out, accept fails. A loop must exist
  before it is used, every thread must get into its loop, every connection must
  belong to one loop, have an FdEvent of its own, and be watched.
* **RpcDispatcher**. Names are divided at a dot, looked up in two tables, and a
  method is called that need not be implemented. A request that can be served
  must be, also behind others that cannot.
* **RpcChannel**. Connect, reply, timeout and cancelling of several calls race
  on a shared Timer. A closure runs at most once, finds an outcome, and does
  run once a response has come; a call that was replied to is settled; one that failed to connect still
  ends.
* **Logger**. A line passes three containers under two mutexes, a condition
  variable and a thread; a signal may strike anywhere. Lines must be kept,
  in order, written once they are on their way, and the process must end after a
  signal, which may have struck inside a critical section.

`PROJECT.json` lists the hazards at their lines with the properties that watch
over them, and says of the rest why none does.


## 2. The modules

Each component module has a `TypeOK`, an `Init`, one action per handler or per
step of it, `Next`, `Spec`, and `FairSpec` where liveness is stated. The names
are those of the code. An `MC` module gives an instance to TLC.

| module | models |
|---|---|
| `TaskExecutor` | abstract: what a thread that posts to a loop is promised |
| `EventLoop` | the loop, its queue, eventfd, epoll set, other threads |
| `EventLoopProofs` | theorems about it |
| `Timer` | one Timer with its timerfd, loop thread, other threads, clock |
| `TimerProofs` | theorems about it |
| `TcpServer` | the server process: I/O threads, their start, accept, who watches which client |
| `TcpServerProofs` | theorems about it |
| `RpcDispatcher` | which request becomes a response, an error, or a crash |
| `ScopeMutex` | one mutex and the ScopeMutexes of several threads |
| `TcpBuffer` | the buffer as a value; its operations as operators |
| `TinyPBCoder` | framing: encode and decode over a TcpBuffer |
| `CodecProofs` | theorems about the two modules above |
| `TcpConnection` | client and server connection, two loops, two byte streams; extends `RpcDispatcher` and `TinyPBCoder`, which extends `TcpBuffer` |
| `TcpConnectionProofs` | theorems about it |
| `RpcChannel` | several calls and the Timer they share |
| `OneShotCall` | abstract: what the caller of CallMethod is promised |
| `RpcChannelProofs` | theorems about it |
| `Logger` | Logger, its two AsyncLoggers, the signal handler |
| `LineLog` | abstract: what a program that logs is promised |
| `LoggerProofs` | theorems about it |
| `SequenceLemmas` | lemmas the proofs share: induction, recursive functions, concatenation, insertion and removal |

### EventLoop

`loop` is the program counter of `EventLoop::loop()`: `TestStop` the `while`
condition, `SwapTasks` the swap under the mutex, `RunTask` one turn of the
`while` over the batch, `BatchDone` its end, `EpollReturns`, `EpollTimeout` and
`EpollInterrupted` the three results of `epoll_wait` the code tells apart,
`Dispatch` one `addTask` of the `for` over the result (in the code's order IN,
OUT, ERR of a descriptor), `DispatchDone` its end. A task is either a callback
or a request of another thread (the lambda of `addEpollEvent` or
`deleteEpollEvent`); a callback of a socket may register, unregister or stop,
directly, as the code does on the loop's own thread. `addTask(cb, true)` of
another thread is two steps, the push and the write to the eventfd. The kernel
forgets a closed descriptor (`CloseFd`), `m_listen_fds` does not. Results are
at most `MaxEvents` descriptors, so that the eventfd can be left out of one.
The code's `EPOLL_CTL_MOD` of a descriptor that epoll does not know fails, and
its insertion into `m_listen_fds` happens all the same.

### Timer

`pending` is the multimap in key order; an entry holds the ticks `left` until
its arrive time, which `Tick` counts down, so that the model needs no last
moment. `addTimerEvent` is the insertion under the lock (`AddTimerEvent`) and
the two steps of `resetArriveTime` (`CopyPending` under the lock, `SetTime`
after it), by any thread. `onTimer` is `OnTimer` (reading the timerfd),
`Collect` (the loop under the lock and the `erase`), `AddAgain` for each
repeated event, `ResetAtEnd`, `RunTask` for each callback. `Collect` does what
the code does: it passes over events that are not due, breaks at a cancelled
one that is (`BreaksAt`), takes the due ones before it (`Takes`), and erases all it
passed (`Remaining`).

### ScopeMutex

`Construct`, `Unlock`, `Destruct` of a thread's object, on a mutex that does not
check its owner (default kind). The other modules take the critical sections
for atomic; this one shows when that is not so (section 4).

### TcpServer

One process from the construction of its `TcpAcceptor` to its end. `main` is
where the main thread is: `MakeAcceptor` or `AcceptorExits`, then per IOThread
`CreateThread` and `WaitInit` (the two halves of its constructor, before and
after `sem_wait`), `Listen`, `StartThread` for each, `EnterLoop`. An I/O thread
goes through `MakeLoop`, `PostInit`, `StartLoop`. `OnAccept` is `onAccept` up to
the constructor of the connection (the next index of the group, the FdEvent of
the descriptor, and the request to the other thread's loop), `SetState` its end;
`AcceptFails` is an accept that returned -1. `Register` is the loop running the
request, `Clear` the connection's `clear` at the end of the stream. Clients
connect as soon as there is a listening socket, and leave whenever they like,
also before they are accepted. No connection is ever closed by the server, so
that the descriptor numbers of its connections ascend (`NextFd`).
`m_fd_group[-1]` is undefined: the process crashes, or the handler of the signal
leaves its thread in a join (`Logger`).

### RpcDispatcher

`Dispatch` gives the outcome of a request: the error code of `dispatch()`'s early
returns in the code's order, "called", or "SIGSEGV" for a method the program has
not overridden, whose generated code runs the closure that `dispatch()` passes as
NULL. A name is the sequence of its parts, and
`ParseServiceFullName` divides it at its first dot. `Servable`, stated without
the dispatcher, is what a client may count on.

### TcpBuffer, TinyPBCoder, TcpConnection

A byte is abstracted to a *cell* of a packet: which message it belongs to, its
place, and whether it carries `PB_END`; the first cell carries `PB_START` and
the packet length. All packets have `MsgLen` cells. `TcpBuffer` keeps the
code's indexes, growth by 3/2, the shift when a third has been read, and the
refusal of an index equal to the size. `Decode` looks for the first start whose
length ends on an end, and moves the read index by the packet's length *from
where it was*, as the code does. `EncodeTinyPB` leaves the end out of a packet
that has an error text, for the code's packet length does not count the text.

`TcpConnection` has one action per handler and outcome: `OnReadRefused`,
`OnReadEof`, `OnReadServer`, `OnReadClient`; `OnWriteRefused`, `OnWriteServer`,
`OnWriteClient`, `OnWriteBroken`; `ListenAtOnce`, `MakeCoder`, `SetState` are the
main thread's steps in `onAccept`, against an I/O thread that already runs.
Each message has a request (`request`), of which the server makes what
`Dispatch` says; one that crashes ends the server's process (`OnReadCrash`) or
leaves its loop standing still in the signal handler (`OnReadStuck`).
`ReadLoop` is the whole read loop of one `onRead`, with the read that fills the
buffer, the resize, and the read that gets less. Each side's loop queues
callbacks (`QueueCallbacks`) and runs them later. `onWrite` makes one write
attempt: the code's loop would write the same cells again whenever the socket
has made room meanwhile, which is what a further `onWrite` does here.

### RpcChannel

A call's `conn` says how far `connect` is; `CallMethodInProgress`,
`CallMethodAtOnce` and `CallMethodFails` are the three ways through
`CallMethod`. `pending` is the Timer's order of the calls' timeout events.
`Arm` puts a call's event anywhere in it (its timeout is its own), `OnTimer`
is Timer's `onTimer` in one step, which takes and erases the same events.
`OnReply` is the read callback with its two early returns (`Failure`).
`StartCancel` is the caller's own, at any moment of a call. `OneShotCall` is the
abstract specification: a call is open and then done, failed or dropped, for
good; `Outcome` is the refinement mapping.

### Logger

A line is its number among the lines of its log. `SyncStep` is one critical
section of `syncLoop`, run by the loop's thread (`SyncLoop`) or by the signal
handler (`FlushSync`); `Wait`, `Take`, `Write`, `TestStop` are the writer thread.
A signal interrupts one thread (`Interrupt`): the loop's in syncLoop, a writer
thread, or one that pushes, outside of or inside one of its critical sections;
`held` is the mutex that then stays locked, for the handler never returns. The
handler logs its line (`HandlerLogs`), flushes, and joins the two threads. A
join of the very thread it runs on fails at once.

`LineLog` is its abstract specification, with neither buffers nor threads: lines
are accepted, and stored in runs, none twice and, until a signal, none passed
over. `Promise` is the refinement mapping: `pushed` numbers the lines accepted,
`file` is the file, and `handler` tells whether a signal has come.


## 3. What the runs check

The numbers are of distinct states, of the runs that pass.

| run | shows | instance |
|---|---|---|
| `event_loop` | `NoCallbackTwice`, `NoCallbackSleeps`, `WatchedIsListed`; `RequestsRunOnceInOrder` (refinement of `TaskExecutor`); `RequestsRun` and `StopEndsLoop` under fairness | two threads, two requests of one and one of the other, one descriptor besides the eventfd, results of one event (185,002 states) |
| `event_loop_wakeup` | violation of `WakeupWakes` | same |
| `timer` | `PendingIsArmed`, `OnePlace`, `TakenWhenDue`; `FirstLeaves` under fairness | a one-shot event, a later one, a repeated one; the loop thread and another (279,975 states) |
| `timer_kept` | violation of `EventsKept` | same |
| `scope_mutex` | violation of `MutualExclusion` | three threads |
| `tcp_server` | `LoopMadeFirst`, `Balanced`, `OwnFdEvent`, `OneLoop`; `ThreadsLoop` and `ClientWatched` under fairness | two I/O threads, four clients, three descriptors for them, a group that starts with four (86,154 states) |
| `tcp_connection` | `AnswerOnce`, `AnswersMeetRequests`, `ServesWhenMade`, `ClosedIsQuiet`; `TypeOK` says that no write index passes its buffer's end; `RequestAnswered` under fairness | two requests of two cells, each called, refused with an error, or crashing; input buffers of five cells; three dispatches (42,488 states) |
| `tcp_connection_kept` | violation of `InputKept` | two messages, input buffers of three, sockets of six |
| `tcp_connection_once` | violation of `ServedOnce` | two messages, buffers of four |
| `rpc_channel` | `ClosureOnce`, `RepliedIsSettled`, `FailedConnectOnlyTimesOut`, `ClosureSeesOutcome`, `RepliedNeverTimesOut`; `CallsEndOnce` (refinement of `OneShotCall`); `ResponseRunsClosure` under fairness | three calls (163,922 states) |
| `logger` | `LinesKept`, `FileInOrder`; `LinesStoredOnce` (refinement of `LineLog`); `SwappedWritten` and `BusyLoggersEnd` under fairness | two lines to one log, one to the other, and the handler's (87,187 states) |
| `logger_signal` | violation of `SignalEnds` | same |

Why the bounds are enough. *EventLoop*: two requests of one thread can be
reordered, a third of another interleaves; with results of one event the eventfd
is crowded out by the descriptor, the only effect of a full result (results of
two were checked as well). *Timer*: an event that comes first and
one that comes later, due together or apart, is what `resetArriveTime` and
`Collect` distinguish; the repeated event is added again between them; the
second thread is the other side of every race. *TcpServer*: with two I/O
threads the round robin starts afresh once the third client comes; the third
client's descriptor makes the group grow; the fourth finds no descriptor.
*TcpConnection*: a packet of two cells can be split
between reads, two requests and the copies that a second write sends come
together, and with a copy behind them the input buffer of five cells does fill
to its end; the third dispatch is that of a copy. `RequestAnswered` is stated
of behaviours in which no buffer or socket fills (`Full`), for of others it is
false (`InputKept`); without that condition this run violates it. Sockets of
twelve cells do not fill, so that writes are complete in it: with smaller ones
the same prefix is written for ever, and the states are too many for the
liveness check. The safety properties were also checked with buffers and sockets
of three cells, where writes are partial (340,119 states), and are proved for all
sizes. *RpcChannel*: `onTimer`
takes some, stops at one and leaves one, which needs three calls. *Logger*: a
batch on its way and another line behind it are two lines; the two logs share
syncLoop's order.

Deadlock. It is checked for the event loop, the timer and the mutex. Connections end
when both sides have, a server's clients when all have come and gone, calls when
all have returned, the logger when the process exits: these runs say
`CHECK_DEADLOCK FALSE`.

Fairness. It is weak throughout, and of the thread that has work. *EventLoop*:
the loop thread takes its next step; `epoll_wait` returns when the eventfd is
readable or the timeout passes; no signal, no socket event and no step of
another thread is assumed. *Timer*: each thread finishes its
`resetArriveTime`, the loop reads a readable timerfd, the clock ticks.
*TcpServer*: the main thread and each I/O thread run, and a loop runs the
requests queued in it, which is `RequestsRun` of EventLoop; no client is
assumed to come or go. *TcpConnection*: each side's loop runs, onAccept is
finished, and what was written arrives (TCP); an application's writing or ending
is not assumed. *RpcChannel*: a callback whose event has happened runs, and time
passes until every pending timer event is due; neither a reply nor the
caller's cancelling is assumed. *Logger*: threads and a handler go on, and the
thread of the event loop finishes a syncLoop it has begun. That the timer begins
one is not assumed, because `onTimer` may erase syncLoop's event or never come to
it (section 4); nor is it that a line is logged, or a signal comes.


## 4. What the checks found

* **A wakeup can be read away** (`event_loop_wakeup`). The eventfd's callback is
  queued, and run in the next batch; a request pushed after that batch
  was swapped out, and announced before the callback reads, stays in the
  queue with the eventfd empty. The request waits for the epoll timeout
  (10 s) or another event. `RequestsRun` holds only thanks to that timeout.
* **The Timer drops what is not due** (`timer_kept`). The loop of `onTimer` has
  no exit at the first event that is not due, and erases up to where it
  stopped: the first event that runs takes all later ones with it. This
  includes the timeouts of the other calls.
* **ScopeMutex unlocks twice** (`scope_mutex`). `unlock()` leaves `m_is_lock`
  set; the destructor unlocks again, inside another thread's critical section.
  The modules that take critical sections for atomic hold for a mutex that is one.
* **Requests are sent again** (`tcp_connection_once`). `onWrite` never moves the
  read index of the output buffer: a second write sends the first request
  again, and the server dispatches it again. `AnswerOnce` shows that the client
  at least runs its callback once.
* **A read that fills the input buffer is lost** (`tcp_connection_kept`).
  `moveWriteIndex` refuses an index equal to the size, so that the bytes of such
  a read are not counted and the next read goes over them; what is left of two
  packets may then be decoded as one. onRead never finds the buffer full, so it
  never makes it larger than the 128 bytes it starts with, and no packet of that
  length or more is received at all. With the index equal to the size
  accepted, `InputKept` holds in this instance.
* **A signal may not end the process** (`logger_signal`): the handler sets stop
  flags that a waiting writer thread does not look at, and joins it; or it waits
  for a mutex that the thread it interrupted holds. `BusyLoggersEnd` says when
  the process does end: when no mutex stays locked and both writer threads still
  have something to write.

`PROJECT.json` quotes, under `findings`, what the code or its comments say to
the contrary.

Some facts that the models show, and nothing in the repository denies:

* Lines reach a file only as long as the Timer runs syncLoop, whose event it may
  erase (`EventsKept`) or starve behind a cancelled one. `SwappedWritten` therefore
  speaks of the lines that a syncLoop has swapped out.
* A reply that does not parse, or that has an error code, cancels the timeout and
  ends its call without the closure: the controller's error code is all there is
  (`RepliedIsSettled`). A cancelled call has its closure run by its timeout, but
  not by its reply.
* A call that cannot connect ends by its timeout only, whose error replaces that
  of the connect (`FailedConnectOnlyTimesOut`).
* A service of a protobuf package is never found: it is registered under its full
  name, and looked up by what stands before the first dot (`DispatchCalls`).
* The server's main loop does not survive an accept that fails (`AcceptFails`),
  and since no connection is ever closed, it will fail.
* The server's port is kept in 16 bits before it is checked, so that the check
  never fails (`CheckVaild`).


## 5. What is proved

TLAPS checks these for every value of the constants. An invariant that is not
inductive is strengthened to a conjunction of named parts (`IInv` in each proof
module); `Init`, each action, and the conclusion are steps of their own.

**EventLoopProofs.** Assumptions: the eventfd is none of the other descriptors,
`MaxEvents` is positive (both declared in `EventLoop`); the theorems need no finiteness.

* `TypeCorrect`: `Spec => []TypeOK`.
* `CallbackQueuedOnce` (`NoCallbackTwice`) and `CallbacksRunBeforeWait`
  (`NoCallbackSleeps`) from `CallbackInv`. `NoCallbackTwice` is not inductive:
  that a dispatched callback is not already queued holds because, from the end
  of the batch to the end of the dispatch loop, the batch is empty and the
  queue holds callbacks only of events already dispatched in this pass.
  `CallbackInv` says so per state of the loop.
* `WatchedListed` (`WatchedIsListed`) directly: it is inductive once the types
  are known.
* `ImplementsExecutor` (`RequestsRunOnceInOrder`): `EventLoop` implements
  `TaskExecutor`. Its invariant `RequestInv` says that, of each thread's
  requests, the numbers after `ran[t]` up to `posted[t]` are in `batch \o
  pending`, each once and in ascending order. From it, the request
  that `RunTask` takes is the one after the last (`HeadIsNext`), and pushing,
  swapping and dispatching keep it (`AppendNext`, `AppendOther`, `TailHolds`).

**TimerProofs.** Assumptions: those of `Timer` about its constants (positive
intervals and retry, the loop thread is none of the others).

* `TypeCorrect` (`TypeOK`), `CallbacksWait` (`TakenWhenDue`).
* `PendingAlwaysArmed` (`PendingIsArmed`) from `Armed`. The invariant must speak
  of every moment: while events are pending, the timerfd is armed, or has
  expired, or `onTimer` is under way and will set it, or some thread is in
  `resetArriveTime`; and no thread is about to set it to zero, which would
  disarm it.
* `EventsHaveOnePlace` (`OnePlace`) from `Places` and `PendingOnce`: an event to be added again is not
  pending meanwhile, and a one-shot event that has run is nowhere. The lemmas
  are about `Insert` and `Remaining`.

**TcpServerProofs.** Assumption: `ServerAssumption` (at least one I/O thread, a
group that starts with at least two entries).

* `TypeCorrect` (`TypeOK`) and `LoopsMadeFirst` (`LoopMadeFirst`) from
  `StartInv`, the order of the start: where each thread is, and what its two
  semaphores hold, as `main`, `built` and `started` tell.
* `SharesBalanced` (`Balanced`) from `RoundRobin`: the share of a thread, less
  the one it has had in this round, is the same for all.
* `FdEventsOwned` (`OwnFdEvent`) from `FdInv`: the numbers given are those below
  the next, and the group is as large as the largest. That `fd * 1.5`, rounded
  down, exceeds `fd` needs `fd` to be at least two, which the first size gives.
* `LoopOwnsConnection` (`OneLoop`) from `QueueInv` and `BacklogInv`: a client is
  in the backlog once and has no connection then, and a connection is in one
  queue at most.

**CodecProofs.** Assumption: `MsgLenAssumption` (a packet has at least two
cells). For buffers of any size and any number of messages:

* `EncodeData`: encode() appends the packets of its messages to what the buffer
  held, however often `WriteToBuffer` has to grow or shift it.
* `DecodesEncoded`: of a buffer that holds what encode() wrote and a part of the
  next packet, decode() returns the packets in order and keeps the part. The
  condition that the write index is below the size (`Filled`) is needed: of a
  full buffer, the code's moveReadIndex refuses to move to its end.
* `ErrorsNotDecoded`: packets with an error text, whose end encode() leaves out,
  are found by no decode(), however many there are.

`Decode` is a loop written as a recursive function. `DecodeLoops` shows with
`LoopExists` that there is one such function, from the measure that goes down (the
cells of the buffer), and gives its equation; what it computes follows by
induction on that measure (`DecodeKeeps`, `DecodeAll`).

**TcpConnectionProofs.** Assumptions: `RegisteredAssumption`, `MsgLenAssumption`,
`SizesAssumption` (a buffer has room for at least one cell; the other bounds are
natural numbers), `MsgsAssumption` (finitely many messages, which `Count` sums
over).

* `AnsweredOnce` (`AnswerOnce`) from `AnswerInv`: a message is in at most one of
  `m_write_dones` and `m_read_dones`, and in neither once its callback ran.
* `ServedWhenMade` (`ServesWhenMade`) from `MadeInv`: only `SetState` connects
  the server's side, and onRead reads nothing before.
* `ConnectionTypes` (`TypeOK`) from `TypeInv`. `TypeOK` is not inductive: an input
  buffer has to have a write index below its size (`Filled(BufferSize)`), or
  decode() could not move the read index past the last packet. That it also has
  its first size is a consequence of the lost reads of section 4. The read loop asks
  for all the room there is and ends when it gets less, that is, with room left
  (`ReadLoopKeeps`); decode() keeps the size and does not move the write index up
  (`DecodeKeeps`); the sum over the decoded messages stays within `MaxServed`
  (`SumBounds`, `CountBounds`).
* `ClosedWritesNothing` (`ClosedIsQuiet`): what a step does to a stream and to
  `served`, action by action (`QuietStep`).
* `AnswersHaveRequests` (`AnswersMeetRequests`) from `OriginInv`: every cell in a
  side's output buffer, on its way, or in the peer's input buffer is of a message
  that side knows (`Known`): the client those it has written, the server those it
  has dispatched. Reading, decoding and encoding make no cells of other messages
  (`ReadKeepsOrigin`, `EncodeOrigin`), and what is known only grows.
* `ReadsWhatWasWritten`: in every state of `TypeInv`, if the rest in the input
  buffer and the cells that arrive are what encode() wrote, and a part of another
  packet, and fit, one onRead hands on exactly the messages written, in order.
  It joins `ReadLoopKeeps` and `DecodesEncoded`.
* `DispatchCalls`: a request has its method called if and only if it is
  `Servable`, for any registered services.

**RpcChannelProofs.** No assumption but `Spec`; any set of calls.

* `TypeCorrect` (`TypeOK`), `ClosureRunsOnce` (`ClosureOnce`), `ReplySettlesCall`
  (`RepliedIsSettled`), `FailedConnectEndsByTimeout`
  (`FailedConnectOnlyTimesOut`), `ClosureFindsOutcome` (`ClosureSeesOutcome`),
  `NoTimeoutAfterReply` (`RepliedNeverTimesOut`), all from
  `IInv == TypeOK /\ Once /\ RepliedIsSettled /\ \A c : Sequel(c)`. That a closure runs once is
  not inductive: the reply side needs that a call whose timer event is
  cancelled waits for no second reply, the timeout side that a call is in the
  Timer at most once (`Once`) and has left it once it timed out; and
  both that a cancelled event, though it may still be in the Timer, is not
  taken.
* `ImplementsOneShotCall` (`CallsEndOnce`): `RpcChannel` implements
  `OneShotCall`. A step that ends a call is an abstract step of an open call:
  what `onTimer` takes is open (`TimeoutsEnd`), and a reply finds its call open,
  or done by the timeout, and then changes nothing (`ReplyEnds`).

`ArmKeeps` and `OnTimerLeaves` are the lemmas about inserting into and cutting the
Timer's sequence.

**LoggerProofs.** Assumption: `MaxLinesAssumption` (the bound on the lines of
each log is a natural number).

* `LoggerTypes` (`TypeOK`) from `StateInv` and `LoadInv`: that no place holds more
  lines than were pushed needs that all places together do not (`Load`).
* `LoggerKeepsLines` (`LinesKept`) and `LoggerWritesInOrder` (`FileInOrder`) from
  `OrderInv`: what file, writer, batches, the swapped buffer of syncLoop (or of
  the handler) and the buffer hold, one after the other (`Way`), are the numbers
  of all lines, or, once a signal has interrupted syncLoop, ascending ones.
* `ImplementsLineLog` (`LinesStoredOnce`): `Logger` implements `LineLog`. Once a
  signal came on another thread than the loop's, two syncLoops run and the order
  is lost, so this needs an invariant of its own: `SpreadInv` says that there is
  a line up to which all have left the buffer, that what syncLoop carries, the
  batches and what is being written are runs of these, and that no two of the
  places share a line. `WriteStores` is the step that matters: a write is a
  `Store` of a run or, of nothing, a stutter; before a signal `OrderInv` tells
  that the run follows the file (`WritesNext`).

`StepMoves` is the key lemma: every action leaves the places of a log alone or
moves lines from one to the next (`Moved`), of which each kind keeps their
concatenation (`CatSwap`, `CatBatch`, `CatTake`, `CatWrite`, `CatPush`). When a
signal comes, the lines syncLoop had swapped out are skipped (`CatSkip`).

**SequenceLemmas.** Induction is not taken from the library's rules, which have
an operator for a parameter, but from its first-order theorem that the order of
the naturals is well-founded: a set of naturals has a minimum (`NatMinimum`),
hence induction over a set (`SetInduction`), the existence of functions defined
by recursion (`Recursion`) and of loops that end (`LoopExists`). From these come
what `FlattenSeq` computes (`FlattenResults` to `FlattenTail`), and the lemmas
about `InsertAt`, `RemoveAt` and `Tail`.

Only model-checked: liveness (all of it), which is beyond this prover, and the
properties that the code violates (section 4).


## 6. What is abstracted or left out

* Critical sections are single steps, except in `ScopeMutex` and for the one
  that a signal interrupts in `Logger`.
* Packets have equal length, and the length field is one with the start byte:
  reading a length of which only a part has arrived is not modelled. The write past
  the end of the allocation in `encodeTinyPB` is modelled by its effect on
  framing only. The parse errors inside a well framed packet are left out.
* An error reply of this server is framed so that decode does not find it; the
  reply with an error code of `RpcChannel` is one of another server.
* Requests of `RpcDispatcher` carry a name and whether the message parses. A
  response that cannot be serialized (rpc_dispatcher.cc:89) is left out; so is
  what a method does.
* The server's constants exclude a configuration without I/O threads, for which
  `getIOThread` indexes an empty vector. Addresses are left out, and with them
  that `accept` is told of the size of a size (tcp_acceptor.cc:67), which only
  truncates the peer's address.
* Destructors are left out where no program of the repository reaches them: those
  of TcpServer, IOThread (~IOThreadGroup does not delete its threads),
  FdEventGroup, EventLoop; so are `IOThreadGroup::join`, `RpcConroller::Reset`,
  `readFromBuffer`, `shutDown`, which nothing calls.
* The numbers of descriptors in `TcpServer` ascend by one. In the code log files,
  opened and closed as they rotate, also take numbers and give them back; clients
  of the process would too.
* A client of `TcpServer` leaves by a clean end of its stream. On a reset,
  eventloop.cc:180-183 takes the descriptor out of epoll one pass before onRead
  notices.
* A signal that interrupts a thread inside malloc or stdio, whose locks the
  handler then needs, is left out of `Logger`.
* Log files: names, dates and rotation are left out; a file is its lines in order.
  With log type 0 rpc lines are printed and nothing is kept.
* MsgIDUtil: a counter of 20 digits that starts at random; what is interesting in
  it, the start afresh after all nines, is up to 10^20 ids away.
* Not modelled at all: Config, RunTime, util, StringCoder (unused), the generator,
  the messages of order.pb.cc.


## 7. Plan

Done: the modules above, in the order EventLoop and its abstraction, Timer,
ScopeMutex, TcpConnection over its buffer and coder, RpcChannel, Logger,
TcpServer, RpcDispatcher; the proofs of all their safety properties and of what
the coder computes.

Left, in this order:

1. A byte-level model of `decode` against its cell-level one, with a length of
   which a part has arrived.
2. The server of `TcpServer` with the clients of `RpcChannel`, over the event
   loops of both.
