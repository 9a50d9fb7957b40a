----------------------------- MODULE EventLoop -----------------------------
(***************************************************************************)
(* One EventLoop (hl/net/eventloop.cc) with the thread that runs loop(),   *)
(* the other threads that call addEpollEvent, deleteEpollEvent and stop on *)
(* it, the eventfd that is to wake it (hl/net/wakeup_fd_event.cc) and the  *)
(* kernel's epoll set.                                                     *)
(*                                                                         *)
(* The queue operations under m_mutex are single steps here: the module    *)
(* ScopeMutex examines the lock they use.                                  *)
(***************************************************************************)
EXTENDS Naturals, Sequences, FiniteSets

CONSTANTS Threads,    \* the threads other than the one that runs loop()
          Fds,        \* descriptors of the sockets (and the timer) in use
          WakeFd,     \* m_wakeup_fd
          MaxEvents,  \* g_epoll_max_events
          MaxPosts    \* bound: MaxPosts[t] tasks are posted by t

ASSUME WakeFdAssumption == WakeFd \notin Fds
ASSUME MaxEventsAssumption == MaxEvents \in Nat \ {0}

VARIABLES
  loop,       \* where loop() is
  pending,    \* m_pending_tasks
  batch,      \* tmp_tasks, the tasks this iteration runs
  events,     \* what is left to dispatch of epoll_wait's result
  signalled,  \* the eventfd's counter is not zero
  stop,       \* m_stop_flag
  listenFds,  \* m_listen_fds
  interest,   \* the descriptors the kernel's epoll instance watches
  open,       \* the descriptors that are open
  thread,     \* "idle", or "wakeup": between the unlock and the write
  posted,     \* posted[t]: tasks t has pushed
  ran         \* ran[t]: the number of the last task of t that loop() ran

loopVars == <<loop, batch, events>>
epollVars == <<listenFds, interest>>
vars == <<loop, pending, batch, events, signalled, stop, listenFds,
          interest, open, thread, posted, ran>>

LoopStates == {"idle", "test", "swap", "run", "wait", "dispatch", "done"}
EventTypes == {"in", "out", "err"}

(* A task is a callback of an FdEvent, queued by the dispatch loop, or the *)
(* lambda that addEpollEvent or deleteEpollEvent queues off the loop       *)
(* thread: the n-th one of thread `by`.                                    *)
Callbacks == [kind : {"callback"}, fd : Fds \cup {WakeFd}, ev : EventTypes]
Requests == [kind : {"add", "del"}, fd : Fds, by : Threads, n : Nat]
Tasks == Callbacks \cup Requests

Callback(f, e) == [kind |-> "callback", fd |-> f, ev |-> e]

Init ==
  /\ loop = "idle"
  /\ pending = <<>> /\ batch = <<>>
  /\ events = {}
  /\ signalled = FALSE /\ stop = FALSE
  /\ listenFds = {} /\ interest = {} /\ open = {}
  /\ thread = [t \in Threads |-> "idle"]
  /\ posted = [t \in Threads |-> 0]
  /\ ran = [t \in Threads |-> 0]

-----------------------------------------------------------------------------
(* Registration.  ADD_TO_EPOLL asks for EPOLL_CTL_MOD when m_listen_fds    *)
(* holds the descriptor, and MOD fails with ENOENT if the kernel does not  *)
(* watch it; the descriptor is inserted whether epoll_ctl succeeds or not. *)
(* Mutants: the wakeup descriptor inserted in the place of the event's;    *)
(* the insertion forgotten.                                                *)
AddToEpollWrongFd(f) ==
  /\ listenFds' = listenFds \cup {WakeFd}
  /\ interest' = IF f \in open /\ f \notin listenFds
                 THEN interest \cup {f} ELSE interest

AddToEpollNoInsert(f) ==
  /\ interest' = IF f \in open /\ f \notin listenFds
                 THEN interest \cup {f} ELSE interest
  /\ UNCHANGED listenFds

AddToEpoll(f) ==
  /\ listenFds' = listenFds \cup {f}
  /\ interest' = IF f \in open /\ f \notin listenFds
                 THEN interest \cup {f} ELSE interest

DelToEpoll(f) ==
  /\ listenFds' = listenFds \ {f}
  /\ interest' = IF f \in listenFds THEN interest \ {f} ELSE interest

(* socket() and close().  The kernel drops a closed descriptor from its    *)
(* epoll set; nothing tells m_listen_fds.                                  *)
OpenFd(f) ==
  /\ f \notin open
  /\ open' = open \cup {f}
  /\ UNCHANGED <<loopVars, epollVars, pending, signalled, stop, thread,
                 posted, ran>>

CloseFd(f) ==
  /\ f \in open
  /\ open' = open \ {f}
  /\ interest' = interest \ {f}
  /\ UNCHANGED <<loopVars, listenFds, pending, signalled, stop, thread,
                 posted, ran>>

-----------------------------------------------------------------------------
(* Other threads.                                                          *)

(* m_pending_tasks.push.  Mutant: a stack.                                 *)
PushFront(task) == <<task>> \o pending

Push(task) == Append(pending, task)

(* addEpollEvent and deleteEpollEvent off the loop thread: addTask(cb,     *)
(* true) pushes under the lock, and wakes the loop after releasing it.     *)
AddTask(t, kind, f) ==
  /\ thread[t] = "idle"
  /\ posted[t] < MaxPosts[t]
  /\ pending' = Push([kind |-> kind, fd |-> f, by |-> t, n |-> posted[t] + 1])
  /\ posted' = [posted EXCEPT ![t] = @ + 1]
  /\ thread' = [thread EXCEPT ![t] = "wakeup"]
  /\ UNCHANGED <<loopVars, epollVars, signalled, stop, open, ran>>

AddEpollEvent(t, f) == f \in open /\ AddTask(t, "add", f)

DeleteEpollEvent(t, f) == AddTask(t, "del", f)

(* stop(): the flag, and only then the wakeup.                             *)
Stop(t) ==
  /\ thread[t] = "idle"
  /\ stop' = TRUE
  /\ thread' = [thread EXCEPT ![t] = "wakeup"]
  /\ UNCHANGED <<loopVars, epollVars, pending, signalled, open, posted, ran>>

(* WakeUpFdEvent::wakeup: write to the eventfd.                            *)
Wakeup(t) ==
  /\ thread[t] = "wakeup"
  /\ signalled' = TRUE
  /\ thread' = [thread EXCEPT ![t] = "idle"]
  /\ UNCHANGED <<loopVars, epollVars, pending, stop, open, posted, ran>>

-----------------------------------------------------------------------------
(* The loop thread.                                                        *)

StartLoop ==
  /\ loop = "idle"
  /\ loop' = "test"
  /\ UNCHANGED <<batch, events, pending, signalled, stop, epollVars, open,
                 thread, posted, ran>>

(* while(!m_stop_flag).                                                    *)
TestStop ==
  /\ loop = "test"
  /\ loop' = IF stop THEN "done" ELSE "swap"
  /\ UNCHANGED <<batch, events, pending, signalled, stop, epollVars, open,
                 thread, posted, ran>>

(* m_pending_tasks.swap(tmp_tasks), tmp_tasks being new and empty.         *)
(* Mutant: a copy.                                                         *)
CopyTasks ==
  /\ loop = "swap"
  /\ loop' = "run"
  /\ batch' = pending
  /\ UNCHANGED <<pending, events, signalled, stop, epollVars, open, thread,
                 posted, ran>>

SwapTasks ==
  /\ loop = "swap"
  /\ loop' = "run"
  /\ batch' = pending
  /\ pending' = <<>>
  /\ UNCHANGED <<events, signalled, stop, epollVars, open, thread, posted,
                 ran>>

(* A queued lambda of another thread's addEpollEvent or deleteEpollEvent.  *)
RunRequest(task) ==
  /\ task.kind \in {"add", "del"}
  /\ IF task.kind = "add" THEN AddToEpoll(task.fd) ELSE DelToEpoll(task.fd)
  /\ ran' = [ran EXCEPT ![task.by] = task.n]
  /\ UNCHANGED <<signalled, stop>>

(* The wakeup descriptor's read callback: reads until the counter is zero. *)
RunDrain(task) ==
  /\ task.kind = "callback" /\ task.fd = WakeFd
  /\ signalled' = FALSE
  /\ UNCHANGED <<stop, epollVars, ran>>

(* Any other callback may register, unregister (both are direct calls on   *)
(* the loop thread) or stop the loop.                                      *)
RunHandler(task) ==
  /\ task.kind = "callback" /\ task.fd # WakeFd
  /\ UNCHANGED ran
  /\ \/ UNCHANGED <<signalled, stop, epollVars>>
     \/ \E f \in Fds : /\ AddToEpoll(f) \/ DelToEpoll(f)
                       /\ UNCHANGED <<signalled, stop>>
     \/ stop' = TRUE /\ signalled' = TRUE /\ UNCHANGED epollVars

RunTask ==
  /\ loop = "run"
  /\ batch # <<>>
  /\ batch' = Tail(batch)
  /\ LET task == Head(batch)
     IN  RunRequest(task) \/ RunDrain(task) \/ RunHandler(task)
  /\ UNCHANGED <<loop, events, pending, open, thread, posted>>

BatchDone ==
  /\ loop = "run"
  /\ batch = <<>>
  /\ loop' = "wait"
  /\ UNCHANGED <<batch, events, pending, signalled, stop, epollVars, open,
                 thread, posted, ran>>

(* epoll_wait returns events of watched descriptors, at most MaxEvents of  *)
(* them; a readable eventfd is among them unless the result is full.  Which *)
(* sockets are ready is the environment's choice.                          *)
Ready == interest \cup (IF signalled THEN {WakeFd} ELSE {})

EpollReturns ==
  /\ loop = "wait"
  /\ \E fds \in SUBSET Ready \ {{}} :
       /\ Cardinality(fds) <= MaxEvents
       /\ Cardinality(fds) < MaxEvents /\ signalled => WakeFd \in fds
       /\ \E evs \in [fds -> SUBSET EventTypes \ {{}}] :
            /\ WakeFd \in fds => evs[WakeFd] = {"in"}
            /\ events' = UNION {{Callback(f, e) : e \in evs[f]} : f \in fds}
  /\ loop' = "dispatch"
  /\ UNCHANGED <<batch, pending, signalled, stop, epollVars, open, thread,
                 posted, ran>>

(* Nothing happened for g_epoll_max_timeout: rt = 0.  Mutant: no timeout.  *)
NoTimeout == FALSE

EpollTimeout ==
  /\ loop = "wait"
  /\ ~signalled
  /\ loop' = "test"
  /\ UNCHANGED <<batch, events, pending, signalled, stop, epollVars, open,
                 thread, posted, ran>>

(* A signal handler ran: rt = -1, EINTR.                                   *)
EpollInterrupted ==
  /\ loop = "wait"
  /\ loop' = "test"
  /\ UNCHANGED <<batch, events, pending, signalled, stop, epollVars, open,
                 thread, posted, ran>>

(* The for loop over the result: EPOLLIN, EPOLLOUT, then EPOLLERR of each  *)
(* descriptor.  addTask(cb) takes the lock for each, and does not wake.    *)
Rank == [e \in EventTypes |->
           CASE e = "in" -> 1 [] e = "out" -> 2 [] e = "err" -> 3]

Dispatch(c) ==
  /\ loop = "dispatch"
  /\ \A d \in events : d.fd = c.fd => Rank[c.ev] <= Rank[d.ev]
  /\ events' = events \ {c}
  /\ \/ /\ c.ev # "err"
        /\ pending' = Push(c)
        /\ UNCHANGED epollVars
     \/ /\ c.ev = "err"
        /\ DelToEpoll(c.fd)
        /\ \/ pending' = Push(c)   \* m_error_callback is set
           \/ UNCHANGED pending    \* it is not
  /\ UNCHANGED <<loop, batch, signalled, stop, open, thread, posted, ran>>

(* The end of the pass.  Mutant: the next pass skips the queue.            *)
DispatchDoneWaits ==
  /\ loop = "dispatch"
  /\ events = {}
  /\ loop' = "wait"
  /\ UNCHANGED <<batch, events, pending, signalled, stop, epollVars, open,
                 thread, posted, ran>>

DispatchDone ==
  /\ loop = "dispatch"
  /\ events = {}
  /\ loop' = "test"
  /\ UNCHANGED <<batch, events, pending, signalled, stop, epollVars, open,
                 thread, posted, ran>>

-----------------------------------------------------------------------------
ThreadStep(t) ==
  \/ \E f \in Fds : AddEpollEvent(t, f) \/ DeleteEpollEvent(t, f)
  \/ Stop(t)
  \/ Wakeup(t)

LoopStep ==
  \/ StartLoop \/ TestStop \/ SwapTasks \/ RunTask \/ BatchDone
  \/ EpollReturns \/ EpollTimeout \/ EpollInterrupted
  \/ \E c \in events : Dispatch(c)
  \/ DispatchDone

Next ==
  \/ \E t \in Threads : ThreadStep(t)
  \/ LoopStep
  \/ \E f \in Fds : OpenFd(f) \/ CloseFd(f)

Spec == Init /\ [][Next]_vars

(* The loop thread keeps running: epoll_wait returns when the eventfd is   *)
(* readable, and when the timeout has passed.  No signal, no socket event  *)
(* and no other thread's next step is taken for granted.                   *)
LoopFairness ==
  WF_vars(\/ TestStop \/ SwapTasks \/ RunTask \/ BatchDone
          \/ (signalled /\ EpollReturns) \/ EpollTimeout
          \/ (\E c \in events : Dispatch(c)) \/ DispatchDone)

FairSpec == Spec /\ LoopFairness

-----------------------------------------------------------------------------
(* Properties.                                                             *)

(* The type invariant of the loop, its queues and its descriptor sets.     *)
TypeOK ==
  /\ loop \in LoopStates
  /\ pending \in Seq(Tasks) /\ batch \in Seq(Tasks)
  /\ events \in SUBSET Callbacks
  /\ signalled \in BOOLEAN /\ stop \in BOOLEAN
  /\ listenFds \in SUBSET Fds /\ interest \in SUBSET Fds
  /\ open \in SUBSET Fds
  /\ thread \in [Threads -> {"idle", "wakeup"}]
  /\ posted \in [Threads -> Nat] /\ ran \in [Threads -> Nat]

queued == batch \o pending

(* The dispatch loop queues a callback of a level-triggered descriptor on  *)
(* every pass, and the callback runs only in the next one: a callback of   *)
(* the same descriptor and event must never be queued twice, nor be queued *)
(* while the same event is still to be dispatched, or a handler would run  *)
(* again on data its first run consumed.                                   *)
NoCallbackTwice ==
  /\ \A i, j \in 1..Len(queued) :
       queued[i].kind = "callback" /\ queued[i] = queued[j] => i = j
  /\ \A i \in 1..Len(queued) : queued[i] \notin events

(* loop() blocks in epoll_wait only after it ran every callback the        *)
(* previous pass queued: those are pushed without a wakeup, and a callback *)
(* left behind would sleep until the timeout.                              *)
NoCallbackSleeps ==
  loop = "wait" => \A i \in 1..Len(queued) : queued[i].kind # "callback"

(* The kernel never reports a descriptor that deleteEpollEvent has         *)
(* forgotten: what epoll watches, m_listen_fds holds, and it is open.      *)
WatchedIsListed == interest \subseteq listenFds \cap open

(* A thread's requests run in the order it posted them, none lost, none    *)
(* twice (add then delete must not become delete then add).                *)
Executor == INSTANCE TaskExecutor WITH posted <- posted, executed <- ran
RequestsRunOnceInOrder == Executor!Spec

(* What another thread asked for is done, unless the loop is told to stop: *)
(* at the latest when epoll_wait times out.                                *)
RequestsRun ==
  \A t \in Threads : \A k \in 1..MaxPosts[t] :
    (loop # "idle" /\ posted[t] >= k) ~> (ran[t] >= k \/ stop)

(* stop() ends loop().                                                     *)
StopEndsLoop == (loop # "idle" /\ stop) ~> (loop = "done")

(* wakeup_fd_event.cc says of wakeup that it triggers epoll: the loop does *)
(* not sit in epoll_wait, its eventfd silent, on a request whose poster    *)
(* has already written to the eventfd.                                     *)
WakeupWakes ==
  loop = "wait" /\ ~signalled =>
    \A i \in 1..Len(pending) : thread[pending[i].by] = "wakeup"
=============================================================================
