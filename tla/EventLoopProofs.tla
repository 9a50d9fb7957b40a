-------------------------- MODULE EventLoopProofs --------------------------
(***************************************************************************)
(* Theorems about EventLoop: for any number of threads, descriptors and    *)
(* posts.                                                                  *)
(***************************************************************************)
EXTENDS EventLoop, TLAPS

(* Every reachable state has the variables' types.                         *)
THEOREM TypeCorrect == Spec => []TypeOK
<1>1. Init => TypeOK
  <2> SUFFICES ASSUME Init PROVE TypeOK
    OBVIOUS
  <2>1. pending \in Seq(Tasks) /\ batch \in Seq(Tasks)
    BY DEF Init
  <2>2. /\ thread \in [Threads -> {"idle", "wakeup"}]
        /\ posted \in [Threads -> Nat] /\ ran \in [Threads -> Nat]
    BY DEF Init
  <2> QED
    BY <2>1, <2>2 DEF Init, TypeOK, LoopStates
<1>2. TypeOK /\ [Next]_vars => TypeOK'
  <2> SUFFICES ASSUME TypeOK, [Next]_vars PROVE TypeOK'
    OBVIOUS
  <2> USE DEF TypeOK, loopVars, epollVars
  <2>1. CASE UNCHANGED vars
    BY <2>1 DEF vars
  <2>2. ASSUME NEW f \in Fds, OpenFd(f) \/ CloseFd(f) PROVE TypeOK'
    BY <2>2 DEF OpenFd, CloseFd
  <2>3. ASSUME NEW t \in Threads, NEW f \in Fds, NEW kind \in {"add", "del"},
               AddTask(t, kind, f)
        PROVE TypeOK'
    <3> DEFINE task == [kind |-> kind, fd |-> f, by |-> t, n |-> posted[t] + 1]
    <3>1. task \in Tasks
      BY DEF Tasks, Requests
    <3>2. pending' \in Seq(Tasks)
      BY <2>3, <3>1 DEF AddTask, Push
    <3>3. posted' \in [Threads -> Nat]
      BY <2>3 DEF AddTask
    <3> QED
      BY <2>3, <3>2, <3>3 DEF AddTask
  <2>4. ASSUME NEW t \in Threads, Stop(t) \/ Wakeup(t) PROVE TypeOK'
    BY <2>4 DEF Stop, Wakeup
  <2>5. CASE StartLoop \/ TestStop \/ BatchDone
    BY <2>5 DEF StartLoop, TestStop, BatchDone, LoopStates
  <2>6. CASE SwapTasks
    BY <2>6 DEF SwapTasks, LoopStates
  <2>7. CASE RunTask
    <3> DEFINE task == Head(batch)
    <3>1. task \in Tasks /\ batch' \in Seq(Tasks)
      BY <2>7 DEF RunTask
    <3>2. CASE RunRequest(task)
      <4>1. task \in Requests
        BY <3>1, <3>2 DEF RunRequest, Tasks, Callbacks
      <4> QED
        BY <2>7, <3>1, <3>2, <4>1
        DEF RunTask, RunRequest, Requests, AddToEpoll, DelToEpoll
    <3>3. CASE RunDrain(task)
      BY <2>7, <3>1, <3>3 DEF RunTask, RunDrain
    <3>4. CASE RunHandler(task)
      BY <2>7, <3>1, <3>4 DEF RunTask, RunHandler, AddToEpoll, DelToEpoll
    <3> QED
      BY <2>7, <3>2, <3>3, <3>4 DEF RunTask
  <2>8. CASE EpollReturns
    <3>1. PICK fds \in SUBSET Ready \ {{}} :
            \E evs \in [fds -> SUBSET EventTypes \ {{}}] :
              events' = UNION {{Callback(f, e) : e \in evs[f]} : f \in fds}
      BY <2>8 DEF EpollReturns
    <3>2. PICK evs \in [fds -> SUBSET EventTypes \ {{}}] :
            events' = UNION {{Callback(f, e) : e \in evs[f]} : f \in fds}
      BY <3>1
    <3>3. ASSUME NEW f \in fds, NEW e \in evs[f] PROVE Callback(f, e) \in Callbacks
      BY <3>3 DEF Ready, Callback, Callbacks
    <3>4. events' \in SUBSET Callbacks
      BY <3>2, <3>3
    <3> QED
      BY <2>8, <3>4 DEF EpollReturns, LoopStates
  <2>9. CASE EpollTimeout \/ EpollInterrupted \/ DispatchDone
    BY <2>9 DEF EpollTimeout, EpollInterrupted, DispatchDone, LoopStates
  <2>10. ASSUME NEW c \in events, Dispatch(c) PROVE TypeOK'
    <3>1. Append(pending, c) \in Seq(Tasks)
      BY DEF Tasks
    <3> QED
      BY <2>10, <3>1 DEF Dispatch, Push, DelToEpoll
  <2> QED
    BY <2>1, <2>2, <2>3, <2>4, <2>5, <2>6, <2>7, <2>8, <2>9, <2>10
    DEF Next, ThreadStep, LoopStep, AddEpollEvent, DeleteEpollEvent
<1> QED
  BY <1>1, <1>2, PTL DEF Spec

-----------------------------------------------------------------------------
(* Callbacks.  Which queue may hold a callback depends on where loop() is: *)
(* batch only while it is being run, and pending only between the dispatch *)
(* of epoll_wait's result and the next swap.                               *)
CallbackAt(q, i) == i \in 1..Len(q) /\ q[i].kind = "callback"

CallbacksDistinct(q) ==
  \A i, j \in 1..Len(q) : CallbackAt(q, i) /\ q[i] = q[j] => i = j

CallbackInv ==
  /\ loop # "run" => batch = <<>>
  /\ loop # "dispatch" => events = {}
  /\ loop \in {"idle", "run", "wait"} =>
       \A i \in 1..Len(pending) : ~CallbackAt(pending, i)
  /\ CallbacksDistinct(batch)
  /\ CallbacksDistinct(pending)
  /\ \A i \in 1..Len(pending) : pending[i] \notin events

(* Appending a request, or a callback that is not there yet, to a queue of *)
(* distinct callbacks leaves the callbacks distinct.                       *)
LEMMA AppendKeepsDistinct ==
  ASSUME NEW q \in Seq(Tasks), NEW x \in Tasks, CallbacksDistinct(q),
         x.kind # "callback" \/ \A i \in 1..Len(q) : q[i] # x
  PROVE  CallbacksDistinct(Append(q, x))
  BY DEF CallbacksDistinct, CallbackAt

(* CallbackInv holds in every reachable state.                             *)
LEMMA CallbackInvHolds == Spec => []CallbackInv
<1>1. Init => CallbackInv
  BY DEF Init, CallbackInv, CallbacksDistinct, CallbackAt
<1>2. TypeOK /\ CallbackInv /\ [Next]_vars => CallbackInv'
  <2> SUFFICES ASSUME TypeOK, CallbackInv, [Next]_vars PROVE CallbackInv'
    OBVIOUS
  <2> USE DEF CallbackInv, loopVars
  <2>1. CASE UNCHANGED vars
    BY <2>1 DEF vars, CallbacksDistinct, CallbackAt
  <2>2. CASE UNCHANGED <<loop, batch, events, pending>>
    BY <2>2 DEF CallbacksDistinct, CallbackAt
  <2>3. ASSUME NEW t \in Threads, NEW f \in Fds, NEW kind \in {"add", "del"},
               AddTask(t, kind, f)
        PROVE CallbackInv'
    <3> DEFINE x == [kind |-> kind, fd |-> f, by |-> t, n |-> posted[t] + 1]
    <3>1. x \in Requests /\ x.kind # "callback" /\ pending' = Append(pending, x)
      BY <2>3 DEF AddTask, Push, TypeOK, Requests
    <3>2. pending \in Seq(Tasks) /\ events \in SUBSET Callbacks
      BY DEF TypeOK
    <3>3. CallbacksDistinct(pending')
      BY <3>1, <3>2, AppendKeepsDistinct DEF Tasks
    <3>4. x \notin events
      BY <3>1, <3>2 DEF Callbacks
    <3>5. \A i \in 1..Len(pending') : pending'[i] \notin events
      BY <3>1, <3>2, <3>4
    <3>6. loop \in {"idle", "run", "wait"} =>
            \A i \in 1..Len(pending') : ~CallbackAt(pending', i)
      BY <3>1, <3>2 DEF CallbackAt
    <3> QED
      BY <2>3, <3>3, <3>5, <3>6 DEF AddTask, CallbacksDistinct, CallbackAt
  <2>4. CASE StartLoop \/ TestStop \/ EpollTimeout \/ EpollInterrupted
    BY <2>4 DEF StartLoop, TestStop, EpollTimeout, EpollInterrupted,
                CallbacksDistinct, CallbackAt
  <2>5. CASE SwapTasks
    BY <2>5 DEF SwapTasks, CallbacksDistinct, CallbackAt
  <2>6. CASE RunTask
    BY <2>6 DEF RunTask, TypeOK, CallbacksDistinct, CallbackAt
  <2>7. CASE BatchDone
    BY <2>7 DEF BatchDone, CallbacksDistinct, CallbackAt
  <2>8. CASE EpollReturns
    <3>1. PICK fds, evs : events' = UNION {{Callback(f, e) : e \in evs[f]} : f \in fds}
      BY <2>8 DEF EpollReturns
    <3>2. \A c \in events' : c.kind = "callback"
      BY <3>1 DEF Callback
    <3>3. \A i \in 1..Len(pending) : pending[i] \notin events'
      BY <2>8, <3>2 DEF EpollReturns, CallbackAt
    <3> QED
      BY <2>8, <3>3 DEF EpollReturns, CallbacksDistinct, CallbackAt
  <2>9. ASSUME NEW c \in events, Dispatch(c) PROVE CallbackInv'
    <3>1. pending \in Seq(Tasks) /\ c \in Tasks
      BY DEF TypeOK, Tasks
    <3>2. CASE pending' = Append(pending, c)
      <4>1. CallbacksDistinct(pending')
        BY <3>1, <3>2, AppendKeepsDistinct
      <4>2. \A i \in 1..Len(pending') : pending'[i] \notin events \ {c}
        BY <3>1, <3>2
      <4> QED
        BY <2>9, <4>1, <4>2 DEF Dispatch, CallbacksDistinct, CallbackAt
    <3>3. CASE pending' = pending
      BY <2>9, <3>3 DEF Dispatch, CallbacksDistinct, CallbackAt
    <3> QED
      BY <2>9, <3>2, <3>3 DEF Dispatch, Push
  <2>10. CASE DispatchDone
    BY <2>10 DEF DispatchDone, CallbacksDistinct, CallbackAt
  <2> QED
    BY <2>1, <2>2, <2>3, <2>4, <2>5, <2>6, <2>7, <2>8, <2>9, <2>10
    DEF Next, ThreadStep, LoopStep, AddEpollEvent, DeleteEpollEvent, Stop,
        Wakeup, OpenFd, CloseFd
<1> QED
  BY <1>1, <1>2, TypeCorrect, PTL DEF Spec

(* A callback is never queued twice: level-triggered readiness does not    *)
(* pile up handlers of one descriptor.                                     *)
THEOREM CallbackQueuedOnce == Spec => []NoCallbackTwice
<1>1. TypeOK /\ CallbackInv => NoCallbackTwice
  <2> SUFFICES ASSUME TypeOK, CallbackInv PROVE NoCallbackTwice
    OBVIOUS
  <2>1. CASE loop = "run"
    <3>1. batch \in Seq(Tasks) /\ pending \in Seq(Tasks) /\ events = {}
      BY <2>1 DEF TypeOK, CallbackInv
    <3>2. \A i \in 1..Len(queued) : queued[i].kind = "callback" =>
            i \in 1..Len(batch) /\ queued[i] = batch[i]
      BY <2>1, <3>1 DEF CallbackInv, CallbackAt, queued
    <3>3. \A i \in 1..Len(batch) : queued[i] = batch[i]
      BY <3>1 DEF queued
    <3> QED
      BY <3>1, <3>2, <3>3
      DEF CallbackInv, CallbacksDistinct, CallbackAt, NoCallbackTwice
  <2>2. CASE loop # "run"
    <3>1. queued = pending
      BY <2>2 DEF CallbackInv, TypeOK, queued
    <3> QED
      BY <3>1 DEF CallbackInv, CallbacksDistinct, CallbackAt, NoCallbackTwice
  <2> QED
    BY <2>1, <2>2
<1> QED
  BY <1>1, TypeCorrect, CallbackInvHolds, PTL

(* loop() never blocks in epoll_wait with a callback left to run.          *)
THEOREM CallbacksRunBeforeWait == Spec => []NoCallbackSleeps
<1>1. TypeOK /\ CallbackInv => NoCallbackSleeps
  <2> SUFFICES ASSUME TypeOK, CallbackInv, loop = "wait" PROVE NoCallbackSleeps
    BY DEF NoCallbackSleeps
  <2>1. queued = pending
    BY DEF CallbackInv, TypeOK, queued
  <2> QED
    BY <2>1 DEF CallbackInv, CallbackAt, NoCallbackSleeps
<1> QED
  BY <1>1, TypeCorrect, CallbackInvHolds, PTL

-----------------------------------------------------------------------------
(* Descriptors: what the kernel watches is open and in m_listen_fds.       *)
THEOREM WatchedListed == Spec => []WatchedIsListed
<1>1. Init => WatchedIsListed
  BY DEF Init, WatchedIsListed
<1>2. WatchedIsListed /\ [Next]_vars => WatchedIsListed'
  <2> SUFFICES ASSUME WatchedIsListed, [Next]_vars PROVE WatchedIsListed'
    OBVIOUS
  <2> USE DEF WatchedIsListed, epollVars
  <2>1. CASE UNCHANGED <<listenFds, interest, open>>
    BY <2>1
  <2>2. ASSUME NEW f \in Fds, OpenFd(f) \/ CloseFd(f) PROVE WatchedIsListed'
    BY <2>2 DEF OpenFd, CloseFd
  <2>3. ASSUME NEW f, AddToEpoll(f) \/ DelToEpoll(f), UNCHANGED open
        PROVE WatchedIsListed'
    BY <2>3 DEF AddToEpoll, DelToEpoll
  <2>4. CASE RunTask
    BY <2>1, <2>3, <2>4 DEF RunTask, RunRequest, RunDrain, RunHandler
  <2>5. ASSUME NEW c \in events, Dispatch(c) PROVE WatchedIsListed'
    BY <2>1, <2>3, <2>5 DEF Dispatch
  <2>6. CASE \E t \in Threads : ThreadStep(t)
    BY <2>1, <2>6 DEF ThreadStep, AddEpollEvent, DeleteEpollEvent, AddTask,
                      Stop, Wakeup
  <2> QED
    BY <2>1, <2>2, <2>4, <2>5, <2>6
    DEF Next, LoopStep, vars, StartLoop, TestStop, SwapTasks, BatchDone,
        EpollReturns, EpollTimeout, EpollInterrupted, DispatchDone
<1> QED
  BY <1>1, <1>2, PTL DEF Spec

-----------------------------------------------------------------------------
(* Requests.  What is queued of a thread's requests is exactly those after *)
(* the last one that ran, in the order of their numbers.                   *)
RequestBy(q, i, t) == q[i].kind \in {"add", "del"} /\ q[i].by = t

QueueHolds(q, first, last, t) ==
  /\ \A i \in 1..Len(q) : RequestBy(q, i, t) => q[i].n > first /\ q[i].n <= last
  /\ \A i, j \in 1..Len(q) :
       i < j /\ RequestBy(q, i, t) /\ RequestBy(q, j, t) => q[i].n < q[j].n
  /\ \A k \in Nat : k > first /\ k <= last =>
       \E i \in 1..Len(q) : RequestBy(q, i, t) /\ q[i].n = k

RequestInv ==
  /\ loop # "run" => batch = <<>>
  /\ \A t \in Threads : ran[t] <= posted[t]
  /\ \A t \in Threads : QueueHolds(queued, ran[t], posted[t], t)

(* A task that is not a request of t leaves what is held of t as it was.   *)
LEMMA AppendOther ==
  ASSUME NEW q \in Seq(Tasks), NEW x \in Tasks, NEW t,
         NEW first \in Nat, NEW last \in Nat,
         ~(x.kind \in {"add", "del"} /\ x.by = t),
         QueueHolds(q, first, last, t)
  PROVE  QueueHolds(Append(q, x), first, last, t)
<1> DEFINE r == Append(q, x)
<1>1. /\ Len(r) = Len(q) + 1 /\ r[Len(q) + 1] = x
      /\ \A i \in 1..Len(q) : r[i] = q[i]
  OBVIOUS
<1>2. \A i \in 1..Len(r) : RequestBy(r, i, t) =>
        i \in 1..Len(q) /\ r[i] = q[i] /\ RequestBy(q, i, t)
  BY <1>1 DEF RequestBy
<1>3. \A i \in 1..Len(q) : RequestBy(q, i, t) =>
        i \in 1..Len(r) /\ r[i] = q[i] /\ RequestBy(r, i, t)
  BY <1>1 DEF RequestBy
<1> QED
  BY <1>2, <1>3 DEF QueueHolds

(* The next request of t, appended, is held with the others.               *)
LEMMA AppendNext ==
  ASSUME NEW q \in Seq(Tasks), NEW x \in Tasks, NEW t,
         NEW first \in Nat, NEW last \in Nat, first <= last,
         x.kind \in {"add", "del"}, x.by = t, x.n = last + 1,
         QueueHolds(q, first, last, t)
  PROVE  QueueHolds(Append(q, x), first, last + 1, t)
<1> DEFINE r == Append(q, x)
<1> HIDE DEF r
<1>1. /\ Len(q) \in Nat /\ Len(r) = Len(q) + 1 /\ r[Len(q) + 1] = x
      /\ \A i \in 1..Len(q) : r[i] = q[i]
  BY DEF r
<1>2. \A i \in 1..Len(r) : i \in 1..Len(q) \/ i = Len(q) + 1
  BY <1>1
<1>3. \A i \in 1..Len(q) : RequestBy(r, i, t) <=> RequestBy(q, i, t)
  BY <1>1 DEF RequestBy
<1>4. \A i \in 1..Len(q) : RequestBy(q, i, t) => q[i].n \in Nat
  <2> SUFFICES ASSUME NEW i \in 1..Len(q), RequestBy(q, i, t) PROVE q[i].n \in Nat
    OBVIOUS
  <2>1. q[i] \in Tasks
    OBVIOUS
  <2> QED
    BY <2>1 DEF RequestBy, Tasks, Callbacks, Requests
<1>5. RequestBy(r, Len(q) + 1, t)
  BY <1>1 DEF RequestBy
<1>6. \A i \in 1..Len(r) : RequestBy(r, i, t) => r[i].n > first /\ r[i].n <= last + 1
  BY <1>1, <1>2, <1>3, <1>4 DEF QueueHolds
<1>7. \A i, j \in 1..Len(r) :
        i < j /\ RequestBy(r, i, t) /\ RequestBy(r, j, t) => r[i].n < r[j].n
  <2> SUFFICES ASSUME NEW i \in 1..Len(r), NEW j \in 1..Len(r), i < j,
                      RequestBy(r, i, t), RequestBy(r, j, t)
               PROVE  r[i].n < r[j].n
    OBVIOUS
  <2>1. i \in 1..Len(q) /\ q[i].n <= last /\ q[i].n \in Nat
    BY <1>1, <1>3, <1>4 DEF QueueHolds
  <2>2. CASE j = Len(q) + 1
    BY <1>1, <2>1, <2>2
  <2>3. CASE j \in 1..Len(q)
    BY <1>1, <1>3, <2>1, <2>3 DEF QueueHolds
  <2> QED
    BY <1>2, <2>2, <2>3
<1>8. ASSUME NEW k \in Nat, k > first, k <= last + 1
      PROVE  \E i \in 1..Len(r) : RequestBy(r, i, t) /\ r[i].n = k
  <2>1. CASE k = last + 1
    <3>1. Len(q) + 1 \in 1..Len(r)
      BY <1>1
    <3> QED
      BY <1>1, <1>5, <2>1, <3>1
  <2>2. CASE k <= last
    <3>1. PICK i \in 1..Len(q) : RequestBy(q, i, t) /\ q[i].n = k
      BY <1>8, <2>2 DEF QueueHolds
    <3>2. i \in 1..Len(r)
      BY <1>1
    <3> QED
      BY <1>1, <1>3, <3>1, <3>2
  <2> QED
    BY <1>8, <2>1, <2>2
<1> QED
  BY <1>6, <1>7, <1>8 DEF QueueHolds, r

(* The first request of t in a queue has the number after the last that    *)
(* ran: anything smaller would have to stand before it.                    *)
LEMMA HeadIsNext ==
  ASSUME NEW q \in Seq(Tasks), q # <<>>, NEW t,
         NEW first \in Nat, NEW last \in Nat,
         RequestBy(q, 1, t), QueueHolds(q, first, last, t)
  PROVE  q[1].n = first + 1
<1>1. 1 \in 1..Len(q) /\ q[1] \in Tasks
  OBVIOUS
<1>2. q[1].n \in Nat /\ q[1].n > first /\ q[1].n <= last
  BY <1>1 DEF QueueHolds, RequestBy, Tasks, Callbacks, Requests
<1>3. first + 1 \in Nat /\ first + 1 > first /\ first + 1 <= last
  BY <1>2
<1>4. PICK i \in 1..Len(q) : RequestBy(q, i, t) /\ q[i].n = first + 1
  BY <1>3 DEF QueueHolds
<1>5. i = 1 \/ q[1].n < q[i].n
  BY <1>1, <1>4 DEF QueueHolds
<1> QED
  BY <1>2, <1>4, <1>5

(* Taking the head of a queue: if it is the next request of t, the rest is *)
(* held after it; if it is not a request of t, nothing changes for t.      *)
LEMMA TailHolds ==
  ASSUME NEW q \in Seq(Tasks), q # <<>>, NEW t,
         NEW first \in Nat, NEW last \in Nat, QueueHolds(q, first, last, t)
  PROVE  QueueHolds(Tail(q), IF RequestBy(q, 1, t) THEN first + 1 ELSE first,
                    last, t)
<1> DEFINE r == Tail(q)
           low == IF RequestBy(q, 1, t) THEN first + 1 ELSE first
<1> HIDE DEF r, low
<1>1. /\ Len(q) \in Nat \ {0} /\ Len(r) = Len(q) - 1
      /\ \A i \in 1..Len(r) : i + 1 \in 1..Len(q) /\ r[i] = q[i + 1]
  BY DEF r
<1>2. \A i \in 1..Len(r) : RequestBy(r, i, t) <=> RequestBy(q, i + 1, t)
  BY <1>1 DEF RequestBy
<1>3. \A i \in 1..Len(q) : RequestBy(q, i, t) => q[i].n \in Nat
  <2> SUFFICES ASSUME NEW i \in 1..Len(q), RequestBy(q, i, t) PROVE q[i].n \in Nat
    OBVIOUS
  <2>1. q[i] \in Tasks
    OBVIOUS
  <2> QED
    BY <2>1 DEF RequestBy, Tasks, Callbacks, Requests
<1>4. RequestBy(q, 1, t) => q[1].n = first + 1
  BY HeadIsNext
<1>5. low \in Nat /\ low >= first
  BY DEF low
<1>6. ASSUME NEW i \in 1..Len(r), RequestBy(r, i, t)
      PROVE  r[i].n > low /\ r[i].n <= last
  <2>1. RequestBy(q, i + 1, t) /\ i + 1 \in 1..Len(q) /\ r[i] = q[i + 1]
    BY <1>1, <1>2, <1>6
  <2>2. q[i + 1].n > first /\ q[i + 1].n <= last
    BY <2>1 DEF QueueHolds
  <2>3. CASE RequestBy(q, 1, t)
    <3>1. q[1].n < q[i + 1].n
      BY <1>1, <2>1, <2>3 DEF QueueHolds
    <3> QED
      BY <1>4, <2>1, <2>2, <2>3, <3>1 DEF low
  <2>4. CASE ~RequestBy(q, 1, t)
    BY <2>1, <2>2, <2>4 DEF low
  <2> QED
    BY <2>3, <2>4
<1>7. \A i, j \in 1..Len(r) :
        i < j /\ RequestBy(r, i, t) /\ RequestBy(r, j, t) => r[i].n < r[j].n
  <2> SUFFICES ASSUME NEW i \in 1..Len(r), NEW j \in 1..Len(r), i < j,
                      RequestBy(r, i, t), RequestBy(r, j, t)
               PROVE  r[i].n < r[j].n
    OBVIOUS
  <2>1. i + 1 \in 1..Len(q) /\ j + 1 \in 1..Len(q) /\ i + 1 < j + 1
    BY <1>1
  <2>2. RequestBy(q, i + 1, t) /\ RequestBy(q, j + 1, t)
    BY <1>2
  <2>3. q[i + 1].n < q[j + 1].n
    BY <2>1, <2>2 DEF QueueHolds
  <2> QED
    BY <1>1, <2>3
<1>8. ASSUME NEW k \in Nat, k > low, k <= last
      PROVE  \E i \in 1..Len(r) : RequestBy(r, i, t) /\ r[i].n = k
  <2>1. PICK i \in 1..Len(q) : RequestBy(q, i, t) /\ q[i].n = k
    BY <1>5, <1>8 DEF QueueHolds
  <2>2. i # 1
    BY <1>4, <1>8, <2>1 DEF low
  <2>3. i - 1 \in 1..Len(r) /\ (i - 1) + 1 = i
    BY <1>1, <2>2
  <2>4. r[i - 1] = q[i]
    BY <1>1, <2>3
  <2>5. RequestBy(r, i - 1, t)
    BY <2>1, <2>4 DEF RequestBy
  <2> QED
    BY <2>1, <2>3, <2>4, <2>5
<1> QED
  BY <1>6, <1>7, <1>8 DEF QueueHolds, r, low

(* Every step either leaves the queued tasks alone, appends one, or takes  *)
(* the head: SwapTasks only moves the boundary between batch and pending.  *)
LEMMA QueuedAppended ==
  ASSUME TypeOK, NEW x \in Tasks, pending' = Append(pending, x), batch' = batch
  PROVE  queued' = Append(queued, x)
<1>1. batch \in Seq(Tasks) /\ pending \in Seq(Tasks)
  BY DEF TypeOK
<1>2. batch \o Append(pending, x) = Append(batch \o pending, x)
  BY <1>1
<1> QED
  BY <1>2 DEF queued

LEMMA QueuedTaken ==
  ASSUME TypeOK, batch # <<>>, batch' = Tail(batch), pending' = pending
  PROVE  /\ queued # <<>> /\ queued[1] = Head(batch)
         /\ queued' = Tail(queued)
<1>1. batch \in Seq(Tasks) /\ pending \in Seq(Tasks)
  BY DEF TypeOK
<1>2. /\ batch \o pending # <<>> /\ (batch \o pending)[1] = Head(batch)
      /\ Tail(batch) \o pending = Tail(batch \o pending)
  BY <1>1
<1> QED
  BY <1>2 DEF queued

LEMMA QueuedIsSeq == TypeOK => queued \in Seq(Tasks)
  BY DEF TypeOK, queued

(* When the loop runs a request of t it is the one after t's last, and t's *)
(* count advances by one; a callback changes no count.                     *)
LEMMA RunTaskAdvances ==
  ASSUME TypeOK, RequestInv, RunTask
  PROVE  \/ /\ UNCHANGED ran
            /\ \A t \in Threads : ~RequestBy(queued, 1, t)
         \/ \E t \in Threads :
              /\ ran[t] < posted[t]
              /\ ran' = [ran EXCEPT ![t] = @ + 1]
              /\ \A s \in Threads : RequestBy(queued, 1, s) <=> s = t
<1>1. queued \in Seq(Tasks) /\ queued # <<>> /\ queued[1] = Head(batch)
  BY QueuedIsSeq, QueuedTaken DEF RunTask
<1>2. Head(batch) \in Tasks
  BY <1>1
<1>3. CASE RunRequest(Head(batch))
  <2>1. PICK t \in Threads : Head(batch).by = t
    BY <1>2, <1>3 DEF RunRequest, Tasks, Callbacks, Requests
  <2>2. RequestBy(queued, 1, t)
    BY <1>1, <1>3, <2>1 DEF RunRequest, RequestBy
  <2>3. ran[t] \in Nat /\ posted[t] \in Nat /\ QueueHolds(queued, ran[t], posted[t], t)
    BY DEF TypeOK, RequestInv
  <2>4. queued[1].n = ran[t] + 1
    BY <1>1, <2>2, <2>3, HeadIsNext
  <2>5. 1 \in 1..Len(queued)
    BY <1>1
  <2>6. ran[t] < posted[t]
    BY <2>2, <2>3, <2>4, <2>5 DEF QueueHolds
  <2>7. ran' = [ran EXCEPT ![t] = @ + 1]
    BY <1>1, <1>3, <2>1, <2>4 DEF RunRequest
  <2> QED
    BY <1>1, <1>3, <2>1, <2>2, <2>6, <2>7 DEF RunRequest, RequestBy
<1>4. CASE RunDrain(Head(batch)) \/ RunHandler(Head(batch))
  BY <1>1, <1>4 DEF RunDrain, RunHandler, RequestBy
<1> QED
  BY <1>3, <1>4 DEF RunTask

(* RequestInv holds in every reachable state.                              *)
LEMMA RequestInvHolds == Spec => []RequestInv
<1>1. Init => RequestInv
  <2> SUFFICES ASSUME Init PROVE RequestInv
    OBVIOUS
  <2>1. queued = <<>> /\ Len(queued) = 0
    BY DEF Init, queued
  <2> QED
    BY <2>1 DEF Init, RequestInv, QueueHolds
<1>2. TypeOK /\ RequestInv /\ [Next]_vars => RequestInv'
  <2> SUFFICES ASSUME TypeOK, RequestInv, [Next]_vars PROVE RequestInv'
    OBVIOUS
  <2> USE DEF loopVars
  <2>1. ASSUME UNCHANGED <<batch, pending, posted, ran>>,
               batch = <<>> \/ loop' = loop
        PROVE  RequestInv'
    <3>1. queued' = queued
      BY <2>1 DEF queued
    <3> QED
      BY <2>1, <3>1 DEF RequestInv
  <2>2. ASSUME NEW t \in Threads, NEW f \in Fds, NEW kind \in {"add", "del"},
               AddTask(t, kind, f)
        PROVE RequestInv'
    <3> DEFINE x == [kind |-> kind, fd |-> f, by |-> t, n |-> posted[t] + 1]
    <3>1. x \in Tasks /\ pending' = Append(pending, x) /\ batch' = batch
      BY <2>2 DEF AddTask, Push, TypeOK, Tasks, Requests
    <3>2. queued' = Append(queued, x) /\ queued \in Seq(Tasks)
      BY <3>1, QueuedAppended, QueuedIsSeq
    <3>3. posted \in [Threads -> Nat] /\ ran \in [Threads -> Nat]
      BY DEF TypeOK
    <3>4. posted' = [posted EXCEPT ![t] = @ + 1] /\ ran' = ran
      BY <2>2 DEF AddTask
    <3>5. ASSUME NEW s \in Threads PROVE QueueHolds(queued', ran'[s], posted'[s], s)
      <4>1. /\ QueueHolds(queued, ran[s], posted[s], s) /\ ran[s] <= posted[s]
            /\ ran[s] \in Nat /\ posted[s] \in Nat
        BY <3>3 DEF RequestInv
      <4>2. x.kind \in {"add", "del"} /\ x.by = t /\ x.n = posted[t] + 1
        OBVIOUS
      <4> HIDE DEF x
      <4>3. CASE s = t
        <5>1. QueueHolds(Append(queued, x), ran[s], posted[s] + 1, s)
          BY <3>1, <3>2, <4>1, <4>2, <4>3, AppendNext
        <5> QED
          BY <3>2, <3>3, <3>4, <4>3, <5>1
      <4>4. CASE s # t
        <5>1. QueueHolds(Append(queued, x), ran[s], posted[s], s)
          BY <3>1, <3>2, <4>1, <4>2, <4>4, AppendOther
        <5> QED
          BY <3>2, <3>3, <3>4, <4>4, <5>1
      <4> QED
        BY <4>3, <4>4
    <3>6. \A s \in Threads : ran'[s] <= posted'[s]
      BY <3>3, <3>4 DEF RequestInv
    <3> QED
      BY <2>2, <3>5, <3>6 DEF AddTask, RequestInv, loopVars
  <2>3. CASE SwapTasks
    <3>1. queued' = queued
      BY <2>3 DEF SwapTasks, RequestInv, TypeOK, queued
    <3> QED
      BY <2>3, <3>1 DEF SwapTasks, RequestInv
  <2>4. CASE RunTask
    <3>1. queued \in Seq(Tasks) /\ queued # <<>> /\ queued' = Tail(queued)
      BY <2>4, QueuedTaken, QueuedIsSeq DEF RunTask
    <3>2. posted \in [Threads -> Nat] /\ ran \in [Threads -> Nat] /\ posted' = posted
      BY <2>4 DEF RunTask, TypeOK
    <3>3. ASSUME NEW s \in Threads
          PROVE  /\ QueueHolds(queued', ran'[s], posted'[s], s)
                 /\ ran'[s] <= posted'[s]
      <4>1. /\ QueueHolds(queued, ran[s], posted[s], s) /\ ran[s] <= posted[s]
            /\ ran[s] \in Nat /\ posted[s] \in Nat
        BY <3>2 DEF RequestInv
      <4>2. QueueHolds(queued', IF RequestBy(queued, 1, s) THEN ran[s] + 1 ELSE ran[s],
                       posted[s], s)
        BY <3>1, <4>1, TailHolds
      <4>3. /\ ran'[s] = IF RequestBy(queued, 1, s) THEN ran[s] + 1 ELSE ran[s]
            /\ ran'[s] <= posted[s]
        <5>1. CASE UNCHANGED ran /\ ~RequestBy(queued, 1, s)
          BY <4>1, <5>1
        <5>2. CASE \E t \in Threads :
                     /\ ran[t] < posted[t]
                     /\ ran' = [ran EXCEPT ![t] = @ + 1]
                     /\ \A u \in Threads : RequestBy(queued, 1, u) <=> u = t
          BY <3>2, <4>1, <5>2
        <5> QED
          BY <2>4, <5>1, <5>2, RunTaskAdvances
      <4> QED
        BY <3>2, <4>2, <4>3
    <3> QED
      BY <2>4, <3>3 DEF RunTask, RequestInv
  <2>5. ASSUME NEW c \in events, Dispatch(c) PROVE RequestInv'
    <3>1. CASE pending' = pending
      BY <2>1, <2>5, <3>1 DEF Dispatch
    <3>2. CASE pending' = Append(pending, c)
      <4>1. c \in Tasks /\ c.kind = "callback"
        BY DEF TypeOK, Tasks, Callbacks
      <4>2. queued' = Append(queued, c) /\ queued \in Seq(Tasks)
        BY <2>5, <3>2, <4>1, QueuedAppended, QueuedIsSeq DEF Dispatch
      <4>3. \A s \in Threads : ran[s] \in Nat /\ posted[s] \in Nat
        BY DEF TypeOK
      <4>4. \A s \in Threads : QueueHolds(queued', ran[s], posted[s], s)
        BY <4>1, <4>2, <4>3, AppendOther DEF RequestInv
      <4> QED
        BY <2>5, <4>4 DEF Dispatch, RequestInv
    <3> QED
      BY <2>5, <3>1, <3>2 DEF Dispatch, Push
  <2>6. CASE UNCHANGED vars
    BY <2>1, <2>6 DEF vars
  <2>7. CASE \/ StartLoop \/ TestStop \/ BatchDone \/ EpollReturns
             \/ EpollTimeout \/ EpollInterrupted \/ DispatchDone
    BY <2>1, <2>7 DEF StartLoop, TestStop, BatchDone, EpollReturns, RequestInv,
                      EpollTimeout, EpollInterrupted, DispatchDone
  <2>8. ASSUME NEW t \in Threads, Stop(t) \/ Wakeup(t) PROVE RequestInv'
    BY <2>1, <2>8 DEF Stop, Wakeup, loopVars
  <2>9. ASSUME NEW f \in Fds, OpenFd(f) \/ CloseFd(f) PROVE RequestInv'
    BY <2>1, <2>9 DEF OpenFd, CloseFd, loopVars
  <2> QED
    BY <2>2, <2>3, <2>4, <2>5, <2>6, <2>7, <2>8, <2>9
    DEF Next, ThreadStep, LoopStep, AddEpollEvent, DeleteEpollEvent
<1> QED
  BY <1>1, <1>2, TypeCorrect, PTL DEF Spec

(* The loop implements TaskExecutor: each thread's requests run exactly    *)
(* once and in the order it posted them.                                   *)
THEOREM ImplementsExecutor == Spec => RequestsRunOnceInOrder
<1>1. Init => Executor!Init
  BY DEF Init, Executor!Init
<1>2. TypeOK /\ RequestInv /\ [Next]_vars => [Executor!Next]_(Executor!vars)
  <2> SUFFICES ASSUME TypeOK, RequestInv, [Next]_vars
               PROVE  [Executor!Next]_(Executor!vars)
    OBVIOUS
  <2> USE DEF Executor!Next, Executor!vars, Executor!Post, Executor!Execute
  <2>1. CASE UNCHANGED <<posted, ran>>
    BY <2>1
  <2>2. ASSUME NEW t \in Threads, NEW f \in Fds, NEW kind \in {"add", "del"},
               AddTask(t, kind, f)
        PROVE Executor!Next
    BY <2>2 DEF AddTask
  <2>3. CASE RunTask
    <3>1. posted' = posted
      BY <2>3 DEF RunTask
    <3> QED
      BY <2>1, <2>3, <3>1, RunTaskAdvances
  <2> QED
    BY <2>1, <2>2, <2>3
    DEF Next, ThreadStep, LoopStep, AddEpollEvent, DeleteEpollEvent, vars,
        Stop, Wakeup, OpenFd, CloseFd, StartLoop, TestStop, SwapTasks,
        BatchDone, EpollReturns, EpollTimeout, EpollInterrupted, Dispatch,
        DispatchDone
<1> QED
  BY <1>1, <1>2, TypeCorrect, RequestInvHolds, PTL
  DEF Spec, RequestsRunOnceInOrder, Executor!Spec
=============================================================================
