------------------------------- MODULE Timer -------------------------------
(***************************************************************************)
(* The Timer of one EventLoop (hl/net/timer.cc): the multimap of pending   *)
(* TimerEvents, the timerfd, onTimer() on the loop thread, and             *)
(* addTimerEvent(), setCancle() and deleteTimerEvent() from that thread    *)
(* and from others.                                                        *)
(*                                                                         *)
(* Time is counted from now: what is kept of an arrive time is how many    *)
(* ticks are left, none for one that has passed, so that the model needs   *)
(* no last moment.                                                         *)
(***************************************************************************)
EXTENDS Naturals, SequencesExt

CONSTANTS Events,     \* the TimerEvents of the program
          Interval,   \* Interval[e]: m_interval, in ticks
          Repeated,   \* the events with m_is_repeated
          Retry,      \* the 100 ms of resetArriveTime, in ticks
          LoopThread, \* the thread that runs onTimer
          Threads     \* the other threads that add events

ASSUME IntervalAssumption == Interval \in [Events -> Nat \ {0}]
ASSUME RepeatedAssumption == Repeated \subseteq Events
ASSUME RetryAssumption == Retry \in Nat \ {0}
ASSUME LoopThreadAssumption == LoopThread \notin Threads

Procs == Threads \cup {LoopThread}

VARIABLES
  pending,    \* m_pending_events, in the order of the multimap
  timer,      \* ticks until the timerfd expires, 0 when it is disarmed
  readable,   \* the timerfd has expired and has not been read since
  added,      \* events passed to addTimerEvent by the program
  cancelled,  \* events with m_is_cancled
  loop,       \* where onTimer() is
  again,      \* the events of tmps still to be looked at for a repetition
  tasks,      \* the callbacks onTimer still has to run
  reset,      \* reset[p]: where p is in resetArriveTime()
  interval,   \* interval[p]: what p will pass to timerfd_settime
  done        \* one-shot events whose callback has run

queueVars == <<pending, added, cancelled>>
onTimerVars == <<loop, again, tasks, done>>
fdVars == <<timer, readable>>
resetVars == <<reset, interval>>
vars == <<pending, timer, readable, added, cancelled, loop, again, tasks,
          reset, interval, done>>

Entries == [left : Nat, ev : Events]

Init ==
  /\ pending = <<>>
  /\ timer = 0 /\ readable = FALSE
  /\ added = {} /\ cancelled = {}
  /\ loop = "idle" /\ again = <<>> /\ tasks = <<>>
  /\ reset = [p \in Procs |-> "none"]
  /\ interval = [p \in Procs |-> 0]
  /\ done = {}

-----------------------------------------------------------------------------
InPending == {pending[i].ev : i \in 1..Len(pending)}

(* emplace into a multimap: after the entries with the same key.           *)
Insert(x) ==
  \E i \in 1..Len(pending) + 1 :
    /\ \A j \in 1..Len(pending) : j < i <=> pending[j].left <= x.left
    /\ pending' = InsertAt(pending, i, x)

(* addTimerEvent: the timerfd is to be set again if the event comes first. *)
(* Mutant: the empty map is forgotten.                                     *)
ComesFirstNonEmpty(e) ==
  pending # <<>> /\ Head(pending).left > Interval[e]

ComesFirst(e) ==
  \/ pending = <<>>
  \/ Head(pending).left > Interval[e]

(* m_pending_events.emplace under the lock, and after it resetArriveTime() *)
(* if need be.                                                             *)
AddTimerEvent(p, e) ==
  /\ Insert([left |-> Interval[e], ev |-> e])
  /\ reset' = [reset EXCEPT ![p] = IF ComesFirst(e) THEN "copy" ELSE "none"]

(* The program creates the event (its arrive time is now + m_interval) and *)
(* adds it.                                                                *)
Add(p, e) ==
  /\ reset[p] = "none"
  /\ p = LoopThread => loop \in {"idle", "queued", "tasks"}
  /\ e \notin added
  /\ AddTimerEvent(p, e)
  /\ added' = added \cup {e}
  /\ UNCHANGED <<cancelled, interval, fdVars, onTimerVars>>

(* setCancle(true), alone or as the first half of deleteTimerEvent.        *)
SetCancle(e) ==
  /\ e \in added
  /\ cancelled' = cancelled \cup {e}
  /\ UNCHANGED <<pending, added, fdVars, onTimerVars, resetVars>>

(* The second half of deleteTimerEvent, under the lock: the entry of the   *)
(* event goes, if there is one.                                            *)
RemoveEntry(e) ==
  /\ e \in cancelled
  /\ \/ \E i \in 1..Len(pending) :
          pending[i].ev = e /\ pending' = RemoveAt(pending, i)
     \/ e \notin InPending /\ UNCHANGED pending
  /\ UNCHANGED <<added, cancelled, fdVars, onTimerVars, resetVars>>

-----------------------------------------------------------------------------
(* resetArriveTime: the map is copied under the lock, and the timerfd set  *)
(* after it.  Mutant: an arrive time that has passed gives interval 0,     *)
(* which disarms the timerfd.                                              *)
IntervalToNoRetry(left) == left

IntervalTo(left) == IF left > 0 THEN left ELSE Retry

CopyPending(p) ==
  /\ reset[p] = "copy"
  /\ IF pending = <<>>
     THEN /\ reset' = [reset EXCEPT ![p] = "none"]
          /\ UNCHANGED interval
     ELSE /\ reset' = [reset EXCEPT ![p] = "settime"]
          /\ interval' = [interval EXCEPT ![p] = IntervalTo(Head(pending).left)]
  /\ UNCHANGED <<queueVars, fdVars, onTimerVars>>

(* timerfd_settime: forgets an earlier expiry that was not read.           *)
SetTime(p) ==
  /\ reset[p] = "settime"
  /\ reset' = [reset EXCEPT ![p] = "none"]
  /\ timer' = interval[p]
  /\ readable' = FALSE
  /\ UNCHANGED <<queueVars, interval, onTimerVars>>

-----------------------------------------------------------------------------
(* The loop thread sees the timerfd readable and queues its callback.      *)
QueueOnTimer ==
  /\ loop = "idle" /\ reset[LoopThread] = "none"
  /\ readable
  /\ loop' = "queued"
  /\ UNCHANGED <<fdVars, queueVars, again, tasks, done, resetVars>>

(* onTimer, the callback: it first reads the timerfd empty, which another  *)
(* thread may have set again meanwhile.                                    *)
OnTimer ==
  /\ loop = "queued" /\ reset[LoopThread] = "none"
  /\ readable' = FALSE
  /\ loop' = "collect"
  /\ UNCHANGED <<timer, queueVars, again, tasks, done, resetVars>>

(* The loop over the map under the lock takes the events that are due, up  *)
(* to a cancelled one, where it breaks.  Those that are not due come after *)
(* all that are; the loop passes over them.                                *)
Due(i) == pending[i].left = 0
BreaksAt(i) == Due(i) /\ pending[i].ev \in cancelled

Takes(n) ==
  /\ \A i \in 1..n : Due(i) /\ ~BreaksAt(i)
  /\ n < Len(pending) => ~Due(n + 1) \/ BreaksAt(n + 1)

(* erase(begin, it) drops all that was passed: everything, if the loop did *)
(* not break.  Mutant: nothing is erased.                                  *)
NothingErased(n) == pending

Remaining(n) ==
  IF n < Len(pending) /\ BreaksAt(n + 1)
  THEN SubSeq(pending, n + 1, Len(pending)) ELSE <<>>

(* Mutants: the entries of the map in the place of events; all the events  *)
(* that are passed.                                                        *)
ExpiredEntries(n) == SubSeq(pending, 1, n)
AllPassed(n) == [i \in 1..Len(pending) |-> pending[i].ev]

Expired(n) == [i \in 1..n |-> pending[i].ev]

Collect ==
  /\ loop = "collect"
  /\ loop' = "again"
  /\ \E n \in 0..Len(pending) :
       /\ Takes(n)
       /\ tasks' = Expired(n) /\ again' = Expired(n)
       /\ pending' = Remaining(n)
  /\ UNCHANGED <<added, cancelled, done, fdVars, resetVars>>

(* A repeated event gets a new arrive time and is added again.             *)
AddAgain ==
  /\ loop = "again" /\ reset[LoopThread] = "none"
  /\ again # <<>>
  /\ IF Head(again) \in Repeated
     THEN AddTimerEvent(LoopThread, Head(again))
     ELSE UNCHANGED <<pending, reset>>
  /\ again' = Tail(again)
  /\ UNCHANGED <<added, cancelled, interval, fdVars, loop, tasks, done>>

(* The resetArriveTime() after them.                                       *)
ResetAtEnd ==
  /\ loop = "again" /\ reset[LoopThread] = "none"
  /\ again = <<>>
  /\ loop' = "tasks"
  /\ reset' = [reset EXCEPT ![LoopThread] = "copy"]
  /\ UNCHANGED <<queueVars, fdVars, again, tasks, done, interval>>

RunTask ==
  /\ loop = "tasks" /\ reset[LoopThread] = "none"
  /\ tasks # <<>>
  /\ tasks' = Tail(tasks)
  /\ done' = done \cup ({Head(tasks)} \ Repeated)
  /\ UNCHANGED <<queueVars, fdVars, loop, again, resetVars>>

Return ==
  /\ loop = "tasks" /\ reset[LoopThread] = "none"
  /\ tasks = <<>>
  /\ loop' = "idle"
  /\ UNCHANGED <<queueVars, fdVars, again, tasks, done, resetVars>>

-----------------------------------------------------------------------------
(* A tick of the clock, with the timerfd's expiry.                         *)
Less(n) == IF n > 0 THEN n - 1 ELSE 0

Tick ==
  /\ pending' = [i \in 1..Len(pending) |->
                   [pending[i] EXCEPT !.left = Less(pending[i].left)]]
  /\ timer' = Less(timer)
  /\ readable' = (readable \/ timer = 1)
  /\ UNCHANGED <<added, cancelled, onTimerVars, resetVars>>

Reset(p) == CopyPending(p) \/ SetTime(p)

OnTimerStep ==
  QueueOnTimer \/ OnTimer \/ Collect \/ AddAgain \/ ResetAtEnd \/ RunTask
    \/ Return

Next ==
  \/ \E p \in Procs, e \in Events : Add(p, e)
  \/ \E e \in Events : SetCancle(e) \/ RemoveEntry(e)
  \/ \E p \in Procs : Reset(p)
  \/ OnTimerStep
  \/ Tick

Spec == Init /\ [][Next]_vars

(* Threads keep running, epoll reports the readable timerfd, and the clock *)
(* ticks.                                                                  *)
FairSpec ==
  /\ Spec
  /\ \A p \in Procs : WF_vars(Reset(p))
  /\ WF_vars(OnTimerStep)
  /\ WF_vars(Tick)

-----------------------------------------------------------------------------
(* Properties.                                                             *)

(* The type invariant of the pending map, the timerfd and onTimer().       *)
TypeOK ==
  /\ pending \in Seq(Entries)
  /\ timer \in Nat /\ readable \in BOOLEAN
  /\ added \in SUBSET Events /\ cancelled \in SUBSET Events
  /\ loop \in {"idle", "queued", "collect", "again", "tasks"}
  /\ again \in Seq(Events) /\ tasks \in Seq(Events)
  /\ reset \in [Procs -> {"none", "copy", "settime"}]
  /\ interval \in [Procs -> Nat]
  /\ done \in SUBSET Events

(* The decision to set the timerfd is taken under the lock and carried out *)
(* after it, from a copy that may be out of date: whatever the threads'    *)
(* order, while events are pending and nobody is about to set it, the      *)
(* timerfd is armed or has expired unread, or no event would ever run.     *)
PendingIsArmed ==
  pending # <<>> /\ loop = "idle" /\ (\A p \in Procs : reset[p] = "none")
    => timer > 0 \/ readable

(* An event has one place: the same event is not twice in the map, and a   *)
(* one-shot event whose callback is taken or has run is not in the map any *)
(* more, so it cannot run twice.                                           *)
InTasks == {tasks[i] : i \in 1..Len(tasks)}

OnePlace ==
  /\ \A i, j \in 1..Len(pending) : pending[i].ev = pending[j].ev => i = j
  /\ InPending \cap ((InTasks \ Repeated) \cup done) = {}
  /\ InTasks \cap done = {}

(* A callback is taken only when its event's time has come.                *)
TakenWhenDue ==
  [][Collect => \A i \in 1..Len(pending) :
       pending[i].left > 0 => pending[i].ev \notin {tasks'[j] : j \in 1..Len(tasks')}]_vars

(* The first event does not stay first for ever, unless it is cancelled    *)
(* (a cancelled event that is due stays first, and nothing behind it runs). *)
FirstIs(e) == pending # <<>> /\ Head(pending).ev = e

FirstLeaves ==
  \A e \in Events \ Repeated : FirstIs(e) ~> (~FirstIs(e) \/ e \in cancelled)

(* eventloop.cc says a timer task is executed when its arrive time has     *)
(* come: an event that was added and not cancelled is pending, taken, or   *)
(* has run.                                                                *)
EventsKept ==
  added \ cancelled \subseteq
    InPending \cup InTasks \cup done \cup {again[i] : i \in 1..Len(again)}
=============================================================================
