----------------------------- MODULE TimerProofs -----------------------------
(***************************************************************************)
(* Theorems about Timer, for any events, intervals and threads.            *)
(* PendingIsArmed needs to be known of every moment, not only of those     *)
(* when nobody is about to set the timerfd (Armed), and OnePlace where the *)
(* events are that onTimer adds again (Places).                            *)
(***************************************************************************)
EXTENDS Timer, SequenceLemmas, TLAPS

USE DEF Procs

InAgain == {again[i] : i \in 1..Len(again)}

Distinct(q) == \A i, j \in 1..Len(q) : q[i] = q[j] => i = j

PendingOnce == \A i, j \in 1..Len(pending) : pending[i].ev = pending[j].ev => i = j

(* Only events that were added are anywhere; those to be added again are   *)
(* not pending, and have not run for good.                                 *)
Places ==
  /\ InPending \cup InTasks \cup InAgain \cup done \subseteq added
  /\ InPending \cap ((InTasks \ Repeated) \cup InAgain \cup done) = {}
  /\ (InTasks \cup InAgain \cup Repeated) \cap done = {}
  /\ Distinct(tasks) /\ Distinct(again)
  /\ loop # "again" => again = <<>>

(* While events are pending the timerfd is armed, or has expired and       *)
(* onTimer will set it, or a thread is about to set it, and not to zero.   *)
Armed ==
  /\ pending # <<>> => \/ timer > 0 \/ readable
                       \/ loop \in {"collect", "again"}
                       \/ \E p \in Procs : reset[p] # "none"
  /\ \A p \in Procs : reset[p] = "settime" => interval[p] > 0

IInv == TypeOK /\ PendingOnce /\ Places /\ Armed

-----------------------------------------------------------------------------
(* What Insert does to the pending events.                                 *)
LEMMA InsertKeeps ==
  ASSUME pending \in Seq(Entries), PendingOnce,
         NEW x \in Entries, x.ev \notin InPending, Insert(x)
  PROVE  /\ pending' \in Seq(Entries) /\ pending' # <<>>
         /\ PendingOnce'
         /\ InPending' \subseteq InPending \cup {x.ev}
<1>1. PICK i \in 1..Len(pending) + 1 : pending' = InsertAt(pending, i, x)
  BY DEF Insert
<1>2. Inserted(Entries, pending', pending, i, x)
  <2>1. Inserted(Entries, InsertAt(pending, i, x), pending, i, x)
    BY InsertAtElements, Zenon
  <2>2. QED
    BY <1>1, <2>1, Zenon
<1>3. pending' \in Seq(Entries) /\ Len(pending') = Len(pending) + 1
  BY <1>2, Zenon DEF Inserted
<1>4. PendingOnce'
  <2> SUFFICES ASSUME NEW j \in 1..Len(pending'), NEW k \in 1..Len(pending'), j # k
               PROVE  pending'[j].ev # pending'[k].ev
    BY DEF PendingOnce
  <2>1. j \in 1..Len(pending) + 1 /\ k \in 1..Len(pending) + 1
    BY <1>3
  <2>2. \/ pending'[j] = x /\ \E n \in 1..Len(pending) : pending'[k] = pending[n]
        \/ pending'[k] = x /\ \E m \in 1..Len(pending) : pending'[j] = pending[m]
        \/ \E m, n \in 1..Len(pending) :
             m # n /\ pending'[j] = pending[m] /\ pending'[k] = pending[n]
    BY <1>2, <2>1, InsertedPairs
  <2>3. \A n \in 1..Len(pending) : pending[n].ev # x.ev
    BY DEF InPending
  <2>4. QED
    BY <2>2, <2>3, Zenon DEF PendingOnce
<1>5. InPending' \subseteq InPending \cup {x.ev}
  <2> SUFFICES ASSUME NEW j \in 1..Len(pending')
               PROVE  pending'[j].ev \in InPending \cup {x.ev}
    BY DEF InPending
  <2>1. j \in 1..Len(pending) + 1
    BY <1>3
  <2>2. /\ j < i => j \in 1..Len(pending) /\ pending'[j] = pending[j]
        /\ j = i => pending'[j] = x
        /\ j > i => j - 1 \in 1..Len(pending) /\ pending'[j] = pending[j - 1]
    BY <1>2, <2>1, InsertedFrom
  <2>3. j < i \/ j = i \/ j > i
    OBVIOUS
  <2>4. QED
    BY <2>2, <2>3 DEF InPending
<1>6. QED
  BY <1>3, <1>4, <1>5

(* What the removal of an entry does to them.                              *)
LEMMA RemoveKeeps ==
  ASSUME pending \in Seq(Entries), PendingOnce, NEW e, RemoveEntry(e)
  PROVE  /\ pending' \in Seq(Entries)
         /\ pending' # <<>> => pending # <<>>
         /\ PendingOnce'
         /\ InPending' \subseteq InPending
<1>1. CASE UNCHANGED pending
  BY <1>1 DEF PendingOnce, InPending
<1>2. CASE \E i \in 1..Len(pending) : pending' = RemoveAt(pending, i)
  <2>1. PICK i \in 1..Len(pending) : pending' = RemoveAt(pending, i)
    BY <1>2
  <2>2. Removed(Entries, pending', pending, i)
    <3>1. Removed(Entries, RemoveAt(pending, i), pending, i)
      BY RemoveAtElements, Zenon
    <3>2. QED
      BY <2>1, <3>1, Zenon
  <2>3. /\ pending' \in Seq(Entries) /\ Len(pending') = Len(pending) - 1
        /\ \A j \in 1..Len(pending) - 1 :
             pending'[j] = IF j < i THEN pending[j] ELSE pending[j + 1]
    BY <2>2 DEF Removed
  <2>4. \A j \in 1..Len(pending') : \E m \in 1..Len(pending) :
          pending'[j] = pending[m] /\ m = IF j < i THEN j ELSE j + 1
    <3> SUFFICES ASSUME NEW j \in 1..Len(pending')
                 PROVE  \E m \in 1..Len(pending) :
                          pending'[j] = pending[m] /\ m = IF j < i THEN j ELSE j + 1
      OBVIOUS
    <3> DEFINE m == IF j < i THEN j ELSE j + 1
    <3>1. m \in 1..Len(pending) /\ pending'[j] = pending[m]
      BY <2>3
    <3>2. QED
      BY <3>1
  <2>5. PendingOnce'
    <3> SUFFICES ASSUME NEW j \in 1..Len(pending'), NEW k \in 1..Len(pending'),
                        pending'[j].ev = pending'[k].ev
                 PROVE  j = k
      BY DEF PendingOnce
    <3>1. PICK m \in 1..Len(pending) :
            pending'[j] = pending[m] /\ m = IF j < i THEN j ELSE j + 1
      BY <2>4
    <3>2. PICK n \in 1..Len(pending) :
            pending'[k] = pending[n] /\ n = IF k < i THEN k ELSE k + 1
      BY <2>4
    <3>3. m = n
      BY <3>1, <3>2 DEF PendingOnce
    <3>4. QED
      BY <3>1, <3>2, <3>3
  <2>6. InPending' \subseteq InPending
    BY <2>4 DEF InPending
  <2>7. QED
    BY <2>3, <2>5, <2>6
<1>3. QED
  BY <1>1, <1>2 DEF RemoveEntry

(* What onTimer takes and leaves of them.                                  *)
LEMMA CollectKeeps ==
  ASSUME pending \in Seq(Entries), PendingOnce, NEW n \in 0..Len(pending),
         tasks' = Expired(n), again' = Expired(n), pending' = Remaining(n)
  PROVE  /\ pending' \in Seq(Entries) /\ PendingOnce'
         /\ tasks' \in Seq(Events) /\ again' \in Seq(Events)
         /\ Distinct(tasks') /\ Distinct(again')
         /\ InPending' \cup InTasks' \subseteq InPending
         /\ InAgain' = InTasks'
         /\ InPending' \cap InTasks' = {}
<1>1. /\ tasks' = [i \in 1..n |-> pending[i].ev]
      /\ again' = tasks'
  BY DEF Expired
<1>2. \A i \in 1..n : i \in 1..Len(pending) /\ pending[i] \in Entries
  OBVIOUS
<1>3. \A i \in 1..n : pending[i].ev \in Events
  BY <1>2 DEF Entries
<1>4. tasks' \in Seq(Events) /\ Len(tasks') = n /\ \A i \in 1..n : tasks'[i] = pending[i].ev
  BY <1>1, <1>3
<1>5. Distinct(tasks')
  BY <1>2, <1>4 DEF Distinct, PendingOnce
<1>6. InTasks' \subseteq InPending
  BY <1>2, <1>4 DEF InTasks, InPending
<1>7. InAgain' = InTasks'
  BY <1>1 DEF InAgain, InTasks
<1>8. CASE pending' = <<>>
  BY <1>1, <1>4, <1>5, <1>6, <1>7, <1>8 DEF PendingOnce, InPending
<1>9. CASE pending' = SubSeq(pending, n + 1, Len(pending))
  <2>1. /\ pending' \in Seq(Entries) /\ Len(pending') = Len(pending) - n
        /\ \A j \in 1..Len(pending) - n : pending'[j] = pending[j + n]
    BY <1>9
  <2>2. \A j \in 1..Len(pending') : j + n \in 1..Len(pending) /\ pending'[j] = pending[j + n]
    BY <2>1
  <2>3. PendingOnce'
    BY <2>2 DEF PendingOnce
  <2>4. InPending' \subseteq InPending
    BY <2>2 DEF InPending
  <2>5. ASSUME NEW j \in 1..Len(pending'), NEW i \in 1..n
        PROVE  pending'[j].ev # tasks'[i]
    <3>1. pending'[j] = pending[j + n] /\ j + n \in 1..Len(pending) /\ i # j + n
      BY <2>2
    <3>2. QED
      BY <1>2, <1>4, <3>1 DEF PendingOnce
  <2>6. InPending' \cap InTasks' = {}
    BY <1>4, <2>5 DEF InPending, InTasks
  <2>7. QED
    BY <1>1, <1>4, <1>5, <1>6, <1>7, <2>1, <2>3, <2>4, <2>6
<1>10. QED
  BY <1>8, <1>9 DEF Remaining

(* A tick leaves the events as they are.                                   *)
LEMMA TickKeeps ==
  ASSUME pending \in Seq(Entries), PendingOnce, Tick
  PROVE  /\ pending' \in Seq(Entries) /\ (pending' # <<>> => pending # <<>>)
         /\ PendingOnce'
         /\ InPending' = InPending
<1>1. pending' = [i \in 1..Len(pending) |->
                    [pending[i] EXCEPT !.left = Less(pending[i].left)]]
  BY DEF Tick
<1>2. ASSUME NEW i \in 1..Len(pending)
      PROVE  /\ [pending[i] EXCEPT !.left = Less(pending[i].left)] \in Entries
             /\ [pending[i] EXCEPT !.left = Less(pending[i].left)].ev = pending[i].ev
  <2>1. pending[i] \in Entries
    OBVIOUS
  <2>2. Less(pending[i].left) \in Nat
    BY <2>1 DEF Entries, Less
  <2>3. QED
    BY <2>1, <2>2 DEF Entries
<1>3. /\ pending' \in Seq(Entries) /\ Len(pending') = Len(pending)
      /\ \A i \in 1..Len(pending) : pending'[i].ev = pending[i].ev
  <2> DEFINE f == [i \in 1..Len(pending) |->
                     [pending[i] EXCEPT !.left = Less(pending[i].left)]]
  <2>1. f \in [1..Len(pending) -> Entries]
    BY <1>2
  <2>2. \A i \in 1..Len(pending) : f[i].ev = pending[i].ev
    BY <1>2
  <2> HIDE DEF f
  <2>3. Len(pending) \in Nat
    OBVIOUS
  <2>4. f \in Seq(Entries) /\ Len(f) = Len(pending)
    BY <2>1, <2>3
  <2>5. pending' = f
    BY <1>1 DEF f
  <2>6. QED
    BY <2>2, <2>4, <2>5
<1>4. QED
  BY <1>3 DEF PendingOnce, InPending

(* What a step that moves no event leaves as it was.                       *)
LEMMA PlacesKept ==
  ASSUME PendingOnce, Places, UNCHANGED <<pending, tasks, again, added, done>>,
         loop' # "again" => again = <<>>
  PROVE  PendingOnce' /\ Places'
<1>1. InPending' = InPending /\ InTasks' = InTasks /\ InAgain' = InAgain
  BY DEF InPending, InTasks, InAgain
<1>2. PendingOnce'
  BY DEF PendingOnce
<1>3. QED
  BY <1>1, <1>2 DEF Places

-----------------------------------------------------------------------------
LEMMA InitIInv == Init => IInv
<1> SUFFICES ASSUME Init PROVE IInv
  OBVIOUS
<1>1. Len(pending) = 0 /\ Len(tasks) = 0 /\ Len(again) = 0
  BY DEF Init
<1>2. TypeOK
  <2>1. pending \in Seq(Entries) /\ again \in Seq(Events) /\ tasks \in Seq(Events)
    BY DEF Init
  <2>2. QED
    BY <2>1 DEF Init, TypeOK
<1>3. PendingOnce /\ Places
  BY <1>1 DEF Init, PendingOnce, Places, Distinct, InPending, InTasks, InAgain
<1>4. Armed
  BY DEF Init, Armed
<1>5. QED
  BY <1>2, <1>3, <1>4 DEF IInv

(* A thread that adds an event adds it to the pending ones, and sets the   *)
(* timerfd if it is the only one.                                          *)
LEMMA AddTimerEventKeeps ==
  ASSUME TypeOK, PendingOnce, Armed, NEW p \in Procs, NEW e \in Events,
         e \notin InPending, reset[p] = "none", AddTimerEvent(p, e)
  PROVE  /\ pending' \in Seq(Entries) /\ PendingOnce'
         /\ InPending' \subseteq InPending \cup {e}
         /\ reset' \in [Procs -> {"none", "copy", "settime"}]
         /\ UNCHANGED <<timer, readable, loop, interval>> => Armed'
<1> DEFINE x == [left |-> Interval[e], ev |-> e]
<1>1. x \in Entries /\ x.ev = e
  BY IntervalAssumption DEF Entries
<1>2. /\ pending' \in Seq(Entries) /\ PendingOnce'
      /\ InPending' \subseteq InPending \cup {e}
  <2>1. Insert(x)
    BY DEF AddTimerEvent
  <2> HIDE DEF x
  <2>2. /\ pending' \in Seq(Entries) /\ PendingOnce'
        /\ InPending' \subseteq InPending \cup {x.ev}
    BY <1>1, <2>1, InsertKeeps DEF TypeOK
  <2>3. QED
    BY <1>1, <2>2
<1>3. /\ reset' = [reset EXCEPT ![p] = IF ComesFirst(e) THEN "copy" ELSE "none"]
      /\ reset' \in [Procs -> {"none", "copy", "settime"}]
  BY DEF AddTimerEvent, TypeOK
<1>4. pending = <<>> => reset'[p] = "copy"
  BY <1>3 DEF ComesFirst, TypeOK
<1>5. \A q \in Procs : reset'[q] = "settime" => reset[q] = "settime"
  BY <1>3 DEF TypeOK
<1>6. \A q \in Procs : reset[q] # "none" => reset'[q] # "none"
  BY <1>3 DEF TypeOK
<1>7. ASSUME UNCHANGED <<timer, readable, loop, interval>> PROVE Armed'
  <2>1. CASE pending = <<>>
    BY <1>4, <1>5, <1>7, <2>1 DEF Armed
  <2>2. CASE pending # <<>>
    BY <1>5, <1>6, <1>7, <2>2 DEF Armed
  <2>3. QED
    BY <2>1, <2>2
<1>8. QED
  BY <1>2, <1>3, <1>7

LEMMA NextIInv == IInv /\ [Next]_vars => IInv'
<1> SUFFICES ASSUME IInv, [Next]_vars PROVE IInv'
  OBVIOUS
<1> USE DEF IInv, queueVars, onTimerVars, fdVars, resetVars
<1>1. ASSUME NEW p \in Procs, NEW e \in Events, Add(p, e) PROVE IInv'
  <2>1. e \notin InPending \cup InTasks \cup InAgain \cup done
    BY <1>1 DEF Add, Places
  <2>2. /\ pending' \in Seq(Entries) /\ PendingOnce'
        /\ InPending' \subseteq InPending \cup {e}
        /\ reset' \in [Procs -> {"none", "copy", "settime"}]
        /\ Armed'
    BY <1>1, <2>1, AddTimerEventKeeps DEF Add
  <2>3. TypeOK'
    BY <1>1, <2>2 DEF Add, TypeOK
  <2>4. InTasks' = InTasks /\ InAgain' = InAgain
    BY <1>1 DEF Add, InTasks, InAgain
  <2>5. /\ added' = added \cup {e} /\ done' = done
        /\ tasks' = tasks /\ again' = again
    BY <1>1 DEF Add
  <2>6. Places'
    <3>1. InPending' \cup InTasks' \cup InAgain' \cup done' \subseteq added'
      BY <2>2, <2>4, <2>5 DEF Places
    <3>2. InPending' \cap ((InTasks' \ Repeated) \cup InAgain' \cup done') = {}
      BY <2>1, <2>2, <2>4, <2>5 DEF Places
    <3>3. (InTasks' \cup InAgain' \cup Repeated) \cap done' = {}
      BY <2>4, <2>5 DEF Places
    <3>4. /\ Distinct(tasks') /\ Distinct(again')
          /\ loop' # "again" => again' = <<>>
      BY <1>1, <2>5 DEF Add, Places
    <3>5. QED
      BY <3>1, <3>2, <3>3, <3>4 DEF Places
  <2>7. QED
    BY <2>2, <2>3, <2>6
<1>2. ASSUME NEW e \in Events, SetCancle(e) PROVE IInv'
  <2>1. TypeOK'
    BY <1>2 DEF SetCancle, TypeOK
  <2>2. PendingOnce' /\ Places'
    BY <1>2, PlacesKept DEF SetCancle, Places
  <2>3. Armed'
    BY <1>2 DEF SetCancle, Armed
  <2>4. QED
    BY <2>1, <2>2, <2>3
<1>3. ASSUME NEW e \in Events, RemoveEntry(e) PROVE IInv'
  <2>1. /\ pending' \in Seq(Entries) /\ (pending' # <<>> => pending # <<>>)
        /\ PendingOnce'
        /\ InPending' \subseteq InPending
    BY <1>3, RemoveKeeps DEF TypeOK
  <2>2. TypeOK'
    BY <1>3, <2>1 DEF RemoveEntry, TypeOK
  <2>3. Armed'
    BY <1>3, <2>1 DEF RemoveEntry, Armed
  <2>4. Places'
    <3>1. InTasks' = InTasks /\ InAgain' = InAgain /\ done' = done /\ added' = added
      BY <1>3 DEF RemoveEntry, InTasks, InAgain
    <3>2. /\ Distinct(tasks') /\ Distinct(again')
          /\ loop' # "again" => again' = <<>>
      BY <1>3 DEF RemoveEntry, Places
    <3>3. QED
      BY <2>1, <3>1, <3>2 DEF Places
  <2>5. QED
    BY <2>1, <2>2, <2>3, <2>4
<1>4. ASSUME NEW p \in Procs, CopyPending(p) PROVE IInv'
  <2>1. TypeOK'
    <3>1. pending # <<>> => IntervalTo(Head(pending).left) \in Nat
      <4>1. pending # <<>> => Head(pending) \in Entries
        BY DEF TypeOK
      <4>2. QED
        BY <4>1, RetryAssumption DEF Entries, IntervalTo
    <3>2. QED
      BY <1>4, <3>1 DEF CopyPending, TypeOK
  <2>2. PendingOnce' /\ Places'
    BY <1>4, PlacesKept DEF CopyPending, Places
  <2>3. Armed'
    <3>1. CASE pending = <<>>
      BY <1>4, <3>1 DEF CopyPending, Armed, TypeOK
    <3>2. CASE pending # <<>>
      <4>1. Head(pending) \in Entries
        BY <3>2 DEF TypeOK
      <4>2. IntervalTo(Head(pending).left) > 0
        BY <4>1, RetryAssumption DEF Entries, IntervalTo
      <4>3. /\ reset' = [reset EXCEPT ![p] = "settime"]
            /\ interval' = [interval EXCEPT ![p] = IntervalTo(Head(pending).left)]
        BY <1>4, <3>2 DEF CopyPending
      <4>4. /\ reset'[p] = "settime" /\ interval'[p] > 0
            /\ \A q \in Procs \ {p} : reset'[q] = reset[q] /\ interval'[q] = interval[q]
        BY <4>2, <4>3 DEF TypeOK
      <4>5. QED
        BY <4>4 DEF Armed
    <3>3. QED
      BY <3>1, <3>2
  <2>4. QED
    BY <2>1, <2>2, <2>3
<1>5. ASSUME NEW p \in Procs, SetTime(p) PROVE IInv'
  <2>0. TypeOK'
    BY <1>5 DEF SetTime, TypeOK
  <2>1. PendingOnce' /\ Places'
    BY <1>5, PlacesKept DEF SetTime, Places
  <2>2. Armed'
    <3>1. timer' > 0
      BY <1>5 DEF SetTime, Armed
    <3>2. \A q \in Procs : reset'[q] = "settime" => reset[q] = "settime"
      BY <1>5 DEF SetTime, TypeOK
    <3>3. interval' = interval
      BY <1>5 DEF SetTime
    <3>4. QED
      BY <3>1, <3>2, <3>3 DEF Armed
  <2>3. QED
    BY <2>0, <2>1, <2>2
<1>6. CASE QueueOnTimer
  <2>1. TypeOK'
    BY <1>6 DEF QueueOnTimer, TypeOK
  <2>2. PendingOnce' /\ Places'
    BY <1>6, PlacesKept DEF QueueOnTimer, Places
  <2>3. Armed'
    BY <1>6 DEF QueueOnTimer, Armed
  <2>4. QED
    BY <2>1, <2>2, <2>3
<1>7. CASE OnTimer
  <2>1. TypeOK'
    BY <1>7 DEF OnTimer, TypeOK
  <2>2. PendingOnce' /\ Places'
    BY <1>7, PlacesKept DEF OnTimer, Places
  <2>3. Armed'
    BY <1>7 DEF OnTimer, Armed
  <2>4. QED
    BY <2>1, <2>2, <2>3
<1>8. CASE Collect
  <2>1. PICK n \in 0..Len(pending) :
          tasks' = Expired(n) /\ again' = Expired(n) /\ pending' = Remaining(n)
    BY <1>8 DEF Collect
  <2>2. /\ pending' \in Seq(Entries) /\ PendingOnce'
        /\ tasks' \in Seq(Events) /\ again' \in Seq(Events)
        /\ Distinct(tasks') /\ Distinct(again')
        /\ InPending' \cup InTasks' \subseteq InPending
        /\ InAgain' = InTasks'
        /\ InPending' \cap InTasks' = {}
    BY <2>1, CollectKeeps DEF TypeOK
  <2>3. TypeOK'
    BY <1>8, <2>2 DEF Collect, TypeOK
  <2>4. Places'
    <3>1. UNCHANGED <<added, done>> /\ loop' = "again"
      BY <1>8 DEF Collect
    <3>2. QED
      BY <2>2, <3>1 DEF Places
  <2>5. Armed'
    BY <1>8 DEF Collect, Armed
  <2>6. QED
    BY <2>2, <2>3, <2>4, <2>5
<1>9. CASE AddAgain
  <2> DEFINE e == Head(again)
  <2>1. /\ Tail(again) \in Seq(Events)
        /\ \A i, j \in 1..Len(Tail(again)) : Tail(again)[i] = Tail(again)[j] => i = j
        /\ \A i \in 1..Len(Tail(again)) :
             Tail(again)[i] # e /\ \E j \in 1..Len(again) : Tail(again)[i] = again[j]
        /\ e \in Events /\ \E j \in 1..Len(again) : e = again[j]
    BY <1>9, TailElements DEF AddAgain, TypeOK, Places, Distinct
  <2> HIDE DEF e
  <2>2. again' = Tail(again) /\ UNCHANGED <<added, cancelled, interval, timer, readable, loop, tasks, done>>
    BY <1>9 DEF AddAgain
  <2>3. /\ again' \in Seq(Events) /\ Distinct(again')
        /\ InAgain' \subseteq InAgain \ {e} /\ e \in InAgain
    <3>1. again' \in Seq(Events) /\ Distinct(again')
      BY <2>1, <2>2 DEF Distinct
    <3>2. InAgain' \subseteq InAgain \ {e}
      BY <2>1, <2>2 DEF InAgain
    <3>3. e \in InAgain
      BY <2>1 DEF InAgain
    <3>4. QED
      BY <3>1, <3>2, <3>3
  <2>4. /\ pending' \in Seq(Entries) /\ PendingOnce'
        /\ reset' \in [Procs -> {"none", "copy", "settime"}]
        /\ Armed'
        /\ InPending' \subseteq InPending \cup ({e} \cap Repeated)
    <3>1. CASE e \in Repeated
      <4>1. AddTimerEvent(LoopThread, e) /\ reset[LoopThread] = "none"
        BY <1>9, <3>1 DEF AddAgain, e
      <4>2. e \notin InPending
        BY <2>3 DEF Places
      <4>3. LoopThread \in Procs
        OBVIOUS
      <4>4. QED
        BY <2>1, <2>2, <3>1, <4>1, <4>2, <4>3, AddTimerEventKeeps
    <3>2. CASE e \notin Repeated
      <4>1. UNCHANGED <<pending, reset>>
        BY <1>9, <3>2 DEF AddAgain, e
      <4>2. QED
        BY <2>2, <4>1 DEF TypeOK, PendingOnce, Armed, InPending
    <3>3. QED
      BY <3>1, <3>2
  <2>5. TypeOK'
    BY <2>2, <2>3, <2>4 DEF TypeOK
  <2>6. Places'
    <3>1. InTasks' = InTasks
      BY <2>2 DEF InTasks
    <3>2. /\ Distinct(tasks') /\ Distinct(again')
          /\ loop' # "again" => again' = <<>>
      BY <1>9, <2>2, <2>3 DEF AddAgain, Places
    <3>3. InPending' \cup InTasks' \cup InAgain' \cup done' \subseteq added'
      BY <2>2, <2>3, <2>4, <3>1 DEF Places
    <3>4. InPending' \cap ((InTasks' \ Repeated) \cup InAgain' \cup done') = {}
      BY <2>2, <2>3, <2>4, <3>1 DEF Places
    <3>5. (InTasks' \cup InAgain' \cup Repeated) \cap done' = {}
      BY <2>2, <2>3, <3>1 DEF Places
    <3>6. QED
      BY <3>2, <3>3, <3>4, <3>5 DEF Places
  <2>7. QED
    BY <2>4, <2>5, <2>6
<1>10. CASE ResetAtEnd
  <2>1. TypeOK'
    BY <1>10 DEF ResetAtEnd, TypeOK
  <2>2. PendingOnce' /\ Places'
    BY <1>10, PlacesKept DEF ResetAtEnd
  <2>3. Armed'
    BY <1>10 DEF ResetAtEnd, Armed, TypeOK
  <2>4. QED
    BY <2>1, <2>2, <2>3
<1>11. CASE RunTask
  <2> DEFINE e == Head(tasks)
  <2>1. /\ Tail(tasks) \in Seq(Events)
        /\ \A i, j \in 1..Len(Tail(tasks)) : Tail(tasks)[i] = Tail(tasks)[j] => i = j
        /\ \A i \in 1..Len(Tail(tasks)) :
             Tail(tasks)[i] # e /\ \E j \in 1..Len(tasks) : Tail(tasks)[i] = tasks[j]
        /\ e \in Events /\ \E j \in 1..Len(tasks) : e = tasks[j]
    BY <1>11, TailElements DEF RunTask, TypeOK, Places, Distinct
  <2>2. /\ tasks' = Tail(tasks) /\ done' = done \cup ({e} \ Repeated)
        /\ UNCHANGED <<pending, added, cancelled, timer, readable, loop, again, reset, interval>>
    BY <1>11 DEF RunTask
  <2> HIDE DEF e
  <2>3. /\ tasks' \in Seq(Events) /\ Distinct(tasks')
        /\ InTasks' \subseteq InTasks \ {e} /\ e \in InTasks
    BY <2>1, <2>2 DEF Distinct, InTasks
  <2>4. InAgain = {}
    BY <1>11 DEF RunTask, Places, InAgain
  <2>5. TypeOK'
    BY <2>1, <2>2, <2>3 DEF TypeOK
  <2>6. Places'
    <3>1. InPending' = InPending /\ InAgain' = InAgain
      BY <2>2 DEF InPending, InAgain
    <3>2. /\ Distinct(tasks') /\ Distinct(again')
          /\ loop' # "again" => again' = <<>>
      BY <2>2, <2>3 DEF Places
    <3>3. InPending' \cup InTasks' \cup InAgain' \cup done' \subseteq added'
      BY <2>2, <2>3, <3>1 DEF Places
    <3>4. InPending' \cap ((InTasks' \ Repeated) \cup InAgain' \cup done') = {}
      BY <2>2, <2>3, <3>1 DEF Places
    <3>5. (InTasks' \cup InAgain' \cup Repeated) \cap done' = {}
      BY <2>2, <2>3, <2>4, <3>1 DEF Places
    <3>6. QED
      BY <3>2, <3>3, <3>4, <3>5 DEF Places
  <2>7. PendingOnce' /\ Armed'
    BY <2>2 DEF PendingOnce, Armed
  <2>8. QED
    BY <2>5, <2>6, <2>7
<1>12. CASE Return
  <2>1. TypeOK'
    BY <1>12 DEF Return, TypeOK
  <2>2. PendingOnce' /\ Places'
    BY <1>12, PlacesKept DEF Return, Places
  <2>3. Armed'
    BY <1>12 DEF Return, Armed
  <2>4. QED
    BY <2>1, <2>2, <2>3
<1>13. CASE Tick
  <2>1. /\ pending' \in Seq(Entries) /\ (pending' # <<>> => pending # <<>>)
        /\ PendingOnce' /\ InPending' = InPending
    BY <1>13, TickKeeps DEF TypeOK
  <2>2. TypeOK'
    <3>1. timer' \in Nat /\ readable' \in BOOLEAN
      BY <1>13 DEF Tick, Less, TypeOK
    <3>2. QED
      BY <1>13, <2>1, <3>1 DEF Tick, TypeOK
  <2>3. Places'
    <3>1. UNCHANGED <<tasks, again, added, done, loop>>
      BY <1>13 DEF Tick
    <3>2. InTasks' = InTasks /\ InAgain' = InAgain
      BY <3>1 DEF InTasks, InAgain
    <3>3. QED
      BY <2>1, <3>1, <3>2 DEF Places
  <2>4. Armed'
    <3>1. timer > 0 \/ readable => timer' > 0 \/ readable'
      <4>1. timer \in Nat /\ timer' = Less(timer)
        BY <1>13 DEF Tick, TypeOK
      <4>2. timer > 0 => timer' > 0 \/ timer = 1
        BY <4>1 DEF Less
      <4>3. readable' = (readable \/ timer = 1)
        BY <1>13 DEF Tick
      <4>4. readable \/ timer = 1 => readable'
        BY <4>3, Zenon
      <4>5. QED
        BY <4>2, <4>4, Zenon
    <3>2. UNCHANGED <<loop, reset, interval>>
      BY <1>13 DEF Tick
    <3>3. QED
      BY <2>1, <3>1, <3>2 DEF Armed
  <2>5. QED
    BY <2>1, <2>2, <2>3, <2>4
<1>14. CASE UNCHANGED vars
  <2>1. TypeOK'
    BY <1>14 DEF vars, TypeOK
  <2>2. PendingOnce' /\ Places'
    BY <1>14, PlacesKept DEF vars, Places
  <2>3. Armed'
    BY <1>14 DEF vars, Armed
  <2>4. QED
    BY <2>1, <2>2, <2>3
<1>15. QED
  BY <1>1, <1>2, <1>3, <1>4, <1>5, <1>6, <1>7, <1>8, <1>9, <1>10, <1>11, <1>12,
     <1>13, <1>14 DEF Next, Reset, OnTimerStep

LEMMA Invariant == Spec => []IInv
BY InitIInv, NextIInv, PTL DEF Spec

(* The pending map, the timerfd and onTimer always hold what their         *)
(* comments say.                                                           *)
THEOREM TypeCorrect == Spec => []TypeOK
BY Invariant, PTL DEF IInv

(* However the threads that add events interleave with onTimer, pending    *)
(* events never wait for a timerfd that nobody will set.                   *)
THEOREM PendingAlwaysArmed == Spec => []PendingIsArmed
<1>1. IInv => PendingIsArmed
  BY DEF IInv, Armed, PendingIsArmed
<1>2. QED
  BY <1>1, Invariant, PTL

(* No event is pending twice, and no one-shot event runs twice.            *)
THEOREM EventsHaveOnePlace == Spec => []OnePlace
<1>1. IInv => OnePlace
  BY DEF IInv, PendingOnce, Places, OnePlace
<1>2. QED
  BY <1>1, Invariant, PTL

(* onTimer takes no callback before its time.                              *)
THEOREM CallbacksWait == Spec => TakenWhenDue
<1> DEFINE Due0 == Collect => \A i \in 1..Len(pending) :
             pending[i].left > 0 => pending[i].ev \notin {tasks'[j] : j \in 1..Len(tasks')}
<1>1. IInv => Due0
  <2> SUFFICES ASSUME IInv, Collect, NEW i \in 1..Len(pending), pending[i].left > 0
               PROVE  pending[i].ev \notin {tasks'[j] : j \in 1..Len(tasks')}
    OBVIOUS
  <2>1. PICK n \in 0..Len(pending) : Takes(n) /\ tasks' = Expired(n)
    BY DEF Collect
  <2>2. Len(tasks') = n /\ \A j \in 1..n : tasks'[j] = pending[j].ev
    BY <2>1 DEF Expired, IInv, TypeOK
  <2>3. \A j \in 1..n : j \in 1..Len(pending) /\ pending[j].left = 0
    BY <2>1 DEF Takes, Due
  <2>4. QED
    BY <2>2, <2>3 DEF IInv, PendingOnce
<1>2. QED
  BY <1>1, Invariant, PTL DEF Spec, TakenWhenDue
=============================================================================
