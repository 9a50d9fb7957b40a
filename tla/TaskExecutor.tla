---------------------------- MODULE TaskExecutor ----------------------------
(***************************************************************************)
(* What a thread that hands a task to another thread's EventLoop is        *)
(* promised, with no queue, no eventfd and no epoll: the k-th task a       *)
(* thread posts is executed once, after its (k-1)-th and before its        *)
(* (k+1)-th.  EventLoop implements this specification.                     *)
(***************************************************************************)
EXTENDS Naturals

CONSTANTS Threads     \* the threads that post tasks

VARIABLES posted,     \* posted[t]: how many tasks t has handed over
          executed    \* executed[t]: the number of t's latest executed task

vars == <<posted, executed>>

Init ==
  /\ posted = [t \in Threads |-> 0]
  /\ executed = [t \in Threads |-> 0]

Post(t) ==
  /\ posted' = [posted EXCEPT ![t] = @ + 1]
  /\ UNCHANGED executed

(* The task executed is always the one after the last: none is skipped,    *)
(* repeated or overtaken by a later one of the same thread.                *)
Execute(t) ==
  /\ executed[t] < posted[t]
  /\ executed' = [executed EXCEPT ![t] = @ + 1]
  /\ UNCHANGED posted

Next == \E t \in Threads : Post(t) \/ Execute(t)

Spec == Init /\ [][Next]_vars
=============================================================================
