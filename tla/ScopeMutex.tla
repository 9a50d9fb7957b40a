----------------------------- MODULE ScopeMutex -----------------------------
(***************************************************************************)
(* ScopeMutex<Mutex> (hl/common/mutex.h) as the code uses it: a thread     *)
(* constructs one, leaves its critical section by unlock(), goes on, and   *)
(* destroys the object at the end of the scope.  pthread_mutex_unlock on a *)
(* mutex of the default kind does not ask who locked it.                   *)
(***************************************************************************)
EXTENDS FiniteSets

CONSTANT Threads

VARIABLES
  locked,   \* the pthread mutex
  is_lock,  \* m_is_lock of each thread's ScopeMutex
  pc        \* "out" of the scope, "critical", or "after" unlock()

vars == <<locked, is_lock, pc>>

Init ==
  /\ locked = FALSE
  /\ is_lock = [t \in Threads |-> FALSE]
  /\ pc = [t \in Threads |-> "out"]

Construct(t) ==
  /\ pc[t] = "out" /\ ~locked
  /\ locked' = TRUE
  /\ is_lock' = [is_lock EXCEPT ![t] = TRUE]
  /\ pc' = [pc EXCEPT ![t] = "critical"]

Unlock(t) ==
  /\ pc[t] = "critical" /\ is_lock[t]
  /\ locked' = FALSE
  /\ pc' = [pc EXCEPT ![t] = "after"]
  /\ UNCHANGED is_lock

(* The destructor unlocks, whatever was done before.                       *)
Destruct(t) ==
  /\ pc[t] # "out"
  /\ locked' = FALSE
  /\ is_lock' = [is_lock EXCEPT ![t] = FALSE]
  /\ pc' = [pc EXCEPT ![t] = "out"]

(* lock() is called nowhere in the code, and left out.                      *)
Next == \E t \in Threads : Construct(t) \/ Unlock(t) \/ Destruct(t)

Spec == Init /\ [][Next]_vars

(* A ScopeMutex gets the lock of the mutex: two threads are never both     *)
(* between the construction and the unlock() of a ScopeMutex on it.        *)
MutualExclusion ==
  \A t, u \in Threads : pc[t] = "critical" /\ pc[u] = "critical" => t = u
=============================================================================
