---------------------------- MODULE OneShotCall ----------------------------
(***************************************************************************)
(* What a caller of RpcChannel::CallMethod is promised, with no timer, no  *)
(* connection and no messages: a call ends once, in one of three ways, and *)
(* its end is final.  Only one that is done has run its closure.           *)
(* RpcChannel implements this specification.                               *)
(***************************************************************************)
EXTENDS Naturals

CONSTANT Calls

VARIABLES outcome,   \* how far each call is
          canceled,  \* whether each call has been cancelled
          runs       \* how often the closure of each call ran

vars == <<outcome, canceled, runs>>

Init ==
  /\ outcome = [c \in Calls |-> "idle"]
  /\ canceled = [c \in Calls |-> FALSE]
  /\ runs = [c \in Calls |-> 0]

Moves(c, from, to) == outcome[c] = from /\ outcome' = [outcome EXCEPT ![c] = to]

Start(c) ==
  /\ Moves(c, "idle", "open") \/ Moves(c, "idle", "refused")
  /\ UNCHANGED <<canceled, runs>>

(* A call may be cancelled late: that changes nothing any more.            *)
Cancel(c) ==
  /\ outcome[c] \notin {"idle", "refused"} /\ ~canceled[c]
  /\ canceled' = [canceled EXCEPT ![c] = TRUE]
  /\ UNCHANGED <<outcome, runs>>

(* A response runs the closure, unless the call is cancelled.              *)
Respond(c) ==
  /\ Moves(c, "open", IF canceled[c] THEN "dropped" ELSE "done")
  /\ runs' = IF canceled[c] THEN runs ELSE [runs EXCEPT ![c] = @ + 1]
  /\ UNCHANGED canceled

(* Any other reply ends the call as well, without its closure.             *)
Fail(c) == Moves(c, "open", "failed") /\ UNCHANGED <<canceled, runs>>

(* Calls time out together, cancelled or not.                              *)
TimeOut(late) ==
  /\ late # {} /\ \A c \in late : outcome[c] = "open"
  /\ outcome' = [c \in Calls |-> IF c \in late THEN "done" ELSE outcome[c]]
  /\ canceled' = [c \in Calls |-> canceled[c] \/ c \in late]
  /\ runs' = [c \in Calls |-> IF c \in late THEN runs[c] + 1 ELSE runs[c]]

Next ==
  \/ \E c \in Calls : Start(c) \/ Cancel(c) \/ Respond(c) \/ Fail(c)
  \/ \E late \in SUBSET Calls : TimeOut(late)

Spec == Init /\ [][Next]_vars
=============================================================================
