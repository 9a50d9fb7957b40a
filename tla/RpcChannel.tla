----------------------------- MODULE RpcChannel -----------------------------
(***************************************************************************)
(* Calls made through RpcChannel::CallMethod (hl/net/rpc/rpc_channel.cc),  *)
(* each with its own channel, controller and TcpClient, on the one event   *)
(* loop of a client thread: connecting, sending, the reply, and the        *)
(* timeout, which all calls have in the one Timer of the loop.             *)
(***************************************************************************)
EXTENDS Naturals, SequencesExt

CONSTANT Calls

VARIABLES
  looping,   \* m_is_looping of the client's event loop
  conn,      \* the TcpClient of each call; "idle" before CallMethod
  pending,   \* the calls whose timer event the Timer holds, by arrive time
  cancelled, \* the calls whose timer event has been cancelled
  sending,   \* the calls with a message in m_write_dones
  waiting,   \* the calls with a callback in m_read_dones
  reply,     \* what the server has sent back to each call
  error,     \* m_error_code of each controller, as the step that set it
  canceled,  \* m_is_cancled of each controller
  parsed,    \* the calls whose response message has been filled in
  ran        \* how often the closure of each call ran

ctrlVars == <<error, canceled, parsed, ran>>
vars == <<looping, conn, pending, cancelled, sending, waiting, reply, ctrlVars>>

(* A reply may carry the response, no response that parses, or an error    *)
(* code.                                                                   *)
Replies == {"ok", "unparsable", "error"}

Init ==
  /\ looping = FALSE
  /\ conn = [c \in Calls |-> "idle"]
  /\ pending = <<>> /\ cancelled = {}
  /\ sending = {} /\ waiting = {}
  /\ reply = [c \in Calls |-> "none"]
  /\ error = [c \in Calls |-> "none"]
  /\ canceled = [c \in Calls |-> FALSE]
  /\ parsed = {}
  /\ ran = [c \in Calls |-> 0]

-----------------------------------------------------------------------------
(* RpcConroller::SetError, the only place that sets the error of a call.   *)
SetError(c, e) == error' = [error EXCEPT ![c] = e]

(* CallMethod on a channel that was not initialised, or with a request     *)
(* that cannot be serialised, returns with the error set.                  *)
CallMethodFails(c) ==
  /\ conn[c] = "idle"
  /\ conn' = [conn EXCEPT ![c] = "unused"]
  /\ \E e \in {"init", "serialize"} : SetError(c, e)
  /\ UNCHANGED <<looping, pending, cancelled, sending, waiting, reply,
                 canceled, parsed, ran>>

(* The timer event goes to its place among the others', by its timeout.    *)
Arm(c) == \E i \in 1..Len(pending) + 1 : pending' = InsertAt(pending, i, c)

(* The callback CallMethod gives to connect: it writes the request, also   *)
(* when the connection failed.                                             *)
(* Mutant: the errno is stored for the error code.                         *)
OnConnectErrno(c, failed) ==
  /\ IF failed THEN SetError(c, "errno") ELSE UNCHANGED error
  /\ sending' = sending \cup {c}

OnConnect(c, failed) ==
  /\ IF failed THEN SetError(c, "connect") ELSE UNCHANGED error
  /\ sending' = sending \cup {c}

(* CallMethod arms the timer and connects.  Only a connect in progress     *)
(* starts the event loop, when nothing has yet.                            *)
CallMethodInProgress(c) ==
  /\ conn[c] = "idle"
  /\ Arm(c)
  /\ conn' = [conn EXCEPT ![c] = "connecting"]
  /\ looping' = TRUE
  /\ UNCHANGED <<cancelled, sending, waiting, reply, ctrlVars>>

CallMethodAtOnce(c) ==
  /\ conn[c] = "idle"
  /\ Arm(c)
  /\ \E failed \in BOOLEAN :
       /\ conn' = [conn EXCEPT ![c] = IF failed THEN "down" ELSE "up"]
       /\ OnConnect(c, failed)
  /\ UNCHANGED <<looping, cancelled, waiting, reply, canceled, parsed, ran>>

(* TcpClient::connect's callback on the socket being writable.             *)
Connected(c) ==
  /\ looping
  /\ conn[c] = "connecting"
  /\ \E failed \in BOOLEAN :
       /\ conn' = [conn EXCEPT ![c] = IF failed THEN "down" ELSE "up"]
       /\ OnConnect(c, failed)
  /\ UNCHANGED <<looping, pending, cancelled, waiting, reply, canceled, parsed, ran>>

(* TcpConnection::onWrite, which does nothing when not connected, runs the *)
(* write callback: the channel waits for the reply.  Mutant: it runs the   *)
(* callback for a client that failed to connect, too.                      *)
OnWriteUnasked(c) ==
  /\ looping
  /\ c \in sending
  /\ sending' = sending \ {c}
  /\ waiting' = waiting \cup {c}
  /\ UNCHANGED <<looping, conn, pending, cancelled, reply, ctrlVars>>

OnWrite(c) ==
  /\ looping
  /\ c \in sending /\ conn[c] = "up"
  /\ sending' = sending \ {c}
  /\ waiting' = waiting \cup {c}
  /\ UNCHANGED <<looping, conn, pending, cancelled, reply, ctrlVars>>

(* The server, which may also not answer, answers at any time.  (Of the    *)
(* error answers only those without error text can be decoded, see the     *)
(* module TinyPBCoder.)                                                    *)
Reply(c) ==
  /\ c \in waiting /\ reply[c] = "none"
  /\ \E r \in Replies : reply' = [reply EXCEPT ![c] = r]
  /\ UNCHANGED <<looping, conn, pending, cancelled, sending, waiting, ctrlVars>>

(* The caller cancels a call under way, from another callback of the loop. *)
StartCancel(c) ==
  /\ conn[c] \notin {"idle", "unused"} /\ ~canceled[c]
  /\ canceled' = [canceled EXCEPT ![c] = TRUE]
  /\ UNCHANGED <<looping, conn, pending, cancelled, sending, waiting, reply,
                 error, parsed, ran>>

-----------------------------------------------------------------------------
(* The read callback.  It cancels the timer event, then returns on a       *)
(* response that does not parse, or an error code, with the error set and  *)
(* the closure not run.                                                    *)
(* Mutants of RunUnlessTimedOut: nothing is asked; the timer event, just   *)
(* cancelled, is asked in place of the controller.                         *)
RunAnyhow(c) == [ran EXCEPT ![c] = @ + 1]
RunUnlessCancelled(c) == IF c \in cancelled' THEN ran ELSE [ran EXCEPT ![c] = @ + 1]
RunUnlessTimedOut(c) == IF canceled[c] THEN ran ELSE [ran EXCEPT ![c] = @ + 1]

(* Mutant of Failure: a response that does not parse leaves no error.      *)
FailureIgnored(c) ==
  \/ reply[c] = "unparsable" /\ UNCHANGED error
  \/ reply[c] = "error" /\ SetError(c, "reply")

Failure(c) ==
  \/ reply[c] = "unparsable" /\ SetError(c, "serialize")
  \/ reply[c] = "error" /\ SetError(c, "reply")

OnReply(c) ==
  /\ looping
  /\ c \in waiting /\ reply[c] # "none"
  /\ waiting' = waiting \ {c}
  /\ cancelled' = cancelled \cup {c}
  /\ parsed' = IF reply[c] = "unparsable" THEN parsed ELSE parsed \cup {c}
  /\ \/ /\ reply[c] = "ok"
        /\ ran' = RunUnlessTimedOut(c)
        /\ UNCHANGED error
     \/ Failure(c) /\ UNCHANGED ran
  /\ UNCHANGED <<looping, conn, pending, sending, reply, canceled>>

(* Timer::onTimer, when the first `due` of the timer events are: it takes  *)
(* those before the first cancelled one of them.  Mutant: cancelled events *)
(* are taken as well.                                                      *)
TakesAll(due, taken) == taken = due

Takes(due, taken) ==
  /\ \A i \in 1..taken : pending[i] \notin cancelled
  /\ taken < due => pending[taken + 1] \in cancelled

(* The cancelled one stays, with all behind it; with no cancelled one due, *)
(* nothing at all stays.  Mutant: nothing is erased.                       *)
NothingErased(due, taken) == pending

Left(due, taken) ==
  IF taken < due THEN SubSeq(pending, taken + 1, Len(pending)) ELSE <<>>

(* The timer callback sets the error.  Mutant: it does not.                *)
NoTimeoutErrors(timedOut) == error
TimeoutErrors(timedOut) == [c \in Calls |-> IF c \in timedOut THEN "timeout" ELSE error[c]]

(* The timer callbacks of the channels taken run.                          *)
OnTimer(due, taken) ==
  LET timedOut == {pending[i] : i \in 1..taken}
  IN  /\ looping
      /\ taken <= due /\ Takes(due, taken)
      /\ pending' = Left(due, taken)
      /\ canceled' = [c \in Calls |-> canceled[c] \/ c \in timedOut]
      /\ error' = TimeoutErrors(timedOut)
      /\ ran' = [c \in Calls |-> IF c \in timedOut THEN ran[c] + 1 ELSE ran[c]]
      /\ UNCHANGED <<looping, conn, cancelled, sending, waiting, reply, parsed>>

Next ==
  \/ \E c \in Calls :
       \/ CallMethodFails(c) \/ CallMethodInProgress(c) \/ CallMethodAtOnce(c)
       \/ Connected(c) \/ OnWrite(c) \/ Reply(c) \/ OnReply(c)
       \/ StartCancel(c)
  \/ \E due \in 1..Len(pending), taken \in 0..Len(pending) : OnTimer(due, taken)

Spec == Init /\ [][Next]_vars

(* The event loop runs every callback whose event has happened.  Time      *)
(* passes, so that in the end every pending timer event is due.            *)
FairSpec ==
  /\ Spec
  /\ \A c \in Calls : WF_vars(Connected(c)) /\ WF_vars(OnWrite(c)) /\ WF_vars(OnReply(c))
  /\ WF_vars(\E taken \in 0..Len(pending) : OnTimer(Len(pending), taken))

-----------------------------------------------------------------------------
(* What the members of RpcChannel, RpcConroller and Timer hold for a call. *)
TypeOK ==
  /\ looping \in BOOLEAN
  /\ conn \in [Calls -> {"idle", "unused", "connecting", "up", "down"}]
  /\ pending \in Seq(Calls)
  /\ cancelled \subseteq Calls /\ sending \subseteq Calls /\ waiting \subseteq Calls
  /\ reply \in [Calls -> Replies \cup {"none"}]
  /\ error \in [Calls -> {"none", "init", "serialize", "connect", "timeout", "reply"}]
  /\ canceled \in [Calls -> BOOLEAN]
  /\ parsed \subseteq Calls
  /\ ran \in [Calls -> Nat]

(* A closure runs at most once, however the reply and the timeout race.    *)
ClosureOnce == \A c \in Calls : ran[c] <= 1

(* When its closure runs, the controller of a call reports an error or the *)
(* response has been filled in: a caller that looks at the error code      *)
(* alone, as the test client does, reads a response that is there.         *)
ClosureSeesOutcome ==
  [][\A c \in Calls : ran'[c] > ran[c] => error'[c] # "none" \/ c \in parsed']_vars

(* Once the reply of a call has been read its timeout does not happen any  *)
(* more: the error code is not overwritten by it.                          *)
RepliedNeverTimesOut ==
  [][\A c \in cancelled : error'[c] = "timeout" => error[c] = "timeout"]_vars

(* How a call has ended, if it has: by its closure, or by a reply that     *)
(* took its timer event and left the closure alone.                        *)
Ended(c) ==
  CASE ran[c] > 0 -> "done"
    [] ran[c] = 0 /\ c \notin cancelled -> "open"
    [] ran[c] = 0 /\ c \in cancelled -> IF reply[c] = "ok" THEN "dropped" ELSE "failed"

Outcome ==
  [c \in Calls |-> CASE conn[c] = "idle" -> "idle"
                     [] conn[c] = "unused" -> "refused"
                     [] conn[c] \notin {"idle", "unused"} -> Ended(c)]

(* A call ends once, and for good: by its closure, by a failing reply, or  *)
(* by a response that came after it was cancelled, however its reply, its  *)
(* timeout, those of the other calls in the Timer, and StartCancel race.   *)
OneShot == INSTANCE OneShotCall WITH outcome <- Outcome, runs <- ran
CallsEndOnce == OneShot!Spec

(* What has been read of a reply never leaves the caller without an        *)
(* outcome: the closure has run, or the controller reports an error, or    *)
(* the call was cancelled, by its timeout or by its caller.                *)
RepliedIsSettled ==
  \A c \in cancelled : ran[c] > 0 \/ error[c] # "none" \/ canceled[c]

(* CallMethod writes its request even when the connection failed.  Such a  *)
(* request stays where it is: the call waits for nothing, gets no reply,   *)
(* and its closure runs only by the timeout.                               *)
FailedConnectOnlyTimesOut ==
  \A c \in Calls : conn[c] = "down" =>
    /\ c \notin waiting \cup cancelled
    /\ reply[c] = "none"
    /\ ran[c] > 0 => canceled[c]

(* A response that reaches a call has its closure run, by the reply or by  *)
(* the timeout, unless the call is cancelled.                              *)
ResponseRunsClosure ==
  \A c \in Calls :
    (looping /\ c \in waiting /\ reply[c] = "ok") ~> (ran[c] > 0 \/ canceled[c])
=============================================================================
