-------------------------- MODULE RpcChannelProofs --------------------------
(***************************************************************************)
(* Theorems about RpcChannel, for any set of calls.  ClosureOnce is not    *)
(* inductive: that reply and timeout exclude each other rests on where a   *)
(* call is (Sequel) and on a call being in the Timer at most once (Once).  *)
(* From the same invariant RpcChannel implements OneShotCall.              *)
(***************************************************************************)
EXTENDS RpcChannel, SequenceLemmas, TLAPS

InTimer(c) == \E i \in 1..Len(pending) : pending[i] = c

Once == \A i, j \in 1..Len(pending) : pending[i] = pending[j] => i = j

(* A call that has not been made is nowhere; one that has not been         *)
(* connected has sent nothing and got no reply;                            *)
(* once its timer event is cancelled it waits for no reply; and its        *)
(* closure has run only by the timeout, which takes it out of the Timer,   *)
(* or by the reply, which cancels its timer event.                         *)
Sequel(c) ==
  /\ conn[c] \in {"idle", "unused"} => ~InTimer(c) /\ ~canceled[c] /\ ran[c] = 0
  /\ conn[c] \in {"idle", "unused", "connecting"} => c \notin sending \cup waiting \cup cancelled
  /\ c \in waiting => c \notin sending
  /\ c \in cancelled => c \notin sending \cup waiting
  /\ conn[c] # "up" => c \notin waiting \cup cancelled /\ reply[c] = "none"
  /\ ran[c] \in {0, 1}
  /\ ran[c] = 1 => (canceled[c] /\ ~InTimer(c)) \/ c \in cancelled

IInv == TypeOK /\ Once /\ RepliedIsSettled /\ \A c \in Calls : Sequel(c)

-----------------------------------------------------------------------------
(* A new timer event: nothing repeats, and only its call is added.         *)
LEMMA ArmKeeps ==
  ASSUME pending \in Seq(Calls), Once, NEW c \in Calls, ~InTimer(c), Arm(c)
  PROVE  /\ pending' \in Seq(Calls)
         /\ Once'
         /\ \A d \in Calls : InTimer(d)' => InTimer(d) \/ d = c
<1>1. PICK i \in 1..Len(pending) + 1 : pending' = InsertAt(pending, i, c)
  BY DEF Arm
<1>2. Inserted(Calls, pending', pending, i, c)
  <2>1. Inserted(Calls, InsertAt(pending, i, c), pending, i, c)
    BY InsertAtElements, Zenon
  <2>2. QED
    BY <1>1, <2>1, Zenon
<1>3. pending' \in Seq(Calls) /\ Len(pending') = Len(pending) + 1
  BY <1>2, Zenon DEF Inserted
<1>4. Once'
  <2> SUFFICES ASSUME NEW j \in 1..Len(pending'), NEW k \in 1..Len(pending'),
                      pending'[j] = pending'[k]
               PROVE  j = k
    BY DEF Once
  <2>1. j \in 1..Len(pending) + 1 /\ k \in 1..Len(pending) + 1
    BY <1>3
  <2>2. \A m \in 1..Len(pending) : pending[m] # c
    BY Zenon DEF InTimer
  <2>3. \A m, n \in 1..Len(pending) : pending[m] = pending[n] => m = n
    BY Zenon DEF Once
  <2>4. QED
    <3> SUFFICES ASSUME j # k PROVE FALSE
      OBVIOUS
    <3>1. \/ pending'[j] = c /\ \E n \in 1..Len(pending) : pending'[k] = pending[n]
          \/ pending'[k] = c /\ \E m \in 1..Len(pending) : pending'[j] = pending[m]
          \/ \E m, n \in 1..Len(pending) :
               m # n /\ pending'[j] = pending[m] /\ pending'[k] = pending[n]
      BY <1>2, <2>1, InsertedPairs
    <3>2. QED
      BY <2>2, <2>3, <3>1, Zenon
<1>5. ASSUME NEW d \in Calls, InTimer(d)', d # c
      PROVE  InTimer(d)
  <2>1. PICK j \in 1..Len(pending) + 1 : pending'[j] = d
    BY <1>3, <1>5 DEF InTimer
  <2>2. /\ j < i => j \in 1..Len(pending) /\ pending'[j] = pending[j]
        /\ j = i => pending'[j] = c
        /\ j > i => j - 1 \in 1..Len(pending) /\ pending'[j] = pending[j - 1]
    BY <1>2, InsertedFrom
  <2>3. j < i \/ j = i \/ j > i
    OBVIOUS
  <2>4. QED
    BY <1>5, <2>1, <2>2, <2>3 DEF InTimer
<1>6. QED
  BY <1>3, <1>4, <1>5, Zenon

(* What onTimer takes is no longer in the Timer, and nothing is new in it. *)
LEMMA OnTimerLeaves ==
  ASSUME pending \in Seq(Calls), Once,
         NEW due \in 1..Len(pending), NEW taken \in 0..Len(pending),
         taken <= due, pending' = Left(due, taken)
  PROVE  /\ pending' \in Seq(Calls)
         /\ Once'
         /\ \A c \in Calls : InTimer(c)' => /\ InTimer(c)
                                            /\ c \notin {pending[i] : i \in 1..taken}
<1>1. CASE taken < due
  <2>1. pending' = SubSeq(pending, taken + 1, Len(pending))
    BY <1>1 DEF Left
  <2>2. /\ pending' \in Seq(Calls) /\ Len(pending') = Len(pending) - taken
        /\ \A j \in 1..Len(pending) - taken : pending'[j] = pending[j + taken]
    BY <2>1
  <2>3. Once'
    BY <2>2 DEF Once
  <2>4. ASSUME NEW c \in Calls, InTimer(c)'
        PROVE  InTimer(c) /\ c \notin {pending[i] : i \in 1..taken}
    <3>1. PICK j \in 1..Len(pending) - taken : pending'[j] = c
      BY <2>2, <2>4 DEF InTimer
    <3>2. j + taken \in 1..Len(pending) /\ pending[j + taken] = c
      BY <2>2, <3>1
    <3>3. \A i \in 1..taken : i \in 1..Len(pending) /\ i # j + taken
      BY <3>1
    <3>4. QED
      BY <3>2, <3>3 DEF Once, InTimer
  <2>5. QED
    BY <2>2, <2>3, <2>4
<1>2. CASE taken = due
  BY <1>2 DEF Left, Once, InTimer
<1>3. QED
  BY <1>1, <1>2

-----------------------------------------------------------------------------
LEMMA InitIInv == Init => IInv
<1> SUFFICES ASSUME Init PROVE IInv
  OBVIOUS
<1>1. pending = <<>> /\ Len(pending) = 0
  BY DEF Init
<1>2. TypeOK
  <2>1. pending \in Seq(Calls)
    BY DEF Init
  <2>2. QED
    BY <2>1 DEF Init, TypeOK
<1>3. Once /\ \A c \in Calls : ~InTimer(c)
  BY <1>1 DEF Once, InTimer
<1>4. ASSUME NEW c \in Calls PROVE Sequel(c)
  BY <1>3 DEF Init, Sequel
<1>5. RepliedIsSettled
  BY DEF Init, RepliedIsSettled
<1>6. QED
  BY <1>2, <1>3, <1>4, <1>5 DEF IInv

LEMMA NextIInv == IInv /\ [Next]_vars => IInv'
<1> SUFFICES ASSUME IInv, [Next]_vars PROVE IInv'
  OBVIOUS
<1> USE DEF IInv, ctrlVars
<1>1. ASSUME NEW c \in Calls, CallMethodFails(c) PROVE IInv'
  <2>1. TypeOK' /\ Once'
    BY <1>1 DEF CallMethodFails, SetError, TypeOK, Once
  <2>2. RepliedIsSettled'
    BY <1>1 DEF CallMethodFails, SetError, TypeOK, RepliedIsSettled
  <2>3. ASSUME NEW d \in Calls PROVE Sequel(d)'
    BY <1>1 DEF CallMethodFails, SetError, TypeOK, Sequel, InTimer
  <2>4. QED
    BY <2>1, <2>2, <2>3
<1>2. ASSUME NEW c \in Calls, CallMethodInProgress(c) PROVE IInv'
  <2>1. /\ pending' \in Seq(Calls) /\ Once'
        /\ \A d \in Calls : InTimer(d)' => InTimer(d) \/ d = c
    BY <1>2, ArmKeeps DEF CallMethodInProgress, TypeOK, Sequel
  <2>2. TypeOK'
    BY <1>2, <2>1 DEF CallMethodInProgress, TypeOK
  <2>3. ASSUME NEW d \in Calls PROVE Sequel(d)'
    BY <1>2, <2>1 DEF CallMethodInProgress, TypeOK, Sequel
  <2>4. RepliedIsSettled'
    BY <1>2 DEF CallMethodInProgress, RepliedIsSettled
  <2>5. QED
    BY <2>1, <2>2, <2>3, <2>4
<1>3. ASSUME NEW c \in Calls, CallMethodAtOnce(c) PROVE IInv'
  <2>1. /\ pending' \in Seq(Calls) /\ Once'
        /\ \A d \in Calls : InTimer(d)' => InTimer(d) \/ d = c
    BY <1>3, ArmKeeps DEF CallMethodAtOnce, TypeOK, Sequel
  <2>2. TypeOK'
    BY <1>3, <2>1 DEF CallMethodAtOnce, OnConnect, SetError, TypeOK
  <2>3. ASSUME NEW d \in Calls PROVE Sequel(d)'
    BY <1>3, <2>1 DEF CallMethodAtOnce, OnConnect, SetError, TypeOK, Sequel
  <2>4. RepliedIsSettled'
    BY <1>3 DEF CallMethodAtOnce, OnConnect, SetError, TypeOK, RepliedIsSettled
  <2>5. QED
    BY <2>1, <2>2, <2>3, <2>4
<1>4. ASSUME NEW c \in Calls, Connected(c) PROVE IInv'
  <2>1. TypeOK' /\ Once'
    BY <1>4 DEF Connected, OnConnect, SetError, TypeOK, Once
  <2>2. RepliedIsSettled'
    BY <1>4 DEF Connected, OnConnect, SetError, TypeOK, RepliedIsSettled
  <2>3. ASSUME NEW d \in Calls PROVE Sequel(d)'
    BY <1>4 DEF Connected, OnConnect, SetError, TypeOK, Sequel, InTimer
  <2>4. QED
    BY <2>1, <2>2, <2>3
<1>5. ASSUME NEW c \in Calls, OnWrite(c) PROVE IInv'
  <2>1. TypeOK' /\ Once'
    BY <1>5 DEF OnWrite, TypeOK, Once
  <2>2. RepliedIsSettled'
    BY <1>5 DEF OnWrite, TypeOK, RepliedIsSettled
  <2>3. ASSUME NEW d \in Calls PROVE Sequel(d)'
    BY <1>5 DEF OnWrite, TypeOK, Sequel, InTimer
  <2>4. QED
    BY <2>1, <2>2, <2>3
<1>6. ASSUME NEW c \in Calls, Reply(c) PROVE IInv'
  <2>1. TypeOK' /\ Once'
    BY <1>6 DEF Reply, TypeOK, Once
  <2>2. RepliedIsSettled'
    BY <1>6 DEF Reply, TypeOK, RepliedIsSettled
  <2>3. ASSUME NEW d \in Calls PROVE Sequel(d)'
    BY <1>6 DEF Reply, TypeOK, Sequel, InTimer
  <2>4. QED
    BY <2>1, <2>2, <2>3
<1>7. ASSUME NEW c \in Calls, OnReply(c) PROVE IInv'
  <2>1. TypeOK'
    <3>1. ran' \in [Calls -> Nat]
      BY <1>7 DEF OnReply, RunUnlessTimedOut, TypeOK
    <3>2. error' \in [Calls -> {"none", "init", "serialize", "connect", "timeout", "reply"}]
      BY <1>7 DEF OnReply, Failure, SetError, TypeOK
    <3>3. cancelled' \subseteq Calls /\ waiting' \subseteq Calls /\ parsed' \subseteq Calls
      BY <1>7 DEF OnReply, TypeOK
    <3>4. QED
      BY <1>7, <3>1, <3>2, <3>3 DEF OnReply, TypeOK
  <2>2. Once' /\ \A d \in Calls : InTimer(d)' = InTimer(d)
    BY <1>7 DEF OnReply, Once, InTimer
  <2>3. ASSUME NEW d \in Calls PROVE Sequel(d)'
    BY <1>7, <2>2 DEF OnReply, RunUnlessTimedOut, TypeOK, Sequel
  <2>4. RepliedIsSettled'
    <3>1. ran[c] >= 0 /\ ran[c] \in Int
      BY DEF TypeOK
    <3>2. ran'[c] > 0 \/ error'[c] # "none" \/ canceled'[c]
      BY <1>7, <3>1 DEF OnReply, RunUnlessTimedOut, Failure, SetError, TypeOK
    <3>3. \A d \in Calls \ {c} : ran'[d] = ran[d] /\ error'[d] = error[d] /\ canceled'[d] = canceled[d]
      BY <1>7 DEF OnReply, RunUnlessTimedOut, Failure, SetError, TypeOK
    <3>4. cancelled' = cancelled \cup {c} /\ cancelled' \subseteq Calls
      BY <1>7 DEF OnReply, TypeOK
    <3>5. QED
      BY <3>2, <3>3, <3>4 DEF RepliedIsSettled
  <2>5. QED
    BY <2>1, <2>2, <2>3, <2>4
<1>8. ASSUME NEW due \in 1..Len(pending), NEW taken \in 0..Len(pending), OnTimer(due, taken)
      PROVE  IInv'
  <2> DEFINE timedOut == {pending[i] : i \in 1..taken}
  <2>1. /\ pending' \in Seq(Calls) /\ Once'
        /\ \A c \in Calls : InTimer(c)' => InTimer(c) /\ c \notin timedOut
    BY <1>8, OnTimerLeaves DEF OnTimer, TypeOK
  <2>2. ASSUME NEW c \in Calls, c \in timedOut
        PROVE  InTimer(c) /\ c \notin cancelled /\ ran[c] = 0
    <3>1. PICK i \in 1..taken : pending[i] = c
      BY <2>2
    <3>2. taken <= due /\ i \in 1..Len(pending)
      BY <1>8 DEF OnTimer
    <3>3. InTimer(c)
      BY <3>1, <3>2 DEF InTimer
    <3>4. c \notin cancelled
      BY <1>8, <3>1 DEF OnTimer, Takes
    <3>5. QED
      BY <3>3, <3>4 DEF Sequel
  <2>3. TypeOK'
    BY <1>8, <2>1 DEF OnTimer, TimeoutErrors, TypeOK
  <2>4. ASSUME NEW c \in Calls PROVE Sequel(c)'
    <3>1. /\ canceled'[c] = (canceled[c] \/ c \in timedOut)
          /\ ran'[c] = IF c \in timedOut THEN ran[c] + 1 ELSE ran[c]
          /\ UNCHANGED <<conn, cancelled, sending, waiting, reply>>
      BY <1>8 DEF OnTimer
    <3>2. CASE c \in timedOut
      <4>1. ~InTimer(c)' /\ canceled'[c] /\ ran'[c] = 1
        <5>1. ~InTimer(c)'
          BY <2>1, <3>2
        <5>2. canceled'[c]
          BY <3>1, <3>2, Zenon
        <5>3. ran'[c] = 1
          BY <2>2, <3>1, <3>2
        <5>4. QED
          BY <5>1, <5>2, <5>3
      <4>2. InTimer(c) /\ c \notin cancelled
        BY <2>2, <3>2
      <4>3. QED
        BY <3>1, <4>1, <4>2 DEF Sequel
    <3>3. CASE c \notin timedOut
      <4>1. /\ canceled'[c] => canceled[c]
            /\ canceled[c] => canceled'[c]
            /\ ran'[c] = ran[c]
            /\ InTimer(c)' => InTimer(c)
        BY <2>1, <3>1, <3>3
      <4>2. QED
        BY <3>1, <4>1 DEF Sequel
    <3>4. QED
      BY <3>2, <3>3
  <2>5. RepliedIsSettled'
    <3>1. /\ \A c \in Calls : canceled'[c] = (canceled[c] \/ c \in timedOut)
          /\ \A c \in Calls : c \notin timedOut => error'[c] = error[c] /\ ran'[c] = ran[c]
          /\ cancelled' = cancelled /\ cancelled \subseteq Calls
      BY <1>8 DEF OnTimer, TimeoutErrors, TypeOK
    <3>2. QED
      BY <3>1 DEF RepliedIsSettled
  <2>6. QED
    BY <2>1, <2>3, <2>4, <2>5
<1>9. ASSUME NEW c \in Calls, StartCancel(c) PROVE IInv'
  <2>1. TypeOK' /\ Once'
    BY <1>9 DEF StartCancel, TypeOK, Once
  <2>2. RepliedIsSettled'
    BY <1>9 DEF StartCancel, TypeOK, RepliedIsSettled
  <2>3. ASSUME NEW d \in Calls PROVE Sequel(d)'
    BY <1>9 DEF StartCancel, TypeOK, Sequel, InTimer
  <2>4. QED
    BY <2>1, <2>2, <2>3
<1>10. CASE UNCHANGED vars
  <2>1. TypeOK' /\ Once' /\ RepliedIsSettled'
    BY <1>10 DEF vars, TypeOK, Once, RepliedIsSettled
  <2>2. ASSUME NEW d \in Calls PROVE Sequel(d)'
    BY <1>10 DEF vars, Sequel, InTimer
  <2>3. QED
    BY <2>1, <2>2
<1>11. QED
  BY <1>1, <1>2, <1>3, <1>4, <1>5, <1>6, <1>7, <1>8, <1>9, <1>10 DEF Next

LEMMA Invariant == Spec => []IInv
BY InitIInv, NextIInv, PTL DEF Spec

(* The variables of the calls always hold what their comments say.         *)
THEOREM TypeCorrect == Spec => []TypeOK
BY Invariant, PTL DEF IInv

(* No call has its closure run twice, however reply and timeout race.      *)
THEOREM ClosureRunsOnce == Spec => []ClosureOnce
<1>1. IInv => ClosureOnce
  BY DEF IInv, Sequel, ClosureOnce
<1>2. QED
  BY <1>1, Invariant, PTL

(* A reply that was read leaves the closure run, an error, or a cancelled  *)
(* call.                                                                   *)
THEOREM ReplySettlesCall == Spec => []RepliedIsSettled
BY Invariant, PTL DEF IInv

(* A call that failed to connect is answered by nothing but its timeout.   *)
THEOREM FailedConnectEndsByTimeout == Spec => []FailedConnectOnlyTimesOut
<1>1. IInv => FailedConnectOnlyTimesOut
  BY DEF IInv, TypeOK, Sequel, FailedConnectOnlyTimesOut
<1>2. QED
  BY <1>1, Invariant, PTL

(* A closure that runs finds an error code or a filled response.           *)
THEOREM ClosureFindsOutcome == Spec => ClosureSeesOutcome
<1> DEFINE Sees == \A c \in Calls : ran'[c] > ran[c] => error'[c] # "none" \/ c \in parsed'
<1>1. IInv /\ Next => Sees
  <2> SUFFICES ASSUME IInv, Next, NEW d \in Calls, ran'[d] > ran[d]
               PROVE  error'[d] # "none" \/ d \in parsed'
    OBVIOUS
  <2> USE DEF IInv, ctrlVars
  <2>1. ran[d] \in Nat
    BY DEF TypeOK
  <2>2. CASE \E c \in Calls : OnReply(c)
    BY <2>1, <2>2 DEF OnReply, RunUnlessTimedOut, TypeOK
  <2>3. CASE \E due \in 1..Len(pending), taken \in 0..Len(pending) : OnTimer(due, taken)
    BY <2>1, <2>3 DEF OnTimer, TimeoutErrors
  <2>4. QED
    BY <2>1, <2>2, <2>3 DEF Next, CallMethodFails, CallMethodInProgress,
       CallMethodAtOnce, Connected, OnWrite, Reply, StartCancel
<1>2. UNCHANGED vars /\ IInv => Sees
  BY DEF vars, ctrlVars, IInv, TypeOK
<1>3. QED
  BY <1>1, <1>2, Invariant, PTL DEF Spec, ClosureSeesOutcome

(* The timeout of a call whose reply has been read does not happen.        *)
THEOREM NoTimeoutAfterReply == Spec => RepliedNeverTimesOut
<1> DEFINE Never == \A c \in cancelled : error'[c] = "timeout" => error[c] = "timeout"
<1>1. IInv /\ Next => Never
  <2> SUFFICES ASSUME IInv, Next, NEW d \in cancelled, error'[d] = "timeout"
               PROVE  error[d] = "timeout"
    OBVIOUS
  <2> USE DEF IInv, ctrlVars
  <2>1. d \in Calls
    BY DEF TypeOK
  <2>2. CASE \E due \in 1..Len(pending), taken \in 0..Len(pending) : OnTimer(due, taken)
    BY <2>1, <2>2 DEF OnTimer, Takes, TimeoutErrors
  <2>3. CASE \E c \in Calls : OnReply(c)
    BY <2>1, <2>3 DEF OnReply, Failure, SetError, TypeOK
  <2>4. CASE \E c \in Calls : CallMethodFails(c) \/ CallMethodAtOnce(c) \/ Connected(c)
    BY <2>1, <2>4 DEF CallMethodFails, CallMethodAtOnce, Connected, OnConnect, SetError, TypeOK
  <2>5. QED
    BY <2>1, <2>2, <2>3, <2>4 DEF Next, CallMethodInProgress, OnWrite, Reply, StartCancel
<1>2. UNCHANGED vars => Never
  BY DEF vars, ctrlVars
<1>3. QED
  BY <1>1, <1>2, Invariant, PTL DEF Spec, RepliedNeverTimesOut

-----------------------------------------------------------------------------
(* The steps of a call, each as the step of OneShotCall that it is.        *)
Called(c) == conn[c] \notin {"idle", "unused"}

LEMMA OutcomeOf ==
  ASSUME TypeOK, NEW c \in Calls
  PROVE  /\ conn[c] = "idle" => Outcome[c] = "idle"
         /\ conn[c] = "unused" => Outcome[c] = "refused"
         /\ Called(c) /\ ran[c] > 0 => Outcome[c] = "done"
         /\ Called(c) /\ ran[c] = 0 /\ c \notin cancelled => Outcome[c] = "open"
         /\ Called(c) /\ ran[c] = 0 /\ c \in cancelled /\ reply[c] = "ok" => Outcome[c] = "dropped"
         /\ Called(c) /\ ran[c] = 0 /\ c \in cancelled /\ reply[c] # "ok" => Outcome[c] = "failed"
BY DEF Outcome, Ended, Called, TypeOK

(* A call's outcome changes only with what it is made of.                  *)
LEMMA OutcomeKept ==
  ASSUME TypeOK, TypeOK', NEW c \in Calls,
         conn'[c] = conn[c] \/ (Called(c) /\ Called(c)'),
         ran'[c] = ran[c], c \in cancelled' <=> c \in cancelled,
         c \in cancelled => reply'[c] = reply[c]
  PROVE  Outcome'[c] = Outcome[c]
<1>1. Outcome[c] = CASE conn[c] = "idle" -> "idle"
                     [] conn[c] = "unused" -> "refused"
                     [] conn[c] \notin {"idle", "unused"} -> Ended(c)
  BY DEF Outcome
<1>2. Outcome'[c] = CASE conn'[c] = "idle" -> "idle"
                      [] conn'[c] = "unused" -> "refused"
                      [] conn'[c] \notin {"idle", "unused"} -> Ended(c)'
  BY DEF Outcome
<1>3. ran[c] \in Nat
  BY DEF TypeOK
<1>4. Ended(c)' = Ended(c)
  <2>1. CASE ran[c] > 0
    BY <2>1, <1>3 DEF Ended
  <2>2. CASE ran[c] = 0
    BY <2>2, <1>3 DEF Ended
  <2>3. QED
    BY <1>3, <2>1, <2>2
<1>5. QED
  BY <1>1, <1>2, <1>4 DEF Called

LEMMA OutcomeMoves ==
  ASSUME NEW c \in Calls, \A d \in Calls \ {c} : Outcome'[d] = Outcome[d]
  PROVE  Outcome' = [Outcome EXCEPT ![c] = Outcome'[c]]
<1>1. Outcome = [d \in Calls |-> Outcome[d]] /\ Outcome' = [d \in Calls |-> Outcome'[d]]
  BY DEF Outcome
<1>2. QED
  BY <1>1

LEMMA InitOneShot == Init => OneShot!Init
BY DEF Init, Outcome, OneShot!Init

(* A call that is made is open, or refused.                                *)
LEMMA StartsOpen ==
  ASSUME IInv, IInv', NEW c \in Calls,
         CallMethodFails(c) \/ CallMethodInProgress(c) \/ CallMethodAtOnce(c)
  PROVE  OneShot!Next
<1> USE DEF IInv
<1>1. Outcome[c] = "idle" /\ ran[c] = 0 /\ c \notin cancelled
  BY DEF Outcome, Sequel, CallMethodFails, CallMethodInProgress, CallMethodAtOnce
<1>2. UNCHANGED <<canceled, ran, cancelled, reply>>
  BY DEF CallMethodFails, CallMethodInProgress, CallMethodAtOnce, ctrlVars, OnConnect
<1>3. \A d \in Calls \ {c} : conn'[d] = conn[d]
  BY DEF CallMethodFails, CallMethodInProgress, CallMethodAtOnce, TypeOK
<1>4. conn'[c] \in {"unused", "connecting", "down", "up"}
  BY DEF CallMethodFails, CallMethodInProgress, CallMethodAtOnce, TypeOK
<1>5. Outcome' = [Outcome EXCEPT ![c] = Outcome'[c]]
  <2>1. \A d \in Calls \ {c} : Outcome'[d] = Outcome[d]
    BY <1>2, <1>3, OutcomeKept
  <2>2. QED
    BY <2>1, OutcomeMoves
<1>6. Outcome'[c] \in {"open", "refused"}
  BY <1>1, <1>2, <1>4 DEF Outcome, Ended
<1>7. OneShot!Start(c)
  BY <1>1, <1>2, <1>5, <1>6 DEF OneShot!Start, OneShot!Moves
<1>8. QED
  BY <1>7 DEF OneShot!Next

(* A reply ends an open call and leaves one that has timed out as it is.   *)
LEMMA ReplyEnds ==
  ASSUME IInv, IInv', NEW c \in Calls, OnReply(c)
  PROVE  OneShot!Next \/ UNCHANGED OneShot!vars
<1> USE DEF IInv
<1>1. Called(c) /\ c \notin cancelled /\ reply[c] # "none"
  BY DEF OnReply, Sequel, Called
<1>2. /\ UNCHANGED <<conn, reply, canceled>>
      /\ cancelled' = cancelled \cup {c}
      /\ ran' = IF reply[c] = "ok" THEN RunUnlessTimedOut(c) ELSE ran
  BY DEF OnReply, Failure, TypeOK
<1>3. \A d \in Calls \ {c} : Outcome'[d] = Outcome[d]
  BY <1>2 DEF Outcome, Ended, RunUnlessTimedOut, TypeOK
<1>4. Outcome' = [Outcome EXCEPT ![c] = Outcome'[c]]
  BY <1>3, OutcomeMoves
<1>5. CASE ran[c] > 0
  <2>1. canceled[c]
    BY <1>1, <1>5 DEF Sequel
  <2>2. ran' = ran
    BY <1>2, <2>1 DEF RunUnlessTimedOut
  <2>3. Outcome'[c] = Outcome[c]
    BY <1>2, <1>5, <2>2 DEF Outcome, Ended, TypeOK
  <2>4. QED
    BY <1>2, <1>3, <2>2, <2>3 DEF OneShot!vars, Outcome
<1>6. CASE ran[c] = 0
  <2>1. Outcome[c] = "open"
    BY <1>1, <1>6, OutcomeOf
  <2>2. CASE reply[c] # "ok"
    <3>1. ran' = ran /\ Outcome'[c] = "failed"
      BY <1>1, <1>2, <1>6, <2>2 DEF Outcome, Ended, Called
    <3>2. OneShot!Fail(c)
      BY <1>2, <1>4, <2>1, <3>1 DEF OneShot!Fail, OneShot!Moves
    <3>3. QED
      BY <3>2 DEF OneShot!Next
  <2>3. CASE reply[c] = "ok"
    <3>1. ran' = IF canceled[c] THEN ran ELSE [ran EXCEPT ![c] = @ + 1]
      BY <1>2, <2>3 DEF RunUnlessTimedOut
    <3>2. Outcome'[c] = IF canceled[c] THEN "dropped" ELSE "done"
      BY <1>1, <1>2, <1>6, <2>3, <3>1 DEF Outcome, Ended, Called, TypeOK
    <3>3. OneShot!Respond(c)
      BY <1>2, <1>4, <2>1, <3>1, <3>2 DEF OneShot!Respond, OneShot!Moves
    <3>4. QED
      BY <3>3 DEF OneShot!Next
  <2>4. QED
    BY <2>2, <2>3
<1>7. QED
  BY <1>5, <1>6 DEF TypeOK

(* The calls that onTimer takes are open, and done when their callbacks    *)
(* have run.                                                               *)
LEMMA TimeoutsEnd ==
  ASSUME IInv, IInv', NEW due \in 1..Len(pending), NEW taken \in 0..Len(pending),
         OnTimer(due, taken)
  PROVE  OneShot!Next \/ UNCHANGED OneShot!vars
<1> USE DEF IInv
<1> DEFINE timedOut == {pending[i] : i \in 1..taken}
<1>1. ASSUME NEW c \in timedOut
      PROVE  c \in Calls /\ Called(c) /\ ran[c] = 0 /\ c \notin cancelled
  <2>1. PICK i \in 1..taken : pending[i] = c
    OBVIOUS
  <2>2. i \in 1..Len(pending) /\ pending[i] \notin cancelled
    BY <2>1 DEF OnTimer, Takes
  <2>3. InTimer(c) /\ c \in Calls /\ c \notin cancelled
    BY <2>1, <2>2 DEF InTimer, TypeOK
  <2>4. QED
    BY <2>3 DEF Sequel, Called
<1>2. /\ UNCHANGED <<conn, reply, cancelled>>
      /\ canceled' = [c \in Calls |-> canceled[c] \/ c \in timedOut]
      /\ ran' = [c \in Calls |-> IF c \in timedOut THEN ran[c] + 1 ELSE ran[c]]
  BY DEF OnTimer
<1>3. \A c \in timedOut : Outcome[c] = "open"
  BY <1>1, OutcomeOf
<1>4. Outcome' = [c \in Calls |-> IF c \in timedOut THEN "done" ELSE Outcome[c]]
  <2>1. ASSUME NEW c \in Calls
        PROVE  Outcome'[c] = IF c \in timedOut THEN "done" ELSE Outcome[c]
    <3>1. CASE c \in timedOut
      BY <1>1, <1>2, <3>1 DEF Outcome, Ended, Called
    <3>2. CASE c \notin timedOut
      BY <1>2, <3>2, OutcomeKept
    <3>3. QED
      BY <3>1, <3>2
  <2>2. Outcome' = [c \in Calls |-> Outcome'[c]]
    BY DEF Outcome
  <2>3. QED
    BY <2>1, <2>2
<1>5. CASE timedOut = {}
  <2>1. ran' = ran /\ canceled' = canceled /\ Outcome' = Outcome
    <3>1. Outcome' = [c \in Calls |-> Outcome[c]]
      BY <1>4, <1>5
    <3>2. Outcome = [c \in Calls |-> Outcome[c]]
      BY DEF Outcome
    <3>3. canceled' = [c \in Calls |-> canceled[c]]
      BY <1>2, <1>5 DEF TypeOK
    <3>4. ran' = [c \in Calls |-> ran[c]]
      BY <1>2, <1>5
    <3>5. QED
      BY <3>1, <3>2, <3>3, <3>4 DEF TypeOK
  <2>2. QED
    BY <2>1 DEF OneShot!vars
<1>6. CASE timedOut # {}
  <2>1. timedOut \in SUBSET Calls
    BY <1>1
  <2>2. OneShot!TimeOut(timedOut)
    BY <1>2, <1>3, <1>4, <1>6 DEF OneShot!TimeOut
  <2>3. QED
    BY <2>1, <2>2 DEF OneShot!Next
<1>7. QED
  BY <1>5, <1>6

(* RpcChannel implements OneShotCall: a call ends once and for good, for   *)
(* any number of calls in one Timer.                                       *)
THEOREM ImplementsOneShotCall == Spec => CallsEndOnce
<1>1. IInv /\ IInv' /\ [Next]_vars => [OneShot!Next]_(OneShot!vars)
  <2> SUFFICES ASSUME IInv, IInv', [Next]_vars
               PROVE  OneShot!Next \/ UNCHANGED OneShot!vars
    OBVIOUS
  <2>1. ASSUME NEW c \in Calls, Connected(c) \/ OnWrite(c) \/ Reply(c)
        PROVE  UNCHANGED OneShot!vars
    <3>1. UNCHANGED <<cancelled, canceled, ran>>
      BY <2>1 DEF Connected, OnConnect, OnWrite, Reply, ctrlVars
    <3>2. \A d \in Calls : \/ conn'[d] = conn[d]
                           \/ Called(d) /\ conn'[d] \in {"up", "down"}
      BY <2>1 DEF Connected, OnWrite, Reply, Called, IInv, TypeOK
    <3>3. \A d \in Calls : d \in cancelled => reply'[d] = reply[d]
      BY <2>1 DEF Connected, OnWrite, Reply, Called, IInv, TypeOK, Sequel
    <3>4. \A d \in Calls : Outcome'[d] = Outcome[d]
      <4>1. ASSUME NEW d \in Calls PROVE conn'[d] = conn[d] \/ (Called(d) /\ Called(d)')
        BY <3>2 DEF Called
      <4>2. QED
        BY <3>1, <3>3, <4>1, OutcomeKept DEF IInv
    <3>5. QED
      BY <3>1, <3>4 DEF OneShot!vars, Outcome
  <2>2. ASSUME NEW c \in Calls, StartCancel(c) PROVE OneShot!Next
    <3>1. Outcome' = Outcome /\ ran' = ran
      BY <2>2 DEF StartCancel, Outcome, Ended
    <3>2. Outcome[c] \notin {"idle", "refused"}
      BY <2>2 DEF StartCancel, Outcome, Ended, IInv, TypeOK
    <3>3. OneShot!Cancel(c)
      BY <2>2, <3>1, <3>2 DEF StartCancel, OneShot!Cancel
    <3>4. QED
      BY <3>3 DEF OneShot!Next
  <2>3. CASE UNCHANGED vars
    BY <2>3 DEF vars, ctrlVars, OneShot!vars, Outcome, Ended
  <2>4. QED
    BY <2>1, <2>2, <2>3, StartsOpen, ReplyEnds, TimeoutsEnd DEF Next
<1>2. QED
  BY <1>1, InitOneShot, Invariant, PTL DEF Spec, CallsEndOnce, OneShot!Spec
=============================================================================
