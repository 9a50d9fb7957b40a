---------------------------- MODULE LoggerProofs ----------------------------
(***************************************************************************)
(* Proofs about Logger, for all MaxLines.  Every step either leaves the    *)
(* places of a log's lines alone or moves lines from one to the next       *)
(* (Moved); so what the places hold, one after the other, stays the lines  *)
(* in the order they were pushed (OrderInv), no place holds more than were *)
(* pushed (LoadInv), and no line is in two places (SpreadInv): so Logger   *)
(* implements LineLog.                                                     *)
(***************************************************************************)
EXTENDS Logger, SequenceLemmas

(* The numbers of lines, and the values of the control variables.          *)
Line(l) == 1..MaxLines[l] + 1
ThreadStates == {"check", "wait", "write", "written", "ended", "interrupted"}
SyncStates == {"idle", "rpc-swapped", "rpc-pushed", "app-swapped", "interrupted"}
HandlerStates == {"none", "logging", "idle", "rpc-swapped", "rpc-pushed", "app-swapped",
                  "stop-rpc", "stop-app", "join-rpc", "join-app", "exited"}
Swapped(l) == IF l = "rpc" THEN "rpc-swapped" ELSE "app-swapped"

(* Where the threads and the handler are.                                  *)
ControlInv ==
  /\ thread \in [Logs -> ThreadStates] /\ stop \in [Logs -> BOOLEAN]
  /\ syncing \in SyncStates /\ handler \in HandlerStates
  /\ handler = "none" => syncing # "interrupted"
  /\ held \in {{}} \cup {{m} : m \in Mutexes}

(* The variables that hold lines.                                          *)
PlacesTyped ==
  /\ pushed \in [Logs -> Nat]
  /\ file \in [Logs -> Seq(Nat)] /\ writing \in [Logs -> Seq(Nat)]
  /\ batches \in [Logs -> Seq(Seq(Nat))]
  /\ carried \in [Syncers -> [Logs -> Seq(Nat)]] /\ buffer \in [Logs -> Seq(Nat)]

(* The bound on pushed leaves the handler its line.                        *)
PlacesInv ==
  /\ PlacesTyped
  /\ handler \in {"none", "logging"} => pushed["rpc"] <= MaxLines["rpc"]

(* A batch is carried only between its swap and its push, and being        *)
(* written only until it is written.                                       *)
EmptyInv ==
  \A l \in Logs :
    /\ writing[l] # <<>> => thread[l] \in {"write", "interrupted"}
    /\ carried["loop"][l] # <<>> => syncing \in {Swapped(l), "interrupted"}
    /\ carried["handler"][l] # <<>> => handler = Swapped(l)

StateInv == ControlInv /\ PlacesInv /\ EmptyInv

-----------------------------------------------------------------------------
(* A syncLoop that goes on.                                                *)
Acts(s) == IF s = "loop" THEN syncing # "interrupted" ELSE handler # "none"

(* What a step does to the lines of a log: nothing, or it moves lines from *)
(* one place to the next.                                                  *)
Kept(l) ==
  /\ pushed'[l] = pushed[l] /\ buffer'[l] = buffer[l]
  /\ \A s \in Syncers : carried'[s][l] = carried[s][l]
  /\ batches'[l] = batches[l] /\ writing'[l] = writing[l] /\ file'[l] = file[l]

Pushed(l) ==
  /\ pushed[l] <= MaxLines[l]
  /\ pushed'[l] = pushed[l] + 1 /\ buffer'[l] = Append(buffer[l], pushed[l] + 1)
  /\ \A s \in Syncers : carried'[s][l] = carried[s][l]
  /\ batches'[l] = batches[l] /\ writing'[l] = writing[l] /\ file'[l] = file[l]

SwappedOut(s, l) ==
  /\ Acts(s) /\ carried[s][l] = <<>>
  /\ carried'[s][l] = buffer[l] /\ buffer'[l] = <<>>
  /\ \A t \in Syncers \ {s} : carried'[t][l] = carried[t][l]
  /\ pushed'[l] = pushed[l]
  /\ batches'[l] = batches[l] /\ writing'[l] = writing[l] /\ file'[l] = file[l]

Batched(s, l) ==
  /\ Acts(s)
  /\ batches'[l] = Append(batches[l], carried[s][l]) /\ carried'[s][l] = <<>>
  /\ \A t \in Syncers \ {s} : carried'[t][l] = carried[t][l]
  /\ pushed'[l] = pushed[l] /\ buffer'[l] = buffer[l]
  /\ writing'[l] = writing[l] /\ file'[l] = file[l]

Taken(l) ==
  /\ writing[l] = <<>> /\ batches[l] # <<>>
  /\ writing'[l] = Head(batches[l]) /\ batches'[l] = Tail(batches[l])
  /\ pushed'[l] = pushed[l] /\ buffer'[l] = buffer[l] /\ file'[l] = file[l]
  /\ \A s \in Syncers : carried'[s][l] = carried[s][l]

Written(l) ==
  /\ file'[l] = file[l] \o writing[l] /\ writing'[l] = <<>>
  /\ pushed'[l] = pushed[l] /\ buffer'[l] = buffer[l] /\ batches'[l] = batches[l]
  /\ \A s \in Syncers : carried'[s][l] = carried[s][l]

Moved(l) ==
  \/ Kept(l) \/ Pushed(l) \/ Taken(l) \/ Written(l)
  \/ \E s \in Syncers : SwappedOut(s, l) \/ Batched(s, l)

(* The steps of syncLoop one by one.                                       *)
SyncsTo(s, from, to) ==
  \E l \in Logs :
    \/ /\ from = IF l = "rpc" THEN "idle" ELSE "rpc-pushed"
       /\ to = Swapped(l) /\ SwapOut(s, l)
    \/ /\ from = Swapped(l) /\ to = (IF l = "rpc" THEN "rpc-pushed" ELSE "idle")
       /\ PushBatch(s, l)

LEMMA SyncStepIs ==
  ASSUME NEW s \in Syncers, NEW step \in SyncSteps, SyncStep(s, step[1])
  PROVE  SyncsTo(s, step[1], step[2])
<1>1. CASE step = <<"idle", "rpc-swapped">>
  <2>1. SwapOut(s, "rpc")
    BY <1>1 DEF SyncStep
  <2>2. QED
    BY <1>1, <2>1 DEF SyncsTo, Swapped, Logs
<1>2. CASE step = <<"rpc-swapped", "rpc-pushed">>
  <2>1. PushBatch(s, "rpc")
    BY <1>2 DEF SyncStep
  <2>2. QED
    BY <1>2, <2>1 DEF SyncsTo, Swapped, Logs
<1>3. CASE step = <<"rpc-pushed", "app-swapped">>
  <2>1. SwapOut(s, "app")
    BY <1>3 DEF SyncStep
  <2>2. QED
    BY <1>3, <2>1 DEF SyncsTo, Swapped, Logs
<1>4. CASE step = <<"app-swapped", "idle">>
  <2>1. PushBatch(s, "app")
    BY <1>4 DEF SyncStep
  <2>2. QED
    BY <1>4, <2>1 DEF SyncsTo, Swapped, Logs
<1>5. QED
  BY <1>1, <1>2, <1>3, <1>4 DEF SyncSteps

(* The step of the event loop is one of syncLoop.                          *)
LEMMA SyncLoopIs ==
  ASSUME SyncLoop
  PROVE  SyncsTo("loop", syncing, syncing')
<1>1. PICK step \in SyncSteps : syncing = step[1] /\ SyncStep("loop", step[1]) /\ syncing' = step[2]
  BY DEF SyncLoop
<1>2. QED
  BY <1>1, SyncStepIs DEF Syncers

(* And so is one of flush.                                                 *)
LEMMA FlushSyncIs ==
  ASSUME FlushSync
  PROVE  \E to : /\ SyncsTo("handler", handler, to)
                 /\ handler' = IF to = "idle" THEN "stop-rpc" ELSE to
<1>1. PICK step \in SyncSteps :
        /\ handler = step[1] /\ SyncStep("handler", step[1])
        /\ handler' = IF step[2] = "idle" THEN "stop-rpc" ELSE step[2]
  BY DEF FlushSync
<1>2. QED
  BY <1>1, SyncStepIs DEF Syncers

-----------------------------------------------------------------------------
(* A push adds a line.                                                     *)
LEMMA PushMoves ==
  ASSUME StateInv, NEW k \in Logs, Push(k), pushed[k] <= MaxLines[k],
         UNCHANGED <<carried, batches, writing, file>>, NEW l \in Logs
  PROVE  Moved(l)
<1> USE DEF StateInv, PlacesInv, PlacesTyped
<1>1. CASE l = k
  <2>1. Pushed(l)
    BY <1>1 DEF Push, Pushed
  <2>2. QED
    BY <2>1 DEF Moved
<1>2. CASE l # k
  <2>1. Kept(l)
    BY <1>2 DEF Push, Kept
  <2>2. QED
    BY <2>1 DEF Moved
<1>3. QED
  BY <1>1, <1>2

(* syncLoop moves a batch, and finds what it carries it in empty.          *)
LEMMA SyncMoves ==
  ASSUME StateInv, NEW s \in Syncers, NEW from, NEW to, SyncsTo(s, from, to), Acts(s),
         s = "loop" => from = syncing, s = "handler" => from = handler,
         UNCHANGED <<pushed, writing, file>>, NEW l \in Logs
  PROVE  Moved(l)
<1> USE DEF StateInv, PlacesInv, PlacesTyped
<1>1. \A k \in Logs : carried[s][k] # <<>> => from = Swapped(k)
  BY DEF EmptyInv, Acts, Syncers
<1>2. ASSUME NEW k \in Logs, SwapOut(s, k), from = IF k = "rpc" THEN "idle" ELSE "rpc-pushed"
      PROVE  Moved(l)
  <2>1. carried[s][k] = <<>>
    BY <1>1, <1>2 DEF Swapped, Logs
  <2>2. CASE l = k
    <3>1. SwappedOut(s, l)
      BY <1>2, <2>1, <2>2 DEF SwapOut, SwappedOut
    <3>2. QED
      BY <3>1 DEF Moved
  <2>3. CASE l # k
    <3>1. Kept(l)
      BY <1>2, <2>3 DEF SwapOut, Kept
    <3>2. QED
      BY <3>1 DEF Moved
  <2>4. QED
    BY <2>2, <2>3
<1>3. ASSUME NEW k \in Logs, PushBatch(s, k) PROVE Moved(l)
  <2>1. CASE l = k /\ carried[s][k] # <<>>
    <3>1. Batched(s, l)
      BY <1>3, <2>1 DEF PushBatch, Batched
    <3>2. QED
      BY <3>1 DEF Moved
  <2>2. CASE l = k /\ carried[s][k] = <<>>
    <3>1. Kept(l)
      BY <1>3, <2>2 DEF PushBatch, Kept
    <3>2. QED
      BY <3>1 DEF Moved
  <2>3. CASE l # k
    <3>1. Kept(l)
      BY <1>3, <2>3 DEF PushBatch, Kept
    <3>2. QED
      BY <3>1 DEF Moved
  <2>4. QED
    BY <2>1, <2>2, <2>3
<1>4. QED
  BY <1>2, <1>3 DEF SyncsTo

(* The thread of an AsyncLogger moves a batch to the file.                 *)
LEMMA AsyncMoves ==
  ASSUME StateInv, NEW k \in Logs, Async(k), NEW l \in Logs
  PROVE  Moved(l)
<1> USE DEF StateInv, PlacesInv, PlacesTyped
<1>1. CASE Wait(k) \/ TestStop(k)
  <2>1. Kept(l)
    BY <1>1 DEF Wait, TestStop, Kept
  <2>2. QED
    BY <2>1 DEF Moved
<1>2. CASE Take(k)
  <2>1. CASE l = k
    <3>1. writing[l] = <<>>
      BY <1>2, <2>1 DEF Take, EmptyInv
    <3>2. Taken(l)
      BY <1>2, <2>1, <3>1 DEF Take, Taken
    <3>3. QED
      BY <3>2 DEF Moved
  <2>2. CASE l # k
    <3>1. Kept(l)
      BY <1>2, <2>2 DEF Take, Kept
    <3>2. QED
      BY <3>1 DEF Moved
  <2>3. QED
    BY <2>1, <2>2
<1>3. CASE Write(k)
  <2>1. CASE l = k
    <3>1. Written(l)
      BY <1>3, <2>1 DEF Write, Written
    <3>2. QED
      BY <3>1 DEF Moved
  <2>2. CASE l # k
    <3>1. Kept(l)
      BY <1>3, <2>2 DEF Write, Kept
    <3>2. QED
      BY <3>1 DEF Moved
  <2>3. QED
    BY <2>1, <2>2
<1>4. QED
  BY <1>1, <1>2, <1>3 DEF Async

(* The steps that move no line.                                            *)
Quiet ==
  \/ Signal
  \/ StopLog("rpc", "stop-rpc", "stop-app") \/ StopLog("app", "stop-app", "join-rpc")
  \/ JoinLog("rpc", "join-rpc", "join-app") \/ JoinLog("app", "join-app", "exited")

(* They do not.                                                            *)
LEMMA QuietKeeps ==
  ASSUME Quiet, NEW l \in Logs
  PROVE  Kept(l)
BY DEF Quiet, Signal, StopLog, JoinLog, Kept, threadVars

(* Every step is one of those of Moved.                                    *)
LEMMA StepMoves ==
  ASSUME StateInv, [Next]_vars, NEW l \in Logs
  PROVE  Moved(l)
<1>1. CASE UNCHANGED vars
  BY <1>1 DEF vars, threadVars, Moved, Kept
<1>2. ASSUME NEW k \in Logs, PushLog(k) PROVE Moved(l)
  <2>1. pushed[k] <= MaxLines[k] /\ Push(k) /\ UNCHANGED <<carried, batches, writing, file>>
    BY <1>2, MaxLinesAssumption DEF PushLog, threadVars, StateInv, PlacesInv, PlacesTyped
  <2>2. QED
    BY <2>1, PushMoves
<1>3. ASSUME NEW k \in Logs, Async(k) PROVE Moved(l)
  BY <1>3, AsyncMoves
<1>4. CASE SyncLoop
  <2>1. SyncsTo("loop", syncing, syncing') /\ UNCHANGED <<pushed, writing, file>>
    BY <1>4, SyncLoopIs DEF SyncLoop
  <2>2. Acts("loop")
    BY <2>1 DEF SyncsTo, Acts, Swapped
  <2>3. QED
    BY <2>1, <2>2, SyncMoves DEF Syncers
<1>5. CASE HandlerLogs
  <2>1. pushed["rpc"] <= MaxLines["rpc"] /\ Push("rpc") /\ UNCHANGED <<carried, batches, writing, file>>
    BY <1>5 DEF HandlerLogs, threadVars, StateInv, PlacesInv, PlacesTyped
  <2>2. QED
    BY <2>1, PushMoves DEF Logs
<1>6. CASE FlushSync
  <2>1. PICK to : SyncsTo("handler", handler, to)
    BY <1>6, FlushSyncIs
  <2>2. Acts("handler") /\ UNCHANGED <<pushed, writing, file>>
    BY <1>6, <2>1 DEF SyncsTo, Acts, Swapped, FlushSync
  <2>3. QED
    BY <2>1, <2>2, SyncMoves DEF Syncers
<1>7. CASE Quiet
  BY <1>7, QuietKeeps DEF Moved
<1>8. QED
  BY <1>1, <1>2, <1>3, <1>4, <1>5, <1>6, <1>7 DEF Next, Handle, Quiet

-----------------------------------------------------------------------------
(* The control variables keep their types.                                 *)
LEMMA ControlKept ==
  ASSUME StateInv, [Next]_vars
  PROVE  ControlInv'
<1> USE DEF ControlInv, StateInv
<1>1. CASE UNCHANGED vars
  BY <1>1 DEF vars, threadVars, signalVars
<1>2. ASSUME NEW l \in Logs, PushLog(l) PROVE ControlInv'
  BY <1>2 DEF PushLog, threadVars, signalVars
<1>3. ASSUME NEW l \in Logs, Async(l) PROVE ControlInv'
  BY <1>3 DEF Async, Wait, Take, Write, TestStop, signalVars, ThreadStates
<1>4. ASSUME NEW s \in Syncers, NEW from, NEW to, SyncsTo(s, from, to)
      PROVE  to \in SyncStates \ {"interrupted"} /\ thread' \in [Logs -> ThreadStates]
  BY <1>4 DEF SyncsTo, SwapOut, PushBatch, Woken, Swapped, SyncStates, ThreadStates
<1>5. CASE SyncLoop
  BY <1>4, <1>5, SyncLoopIs DEF SyncLoop, signalVars, Syncers
<1>6. CASE FlushSync
  <2>1. PICK to : /\ SyncsTo("handler", handler, to)
                  /\ handler' = IF to = "idle" THEN "stop-rpc" ELSE to
    BY <1>6, FlushSyncIs
  <2>2. to \in SyncStates \ {"interrupted"} /\ thread' \in [Logs -> ThreadStates]
    BY <1>4, <2>1 DEF Syncers
  <2>3. handler' \in HandlerStates \ {"none"}
    BY <2>1, <2>2 DEF SyncStates, HandlerStates
  <2>4. QED
    BY <1>6, <2>2, <2>3 DEF FlushSync
<1>7. CASE HandlerLogs
  BY <1>7 DEF HandlerLogs, threadVars, HandlerStates
<1>8. CASE Signal
  <2>1. ASSUME NEW from \in {step[1] : step \in SyncSteps}
        PROVE  SyncHolds[from] \subseteq Mutexes
    BY DEF SyncHolds, SyncSteps, Mutexes, Logs
  <2>2. held' \in {{}} \cup {{m} : m \in Mutexes}
    <3>1. CASE held' \in {{}} \cup {{m} : m \in SyncHolds[syncing]}
      <4>1. syncing \in {step[1] : step \in SyncSteps}
        BY <1>8 DEF Signal, SyncStates, SyncSteps
      <4>2. QED
        BY <2>1, <3>1, <4>1
    <3>2. CASE \E l \in Logs : held' = {} \/ held' = {<<"batches", l>>}
      BY <3>2 DEF Mutexes
    <3>3. CASE held' \in {{}} \cup {{m} : m \in {"buffer"} \X Logs}
      BY <3>3 DEF Mutexes
    <3>4. QED
      BY <1>8, <3>1, <3>2, <3>3 DEF Signal, Interrupt
  <2>3. QED
    BY <1>8, <2>2 DEF Signal, Interrupt, HandlerStates, SyncStates, ThreadStates
<1>9. CASE Quiet /\ ~Signal
  BY <1>9 DEF Quiet, StopLog, JoinLog, threadVars, HandlerStates, Logs
<1>10. QED
  BY <1>1, <1>2, <1>3, <1>5, <1>6, <1>7, <1>8, <1>9 DEF Next, Handle, Quiet

-----------------------------------------------------------------------------
(* What is carried or being written stays where it may be.                 *)
LEMMA EmptyKept ==
  ASSUME StateInv, [Next]_vars
  PROVE  EmptyInv'
<1> USE DEF StateInv, EmptyInv, PlacesInv, PlacesTyped
<1>1. CASE UNCHANGED vars
  BY <1>1 DEF vars, threadVars, signalVars
<1>2. ASSUME NEW l \in Logs, PushLog(l) PROVE EmptyInv'
  BY <1>2 DEF PushLog, threadVars, signalVars
<1>3. ASSUME NEW l \in Logs, Async(l) PROVE EmptyInv'
  BY <1>3 DEF Async, Wait, Take, Write, TestStop, signalVars, ControlInv
<1>4. ASSUME NEW s \in Syncers, NEW from, NEW to, SyncsTo(s, from, to)
      PROVE  /\ \A t \in Syncers \ {s}, k \in Logs : carried'[t][k] = carried[t][k]
             /\ \A k \in Logs : carried'[s][k] # <<>> =>
                  to = Swapped(k) \/ (carried[s][k] # <<>> /\ from # Swapped(k))
             /\ \A k \in Logs : writing[k] # <<>> => thread'[k] = thread[k]
  <2>1. ASSUME NEW l \in Logs, SwapOut(s, l), to = Swapped(l),
               from = IF l = "rpc" THEN "idle" ELSE "rpc-pushed"
        PROVE  /\ \A t \in Syncers \ {s}, k \in Logs : carried'[t][k] = carried[t][k]
               /\ \A k \in Logs : carried'[s][k] # <<>> =>
                    to = Swapped(k) \/ (carried[s][k] # <<>> /\ from # Swapped(k))
               /\ \A k \in Logs : writing[k] # <<>> => thread'[k] = thread[k]
    BY <2>1 DEF SwapOut, Swapped
  <2>2. ASSUME NEW l \in Logs, PushBatch(s, l), from = Swapped(l)
        PROVE  /\ \A t \in Syncers \ {s}, k \in Logs : carried'[t][k] = carried[t][k]
               /\ \A k \in Logs : carried'[s][k] # <<>> =>
                    to = Swapped(k) \/ (carried[s][k] # <<>> /\ from # Swapped(k))
               /\ \A k \in Logs : writing[k] # <<>> => thread'[k] = thread[k]
    BY <2>2 DEF PushBatch, Swapped, Woken, ControlInv, Logs
  <2>3. QED
    BY <1>4, <2>1, <2>2 DEF SyncsTo
<1>5. CASE SyncLoop
  <2>1. SyncsTo("loop", syncing, syncing') /\ writing' = writing /\ handler' = handler
    BY <1>5, SyncLoopIs DEF SyncLoop, signalVars
  <2>2. syncing # "interrupted"
    BY <2>1 DEF SyncsTo, Swapped
  <2> USE DEF Syncers
  <2>3. ASSUME NEW l \in Logs
        PROVE  /\ writing'[l] # <<>> => thread'[l] \in {"write", "interrupted"}
               /\ carried'["handler"][l] # <<>> => handler' = Swapped(l)
    BY <1>4, <2>1
  <2>4. ASSUME NEW l \in Logs, carried'["loop"][l] # <<>> PROVE syncing' = Swapped(l)
    <3>1. syncing' = Swapped(l) \/ (carried["loop"][l] # <<>> /\ syncing # Swapped(l))
      BY <1>4, <2>1, <2>4
    <3>2. QED
      BY <2>2, <3>1
  <2>5. QED
    BY <2>3, <2>4
<1>6. CASE FlushSync
  <2>1. PICK to : /\ SyncsTo("handler", handler, to)
                  /\ handler' = IF to = "idle" THEN "stop-rpc" ELSE to
    BY <1>6, FlushSyncIs
  <2>2. writing' = writing /\ syncing' = syncing
    BY <1>6 DEF FlushSync
  <2> USE DEF Syncers
  <2>3. ASSUME NEW l \in Logs
        PROVE  /\ writing'[l] # <<>> => thread'[l] \in {"write", "interrupted"}
               /\ carried'["loop"][l] # <<>> => syncing' \in {Swapped(l), "interrupted"}
    <3>1. carried'["loop"][l] = carried["loop"][l] /\ (writing[l] # <<>> => thread'[l] = thread[l])
      BY <1>4, <2>1
    <3>2. QED
      BY <2>2, <3>1
  <2>4. ASSUME NEW l \in Logs, carried'["handler"][l] # <<>> PROVE handler' = Swapped(l)
    <3>1. to = Swapped(l) \/ (carried["handler"][l] # <<>> /\ handler # Swapped(l))
      BY <1>4, <2>1, <2>4
    <3>2. to = Swapped(l)
      BY <3>1
    <3>3. QED
      BY <2>1, <3>2 DEF Swapped
  <2>5. QED
    BY <2>3, <2>4
<1>7. CASE HandlerLogs
  BY <1>7 DEF HandlerLogs, threadVars, Swapped
<1>8. CASE Signal
  BY <1>8 DEF Signal, Interrupt, Swapped, ControlInv
<1>9. CASE Quiet /\ ~Signal
  BY <1>9 DEF Quiet, StopLog, JoinLog, threadVars, Swapped
<1>10. QED
  BY <1>1, <1>2, <1>3, <1>5, <1>6, <1>7, <1>8, <1>9 DEF Next, Handle, Quiet

-----------------------------------------------------------------------------
(* The pushes of the handler, of which there is one.                       *)
LEMMA PushedKept ==
  ASSUME StateInv, [Next]_vars
  PROVE  handler' \in {"none", "logging"} => pushed'["rpc"] <= MaxLines["rpc"]
<1> USE DEF StateInv, PlacesInv, PlacesTyped
<1>1. CASE UNCHANGED vars
  BY <1>1 DEF vars, signalVars
<1>2. ASSUME NEW l \in Logs, PushLog(l)
      PROVE  handler' \in {"none", "logging"} => pushed'["rpc"] <= MaxLines["rpc"]
  BY <1>2, MaxLinesAssumption DEF PushLog, Push, signalVars, Logs
<1>3. ASSUME NEW l \in Logs, Async(l)
      PROVE  handler' = handler /\ pushed' = pushed
  BY <1>3 DEF Async, Wait, Take, Write, TestStop, signalVars
<1>4. CASE SyncLoop
  BY <1>4 DEF SyncLoop, signalVars
<1>5. CASE HandlerLogs
  BY <1>5 DEF HandlerLogs
<1>6. CASE FlushSync
  <2>1. handler' \notin {"none", "logging"} /\ pushed' = pushed
    <3>1. PICK to : /\ SyncsTo("handler", handler, to)
                    /\ handler' = IF to = "idle" THEN "stop-rpc" ELSE to
      BY <1>6, FlushSyncIs
    <3>2. to \in {"rpc-swapped", "rpc-pushed", "app-swapped", "idle"}
      BY <3>1 DEF SyncsTo, Swapped
    <3>3. QED
      BY <1>6, <3>1, <3>2 DEF FlushSync
  <2>2. QED
    BY <2>1
<1>7. CASE Quiet
  BY <1>7 DEF Quiet, Signal, StopLog, JoinLog
<1>8. QED
  BY <1>1, <1>2, <1>3, <1>4, <1>5, <1>6, <1>7 DEF Next, Handle, Quiet

(* The variables that hold lines keep their types.                         *)
LEMMA PlacesKept ==
  ASSUME StateInv, [Next]_vars
  PROVE  PlacesInv'
<1> USE DEF StateInv, PlacesInv, PlacesTyped
<1> SUFFICES PlacesTyped'
  BY PushedKept
<1>1. CASE UNCHANGED vars
  BY <1>1 DEF vars, threadVars
<1>2. ASSUME NEW l \in Logs, Push(l), UNCHANGED <<carried, batches, writing, file>>
      PROVE  PlacesTyped'
  <2>1. Append(buffer[l], pushed[l] + 1) \in Seq(Nat) /\ pushed[l] + 1 \in Nat
    OBVIOUS
  <2>2. pushed' = [pushed EXCEPT ![l] = pushed[l] + 1]
        /\ buffer' = [buffer EXCEPT ![l] = Append(buffer[l], pushed[l] + 1)]
    BY <1>2 DEF Push
  <2>3. QED
    BY <1>2, <2>1, <2>2
<1>3. ASSUME NEW l \in Logs, PushLog(l) PROVE PlacesTyped'
  BY <1>2, <1>3 DEF PushLog, threadVars
<1>4. ASSUME NEW l \in Logs, Async(l) PROVE PlacesTyped'
  <2>1. CASE Wait(l) \/ TestStop(l)
    BY <2>1 DEF Wait, TestStop
  <2>2. CASE Take(l)
    <3>1. Head(batches[l]) \in Seq(Nat) /\ Tail(batches[l]) \in Seq(Seq(Nat))
      BY <2>2 DEF Take
    <3>2. QED
      BY <2>2, <3>1 DEF Take
  <2>3. CASE Write(l)
    <3>1. file[l] \o writing[l] \in Seq(Nat) /\ <<>> \in Seq(Nat)
      OBVIOUS
    <3>2. QED
      BY <2>3, <3>1 DEF Write
  <2>4. QED
    BY <1>4, <2>1, <2>2, <2>3 DEF Async
<1>5. ASSUME NEW s \in Syncers, NEW from, NEW to, SyncsTo(s, from, to),
             UNCHANGED <<pushed, writing, file>>
      PROVE  PlacesTyped'
  <2>1. ASSUME NEW l \in Logs, SwapOut(s, l) PROVE PlacesTyped'
    BY <1>5, <2>1 DEF SwapOut
  <2>2. ASSUME NEW l \in Logs, PushBatch(s, l) PROVE PlacesTyped'
    <3>1. Append(batches[l], carried[s][l]) \in Seq(Seq(Nat)) /\ <<>> \in Seq(Nat)
      OBVIOUS
    <3>2. QED
      BY <1>5, <2>2, <3>1 DEF PushBatch
  <2>3. QED
    BY <1>5, <2>1, <2>2 DEF SyncsTo
<1>6. CASE SyncLoop
  BY <1>5, <1>6, SyncLoopIs DEF SyncLoop, Syncers
<1>7. CASE HandlerLogs
  BY <1>2, <1>7 DEF HandlerLogs, threadVars, Logs
<1>8. CASE FlushSync
  BY <1>5, <1>8, FlushSyncIs DEF FlushSync, Syncers
<1>9. CASE Quiet
  BY <1>9 DEF Quiet, Signal, StopLog, JoinLog, threadVars
<1>10. QED
  BY <1>1, <1>3, <1>4, <1>6, <1>7, <1>8, <1>9 DEF Next, Handle, Quiet

(* All three together.                                                     *)
LEMMA StateKept ==
  ASSUME StateInv, [Next]_vars
  PROVE  StateInv'
BY ControlKept, PlacesKept, EmptyKept DEF StateInv

-----------------------------------------------------------------------------
(* Lines as the sequences that are no longer than the lines pushed.        *)
LEMMA LinesAre ==
  ASSUME NEW l \in Logs
  PROVE  /\ Lines(l) = {s \in Seq(Line(l)) : Len(s) <= MaxLines[l] + 1}
         /\ Lines(l) \subseteq Seq(Nat)
<1>1. MaxLines[l] + 1 \in Nat /\ Line(l) \subseteq Nat
  BY MaxLinesAssumption DEF Line
<1>2. ASSUME NEW s \in Lines(l) PROVE s \in Seq(Line(l)) /\ s \in Seq(Nat) /\ Len(s) <= MaxLines[l] + 1
  <2>1. PICK m \in 0..MaxLines[l] + 1 : s \in [1..m -> Line(l)]
    BY <1>2 DEF Lines, BoundedSeq, SeqOf, Line
  <2>2. m \in Nat /\ m <= MaxLines[l] + 1
    BY <1>1, <2>1
  <2>3. s \in Seq(Line(l)) /\ Len(s) = m
    BY <2>1, <2>2
  <2>4. QED
    BY <1>1, <2>2, <2>3
<1>3. ASSUME NEW s \in Seq(Line(l)), Len(s) <= MaxLines[l] + 1 PROVE s \in Lines(l)
  <2>1. s \in [1..Len(s) -> Line(l)] /\ Len(s) \in 0..MaxLines[l] + 1
    BY <1>1, <1>3
  <2>2. QED
    BY <2>1 DEF Lines, BoundedSeq, SeqOf, Line
<1>4. QED
  BY <1>2, <1>3

(* What all places of a log hold together.                                 *)
Load(l) ==
  Len(file[l]) + Len(writing[l]) + Len(FlattenSeq(batches[l]))
    + Len(carried["loop"][l]) + Len(carried["handler"][l]) + Len(buffer[l])

(* They hold no more than was pushed (less, when a signal has lost some),  *)
(* and only lines.                                                         *)
LoadOK(l) ==
  /\ pushed[l] <= MaxLines[l] + 1 /\ Load(l) <= pushed[l]
  /\ file[l] \in Seq(Line(l)) /\ writing[l] \in Seq(Line(l)) /\ buffer[l] \in Seq(Line(l))
  /\ \A s \in Syncers : carried[s][l] \in Seq(Line(l))
  /\ batches[l] \in Seq(Lines(l))

LoadInv == \A l \in Logs : LoadOK(l)

(* The lengths that Load adds are numbers.                                 *)
LEMMA Lengths ==
  ASSUME StateInv, NEW l \in Logs
  PROVE  /\ Len(file[l]) \in Nat /\ Len(writing[l]) \in Nat /\ Len(buffer[l]) \in Nat
         /\ Len(carried["loop"][l]) \in Nat /\ Len(carried["handler"][l]) \in Nat
         /\ FlattenSeq(batches[l]) \in Seq(Nat) /\ Len(FlattenSeq(batches[l])) \in Nat
         /\ pushed[l] \in Nat
<1>1. FlattenSeq(batches[l]) \in Seq(Nat)
  BY FlattenType DEF StateInv, PlacesInv, PlacesTyped
<1>2. QED
  BY <1>1 DEF StateInv, PlacesInv, PlacesTyped, Syncers

(* No move makes the places hold more than was pushed.                     *)
LEMMA LoadKept ==
  ASSUME StateInv, NEW l \in Logs, LoadOK(l), Moved(l)
  PROVE  LoadOK(l)'
<1>0. MaxLines[l] \in Nat
  BY MaxLinesAssumption
<1> DEFINE f == Len(file[l])
           w == Len(writing[l])
           b == Len(FlattenSeq(batches[l]))
           c == Len(carried["loop"][l])
           h == Len(carried["handler"][l])
           u == Len(buffer[l])
           p == pushed[l]
           f2 == Len(file'[l])
           w2 == Len(writing'[l])
           b2 == Len(FlattenSeq(batches'[l]))
           c2 == Len(carried'["loop"][l])
           h2 == Len(carried'["handler"][l])
           u2 == Len(buffer'[l])
           p2 == pushed'[l]
           Typed == /\ file[l] \in Seq(Line(l)) /\ writing[l] \in Seq(Line(l))
                    /\ buffer[l] \in Seq(Line(l)) /\ batches[l] \in Seq(Lines(l))
                    /\ \A s \in Syncers : carried[s][l] \in Seq(Line(l))
           Typed2 == /\ file'[l] \in Seq(Line(l)) /\ writing'[l] \in Seq(Line(l))
                    /\ buffer'[l] \in Seq(Line(l)) /\ batches'[l] \in Seq(Lines(l))
                    /\ \A s \in Syncers : carried'[s][l] \in Seq(Line(l))
           Counts == p2 <= MaxLines[l] + 1 /\ f2 + w2 + b2 + c2 + h2 + u2 <= p2
<1>1. /\ f \in Nat /\ w \in Nat /\ b \in Nat /\ c \in Nat /\ h \in Nat /\ u \in Nat /\ p \in Nat
  BY Lengths
<1>2. p <= MaxLines[l] + 1 /\ f + w + b + c + h + u <= p /\ Typed
  BY DEF LoadOK, Load
<1>3. SUFFICES Counts /\ Typed2
  BY DEF LoadOK, Load
<1>e. <<>> \in Seq(Line(l)) /\ Len(<<>>) = 0
  OBVIOUS
<1>4. CASE Kept(l)
  <2>1. f2 = f /\ w2 = w /\ b2 = b /\ c2 = c /\ h2 = h /\ u2 = u /\ p2 = p
    BY <1>4, Zenon DEF Kept, Syncers
  <2>2. Typed2
    BY <1>2, <1>4 DEF Kept
  <2> HIDE DEF f, w, b, c, h, u, p, f2, w2, b2, c2, h2, u2, p2
  <2>3. QED
    BY <1>0, <1>1, <1>2, <2>1, <2>2
<1>5. CASE Pushed(l)
  <2>1. f2 = f /\ w2 = w /\ b2 = b /\ c2 = c /\ h2 = h /\ p2 = p + 1 /\ p <= MaxLines[l]
    BY <1>5, Zenon DEF Pushed, Syncers
  <2>2. buffer'[l] = Append(buffer[l], p + 1) /\ p + 1 \in Line(l)
    BY <1>0, <1>1, <1>5 DEF Pushed, Line
  <2>3. u2 = u + 1 /\ buffer'[l] \in Seq(Line(l))
    <3> HIDE DEF p
    <3>1. QED
      BY <1>2, <2>2, AppendProperties
  <2>4. Typed2
    <3>1. /\ file'[l] = file[l] /\ writing'[l] = writing[l] /\ batches'[l] = batches[l]
          /\ \A s \in Syncers : carried'[s][l] = carried[s][l]
      BY <1>5, Zenon DEF Pushed
    <3>2. QED
      BY <1>2, <2>3, <3>1, Zenon
  <2> HIDE DEF f, w, b, c, h, u, p, f2, w2, b2, c2, h2, u2, p2
  <2>5. QED
    BY <1>0, <1>1, <1>2, <2>1, <2>3, <2>4
<1>6. CASE Taken(l)
  <2>1. f2 = f /\ c2 = c /\ h2 = h /\ u2 = u /\ p2 = p /\ writing[l] = <<>>
    BY <1>6, Zenon DEF Taken, Syncers
  <2>2. /\ batches[l] # <<>> /\ Len(batches[l]) # 0
        /\ writing'[l] = Head(batches[l]) /\ batches'[l] = Tail(batches[l])
    BY <1>6 DEF Taken, StateInv, PlacesInv, PlacesTyped
  <2>3. writing'[l] \in Seq(Nat) /\ batches'[l] \in Seq(Seq(Nat))
    BY <2>2 DEF StateInv, PlacesInv, PlacesTyped
  <2>4. FlattenSeq(batches[l]) = writing'[l] \o FlattenSeq(batches'[l])
    BY <2>2, FlattenTail, Zenon DEF StateInv, PlacesInv, PlacesTyped
  <2>5. FlattenSeq(batches'[l]) \in Seq(Nat)
    BY <2>3, FlattenType
  <2>6. Joins(Nat, writing'[l], FlattenSeq(batches'[l]))
    BY <2>3, <2>5, Joined, Zenon
  <2>7. b = w2 + b2 /\ w2 \in Nat /\ b2 \in Nat
    BY <2>4, <2>6, Zenon DEF Joins
  <2>8. w = 0
    BY <2>1
  <2>9. writing'[l] \in Lines(l) /\ batches'[l] \in Seq(Lines(l))
    BY <1>2, <2>2, HeadTailProperties
  <2>10. writing'[l] \in Seq(Line(l))
    BY <2>9, LinesAre
  <2>11. Typed2
    <3>1. /\ file'[l] = file[l] /\ buffer'[l] = buffer[l]
          /\ \A s \in Syncers : carried'[s][l] = carried[s][l]
      BY <1>6, Zenon DEF Taken
    <3>2. QED
      BY <1>2, <2>9, <2>10, <3>1, Zenon
  <2> HIDE DEF f, w, b, c, h, u, p, f2, w2, b2, c2, h2, u2, p2
  <2>12. QED
    BY <1>0, <1>1, <1>2, <2>1, <2>7, <2>8, <2>11
<1>7. CASE Written(l)
  <2>1. b2 = b /\ c2 = c /\ h2 = h /\ u2 = u /\ p2 = p /\ w2 = 0
    <3>1. /\ batches'[l] = batches[l] /\ buffer'[l] = buffer[l] /\ writing'[l] = <<>>
          /\ pushed'[l] = pushed[l]
          /\ \A s \in Syncers : carried'[s][l] = carried[s][l]
      BY <1>7, Zenon DEF Written
    <3>2. QED
      BY <1>e, <3>1, Zenon DEF Syncers
  <2>2. Joins(Line(l), file[l], writing[l]) /\ file'[l] = file[l] \o writing[l]
    BY <1>2, <1>7, Joined, Zenon DEF Written
  <2>3. f2 = f + w /\ file'[l] \in Seq(Line(l))
    BY <2>2, Zenon DEF Joins
  <2>4. Typed2
    <3>1. /\ batches'[l] = batches[l] /\ buffer'[l] = buffer[l] /\ writing'[l] = <<>>
          /\ \A s \in Syncers : carried'[s][l] = carried[s][l]
      BY <1>7, Zenon DEF Written
    <3>2. QED
      BY <1>2, <1>e, <2>3, <3>1, Zenon
  <2> HIDE DEF f, w, b, c, h, u, p, f2, w2, b2, c2, h2, u2, p2
  <2>5. QED
    BY <1>0, <1>1, <1>2, <2>1, <2>3, <2>4
<1>8. ASSUME NEW s \in Syncers, SwappedOut(s, l) PROVE Counts /\ Typed2
  <2>1. f2 = f /\ w2 = w /\ b2 = b /\ p2 = p /\ u2 = 0
    <3>1. /\ file'[l] = file[l] /\ writing'[l] = writing[l] /\ batches'[l] = batches[l]
          /\ pushed'[l] = pushed[l] /\ buffer'[l] = <<>>
      BY <1>8, Zenon DEF SwappedOut
    <3>2. QED
      BY <1>e, <3>1, Zenon
  <2>2. \/ c = 0 /\ c2 = u /\ h2 = h
        \/ h = 0 /\ h2 = u /\ c2 = c
    <3>1. /\ carried[s][l] = <<>> /\ carried'[s][l] = buffer[l]
          /\ \A t \in Syncers \ {s} : carried'[t][l] = carried[t][l]
      BY <1>8, Zenon DEF SwappedOut
    <3>2. CASE s = "loop"
      <4>1. "handler" \in Syncers \ {s}
        BY <3>2 DEF Syncers
      <4>2. QED
        BY <1>e, <3>1, <3>2, <4>1, Zenon
    <3>3. CASE s = "handler"
      <4>1. "loop" \in Syncers \ {s}
        BY <3>3 DEF Syncers
      <4>2. QED
        BY <1>e, <3>1, <3>3, <4>1, Zenon
    <3>4. QED
      BY <3>2, <3>3 DEF Syncers
  <2>3. Typed2
    <3>1. /\ carried'[s][l] = buffer[l] /\ buffer'[l] = <<>>
          /\ \A t \in Syncers \ {s} : carried'[t][l] = carried[t][l]
          /\ batches'[l] = batches[l] /\ writing'[l] = writing[l] /\ file'[l] = file[l]
      BY <1>8, Zenon DEF SwappedOut
    <3>2. \A t \in Syncers : carried'[t][l] \in Seq(Line(l))
      BY <1>2, <3>1, Zenon
    <3>3. QED
      BY <1>2, <1>e, <3>1, <3>2, Zenon
  <2> HIDE DEF f, w, b, c, h, u, p, f2, w2, b2, c2, h2, u2, p2, Typed2
  <2>4. QED
    BY <1>0, <1>1, <1>2, <2>1, <2>2, <2>3
<1>9. ASSUME NEW s \in Syncers, Batched(s, l) PROVE Counts /\ Typed2
  <2> DEFINE x == Len(carried[s][l])
  <2>1. f2 = f /\ w2 = w /\ u2 = u /\ p2 = p
    BY <1>9, Zenon DEF Batched
  <2>2. /\ carried'[s][l] = <<>> /\ batches'[l] = Append(batches[l], carried[s][l])
        /\ \A t \in Syncers \ {s} : carried'[t][l] = carried[t][l]
        /\ writing'[l] = writing[l] /\ file'[l] = file[l] /\ buffer'[l] = buffer[l]
    BY <1>9, Zenon DEF Batched
  <2>3. \/ x = c /\ c2 = 0 /\ h2 = h
        \/ x = h /\ h2 = 0 /\ c2 = c
    <3>1. CASE s = "loop"
      <4>1. "handler" \in Syncers \ {s}
        BY <3>1 DEF Syncers
      <4>2. QED
        BY <1>e, <2>2, <3>1, <4>1, Zenon
    <3>2. CASE s = "handler"
      <4>1. "loop" \in Syncers \ {s}
        BY <3>2 DEF Syncers
      <4>2. QED
        BY <1>e, <2>2, <3>2, <4>1, Zenon
    <3>3. QED
      BY <3>1, <3>2 DEF Syncers
  <2>4. batches[l] \in Seq(Seq(Nat)) /\ carried[s][l] \in Seq(Nat)
    BY DEF StateInv, PlacesInv, PlacesTyped
  <2>5. FlattenSeq(batches'[l]) = FlattenSeq(batches[l]) \o carried[s][l]
    BY <2>2, <2>4, FlattenAppend
  <2>6. Joins(Nat, FlattenSeq(batches[l]), carried[s][l])
    BY <2>4, Lengths, Joined, Zenon
  <2>7. b2 = b + x /\ x \in Nat
    BY <2>5, <2>6, Zenon DEF Joins
  <2>8. x <= MaxLines[l] + 1 /\ Counts
    <3> HIDE DEF f, w, b, c, h, u, p, f2, w2, b2, c2, h2, u2, p2, x
    <3>1. QED
      BY <1>0, <1>1, <1>2, <2>1, <2>3, <2>7
  <2>9. carried[s][l] \in Lines(l)
    BY <1>2, <2>8, LinesAre
  <2>10. batches'[l] \in Seq(Lines(l))
    BY <1>2, <2>2, <2>9, AppendProperties
  <2>11. \A t \in Syncers : carried'[t][l] \in Seq(Line(l))
    BY <1>2, <1>e, <2>2, Zenon
  <2>12. QED
    BY <1>2, <2>2, <2>8, <2>10, <2>11, Zenon
<1>10. QED
  BY <1>4, <1>5, <1>6, <1>7, <1>8, <1>9 DEF Moved

(* In the beginning all places are empty.                                  *)
LEMMA InitLoad ==
  ASSUME Init
  PROVE  StateInv /\ LoadInv
<1>1. \A l \in Logs : MaxLines[l] \in Nat
  BY MaxLinesAssumption
<1>2. ControlInv
  BY DEF Init, ControlInv, ThreadStates, SyncStates, HandlerStates
<1>3. PlacesInv
  BY <1>1 DEF Init, PlacesInv, PlacesTyped, Logs
<1>4. EmptyInv
  BY DEF Init, EmptyInv, Syncers
<1>5. ASSUME NEW l \in Logs PROVE LoadOK(l)
  <2>1. /\ pushed[l] = 0 /\ file[l] = <<>> /\ writing[l] = <<>> /\ batches[l] = <<>>
        /\ buffer[l] = <<>> /\ \A s \in Syncers : carried[s][l] = <<>>
    BY DEF Init
  <2>2. FlattenSeq(batches[l]) = <<>>
    BY <2>1, FlattenEmpty, Zenon
  <2>3. Load(l) = 0
    <3>1. Load(l) = Len(<<>>) + Len(<<>>) + Len(<<>>) + Len(<<>>) + Len(<<>>) + Len(<<>>)
      BY <2>1, <2>2, Zenon DEF Load, Syncers
    <3>2. Len(<<>>) = 0
      OBVIOUS
    <3>3. QED
      BY <3>1, <3>2
  <2>4. \A S : <<>> \in Seq(S)
    OBVIOUS
  <2>5. pushed[l] <= MaxLines[l] + 1 /\ Load(l) <= pushed[l]
    BY <1>1, <2>1, <2>3
  <2>6. QED
    BY <2>1, <2>4, <2>5, Zenon DEF LoadOK
<1>6. QED
  BY <1>2, <1>3, <1>4, <1>5 DEF StateInv, LoadInv

(* A place that holds at most what was pushed is of its type.              *)
LEMMA LoadIsType ==
  ASSUME StateInv, LoadInv
  PROVE  TypeOK
<1>1. ASSUME NEW l \in Logs
      PROVE  /\ pushed[l] \in 0..MaxLines[l] + 1
             /\ {buffer[l], writing[l], file[l]} \cup {carried[s][l] : s \in Syncers} \subseteq Lines(l)
             /\ batches[l] \in Seq(Lines(l))
  <2>1. MaxLines[l] \in Nat /\ LoadOK(l)
    BY MaxLinesAssumption DEF LoadInv
  <2> DEFINE f == Len(file[l])
             w == Len(writing[l])
             b == Len(FlattenSeq(batches[l]))
             c == Len(carried["loop"][l])
             h == Len(carried["handler"][l])
             u == Len(buffer[l])
             p == pushed[l]
  <2>2. f \in Nat /\ w \in Nat /\ b \in Nat /\ c \in Nat /\ h \in Nat /\ u \in Nat /\ p \in Nat
    BY Lengths
  <2>3. p <= MaxLines[l] + 1 /\ f + w + b + c + h + u <= p
    BY <2>1 DEF LoadOK, Load
  <2>4. /\ f <= MaxLines[l] + 1 /\ w <= MaxLines[l] + 1 /\ c <= MaxLines[l] + 1
        /\ h <= MaxLines[l] + 1 /\ u <= MaxLines[l] + 1 /\ p \in 0..MaxLines[l] + 1
    <3> HIDE DEF f, w, b, c, h, u, p
    <3>1. QED
      BY <2>1, <2>2, <2>3
  <2>5. /\ file[l] \in Lines(l) /\ writing[l] \in Lines(l) /\ buffer[l] \in Lines(l)
        /\ carried["loop"][l] \in Lines(l) /\ carried["handler"][l] \in Lines(l)
        /\ batches[l] \in Seq(Lines(l))
    BY <2>1, <2>4, LinesAre DEF LoadOK, Syncers
  <2>6. QED
    BY <2>4, <2>5 DEF Syncers
<1>2. SyncStates = {step[1] : step \in SyncSteps} \cup {"interrupted"}
  <2>1. {step[1] : step \in SyncSteps} = {"idle", "rpc-swapped", "rpc-pushed", "app-swapped"}
    BY DEF SyncSteps
  <2>2. QED
    BY <2>1 DEF SyncStates
<1>3. HandlerStates \subseteq {step[1] : step \in SyncSteps}
        \cup {"none", "logging", "stop-rpc", "stop-app", "join-rpc", "join-app", "exited"}
  <2>1. {step[1] : step \in SyncSteps} = {"idle", "rpc-swapped", "rpc-pushed", "app-swapped"}
    BY DEF SyncSteps
  <2>2. QED
    BY <2>1 DEF HandlerStates
<1>4. QED
  <2>1. ControlInv
    BY DEF StateInv
  <2>2. /\ syncing \in {step[1] : step \in SyncSteps} \cup {"interrupted"}
        /\ handler \in {step[1] : step \in SyncSteps}
             \cup {"none", "logging", "stop-rpc", "stop-app", "join-rpc", "join-app", "exited"}
        /\ thread \in [Logs -> ThreadStates] /\ stop \in [Logs -> BOOLEAN]
        /\ held \in {{}} \cup {{m} : m \in Mutexes}
    BY <1>2, <1>3, <2>1 DEF ControlInv
  <2>3. QED
    BY <1>1, <2>2, Zenon DEF TypeOK, ThreadStates

(* LoadInv is inductive.                                                   *)
LEMMA LoadStep ==
  ASSUME StateInv, LoadInv, [Next]_vars
  PROVE  StateInv' /\ LoadInv'
<1>1. StateInv'
  BY StateKept
<1>2. ASSUME NEW l \in Logs PROVE LoadOK(l)'
  BY StepMoves, LoadKept DEF LoadInv
<1>3. QED
  BY <1>1, <1>2 DEF LoadInv

(* The buffers, queues and files of log.cc hold lines that were pushed, no *)
(* place more of them than were pushed, also when a signal has interrupted *)
(* any thread.                                                             *)
THEOREM LoggerTypes == Spec => []TypeOK
<1>1. Init => StateInv /\ LoadInv
  BY InitLoad
<1>2. StateInv /\ LoadInv /\ [Next]_vars => StateInv' /\ LoadInv'
  BY LoadStep
<1>3. StateInv /\ LoadInv => TypeOK
  BY LoadIsType
<1>4. QED
  BY <1>1, <1>2, <1>3, PTL DEF Spec

-----------------------------------------------------------------------------
(* The lines of a log, from its file to its buffer.                        *)
Cat(f, w, b, c, u) == (((f \o w) \o b) \o c) \o u

(* What the moves of syncLoop, of an AsyncLogger and of a push make of the *)
(* lines, one after the other.                                             *)
LEMMA CatSwap ==
  ASSUME NEW S, NEW f \in Seq(S), NEW w \in Seq(S), NEW b \in Seq(S), NEW u \in Seq(S)
  PROVE  Same(Cat(f, w, b, u, <<>>), Cat(f, w, b, <<>>, u))
<1> DEFINE a == (f \o w) \o b
<1>1. a \in Seq(S)
  BY ConcatProperties
<1> HIDE DEF a
<1>2. (a \o u) \o <<>> = (a \o <<>>) \o u
  BY <1>1, JoinedEmpty
<1>3. QED
  BY <1>2 DEF Cat, Same, a

LEMMA CatBatch ==
  ASSUME NEW S, NEW f \in Seq(S), NEW w \in Seq(S), NEW b \in Seq(S), NEW c \in Seq(S),
         NEW u \in Seq(S)
  PROVE  Same(Cat(f, w, b \o c, <<>>, u), Cat(f, w, b, c, u))
<1> DEFINE a == f \o w
<1>1. a \in Seq(S)
  BY ConcatProperties
<1> HIDE DEF a
<1>2. a \o (b \o c) \in Seq(S)
  BY <1>1, ConcatProperties
<1>3. (a \o (b \o c)) \o <<>> = a \o (b \o c)
  BY <1>2, JoinedEmpty
<1>4. Same((a \o b) \o c, a \o (b \o c))
  BY <1>1, ConcatRegroup, Zenon
<1>5. QED
  BY <1>3, <1>4, Zenon DEF Cat, Same, a

LEMMA CatTake ==
  ASSUME NEW S, NEW f \in Seq(S), NEW h \in Seq(S), NEW t \in Seq(S), NEW c \in Seq(S),
         NEW u \in Seq(S)
  PROVE  Same(Cat(f, h, t, c, u), Cat(f, <<>>, h \o t, c, u))
<1>1. f \o <<>> = f
  BY JoinedEmpty
<1>2. Same((f \o h) \o t, f \o (h \o t))
  BY ConcatRegroup, Zenon
<1>3. QED
  BY <1>1, <1>2, Zenon DEF Cat, Same

LEMMA CatWrite ==
  ASSUME NEW S, NEW f \in Seq(S), NEW w \in Seq(S), NEW b \in Seq(S), NEW c \in Seq(S),
         NEW u \in Seq(S)
  PROVE  Same(Cat(f \o w, <<>>, b, c, u), Cat(f, w, b, c, u))
<1>1. (f \o w) \o <<>> = f \o w
  BY ConcatProperties, JoinedEmpty
<1>2. QED
  BY <1>1 DEF Cat, Same

LEMMA CatPush ==
  ASSUME NEW S, NEW f \in Seq(S), NEW w \in Seq(S), NEW b \in Seq(S), NEW c \in Seq(S),
         NEW u \in Seq(S), NEW e \in S
  PROVE  Same(Cat(f, w, b, c, Append(u, e)), Append(Cat(f, w, b, c, u), e))
<1> DEFINE a == ((f \o w) \o b) \o c
<1>1. a \in Seq(S)
  BY ConcatProperties
<1> HIDE DEF a
<1>2. <<e>> \in Seq(S) /\ Append(u, e) = u \o <<e>>
  BY AppendIsConcat
<1>3. a \o u \in Seq(S)
  BY <1>1, ConcatProperties
<1>4. Append(a \o u, e) = (a \o u) \o <<e>>
  BY <1>3, AppendIsConcat
<1>5. Same((a \o u) \o <<e>>, a \o (u \o <<e>>))
  BY <1>1, <1>2, ConcatRegroup, Zenon
<1>6. QED
  BY <1>2, <1>4, <1>5, Zenon DEF Cat, Same, a

(* Numbers in ascending order, up to n.                                    *)
Ascends(s, n) ==
  /\ \A i, j \in DOMAIN s : i < j => s[i] < s[j]
  /\ \A i \in DOMAIN s : s[i] <= n

(* The numbers up to n ascend.                                             *)
LEMMA AscendsAll ==
  ASSUME NEW n \in Nat
  PROVE  Ascends([i \in 1..n |-> i], n)
BY DEF Ascends

(* One more number than all goes to the end.                               *)
LEMMA AscendsAppend ==
  ASSUME NEW s \in Seq(Nat), NEW n \in Nat, Ascends(s, n)
  PROVE  Ascends(Append(s, n + 1), n + 1)
<1>1. Len(s) \in Nat /\ DOMAIN s = 1..Len(s) /\ \A i \in 1..Len(s) : s[i] \in Nat
  BY LenProperties
<1>2. /\ DOMAIN Append(s, n + 1) = 1..Len(s) + 1
      /\ \A i \in 1..Len(s) + 1 : Append(s, n + 1)[i] = IF i <= Len(s) THEN s[i] ELSE n + 1
  OBVIOUS
<1> DEFINE t == Append(s, n + 1)
<1> HIDE DEF t
<1>3. DOMAIN t = 1..Len(s) + 1 /\ \A i \in 1..Len(s) + 1 : t[i] = IF i <= Len(s) THEN s[i] ELSE n + 1
  BY <1>2 DEF t
<1>4. \A i \in 1..Len(s) + 1 : t[i] <= n + 1 /\ (i <= Len(s) => t[i] <= n)
  BY <1>1, <1>3 DEF Ascends
<1>5. ASSUME NEW i \in 1..Len(s) + 1, NEW j \in 1..Len(s) + 1, i < j PROVE t[i] < t[j]
  <2>1. i \in 1..Len(s) /\ t[i] = s[i] /\ t[i] \in Nat
    BY <1>1, <1>3, <1>5
  <2>2. CASE j <= Len(s)
    <3>1. j \in 1..Len(s) /\ t[j] = s[j]
      BY <1>1, <1>3, <2>2
    <3>2. QED
      BY <1>1, <1>5, <2>1, <3>1 DEF Ascends
  <2>3. CASE ~(j <= Len(s))
    <3>1. t[j] = n + 1 /\ t[i] <= n
      BY <1>1, <1>3, <1>4, <2>1, <2>3
    <3>2. QED
      BY <2>1, <3>1
  <2>4. QED
    BY <2>2, <2>3
<1>6. Ascends(t, n + 1)
  BY <1>3, <1>4, <1>5 DEF Ascends
<1>7. QED
  BY <1>6 DEF t

(* The lines of the other places keep their order when one is left out.    *)
LEMMA CatSkip ==
  ASSUME NEW f \in Seq(Nat), NEW w \in Seq(Nat), NEW b \in Seq(Nat), NEW c \in Seq(Nat),
         NEW u \in Seq(Nat), NEW n, Ascends(Cat(f, w, b, c, u), n)
  PROVE  Ascends(Cat(f, w, b, <<>>, u), n)
<1> DEFINE a == (f \o w) \o b
<1>1. a \in Seq(Nat)
  BY ConcatProperties
<1> HIDE DEF a
<1>2. Ascends((a \o c) \o u, n)
  BY DEF Cat, a
<1>3. /\ a \o u \in Seq(Nat) /\ Len(a \o u) = Len(a) + Len(u)
      /\ \A i \in 1..Len(a) + Len(u) : (a \o u)[i] = IF i <= Len(a) THEN a[i] ELSE u[i - Len(a)]
  BY <1>1, ConcatProperties
<1>4. /\ a \o c \in Seq(Nat) /\ Len(a \o c) = Len(a) + Len(c)
      /\ \A i \in 1..Len(a) : (a \o c)[i] = a[i]
  BY <1>1, ConcatProperties
<1>5. /\ (a \o c) \o u \in Seq(Nat) /\ Len((a \o c) \o u) = Len(a) + Len(c) + Len(u)
      /\ \A i \in 1..Len(a) + Len(c) + Len(u) : ((a \o c) \o u)[i] =
           IF i <= Len(a) + Len(c) THEN (a \o c)[i] ELSE u[i - (Len(a) + Len(c))]
  BY <1>4, ConcatProperties
<1> DEFINE at(i) == IF i <= Len(a) THEN i ELSE i + Len(c)
<1>6. Len(a) \in Nat /\ Len(c) \in Nat /\ Len(u) \in Nat
  BY <1>1
<1>7. ASSUME NEW i \in 1..Len(a) + Len(u)
      PROVE  /\ at(i) \in 1..Len(a) + Len(c) + Len(u)
             /\ (a \o u)[i] = ((a \o c) \o u)[at(i)]
  <2>1. CASE i <= Len(a)
    BY <1>3, <1>4, <1>5, <1>6, <2>1
  <2>2. CASE ~(i <= Len(a))
    <3>1. at(i) = i + Len(c) /\ ~(at(i) <= Len(a) + Len(c)) /\ at(i) - (Len(a) + Len(c)) = i - Len(a)
          /\ at(i) \in 1..Len(a) + Len(c) + Len(u)
      BY <1>6, <2>2
    <3>2. QED
      BY <1>3, <1>5, <2>2, <3>1
  <2>3. QED
    BY <2>1, <2>2
<1>8. \A i, j \in 1..Len(a) + Len(u) : i < j => at(i) < at(j)
  BY <1>6
<1> HIDE DEF at
<1>9. DOMAIN (a \o u) = 1..Len(a) + Len(u) /\ DOMAIN ((a \o c) \o u) = 1..Len(a) + Len(c) + Len(u)
  BY <1>3, <1>5, LenProperties
<1>10. Ascends(a \o u, n)
  BY <1>2, <1>7, <1>8, <1>9 DEF Ascends
<1>11. a \o <<>> = a
  BY <1>1, JoinedEmpty
<1>12. QED
  BY <1>10, <1>11 DEF Cat, a

(* The file comes first in the lines of a log.                             *)
Extends(S, f, w, b, c, u) ==
  /\ Cat(f, w, b, c, u) \in Seq(S)
  /\ Len(Cat(f, w, b, c, u)) = Len(f) + Len(w) + Len(b) + Len(c) + Len(u)
  /\ \A i \in 1..Len(f) : Cat(f, w, b, c, u)[i] = f[i]

LEMMA CatLength ==
  ASSUME NEW S, NEW f \in Seq(S), NEW w \in Seq(S), NEW b \in Seq(S), NEW c \in Seq(S),
         NEW u \in Seq(S)
  PROVE  Extends(S, f, w, b, c, u)
<1> DEFINE x == f \o w
           y == x \o b
           z == y \o c
<1>0. /\ Len(f) \in Nat /\ Len(w) \in Nat /\ Len(b) \in Nat /\ Len(c) \in Nat /\ Len(u) \in Nat
  OBVIOUS
<1>1. Joins(S, f, w)
  BY Joined, Zenon
<1>2. Joins(S, x, b)
  <2>1. x \in Seq(S)
    BY <1>1, Zenon DEF Joins
  <2> HIDE DEF x
  <2>2. QED
    BY <2>1, Joined, Zenon
<1>3. Joins(S, y, c)
  <2>1. y \in Seq(S)
    BY <1>2, Zenon DEF Joins
  <2> HIDE DEF y
  <2>2. QED
    BY <2>1, Joined, Zenon
<1>4. Joins(S, z, u)
  <2>1. z \in Seq(S)
    BY <1>3, Zenon DEF Joins
  <2> HIDE DEF z
  <2>2. QED
    BY <2>1, Joined, Zenon
<1>5. /\ Len(x) = Len(f) + Len(w) /\ \A i \in 1..Len(f) : x[i] = f[i]
      /\ Len(y) = Len(x) + Len(b) /\ \A i \in 1..Len(x) : y[i] = x[i]
      /\ Len(z) = Len(y) + Len(c) /\ \A i \in 1..Len(y) : z[i] = y[i]
      /\ z \o u \in Seq(S)
      /\ Len(z \o u) = Len(z) + Len(u) /\ \A i \in 1..Len(z) : (z \o u)[i] = z[i]
  BY <1>1, <1>2, <1>3, <1>4, Zenon DEF Joins
<1>6. Cat(f, w, b, c, u) = z \o u
  BY DEF Cat
<1> DEFINE v == z \o u
<1> HIDE DEF x, y, z, v
<1>7. /\ Len(v) = Len(f) + Len(w) + Len(b) + Len(c) + Len(u)
      /\ \A i \in 1..Len(f) : v[i] = f[i]
  <2>1. /\ Len(x) = Len(f) + Len(w) /\ \A i \in 1..Len(f) : x[i] = f[i]
        /\ Len(y) = Len(x) + Len(b) /\ \A i \in 1..Len(x) : y[i] = x[i]
        /\ Len(z) = Len(y) + Len(c) /\ \A i \in 1..Len(y) : z[i] = y[i]
        /\ Len(v) = Len(z) + Len(u) /\ \A i \in 1..Len(z) : v[i] = z[i]
    BY <1>5 DEF v
  <2>2. QED
    BY <1>0, <2>1
<1>8. QED
  BY <1>5, <1>6, <1>7 DEF v, Extends

(* The way of the lines through a syncLoop.                                *)
Way(s, l) == Cat(file[l], writing[l], FlattenSeq(batches[l]), carried[s][l], buffer[l])

(* If only this syncLoop goes on, the lines on the way stay the same, but  *)
(* for one that is pushed.                                                 *)
LEMMA WayMoves ==
  ASSUME StateInv, NEW s \in Syncers, NEW l \in Logs, Moved(l),
         \A t \in Syncers \ {s} : ~Acts(t)
  PROVE  \/ Same(Way(s, l)', Way(s, l)) /\ pushed'[l] = pushed[l]
         \/ Same(Way(s, l)', Append(Way(s, l), pushed[l] + 1)) /\ pushed'[l] = pushed[l] + 1
<1> DEFINE f == file[l]
           w == writing[l]
           b == FlattenSeq(batches[l])
           c == carried[s][l]
           u == buffer[l]
           Goal == \/ Same(Way(s, l)', Way(s, l)) /\ pushed'[l] = pushed[l]
                   \/ Same(Way(s, l)', Append(Way(s, l), pushed[l] + 1)) /\ pushed'[l] = pushed[l] + 1
<1>1. /\ f \in Seq(Nat) /\ w \in Seq(Nat) /\ b \in Seq(Nat) /\ c \in Seq(Nat) /\ u \in Seq(Nat)
      /\ pushed[l] \in Nat /\ pushed[l] + 1 \in Nat
      /\ batches[l] \in Seq(Seq(Nat))
  BY Lengths DEF StateInv, PlacesInv, PlacesTyped
<1>2. Way(s, l) = Cat(f, w, b, c, u)
  BY DEF Way
<1>3. Way(s, l)' = Cat(file'[l], writing'[l], FlattenSeq(batches'[l]), carried'[s][l], buffer'[l])
  BY DEF Way
<1>4. SUFFICES Goal
  OBVIOUS
<1>5. CASE Kept(l)
  <2>1. Way(s, l)' = Cat(f, w, b, c, u) /\ pushed'[l] = pushed[l]
    BY <1>3, <1>5, Zenon DEF Kept
  <2>2. QED
    BY <1>2, <2>1, Zenon DEF Same
<1>6. CASE Pushed(l)
  <2>1. Way(s, l)' = Cat(f, w, b, c, Append(u, pushed[l] + 1)) /\ pushed'[l] = pushed[l] + 1
    BY <1>3, <1>6, Zenon DEF Pushed
  <2> HIDE DEF f, w, b, c, u
  <2>2. Same(Cat(f, w, b, c, Append(u, pushed[l] + 1)), Append(Cat(f, w, b, c, u), pushed[l] + 1))
    BY <1>1, CatPush
  <2>3. QED
    BY <1>2, <2>1, <2>2, Zenon
<1>7. CASE Taken(l)
  <2> DEFINE h == Head(batches[l])
             t == FlattenSeq(Tail(batches[l]))
  <2>1. w = <<>> /\ batches[l] # <<>> /\ pushed'[l] = pushed[l] /\ Way(s, l)' = Cat(f, h, t, c, u)
    BY <1>3, <1>7, Zenon DEF Taken
  <2>2. Len(batches[l]) # 0 /\ h \in Seq(Nat) /\ Tail(batches[l]) \in Seq(Seq(Nat))
    BY <1>1, <2>1
  <2>3. b = h \o t /\ t \in Seq(Nat)
    <3>1. t \in Seq(Nat)
      BY <2>2, FlattenType
    <3>2. b = h \o t
      BY <1>1, <2>2, FlattenTail, Zenon
    <3>3. QED
      BY <3>1, <3>2
  <2> HIDE DEF f, w, b, c, u, h, t
  <2>4. Same(Cat(f, h, t, c, u), Cat(f, <<>>, h \o t, c, u))
    BY <1>1, <2>2, <2>3, CatTake
  <2>5. QED
    BY <1>2, <2>1, <2>3, <2>4, Zenon
<1>8. CASE Written(l)
  <2>1. pushed'[l] = pushed[l] /\ Way(s, l)' = Cat(f \o w, <<>>, b, c, u)
    BY <1>3, <1>8, Zenon DEF Written
  <2> HIDE DEF f, w, b, c, u
  <2>2. Same(Cat(f \o w, <<>>, b, c, u), Cat(f, w, b, c, u))
    BY <1>1, CatWrite
  <2>3. QED
    BY <1>2, <2>1, <2>2, Zenon
<1>9. CASE SwappedOut(s, l)
  <2>1. pushed'[l] = pushed[l] /\ c = <<>> /\ Way(s, l)' = Cat(f, w, b, u, <<>>)
    BY <1>3, <1>9, Zenon DEF SwappedOut
  <2> HIDE DEF f, w, b, c, u
  <2>2. Same(Cat(f, w, b, u, <<>>), Cat(f, w, b, <<>>, u))
    BY <1>1, CatSwap
  <2>3. QED
    BY <1>2, <2>1, <2>2, Zenon
<1>10. CASE Batched(s, l)
  <2>1. FlattenSeq(Append(batches[l], c)) = b \o c
    BY <1>1, FlattenAppend
  <2>2. pushed'[l] = pushed[l] /\ Way(s, l)' = Cat(f, w, b \o c, <<>>, u)
    BY <1>3, <1>10, <2>1, Zenon DEF Batched
  <2> HIDE DEF f, w, b, c, u
  <2>3. Same(Cat(f, w, b \o c, <<>>, u), Cat(f, w, b, c, u))
    BY <1>1, CatBatch
  <2>4. QED
    BY <1>2, <2>2, <2>3, Zenon
<1>11. ASSUME NEW t \in Syncers, SwappedOut(t, l) \/ Batched(t, l) PROVE t = s
  BY <1>11 DEF SwappedOut, Batched
<1>12. QED
  BY <1>5, <1>6, <1>7, <1>8, <1>9, <1>10, <1>11 DEF Moved

(* A signal comes once, moves no line, and stops at most one syncLoop.     *)
LEMMA SignalMoves ==
  ASSUME [Next]_vars
  PROVE  /\ handler = "none" /\ handler' # "none" => \A l \in Logs : Kept(l)
         /\ handler # "none" => handler' # "none" /\ (syncing' = "interrupted" => syncing = "interrupted")
<1>1. CASE UNCHANGED vars
  BY <1>1 DEF vars, signalVars
<1>2. CASE \E l \in Logs : PushLog(l) \/ Async(l)
  BY <1>2 DEF PushLog, Async, Wait, Take, Write, TestStop, signalVars
<1>3. CASE SyncLoop
  <2>1. handler' = handler /\ syncing' # "interrupted"
    BY <1>3, SyncLoopIs DEF SyncLoop, signalVars, SyncsTo, Swapped
  <2>2. QED
    BY <2>1
<1>4. CASE HandlerLogs
  BY <1>4 DEF HandlerLogs
<1>5. CASE FlushSync
  <2>1. PICK to : /\ SyncsTo("handler", handler, to)
                  /\ handler' = IF to = "idle" THEN "stop-rpc" ELSE to
    BY <1>5, FlushSyncIs
  <2>2. to # "none" /\ handler # "none" /\ syncing' = syncing
    BY <1>5, <2>1 DEF SyncsTo, Swapped, FlushSync
  <2>3. QED
    BY <2>1, <2>2
<1>6. CASE Signal
  <2>1. Quiet /\ handler = "none"
    BY <1>6 DEF Quiet, Signal
  <2>2. QED
    BY <2>1, QuietKeeps
<1>7. CASE Quiet /\ ~Signal
  BY <1>7 DEF Quiet, StopLog, JoinLog
<1>8. QED
  BY <1>1, <1>2, <1>3, <1>4, <1>5, <1>6, <1>7 DEF Next, Handle, Quiet

(* The lines pushed, in order.                                             *)
Numbered(n) == [i \in 1..n |-> i]

(* Without a signal the way through syncLoop holds every line. When a      *)
(* signal has interrupted syncLoop, the way through that of flush may lack *)
(* the lines the former carried, but holds the others in order.            *)
OrderOK(l) ==
  /\ handler = "none" => Same(Way("loop", l), Numbered(pushed[l]))
  /\ handler # "none" /\ syncing = "interrupted" => Ascends(Way("handler", l), pushed[l])

OrderInv == \A l \in Logs : OrderOK(l)

(* A way begins with the file.                                             *)
LEMMA WayType ==
  ASSUME StateInv, NEW s \in Syncers, NEW l \in Logs
  PROVE  /\ Way(s, l) \in Seq(Nat) /\ Len(Way(s, l)) >= Len(file[l])
         /\ \A i \in 1..Len(file[l]) : Way(s, l)[i] = file[l][i]
<1> DEFINE f == file[l]
           w == writing[l]
           b == FlattenSeq(batches[l])
           c == carried[s][l]
           u == buffer[l]
<1>1. /\ f \in Seq(Nat) /\ w \in Seq(Nat) /\ b \in Seq(Nat) /\ c \in Seq(Nat) /\ u \in Seq(Nat)
  BY Lengths DEF StateInv, PlacesInv, PlacesTyped
<1>2. Way(s, l) = Cat(f, w, b, c, u)
  BY DEF Way
<1>3. /\ Cat(f, w, b, c, u) \in Seq(Nat)
      /\ Len(Cat(f, w, b, c, u)) = Len(f) + Len(w) + Len(b) + Len(c) + Len(u)
      /\ \A i \in 1..Len(f) : Cat(f, w, b, c, u)[i] = f[i]
  <2> HIDE DEF f, w, b, c, u
  <2>1. Extends(Nat, f, w, b, c, u)
    BY <1>1, CatLength
  <2>2. QED
    BY <2>1 DEF Extends
<1>4. Len(f) \in Nat /\ Len(w) \in Nat /\ Len(b) \in Nat /\ Len(c) \in Nat /\ Len(u) \in Nat
  BY <1>1
<1>5. QED
  <2> DEFINE x == Cat(f, w, b, c, u)
  <2>1. Len(x) >= Len(f)
    <3> HIDE DEF f, w, b, c, u
    <3>1. QED
      BY <1>3, <1>4
  <2>2. QED
    BY <1>2, <1>3, <2>1, Zenon

(* The next line comes after the lines pushed.                             *)
LEMMA NumberedAppend ==
  ASSUME NEW n \in Nat
  PROVE  Same(Append(Numbered(n), n + 1), Numbered(n + 1))
BY DEF Same, Numbered

(* OrderInv is inductive.                                                  *)
LEMMA OrderKept ==
  ASSUME StateInv, [Next]_vars, NEW l \in Logs, OrderOK(l)
  PROVE  OrderOK(l)'
<1>1. Moved(l)
  BY StepMoves
<1>2. pushed[l] \in Nat
  BY DEF StateInv, PlacesInv, PlacesTyped
<1>3. CASE handler = "none" /\ handler' = "none"
  <2>1. \A t \in Syncers \ {"loop"} : ~Acts(t)
    BY <1>3 DEF Acts, Syncers
  <2>2. \/ Same(Way("loop", l)', Way("loop", l)) /\ pushed'[l] = pushed[l]
        \/ Same(Way("loop", l)', Append(Way("loop", l), pushed[l] + 1)) /\ pushed'[l] = pushed[l] + 1
    <3>1. "loop" \in Syncers
      BY DEF Syncers
    <3>2. QED
      BY <1>1, <2>1, <3>1, WayMoves
  <2>3. Way("loop", l) = Numbered(pushed[l])
    BY <1>3 DEF OrderOK, Same
  <2>4. Append(Numbered(pushed[l]), pushed[l] + 1) = Numbered(pushed[l] + 1)
    BY <1>2, NumberedAppend, Zenon DEF Same
  <2>5. Way("loop", l)' = Numbered(pushed'[l])
    BY <2>2, <2>3, <2>4, Zenon DEF Same
  <2>6. QED
    BY <1>3, <2>5 DEF OrderOK, Same
<1>4. CASE handler = "none" /\ handler' # "none"
  <2>1. Kept(l)
    BY <1>4, SignalMoves
  <2> DEFINE f == file[l]
             w == writing[l]
             b == FlattenSeq(batches[l])
             c == carried["loop"][l]
             u == buffer[l]
  <2>2. carried["handler"][l] = <<>>
    BY <1>4 DEF StateInv, EmptyInv, Swapped
  <2>3. Way("handler", l)' = Cat(f, w, b, <<>>, u) /\ pushed'[l] = pushed[l]
    <3>1. /\ file'[l] = f /\ writing'[l] = w /\ batches'[l] = batches[l] /\ buffer'[l] = u
          /\ carried'["handler"][l] = <<>> /\ pushed'[l] = pushed[l]
      BY <2>1, <2>2, Zenon DEF Kept, Syncers
    <3>2. QED
      BY <3>1, Zenon DEF Way
  <2>4. Ascends(Cat(f, w, b, c, u), pushed[l])
    <3>1. Way("loop", l) = [i \in 1..pushed[l] |-> i]
      BY <1>4 DEF OrderOK, Same, Numbered
    <3>2. QED
      BY <1>2, <3>1, AscendsAll, Zenon DEF Way
  <2>5. /\ f \in Seq(Nat) /\ w \in Seq(Nat) /\ b \in Seq(Nat) /\ c \in Seq(Nat) /\ u \in Seq(Nat)
    BY Lengths DEF StateInv, PlacesInv, PlacesTyped, Syncers
  <2> HIDE DEF f, w, b, c, u
  <2>6. Ascends(Cat(f, w, b, <<>>, u), pushed[l])
    BY <2>4, <2>5, CatSkip
  <2>7. QED
    BY <1>4, <2>3, <2>6, Zenon DEF OrderOK
<1>5. CASE handler # "none"
  <2>1. handler' # "none" /\ (syncing' = "interrupted" => syncing = "interrupted")
    BY <1>5, SignalMoves
  <2>2. SUFFICES ASSUME syncing = "interrupted"
                 PROVE  Ascends(Way("handler", l)', pushed'[l])
    BY <2>1 DEF OrderOK
  <2>3. "handler" \in Syncers /\ \A t \in Syncers \ {"handler"} : ~Acts(t)
    BY <2>2 DEF Acts, Syncers
  <2>4. \/ Same(Way("handler", l)', Way("handler", l)) /\ pushed'[l] = pushed[l]
        \/ Same(Way("handler", l)', Append(Way("handler", l), pushed[l] + 1)) /\ pushed'[l] = pushed[l] + 1
    BY <1>1, <2>3, WayMoves
  <2>5. Ascends(Way("handler", l), pushed[l]) /\ Way("handler", l) \in Seq(Nat)
    BY <1>5, <2>2, <2>3, WayType DEF OrderOK
  <2>6. Ascends(Append(Way("handler", l), pushed[l] + 1), pushed[l] + 1)
    BY <1>2, <2>5, AscendsAppend
  <2>7. QED
    BY <2>4, <2>5, <2>6, Zenon DEF Same
<1>6. QED
  BY <1>3, <1>4, <1>5

(* It holds in the beginning.                                              *)
LEMMA InitOrder ==
  ASSUME Init
  PROVE  OrderInv
<1>1. SUFFICES ASSUME NEW l \in Logs PROVE OrderOK(l)
  BY DEF OrderInv
<1>2. /\ pushed[l] = 0 /\ file[l] = <<>> /\ writing[l] = <<>> /\ batches[l] = <<>>
      /\ buffer[l] = <<>> /\ carried["loop"][l] = <<>> /\ handler = "none"
  BY DEF Init, Syncers
<1>3. FlattenSeq(batches[l]) = <<>>
  BY <1>2, FlattenEmpty, Zenon
<1>4. Way("loop", l) = Cat(<<>>, <<>>, <<>>, <<>>, <<>>)
  BY <1>2, <1>3, Zenon DEF Way
<1>5. Cat(<<>>, <<>>, <<>>, <<>>, <<>>) = <<>> /\ Numbered(0) = <<>>
  <2>1. <<>> \in Seq(Nat)
    OBVIOUS
  <2>2. <<>> \o <<>> = <<>>
    BY <2>1, JoinedEmpty
  <2>3. QED
    BY <2>2 DEF Cat, Numbered
<1>6. QED
  BY <1>2, <1>4, <1>5 DEF OrderOK, Same

(* The inductive invariant of the order of lines.                          *)
LoggerInv == StateInv /\ OrderInv

(* It holds in every state.                                                *)
LEMMA LoggerInduction == Spec => []LoggerInv
<1>1. Init => LoggerInv
  BY InitLoad, InitOrder DEF LoggerInv
<1>2. LoggerInv /\ [Next]_vars => LoggerInv'
  BY StateKept, OrderKept DEF LoggerInv, OrderInv
<1>3. QED
  BY <1>1, <1>2, PTL DEF Spec

(* Without a signal every line that pushLog or pushAppLog has taken is in  *)
(* one place between its buffer and its file, in the order of the pushes:  *)
(* syncLoop and AsyncLogger::loop neither lose, double nor reorder a line. *)
THEOREM LoggerKeepsLines == Spec => []LinesKept
<1>1. LoggerInv => LinesKept
  BY DEF LoggerInv, OrderInv, OrderOK, Same, Way, Cat, Numbered, LinesKept
<1>2. QED
  BY <1>1, LoggerInduction, PTL

(* The lines of a file are in the order of their pushes, also when a       *)
(* signal has interrupted syncLoop and Logger::flush runs it once more.    *)
THEOREM LoggerWritesInOrder == Spec => []FileInOrder
<1>1. ASSUME LoggerInv, handler = "none" \/ syncing = "interrupted", NEW l \in Logs
      PROVE  \A i, j \in DOMAIN file[l] : i < j => file[l][i] < file[l][j]
  <2>0. StateInv /\ OrderOK(l) /\ Len(file[l]) \in Nat /\ DOMAIN file[l] = 1..Len(file[l])
    BY <1>1, LenProperties DEF LoggerInv, OrderInv, StateInv, PlacesInv, PlacesTyped
  <2>1. ASSUME NEW s \in Syncers, Ascends(Way(s, l), pushed[l])
        PROVE  \A i, j \in DOMAIN file[l] : i < j => file[l][i] < file[l][j]
    <3> DEFINE v == Way(s, l)
    <3>1. /\ v \in Seq(Nat) /\ Len(v) >= Len(file[l])
          /\ \A i \in 1..Len(file[l]) : v[i] = file[l][i]
      BY <2>0, WayType
    <3>2. Len(v) \in Nat /\ DOMAIN v = 1..Len(v)
      BY <3>1, LenProperties
    <3>3. \A i, j \in DOMAIN v : i < j => v[i] < v[j]
      BY <2>1 DEF Ascends
    <3> HIDE DEF v
    <3>4. QED
      BY <2>0, <3>1, <3>2, <3>3
  <2>2. CASE handler = "none"
    <3>1. Way("loop", l) = [i \in 1..pushed[l] |-> i] /\ pushed[l] \in Nat
      BY <2>0, <2>2 DEF OrderOK, Same, Numbered, StateInv, PlacesInv, PlacesTyped
    <3>2. Ascends(Way("loop", l), pushed[l])
      BY <3>1, AscendsAll, Zenon
    <3>3. QED
      BY <2>1, <3>2 DEF Syncers
  <2>3. CASE handler # "none"
    <3>1. Ascends(Way("handler", l), pushed[l])
      BY <1>1, <2>0, <2>3 DEF OrderOK
    <3>2. QED
      BY <2>1, <3>1 DEF Syncers
  <2>4. QED
    BY <2>2, <2>3
<1>2. LoggerInv => FileInOrder
  BY <1>1 DEF FileInOrder
<1>3. QED
  BY <1>2, LoggerInduction, PTL

-----------------------------------------------------------------------------
(* Lines one after the other, the first after line a; up to line n.        *)
Run(a, k) == [i \in 1..k |-> a + i]
IsRun(x, n) == \E a \in Nat : a + Len(x) <= n /\ Same(x, Run(a, Len(x)))
Apart(x, y) == Range(x) \cap Range(y) = {}

(* A run between the buffer and the thread that writes.                    *)
Loose(x, n, f, w) == IsRun(x, n) /\ Apart(x, f) /\ Apart(x, w)

(* The lines up to n have left the buffer.  Those that are not lost are in *)
(* the file or in a run on the way to it, and each in one place only.      *)
Spread(l, n) ==
  /\ pushed[l] = n + Len(buffer[l]) /\ Same(buffer[l], Run(n, Len(buffer[l])))
  /\ Range(file[l]) \subseteq 1..n
  /\ IsRun(writing[l], n) /\ Apart(writing[l], file[l])
  /\ \A i \in DOMAIN batches[l] : Loose(batches[l][i], n, file[l], writing[l])
  /\ \A s \in Syncers : Loose(carried[s][l], n, file[l], writing[l])
  /\ \A i, j \in DOMAIN batches[l] : i # j => Apart(batches[l][i], batches[l][j])
  /\ \A s \in Syncers, i \in DOMAIN batches[l] : Apart(carried[s][l], batches[l][i])
  /\ \A s, t \in Syncers : s # t => Apart(carried[s][l], carried[t][l])

SpreadOK(l) == \E n \in Nat : Spread(l, n)

SpreadInv == \A l \in Logs : SpreadOK(l)

(* An empty place is a run, and apart from any other.                      *)
LEMMA EmptyRun ==
  ASSUME NEW n \in Nat
  PROVE  IsRun(<<>>, n) /\ \A y : Apart(<<>>, y) /\ Apart(y, <<>>)
<1>1. Len(<<>>) = 0 /\ <<>> = Run(0, 0) /\ 0 + 0 <= n
  BY DEF Run
<1>2. IsRun(<<>>, n)
  BY <1>1 DEF IsRun, Same
<1>3. Range(<<>>) = {}
  BY DEF Range
<1>4. QED
  BY <1>2, <1>3 DEF Apart

(* The lines of a run.                                                     *)
LEMMA RunRange ==
  ASSUME NEW a \in Nat, NEW k \in Nat
  PROVE  Range(Run(a, k)) = a + 1..a + k /\ Len(Run(a, k)) = k
<1>1. DOMAIN Run(a, k) = 1..k /\ \A i \in 1..k : Run(a, k)[i] = a + i
  BY DEF Run
<1>2. ASSUME NEW m \in a + 1..a + k PROVE m \in Range(Run(a, k))
  <2>1. m - a \in 1..k /\ a + (m - a) = m
    OBVIOUS
  <2>2. QED
    BY <1>1, <2>1 DEF Range
<1>3. Range(Run(a, k)) \subseteq a + 1..a + k
  BY <1>1 DEF Range
<1>4. Len(Run(a, k)) = k
  BY DEF Run
<1>5. QED
  BY <1>2, <1>3, <1>4

(* A run up to n holds lines up to n only, and is a run up to more.        *)
LEMMA RunBound ==
  ASSUME NEW x \in Seq(Nat), NEW n \in Nat, IsRun(x, n)
  PROVE  Range(x) \subseteq 1..n /\ \A m \in Nat : n <= m => IsRun(x, m)
<1>1. PICK a \in Nat : a + Len(x) <= n /\ x = Run(a, Len(x))
  BY DEF IsRun, Same
<1>2. Len(x) \in Nat
  OBVIOUS
<1>3. Range(x) = a + 1..a + Len(x)
  BY <1>1, <1>2, RunRange, Zenon
<1>4. Range(x) \subseteq 1..n
  BY <1>1, <1>2, <1>3
<1>5. ASSUME NEW m \in Nat, n <= m PROVE IsRun(x, m)
  <2>1. a + Len(x) <= m
    BY <1>1, <1>2, <1>5
  <2>2. QED
    BY <1>1, <2>1, Zenon DEF IsRun, Same
<1>6. QED
  BY <1>4, <1>5

(* The buffer is a run up to all lines pushed, apart from those up to n.   *)
LEMMA RunNext ==
  ASSUME NEW n \in Nat, NEW u \in Seq(Nat), Same(u, Run(n, Len(u)))
  PROVE  /\ IsRun(u, n + Len(u)) /\ Range(u) \cap (1..n) = {}
         /\ Same(Append(u, n + Len(u) + 1), Run(n, Len(Append(u, n + Len(u) + 1))))
         /\ Len(Append(u, n + Len(u) + 1)) = Len(u) + 1
<1>1. Len(u) \in Nat /\ u = Run(n, Len(u))
  BY DEF Same
<1>2. n + Len(u) <= n + Len(u)
  BY <1>1
<1>3. IsRun(u, n + Len(u))
  BY <1>1, <1>2, Zenon DEF IsRun, Same
<1>4. Range(u) = n + 1..n + Len(u)
  BY <1>1, RunRange, Zenon
<1>5. Range(u) \cap (1..n) = {}
  BY <1>1, <1>4
<1>6. Len(Append(u, n + Len(u) + 1)) = Len(u) + 1
  OBVIOUS
<1>7. Append(Run(n, Len(u)), n + Len(u) + 1) = Run(n, Len(u) + 1)
  <2> DEFINE k == Len(u)
  <2>1. k \in Nat
    OBVIOUS
  <2> HIDE DEF k
  <2>2. Append(Run(n, k), n + k + 1) = Run(n, k + 1)
    BY <2>1 DEF Run
  <2>3. QED
    BY <2>2 DEF k
<1>8. QED
  BY <1>1, <1>3, <1>5, <1>6, <1>7, Zenon DEF Same

(* No line is doubled by a move.                                           *)
LEMMA SpreadKept ==
  ASSUME StateInv, NEW l \in Logs, SpreadOK(l), Moved(l)
  PROVE  SpreadOK(l)'
<1> USE DEF StateInv, PlacesInv, PlacesTyped
<1>1. PICK n \in Nat : Spread(l, n)
  BY DEF SpreadOK
<1>2. SUFFICES \E m \in Nat : Spread(l, m)'
  BY DEF SpreadOK
<1>3. /\ pushed[l] \in Nat /\ file[l] \in Seq(Nat) /\ writing[l] \in Seq(Nat) /\ buffer[l] \in Seq(Nat)
      /\ batches[l] \in Seq(Seq(Nat)) /\ \A s \in Syncers : carried[s][l] \in Seq(Nat)
  OBVIOUS
<1>4. IsRun(<<>>, n) /\ \A y : Apart(<<>>, y) /\ Apart(y, <<>>)
  BY EmptyRun
<1>5. CASE Kept(l)
  <2>1. Spread(l, n)'
    BY <1>1, <1>5, Zenon DEF Kept, Spread
  <2>2. QED
    BY <2>1
<1>6. CASE Pushed(l)
  <2>1. pushed[l] = n + Len(buffer[l]) /\ Same(buffer[l], Run(n, Len(buffer[l])))
    BY <1>1 DEF Spread
  <2>2. /\ buffer'[l] = Append(buffer[l], n + Len(buffer[l]) + 1)
        /\ Len(buffer'[l]) = Len(buffer[l]) + 1
        /\ Same(buffer'[l], Run(n, Len(buffer'[l])))
    BY <1>3, <1>6, <2>1, RunNext DEF Pushed
  <2>3. pushed'[l] = n + Len(buffer'[l])
    BY <1>3, <1>6, <2>1, <2>2 DEF Pushed
  <2>4. Spread(l, n)'
    BY <1>1, <1>6, <2>2, <2>3, Zenon DEF Pushed, Spread
  <2>5. QED
    BY <2>4
<1>7. CASE Taken(l)
  <2> DEFINE q == batches[l]
  <2>1. /\ Len(q) \in Nat \ {0} /\ DOMAIN q = 1..Len(q) /\ Head(q) = q[1] /\ 1 \in DOMAIN q
        /\ DOMAIN Tail(q) = 1..Len(q) - 1
        /\ \A i \in DOMAIN Tail(q) : Tail(q)[i] = q[i + 1]
    BY <1>3, <1>7 DEF Taken
  <2>2. \A i \in DOMAIN Tail(q) : i + 1 \in DOMAIN q /\ i + 1 # 1
    BY <2>1
  <2>3. \A i, j \in DOMAIN Tail(q) : i # j => i + 1 # j + 1
    BY <2>1
  <2>4. \A x, y : Apart(x, y) => Apart(y, x)
    BY DEF Apart
  <2> DEFINE r == Tail(q)
             w == Head(q)
  <2>5. /\ batches'[l] = r /\ writing'[l] = w /\ pushed'[l] = pushed[l] /\ buffer'[l] = buffer[l]
        /\ file'[l] = file[l] /\ \A s \in Syncers : carried'[s][l] = carried[s][l]
    BY <1>7 DEF Taken
  <2>6. w = q[1] /\ 1 \in DOMAIN q
    BY <2>1
  <2>7. \A i \in DOMAIN r : r[i] = q[i + 1] /\ i + 1 \in DOMAIN q /\ i + 1 # 1
    BY <2>1, <2>2
  <2>8. \A i, j \in DOMAIN r : i # j => i + 1 # j + 1
    BY <2>3
  <2> HIDE DEF r, w
  <2>9. IsRun(w, n) /\ Apart(w, file[l])
    BY <1>1, <2>6, Zenon DEF Spread, Loose
  <2>10. \A i \in DOMAIN r : Loose(r[i], n, file[l], w)
    BY <1>1, <2>6, <2>7 DEF Spread, Loose
  <2>11. \A s \in Syncers : Loose(carried[s][l], n, file[l], w)
    BY <1>1, <2>6 DEF Spread, Loose
  <2>12. \A i, j \in DOMAIN r : i # j => Apart(r[i], r[j])
    BY <1>1, <2>7, <2>8 DEF Spread
  <2>13. \A s \in Syncers, i \in DOMAIN r : Apart(carried[s][l], r[i])
    BY <1>1, <2>7 DEF Spread
  <2>14. Spread(l, n)'
    BY <1>1, <2>5, <2>9, <2>10, <2>11, <2>12, <2>13, Zenon DEF Spread
  <2>15. QED
    BY <2>14
<1>8. CASE Written(l)
  <2>1. Range(file'[l]) = Range(file[l]) \cup Range(writing[l])
    BY <1>3, <1>8, RangeConcatenation DEF Written
  <2>2. Range(writing[l]) \subseteq 1..n
    BY <1>1, <1>3, RunBound DEF Spread
  <2>3. \A x : Apart(x, file[l]) /\ Apart(x, writing[l]) => Apart(x, file'[l])
    BY <2>1 DEF Apart
  <2>4. Range(file'[l]) \subseteq 1..n
    BY <1>1, <2>1, <2>2 DEF Spread
  <2>5. Spread(l, n)'
    BY <1>1, <1>4, <1>8, <2>3, <2>4, Zenon DEF Written, Spread, Loose
  <2>6. QED
    BY <2>5
<1>9. ASSUME NEW s \in Syncers, SwappedOut(s, l) PROVE \E m \in Nat : Spread(l, m)'
  <2> DEFINE u == buffer[l]
  <2>0. PICK m \in Nat : m = n + Len(u)
    BY <1>3
  <2>1. Same(u, Run(n, Len(u))) /\ pushed[l] = m /\ n <= m
    BY <1>1, <1>3, <2>0 DEF Spread
  <2>2. IsRun(u, m) /\ Range(u) \cap (1..n) = {}
    BY <1>3, <2>0, <2>1, RunNext
  <2>3. \A x \in Seq(Nat) : IsRun(x, n) => IsRun(x, m) /\ Apart(x, u) /\ Apart(u, x)
    BY <2>1, <2>2, RunBound DEF Apart
  <2>4. Range(file[l]) \subseteq 1..m /\ Apart(u, file[l])
    BY <1>1, <2>1, <2>2 DEF Spread, Apart
  <2>5. pushed'[l] = m + Len(<<>>) /\ Same(<<>>, Run(m, Len(<<>>)))
    BY <1>9, <2>1 DEF SwappedOut, Same, Run
  <2>6. \A i \in DOMAIN batches[l] : batches[l][i] \in Seq(Nat)
    BY <1>3
  <2> HIDE DEF u
  <2>7. buffer'[l] = <<>> /\ carried'[s][l] = u /\ \A t \in Syncers : t # s => carried'[t][l] = carried[t][l]
    BY <1>9 DEF SwappedOut, u
  <2>8. /\ pushed'[l] = pushed[l] /\ batches'[l] = batches[l] /\ writing'[l] = writing[l]
        /\ file'[l] = file[l]
    BY <1>9 DEF SwappedOut
  <2>9. /\ \A x \in Seq(Nat) : Loose(x, n, file[l], writing[l]) => Loose(x, m, file[l], writing[l])
        /\ IsRun(writing[l], m) /\ Apart(writing[l], file[l])
        /\ Loose(u, m, file[l], writing[l])
    BY <1>1, <1>3, <2>2, <2>3, <2>4, Zenon DEF Spread, Loose
  <2>10. \A i \in DOMAIN batches[l] :
           Loose(batches[l][i], m, file[l], writing[l]) /\ Apart(u, batches[l][i])
    BY <1>1, <2>3, <2>6, <2>9 DEF Spread, Loose
  <2>11. \A t \in Syncers :
           /\ Loose(carried[t][l], m, file[l], writing[l])
           /\ Apart(u, carried[t][l]) /\ Apart(carried[t][l], u)
    BY <1>1, <1>3, <2>3, <2>9 DEF Spread, Loose
  <2>12. \A t \in Syncers : Loose(carried'[t][l], m, file[l], writing[l])
    BY <2>7, <2>9, <2>11
  <2>13. \A t \in Syncers, i \in DOMAIN batches[l] : Apart(carried'[t][l], batches[l][i])
    BY <1>1, <2>7, <2>10 DEF Spread
  <2>14. \A t, v \in Syncers : t # v => Apart(carried'[t][l], carried'[v][l])
    BY <1>1, <2>7, <2>11 DEF Spread
  <2>15. \A i, j \in DOMAIN batches[l] : i # j => Apart(batches[l][i], batches[l][j])
    BY <1>1 DEF Spread
  <2>16. Spread(l, m)'
    BY <2>4, <2>5, <2>7, <2>8, <2>9, <2>10, <2>12, <2>13, <2>14, <2>15, Zenon DEF Spread
  <2>17. QED
    BY <2>16
<1>10. ASSUME NEW s \in Syncers, Batched(s, l) PROVE \E m \in Nat : Spread(l, m)'
  <2> DEFINE q == batches[l]
             c == carried[s][l]
             r == Append(q, c)
  <2>1. /\ DOMAIN r = DOMAIN q \cup {Len(q) + 1} /\ r[Len(q) + 1] = c /\ \A i \in DOMAIN q : r[i] = q[i]
    BY <1>3
  <2>2. \A x, y : Apart(x, y) => Apart(y, x)
    BY DEF Apart
  <2>3. /\ batches'[l] = r /\ carried'[s][l] = <<>>
        /\ \A t \in Syncers : t # s => carried'[t][l] = carried[t][l]
    BY <1>10 DEF Batched
  <2> HIDE DEF r
  <2>4. /\ pushed'[l] = pushed[l] /\ buffer'[l] = buffer[l] /\ writing'[l] = writing[l]
        /\ file'[l] = file[l]
    BY <1>10 DEF Batched
  <2>5. \A i \in DOMAIN r : Loose(r[i], n, file[l], writing[l])
    BY <1>1, <2>1 DEF Spread
  <2>6. Loose(<<>>, n, file[l], writing[l])
    BY <1>4 DEF Loose
  <2>7. \A t \in Syncers : Loose(carried'[t][l], n, file[l], writing[l])
    BY <1>1, <2>3, <2>6 DEF Spread
  <2>8. \A i \in DOMAIN q : Apart(c, q[i]) /\ Apart(q[i], c)
    BY <1>1, <2>2 DEF Spread
  <2>9. \A i, j \in DOMAIN r : i # j => Apart(r[i], r[j])
    BY <1>1, <2>1, <2>8 DEF Spread
  <2>10. \A t \in Syncers : t # s => Apart(carried[t][l], c)
    BY <1>1 DEF Spread
  <2>11. \A t \in Syncers, i \in DOMAIN r : Apart(carried'[t][l], r[i])
    BY <1>1, <1>4, <2>1, <2>3, <2>10 DEF Spread
  <2>12. \A t, v \in Syncers : t # v => Apart(carried'[t][l], carried'[v][l])
    BY <1>1, <1>4, <2>3 DEF Spread
  <2>13. Spread(l, n)'
    BY <1>1, <2>3, <2>4, <2>5, <2>7, <2>9, <2>11, <2>12, Zenon DEF Spread
  <2>14. QED
    BY <2>13
<1>11. QED
  BY <1>5, <1>6, <1>7, <1>8, <1>9, <1>10 DEF Moved

(* Nothing is anywhere in the beginning.                                   *)
LEMMA InitSpread ==
  ASSUME Init
  PROVE  SpreadInv
<1>1. SUFFICES ASSUME NEW l \in Logs PROVE Spread(l, 0)
  BY DEF SpreadInv, SpreadOK
<1>2. /\ pushed[l] = 0 /\ file[l] = <<>> /\ writing[l] = <<>> /\ batches[l] = <<>>
      /\ buffer[l] = <<>> /\ \A s \in Syncers : carried[s][l] = <<>>
  BY DEF Init
<1>3. IsRun(<<>>, 0) /\ \A y : Apart(<<>>, y) /\ Apart(y, <<>>)
  BY EmptyRun
<1>4. /\ 0 = 0 + Len(<<>>) /\ Same(<<>>, Run(0, Len(<<>>))) /\ DOMAIN <<>> = {}
      /\ Range(<<>>) \subseteq 1..0
  BY DEF Same, Run, Range
<1>5. QED
  BY <1>2, <1>3, <1>4, Zenon DEF Spread, Loose

(* LoggerInv, with each line in one place.                                 *)
StoreInv == LoggerInv /\ SpreadInv

(* It holds in every state.                                                *)
LEMMA StoreInduction == Spec => []StoreInv
<1>1. Init => SpreadInv
  BY InitSpread
<1>2. LoggerInv /\ SpreadInv /\ [Next]_vars => SpreadInv'
  BY StepMoves, SpreadKept DEF SpreadInv, LoggerInv
<1>3. QED
  BY <1>1, <1>2, LoggerInduction, PTL DEF Spec, StoreInv

(* The first line being written follows the file, before a signal.         *)
LEMMA WritesNext ==
  ASSUME LoggerInv, NEW l \in Logs, handler = "none", writing[l] # <<>>
  PROVE  writing[l][1] = Len(file[l]) + 1
<1> DEFINE f == file[l]
           w == writing[l]
           b == FlattenSeq(batches[l])
           c == carried["loop"][l]
           u == buffer[l]
<1>1. /\ f \in Seq(Nat) /\ w \in Seq(Nat) /\ b \in Seq(Nat) /\ c \in Seq(Nat) /\ u \in Seq(Nat)
      /\ pushed[l] \in Nat
  BY Lengths DEF LoggerInv, StateInv, PlacesInv, PlacesTyped, Syncers
<1>2. Cat(f, w, b, c, u) = Numbered(pushed[l])
  BY DEF LoggerInv, OrderInv, OrderOK, Way, Same
<1>3. f \o w \in Seq(Nat) /\ Len(f \o w) = Len(f) + Len(w)
  BY <1>1
<1>4. Len(w) \in Nat \ {0} /\ Len(f) \in Nat /\ Len(b) \in Nat /\ Len(c) \in Nat /\ Len(u) \in Nat
  BY <1>1
<1> HIDE DEF f, w, b, c, u
<1>5. (f \o w)[Len(f) + 1] = w[1]
  <2>1. Len(f) + 1 \in 1..Len(f) + Len(w) /\ ~(Len(f) + 1 <= Len(f)) /\ Len(f) + 1 - Len(f) = 1
    BY <1>4
  <2>2. \A i \in 1..Len(f) + Len(w) : (f \o w)[i] = IF i <= Len(f) THEN f[i] ELSE w[i - Len(f)]
    BY <1>1, ConcatProperties
  <2>3. QED
    BY <2>1, <2>2
<1>6. Same(Cat(f \o w, <<>>, b, c, u), Cat(f, w, b, c, u))
  BY <1>1, CatWrite
<1> DEFINE g == f \o w
           v == Numbered(pushed[l])
<1>7. v = Cat(g, <<>>, b, c, u)
  BY <1>2, <1>6 DEF Same
<1>8. Extends(Nat, g, <<>>, b, c, u)
  <2>1. <<>> \in Seq(Nat)
    OBVIOUS
  <2> HIDE DEF g
  <2>2. g \in Seq(Nat)
    BY <1>3 DEF g
  <2>3. QED
    BY <1>1, <2>1, <2>2, CatLength
<1>9. Len(v) = pushed[l] /\ \A i \in 1..pushed[l] : v[i] = i
  BY <1>1 DEF Numbered
<1>10. Len(<<>>) = 0
  OBVIOUS
<1> HIDE DEF g, v
<1>11. Len(g) = Len(f) + Len(w) /\ g[Len(f) + 1] = w[1]
  BY <1>3, <1>5 DEF g
<1>12. Len(v) = Len(g) + 0 + Len(b) + Len(c) + Len(u) /\ \A i \in 1..Len(g) : v[i] = g[i]
  BY <1>7, <1>8, <1>10, Zenon DEF Extends
<1>13. Len(f) + 1 \in 1..Len(g) /\ Len(f) + 1 \in 1..pushed[l]
  BY <1>4, <1>9, <1>11, <1>12
<1>14. QED
  BY <1>9, <1>11, <1>12, <1>13 DEF w, f

(* A thread that writes stores a run of lines that no other has stored.    *)
LEMMA WriteStores ==
  ASSUME StoreInv, NEW l \in Logs, Write(l)
  PROVE  [Promise!Next]_(Promise!vars)
<1> DEFINE w == writing[l]
           k == Len(w)
<1>1. /\ file \in [Logs -> Seq(Nat)] /\ w \in Seq(Nat) /\ k \in Nat /\ pushed[l] \in Nat
      /\ file[l] \in Seq(Nat) /\ Len(buffer[l]) \in Nat
  BY DEF StoreInv, LoggerInv, StateInv, PlacesInv, PlacesTyped
<1>2. PICK n \in Nat : Spread(l, n)
  BY DEF StoreInv, SpreadInv, SpreadOK
<1>3. PICK a \in Nat : a + k <= n /\ w = Run(a, k)
  BY <1>2 DEF Spread, IsRun, Same
<1>4. n <= pushed[l]
  BY <1>1, <1>2 DEF Spread
<1>5. /\ file' = [file EXCEPT ![l] = @ \o w] /\ UNCHANGED <<pushed, handler>>
  BY DEF Write, signalVars
<1>6. CASE k = 0
  <2>1. w = <<>>
    BY <1>1, <1>6
  <2>2. file[l] \o w = file[l]
    BY <1>1, <2>1, JoinedEmpty
  <2>3. file' = file
    BY <1>1, <1>5, <2>2
  <2>4. QED
    BY <1>5, <2>3 DEF Promise!vars
<1>7. CASE k # 0
  <2>1. a < a + k /\ a + k <= pushed[l] /\ a \in 0..pushed[l] /\ a + k \in 0..pushed[l]
    BY <1>1, <1>3, <1>4, <1>7
  <2>2. handler = "none" => a = Len(file[l])
    <3>1. w[1] = a + 1 /\ w # <<>>
      BY <1>1, <1>3, <1>7 DEF Run
    <3>2. handler = "none" => w[1] = Len(file[l]) + 1
      BY <3>1, WritesNext DEF StoreInv
    <3>3. Len(file[l]) \in Nat
      BY <1>1
    <3>4. QED
      BY <3>1, <3>2, <3>3
  <2>3. ASSUME NEW i \in DOMAIN file[l] PROVE file[l][i] <= a \/ file[l][i] > a + k
    <3>1. file[l][i] \in Range(file[l]) /\ file[l][i] \in Nat
      BY <1>1 DEF Range
    <3>2. Range(w) = a + 1..a + k
      BY <1>1, <1>3, RunRange, Zenon
    <3>3. ~(file[l][i] \in a + 1..a + k)
      BY <1>2, <3>1, <3>2 DEF Spread, Apart
    <3>4. QED
      BY <1>1, <3>1, <3>3
  <2>4. [i \in 1..(a + k) - a |-> a + i] = w
    <3>1. (a + k) - a = k
      BY <1>1
    <3>2. QED
      BY <1>3, <3>1 DEF Run
  <2> HIDE DEF w, k
  <2>5. Promise!Store(l, a, a + k)
    BY <1>5, <2>1, <2>2, <2>3, <2>4 DEF Promise!Store
  <2>6. QED
    BY <2>1, <2>5 DEF Promise!Next
<1>8. QED
  BY <1>6, <1>7

(* Each line of a log reaches its file at most once, though syncLoop may   *)
(* run twice at a time, in the loop's thread and in the signal handler;    *)
(* and until a signal no line is passed over.                              *)
THEOREM ImplementsLineLog == Spec => LinesStoredOnce
<1>1. Init => Promise!Init
  BY DEF Init, Promise!Init
<1>2. StoreInv /\ [Next]_vars => [Promise!Next]_(Promise!vars)
  <2> SUFFICES ASSUME StoreInv, [Next]_vars
               PROVE  [Promise!Next]_(Promise!vars)
    OBVIOUS
  <2>1. CASE UNCHANGED <<pushed, file, handler>>
    BY <2>1 DEF Promise!vars
  <2>2. ASSUME NEW l \in Logs, PushLog(l) PROVE Promise!Next
    <3>1. Promise!Accept(l)
      BY <2>2 DEF PushLog, Push, threadVars, signalVars, Promise!Accept
    <3>2. QED
      BY <3>1 DEF Promise!Next
  <2>3. CASE HandlerLogs
    <3>1. Promise!Accept("rpc")
      BY <2>3 DEF HandlerLogs, Push, threadVars, Promise!Accept
    <3>2. QED
      BY <3>1 DEF Promise!Next, Logs
  <2>4. ASSUME NEW l \in Logs, Async(l) PROVE [Promise!Next]_(Promise!vars)
    BY <2>1, <2>4, WriteStores DEF Async, Wait, Take, TestStop, signalVars
  <2>5. CASE SyncLoop
    BY <2>1, <2>5 DEF SyncLoop, signalVars
  <2>6. CASE Signal
    BY <2>6 DEF Signal, Promise!Signal, Promise!Next
  <2>7. ASSUME UNCHANGED <<pushed, file>>, handler # "none", handler' # "none"
        PROVE  [Promise!Next]_(Promise!vars)
    BY <2>7 DEF Promise!vars
  <2>8. CASE Handle /\ ~HandlerLogs
    <3>1. UNCHANGED <<pushed, file>> /\ handler # "none"
      BY <2>8 DEF Handle, FlushSync, StopLog, JoinLog, threadVars, SyncSteps
    <3>2. handler' # "none"
      BY <3>1, SignalMoves
    <3>3. QED
      BY <2>7, <3>1, <3>2
  <2>9. QED
    BY <2>1, <2>2, <2>3, <2>4, <2>5, <2>6, <2>8 DEF Next, vars, threadVars, signalVars
<1>3. QED
  BY <1>1, <1>2, StoreInduction, PTL DEF Spec, LinesStoredOnce, Promise!Spec
=============================================================================
