------------------------------- MODULE Logger -------------------------------
(***************************************************************************)
(* Logger and its two AsyncLoggers (hl/common/log.cc): lines are pushed to *)
(* a buffer, carried by the periodic syncLoop as a batch to the queue of   *)
(* an AsyncLogger, and written to a file by its thread; and the signal     *)
(* handler that flushes and joins.  A line is its number among the lines   *)
(* pushed to its log.  The critical sections under a mutex are atomic, but *)
(* for the one a signal interrupts: its mutex stays locked.                *)
(***************************************************************************)
EXTENDS Naturals, SequencesExt

CONSTANT MaxLines     \* bound: lines pushed to each log, a function

Logs == {"rpc", "app"}
ASSUME MaxLinesAssumption == MaxLines \in [Logs -> Nat]

Syncers == {"loop", "handler"}
Mutexes == {"buffer", "batches"} \X Logs  \* of Logger's buffers, of the AsyncLoggers

VARIABLES
  pushed,   \* the lines pushed to each log
  buffer,   \* m_buffer and m_app_buffer of Logger
  syncing,  \* where the event loop's thread is in syncLoop, or "interrupted"
  carried,  \* the batches syncLoop, run by either, has taken out of the buffers
  batches,  \* m_buffer of each AsyncLogger
  thread,   \* what the thread of each AsyncLogger does
  writing,  \* the batch it has taken
  file,     \* the lines in its file
  stop,     \* m_stop_flag of each AsyncLogger
  handler,  \* where CoredumpHandler is, "none" before a signal
  held      \* the mutex the interrupted thread holds, as a set

threadVars == <<thread, writing, file>>
signalVars == <<stop, handler, held>>
vars == <<pushed, buffer, syncing, carried, batches, threadVars, signalVars>>

Init ==
  /\ pushed = [l \in Logs |-> 0]
  /\ buffer = [l \in Logs |-> <<>>]
  /\ syncing = "idle"
  /\ carried = [s \in Syncers |-> [l \in Logs |-> <<>>]]
  /\ batches = [l \in Logs |-> <<>>]
  /\ thread = [l \in Logs |-> "check"]
  /\ writing = [l \in Logs |-> <<>>]
  /\ file = [l \in Logs |-> <<>>]
  /\ stop = [l \in Logs |-> FALSE]
  /\ handler = "none"
  /\ held = {}

Running == handler # "exited"

-----------------------------------------------------------------------------
(* pushLog and pushAppLog, by any thread.                                  *)
Push(l) ==
  /\ <<"buffer", l>> \notin held
  /\ pushed' = [pushed EXCEPT ![l] = @ + 1]
  /\ buffer' = [buffer EXCEPT ![l] = Append(@, pushed[l] + 1)]

PushLog(l) ==
  /\ Running /\ pushed[l] < MaxLines[l]
  /\ Push(l)
  /\ UNCHANGED <<syncing, carried, batches, threadVars, signalVars>>

(* syncLoop: the buffer is swapped out under one mutex, and pushed to the  *)
(* AsyncLogger, unless empty, under another, with a signal.                *)
(* Mutant of SwapOut: the buffer is copied, not swapped.                   *)
CopyOut(s, l) ==
  /\ <<"buffer", l>> \notin held
  /\ carried' = [carried EXCEPT ![s][l] = buffer[l]]
  /\ UNCHANGED <<buffer, batches, thread>>

SwapOut(s, l) ==
  /\ <<"buffer", l>> \notin held
  /\ carried' = [carried EXCEPT ![s][l] = buffer[l]]
  /\ buffer' = [buffer EXCEPT ![l] = <<>>]
  /\ UNCHANGED <<batches, thread>>

Woken(l) == IF thread[l] = "wait" THEN [thread EXCEPT ![l] = "check"] ELSE thread

(* Mutants of PushBatch: the batch goes to the front; nobody is signalled. *)
PushBatchFront(s, l) ==
  /\ carried[s][l] # <<>> => <<"batches", l>> \notin held
  /\ IF carried[s][l] = <<>> THEN UNCHANGED <<batches, thread>>
     ELSE /\ batches' = [batches EXCEPT ![l] = <<carried[s][l]>> \o @]
          /\ thread' = Woken(l)
  /\ carried' = [carried EXCEPT ![s][l] = <<>>]
  /\ UNCHANGED buffer

PushBatchQuietly(s, l) ==
  /\ carried[s][l] # <<>> => <<"batches", l>> \notin held
  /\ IF carried[s][l] = <<>> THEN UNCHANGED batches
     ELSE batches' = [batches EXCEPT ![l] = Append(@, carried[s][l])]
  /\ carried' = [carried EXCEPT ![s][l] = <<>>]
  /\ UNCHANGED <<buffer, thread>>

PushBatch(s, l) ==
  /\ carried[s][l] # <<>> => <<"batches", l>> \notin held
  /\ IF carried[s][l] = <<>> THEN UNCHANGED <<batches, thread>>
     ELSE /\ batches' = [batches EXCEPT ![l] = Append(@, carried[s][l])]
          /\ thread' = Woken(l)
  /\ carried' = [carried EXCEPT ![s][l] = <<>>]
  /\ UNCHANGED buffer

(* The steps of syncLoop: where it is, the step, and where it is then.     *)
SyncSteps ==
  {<<"idle", "rpc-swapped">>, <<"rpc-swapped", "rpc-pushed">>,
   <<"rpc-pushed", "app-swapped">>, <<"app-swapped", "idle">>}

SyncStep(s, from) ==
  CASE from = "idle"        -> SwapOut(s, "rpc")
    [] from = "rpc-swapped" -> PushBatch(s, "rpc")
    [] from = "rpc-pushed"  -> SwapOut(s, "app")
    [] from = "app-swapped" -> PushBatch(s, "app")

(* The timer runs syncLoop on the thread of the event loop.                *)
SyncLoop ==
  /\ Running
  /\ \E step \in SyncSteps :
       /\ syncing = step[1]
       /\ SyncStep("loop", step[1])
       /\ syncing' = step[2]
  /\ UNCHANGED <<pushed, writing, file, signalVars>>

-----------------------------------------------------------------------------
(* AsyncLogger::loop waits on the condition while there is no batch.       *)
Wait(l) ==
  /\ Running /\ thread[l] = "check" /\ batches[l] = <<>>
  /\ <<"batches", l>> \notin held
  /\ thread' = [thread EXCEPT ![l] = "wait"]
  /\ UNCHANGED <<pushed, buffer, syncing, carried, batches, writing, file, signalVars>>

(* It takes a batch, and writes it after unlocking.                        *)
Take(l) ==
  /\ Running /\ thread[l] = "check" /\ batches[l] # <<>>
  /\ <<"batches", l>> \notin held
  /\ writing' = [writing EXCEPT ![l] = Head(batches[l])]
  /\ batches' = [batches EXCEPT ![l] = Tail(@)]
  /\ thread' = [thread EXCEPT ![l] = "write"]
  /\ UNCHANGED <<pushed, buffer, syncing, carried, file, signalVars>>

Write(l) ==
  /\ Running /\ thread[l] = "write"
  /\ file' = [file EXCEPT ![l] = @ \o writing[l]]
  /\ writing' = [writing EXCEPT ![l] = <<>>]
  /\ thread' = [thread EXCEPT ![l] = "written"]
  /\ UNCHANGED <<pushed, buffer, syncing, carried, batches, signalVars>>

(* The stop flag is read after a batch, and only then.                     *)
TestStop(l) ==
  /\ Running /\ thread[l] = "written"
  /\ thread' = [thread EXCEPT ![l] = IF stop[l] THEN "ended" ELSE "check"]
  /\ UNCHANGED <<pushed, buffer, syncing, carried, batches, writing, file, signalVars>>

-----------------------------------------------------------------------------
(* The mutexes that a thread may hold where it is interrupted: the thread  *)
(* of the event loop on its way through syncLoop, one of an AsyncLogger,   *)
(* and a thread that pushes.                                               *)
SyncHolds == [from \in {step[1] : step \in SyncSteps} |->
  CASE from = "idle"        -> {"buffer"} \X Logs \cup {<<"batches", "app">>}
    [] from = "rpc-swapped" -> {<<"buffer", "rpc">>, <<"batches", "rpc">>}
    [] from = "rpc-pushed"  -> {<<"batches", "rpc">>, <<"buffer", "app">>}
    [] from = "app-swapped" -> {<<"buffer", "app">>, <<"batches", "app">>}]

(* A signal interrupts a thread; what it interrupts is never resumed, for  *)
(* the handler ends the process.  At most one mutex is then locked for     *)
(* good.                                                                   *)
Interrupt ==
  \/ /\ syncing' = "interrupted"
     /\ held' \in {{}} \cup {{m} : m \in SyncHolds[syncing]}
     /\ UNCHANGED thread
  \/ \E l \in Logs :
       /\ thread[l] # "ended"
       /\ thread' = [thread EXCEPT ![l] = "interrupted"]
       /\ \/ held' = {}
          \/ thread[l] = "check" /\ held' = {<<"batches", l>>}
       /\ UNCHANGED syncing
  \/ /\ held' \in {{}} \cup {{m} : m \in {"buffer"} \X Logs}
     /\ UNCHANGED <<syncing, thread>>

Signal ==
  /\ handler = "none"
  /\ handler' = "logging"
  /\ Interrupt
  /\ UNCHANGED <<pushed, buffer, carried, batches, writing, file, stop>>

(* The handler logs a line (ERRORLOG), like any thread, and then calls     *)
(* Logger::flush.                                                          *)
HandlerLogs ==
  /\ handler = "logging"
  /\ handler' = "idle"
  /\ Push("rpc")
  /\ UNCHANGED <<syncing, carried, batches, threadVars, stop, held>>

(* flush begins with a syncLoop of its own.                                *)
FlushSync ==
  /\ \E step \in SyncSteps :
       /\ handler = step[1]
       /\ SyncStep("handler", step[1])
       /\ handler' = IF step[2] = "idle" THEN "stop-rpc" ELSE step[2]
  /\ UNCHANGED <<pushed, syncing, writing, file, stop, held>>

(* AsyncLogger::stop sets the flag, and signals nobody.                    *)
StopLog(l, from, to) ==
  /\ handler = from
  /\ handler' = to
  /\ stop' = [stop EXCEPT ![l] = TRUE]
  /\ UNCHANGED <<pushed, buffer, syncing, carried, batches, threadVars, held>>

(* pthread_join waits for the end of the thread; of the thread it is       *)
(* called on, it fails at once.                                            *)
JoinLog(l, from, to) ==
  /\ handler = from /\ thread[l] \in {"ended", "interrupted"}
  /\ handler' = to
  /\ UNCHANGED <<pushed, buffer, syncing, carried, batches, threadVars, stop, held>>

(* flush, and the joins and the raise that end the process.                *)
Handle ==
  \/ HandlerLogs \/ FlushSync
  \/ StopLog("rpc", "stop-rpc", "stop-app")
  \/ StopLog("app", "stop-app", "join-rpc")
  \/ JoinLog("rpc", "join-rpc", "join-app")
  \/ JoinLog("app", "join-app", "exited")

Async(l) == Wait(l) \/ Take(l) \/ Write(l) \/ TestStop(l)

Next ==
  \/ \E l \in Logs : PushLog(l) \/ Async(l)
  \/ SyncLoop \/ Signal \/ Handle

Spec == Init /\ [][Next]_vars

(* Threads run, a handler goes on, and a syncLoop that has begun is        *)
(* finished.  That the Timer begins one is not assumed: onTimer may erase  *)
(* its periodic event, or never come to it (Timer).                        *)
FairSpec ==
  /\ Spec
  /\ WF_vars(syncing # "idle" /\ SyncLoop) /\ WF_vars(Handle)
  /\ \A l \in Logs : WF_vars(Async(l))

-----------------------------------------------------------------------------
(* No place holds more lines than were pushed. *)
Lines(l) == BoundedSeq(1..MaxLines[l] + 1, MaxLines[l] + 1)

(* What the buffers, queues, files, flags and threads of log.cc may hold.  *)
TypeOK ==
  /\ \A l \in Logs :
       /\ pushed[l] \in 0..MaxLines[l] + 1
       /\ {buffer[l], writing[l], file[l]} \cup {carried[s][l] : s \in Syncers} \subseteq Lines(l)
       /\ batches[l] \in Seq(Lines(l))
  /\ syncing \in {step[1] : step \in SyncSteps} \cup {"interrupted"}
  /\ thread \in [Logs -> {"check", "wait", "write", "written", "ended", "interrupted"}]
  /\ stop \in [Logs -> BOOLEAN]
  /\ handler \in {step[1] : step \in SyncSteps}
       \cup {"none", "logging", "stop-rpc", "stop-app", "join-rpc", "join-app", "exited"}
  /\ held \in {{}} \cup {{m} : m \in Mutexes}

(* Every line pushed is in one place, and the places hold the lines in the *)
(* order they were pushed: nothing is lost, doubled or overtaken between   *)
(* the two mutexes, as long as there is no signal.                         *)
LinesKept ==
  handler = "none" => \A l \in Logs :
    file[l] \o writing[l] \o FlattenSeq(batches[l]) \o carried["loop"][l] \o buffer[l]
      = [i \in 1..pushed[l] |-> i]

(* Also when a signal interrupts syncLoop, lines reach the file in order.  *)
(* (Next to a handler on another thread, syncLoop may be overtaken.)       *)
FileInOrder ==
  handler = "none" \/ syncing = "interrupted" =>
    \A l \in Logs : \A i, j \in DOMAIN file[l] : i < j => file[l][i] < file[l][j]

(* Logger implements LineLog: each line reaches its file at most once,     *)
(* though syncLoop may run twice at a time, in the loop's thread and in    *)
(* the handler; and until a signal, in order and without a gap.            *)
Promise == INSTANCE LineLog WITH accepted <- pushed, signalled <- handler # "none"
LinesStoredOnce == Promise!Spec

(* A line that syncLoop has swapped out is written in the end, unless a    *)
(* signal comes: the batch reaches the queue, and the thread of the        *)
(* AsyncLogger, which may be waiting, or writing, or about to wait, takes  *)
(* it, though no further syncLoop may come to signal the condition again.  *)
SwappedWritten ==
  \A l \in Logs : \A n \in 1..MaxLines[l] :
    Contains(carried["loop"][l], n) ~> (Contains(file[l], n) \/ handler # "none")

(* A signal that leaves no mutex locked has the handler flush and come to  *)
(* the joins; and it ends the process if each AsyncLogger's thread then    *)
(* still has something to write, since only so does it look at the flag.   *)
Waited(l) == thread[l] \in {"check", "wait"} /\ batches[l] = <<>>

BusyLoggersEnd ==
  /\ (handler # "none" /\ held = {}) ~> (handler \in {"join-rpc", "join-app", "exited"})
  /\ (handler = "join-rpc" /\ held = {} /\ \A l \in Logs : ~Waited(l)) ~> (handler = "exited")

(* After a signal the process ends.                                        *)
SignalEnds == (handler # "none") ~> (handler = "exited")
=============================================================================
