------------------------------ MODULE LineLog ------------------------------
(***************************************************************************)
(* What a program that logs is promised, with no buffers, no threads and   *)
(* no handler: lines reach the file of their log in runs, each line once,  *)
(* and none is passed over before a signal.  After a signal lines may be   *)
(* lost and runs be overtaken, but still none is written twice.            *)
(* Logger implements this specification.                                   *)
(***************************************************************************)
EXTENDS Naturals, Sequences

CONSTANT Logs

VARIABLES accepted,  \* how many lines each log was given: their numbers
          file,      \* the lines in each log's file
          signalled  \* whether a signal has come

vars == <<accepted, file, signalled>>

Init ==
  /\ accepted = [l \in Logs |-> 0]
  /\ file = [l \in Logs |-> <<>>]
  /\ signalled = FALSE

Accept(l) ==
  /\ accepted' = [accepted EXCEPT ![l] = @ + 1]
  /\ UNCHANGED <<file, signalled>>

(* The lines after `from` up to `to` are appended to the file.             *)
Store(l, from, to) ==
  /\ from < to /\ to <= accepted[l]
  /\ ~signalled => from = Len(file[l])
  /\ \A i \in DOMAIN file[l] : file[l][i] <= from \/ file[l][i] > to
  /\ file' = [file EXCEPT ![l] = @ \o [i \in 1..to - from |-> from + i]]
  /\ UNCHANGED <<accepted, signalled>>

Signal ==
  /\ ~signalled /\ signalled' = TRUE
  /\ UNCHANGED <<accepted, file>>

Next ==
  \/ Signal
  \/ \E l \in Logs : \/ Accept(l)
                     \/ \E from, to \in 0..accepted[l] : Store(l, from, to)

Spec == Init /\ [][Next]_vars
=============================================================================
