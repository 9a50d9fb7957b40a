---------------------------- MODULE MCScopeMutex ----------------------------
(* ScopeMutex for TLC. *)
EXTENDS ScopeMutex

CONSTANTS t1, t2, t3
=============================================================================
