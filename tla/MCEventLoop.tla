---------------------------- MODULE MCEventLoop ----------------------------
(* Instances of EventLoop for TLC.                                         *)
EXTENDS EventLoop, TLC

CONSTANTS t1, t2

(* Two requests of one thread, so that their order can go wrong, and one   *)
(* of another, so that posts interleave.                                   *)
TwoAndOne == (t1 :> 2) @@ (t2 :> 1)
=============================================================================
