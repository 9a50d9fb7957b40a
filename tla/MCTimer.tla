------------------------------ MODULE MCTimer ------------------------------
(* Instances of Timer for TLC.                                             *)
EXTENDS Timer, TLC

CONSTANTS soon, late, tick

(* A one-shot event, one that is due later, and a repeated one.            *)
Intervals == (soon :> 1) @@ (late :> 2) @@ (tick :> 1)
=============================================================================
