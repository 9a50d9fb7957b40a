------------------------------ MODULE MCLogger ------------------------------
(* Logger for TLC: two lines to the one log, with the handler's a third,   *)
(* and one to the other.                                                   *)
EXTENDS Logger

FewLines == [l \in Logs |-> IF l = "rpc" THEN 2 ELSE 1]
=============================================================================
