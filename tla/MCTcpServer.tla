---------------------------- MODULE MCTcpServer ----------------------------
(* TcpServer for TLC: the FdEventGroup grows for the second descriptor, and *)
(* the fourth client finds no descriptor left.                             *)
EXTENDS TcpServer

CONSTANTS c1, c2, c3, c4
=============================================================================
