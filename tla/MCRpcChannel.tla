---------------------------- MODULE MCRpcChannel ----------------------------
(* RpcChannel for TLC. *)
EXTENDS RpcChannel

CONSTANTS c1, c2, c3
=============================================================================
