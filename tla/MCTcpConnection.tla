-------------------------- MODULE MCTcpConnection --------------------------
(* TcpConnection for TLC.  Order is the service of the test server, with a *)
(* second method that it leaves to the generated code; Pack is a service   *)
(* of a protobuf package.                                                  *)
EXTENDS TcpConnection

CONSTANTS m1, m2

Services == {[name |-> <<"Order">>, methods |-> {"makeOrder", "dropOrder"},
              implemented |-> {"makeOrder"}],
             [name |-> <<"pack", "Pack">>, methods |-> {"makeOrder"},
              implemented |-> {"makeOrder"}]}

Request(name, valid) == [method |-> name, valid |-> valid]

Good == {Request(<<"Order", "makeOrder">>, TRUE)}

(* A request of every outcome: called, answered with an error, crashing.   *)
Mixed == Good \cup {Request(<<"pack", "Pack", "makeOrder">>, TRUE),
                    Request(<<"Order", "dropOrder">>, TRUE)}
=============================================================================
