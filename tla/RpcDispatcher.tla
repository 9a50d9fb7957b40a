--------------------------- MODULE RpcDispatcher ---------------------------
(***************************************************************************)
(* RpcDispatcher (hl/net/rpc/rpc_dispatcher.cc) and the generated service  *)
(* it calls (testcases/order.pb.cc): which request becomes a response, an  *)
(* error reply, or the end of the thread.  A name is the sequence of its   *)
(* parts, as the dots divide it.                                           *)
(***************************************************************************)
EXTENDS Naturals, Sequences

CONSTANT Registered  \* the services that the program registers

(* A service has its full name, the methods of its descriptor, and those   *)
(* the program has overridden.  A program registers a name once.           *)
ASSUME RegisteredAssumption ==
  /\ \A s \in Registered : s.name # <<>> /\ s.implemented \subseteq s.methods
  /\ \A s, t \in Registered : s.name = t.name => s = t

(* registerService puts a service into m_service_map under its full name.  *)
ServiceMap ==
  [n \in {s.name : s \in Registered} |-> CHOOSE s \in Registered : s.name = n]

(* parseServiceFullName divides a method's full name at its first dot.     *)
(* Mutant: the method's name keeps the dot.                                *)
ParseWithDot(fullName) == [service |-> <<Head(fullName)>>, method |-> fullName]
ParseServiceFullName(fullName) == [service |-> <<Head(fullName)>>, method |-> Tail(fullName)]
Parses(fullName) == Len(fullName) >= 2

(* The generated CallMethod calls the method; one that is not overridden   *)
(* runs `done`, which dispatch passes as NULL.                             *)
CallMethod(service, method) ==
  IF method \in service.implemented THEN "called" ELSE "SIGSEGV"

(* The lookups of dispatch(), each after the one before has succeeded.     *)
FindsService(request) ==
  /\ Parses(request.method)
  /\ ParseServiceFullName(request.method).service \in DOMAIN ServiceMap

Service(request) == ServiceMap[ParseServiceFullName(request.method).service]

FindsMethod(request) ==
  /\ FindsService(request)
  /\ \E n \in Service(request).methods : ParseServiceFullName(request.method).method = <<n>>

(* What dispatch() makes of a request; `valid` says whether its message    *)
(* parses.  A method that is not found has the error of a service.         *)
Dispatch(request) ==
  CASE ~Parses(request.method) -> "ERROR_PARSE_SERVICE_NAME"
    [] Parses(request.method) /\ ~FindsMethod(request) -> "ERROR_SERVICE_NOT_FOUND"
    [] FindsMethod(request) /\ ~request.valid -> "ERROR_FAILED_DESERIALIZE"
    [] FindsMethod(request) /\ request.valid ->
         CallMethod(Service(request), Head(Tail(request.method)))

(* setTinyPBError gives the reply an error text along with the code.       *)
HasErrInfo(request) == Dispatch(request) \notin {"called", "SIGSEGV"}

-----------------------------------------------------------------------------
(* The requests a client may count on, stated without the dispatcher: they *)
(* name an overridden method of a service outside any protobuf package and *)
(* carry a message of its type.                                            *)
Servable(request) ==
  /\ request.valid
  /\ \E s \in Registered :
       Len(s.name) = 1 /\ \E n \in s.implemented : request.method = s.name \o <<n>>
=============================================================================
