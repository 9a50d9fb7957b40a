-------------------------- MODULE TcpServerProofs --------------------------
(***************************************************************************)
(* Theorems about TcpServer, for any number of I/O threads and clients and *)
(* any limit of descriptors.                                               *)
(***************************************************************************)
EXTENDS TcpServer, TLAPS

Listening == {"listening", "loop", "setState", "crashed", "stuck"}

(* How far start-up is: the IOThreads come into being one after the other, *)
(* each behind its first semaphore, and pass the second one after start(). *)
ThreadStarted(i) ==
  /\ i <= built => thread[i] \in {"waiting", "looping"}
  /\ i > built /\ (main # "waitInit" \/ i # built + 1) => thread[i] = "none"
  /\ initSem[i] > 0 => thread[i] = "waiting" /\ i > built
  /\ i <= started => \/ thread[i] = "waiting" /\ startSem[i] = 1
                     \/ thread[i] = "looping" /\ startSem[i] = 0
  /\ i > started => startSem[i] = 0 /\ thread[i] # "looping"

StartInv ==
  /\ main \in {"acceptor", "exited"} => built = 0
  /\ main = "waitInit" => built < N
  /\ started > 0 => main \in Listening
  /\ main \in Listening => built = N
  /\ main \in {"loop", "setState", "crashed", "stuck"} => started = N
  /\ \A i \in Threads : ThreadStarted(i)

(* A connection has a loop from onAccept on, which runs after start().     *)
GivenInv ==
  \A c \in Clients :
    /\ state[c] = "none" <=> loopOf[c] = 0
    /\ loopOf[c] # 0 => started = N

(* Less the turn they have had in this round, the shares are equal.        *)
Turn(i) == IF i <= index THEN 1 ELSE 0

Share(i) == given[i] - Turn(i)

RoundRobin == \A i, j \in Threads : Share(i) = Share(j)

(* Descriptors are handed out upwards, below the size of the group.        *)
FdInv ==
  /\ groupSize >= 2
  /\ \A c \in Clients : fdOf[c] # -1 =>
       /\ fdOf[c] \in FirstFd..FirstFd + counts - 1
       /\ fdOf[c] < groupSize
       /\ \A d \in Clients \ {c} : fdOf[c] # fdOf[d]

(* Clients wait once in the kernel, before they have a connection, and     *)
(* once in the queue of their loop, before they are watched there.         *)
Places(s) == 1..Len(s)
Distinct(s) == \A k, l \in Places(s) : s[k] = s[l] => k = l
In(c, s) == \E k \in Places(s) : s[k] = c

BacklogInv == Distinct(backlog) /\ \A k \in Places(backlog) : state[backlog[k]] = "none"

LoopInv(c, i) ==
  /\ c \in watched[i] \/ In(c, tasks[i]) <=> loopOf[c] = i /\ state[c] # "Closed"
  /\ ~(c \in watched[i] /\ In(c, tasks[i]))

QueueInv ==
  /\ BacklogInv
  /\ \A i \in Threads : Distinct(tasks[i])
  /\ \A c \in Clients : \A i \in Threads : LoopInv(c, i)

IInv == TypeOK /\ StartInv /\ GivenInv /\ RoundRobin /\ FdInv /\ QueueInv

-----------------------------------------------------------------------------
LEMMA InitInv == Init => IInv
<1> SUFFICES ASSUME Init PROVE IInv
  OBVIOUS
<1>1. TypeOK
  BY ServerAssumption DEF Init, TypeOK, Threads
<1>2. StartInv
  BY ServerAssumption DEF Init, StartInv, ThreadStarted, Threads, Listening
<1>3. GivenInv /\ RoundRobin /\ FdInv
  BY ServerAssumption DEF Init, GivenInv, RoundRobin, Share, Turn, FdInv, Threads
<1>4. QueueInv
  BY ServerAssumption DEF Init, QueueInv, BacklogInv, LoopInv, Distinct, In, Places, Threads
<1>5. QED
  BY <1>1, <1>2, <1>3, <1>4 DEF IInv

(* The next descriptor has its FdEvent once the group has grown.           *)
LEMMA GrownHolds ==
  ASSUME TypeOK, FdInv
  PROVE  /\ Grown(NextFd) \in Nat /\ Grown(NextFd) >= groupSize
         /\ NextFd \in Nat /\ NextFd < Grown(NextFd)
<1>1. NextFd \in Nat /\ groupSize \in Nat /\ groupSize >= 2
  BY ServerAssumption DEF TypeOK, FdInv, NextFd
<1>2. \A n \in Nat : n >= 2 => (3 * n) \div 2 \in Nat /\ n < (3 * n) \div 2
  OBVIOUS
<1>3. QED
  BY <1>1, <1>2 DEF Grown

(* Every step keeps the types.                                             *)
LEMMA TypeKept ==
  ASSUME TypeOK, StartInv, FdInv, [Next]_vars
  PROVE  TypeOK'
<1> USE ServerAssumption
<1>1. CASE MakeAcceptor \/ AcceptorExits \/ Listen \/ EnterLoop \/ AcceptFails
  BY <1>1 DEF MakeAcceptor, AcceptorExits, Listen, EnterLoop, AcceptFails, TypeOK,
     startVars, connVars
<1>2. CASE CreateThread
  BY <1>2 DEF CreateThread, TypeOK, startVars, connVars, Threads
<1>3. CASE WaitInit
  BY <1>3 DEF WaitInit, TypeOK, connVars, Threads, StartInv
<1>4. CASE StartThread
  BY <1>4 DEF StartThread, TypeOK, connVars, Threads, StartInv, ThreadStarted
<1>5. CASE OnAccept
  <2> DEFINE c == Head(backlog)
  <2>1. c \in Clients /\ Tail(backlog) \in Seq(Clients)
    BY <1>5 DEF OnAccept, TypeOK
  <2>2. NextThread \in Threads /\ NextThread \in 0..N
    BY DEF TypeOK, NextThread, Threads
  <2>3. Grown(NextFd) \in Nat /\ NextFd \in Int
    BY GrownHolds
  <2>4. tasks' \in [Threads -> Seq(Clients)]
    BY <1>5, <2>1, <2>2 DEF OnAccept, Asks, TypeOK
  <2>5. given' \in [Threads -> Nat] /\ counts' \in Nat
    BY <1>5, <2>2 DEF OnAccept, TypeOK
  <2>6. QED
    BY <1>5, <2>1, <2>2, <2>3, <2>4, <2>5 DEF OnAccept, TypeOK, startVars
<1>6. CASE SetState
  BY <1>6 DEF SetState, TypeOK, startVars
<1>7. ASSUME NEW i \in Threads, ThreadStep(i) PROVE TypeOK'
  <2>1. CASE MakeLoop(i)
    BY <2>1 DEF MakeLoop, TypeOK, startVars, connVars
  <2>2. CASE PostInit(i)
    <3>1. initSem[i] = 0
      <4>1. ThreadStarted(i) /\ thread[i] = "made" /\ initSem[i] \in 0..1
        BY <2>2 DEF PostInit, TypeOK, StartInv
      <4>2. ~(initSem[i] > 0)
        BY <4>1 DEF ThreadStarted
      <4>3. QED
        BY <4>1, <4>2
    <3>2. QED
      BY <2>2, <3>1 DEF PostInit, TypeOK, connVars
  <2>3. CASE StartLoop(i)
    BY <2>3 DEF StartLoop, TypeOK, connVars
  <2>4. CASE Register(i)
    <3>1. Head(tasks[i]) \in Clients /\ Tail(tasks[i]) \in Seq(Clients)
      BY <2>4 DEF Register, TypeOK
    <3>2. QED
      BY <2>4, <3>1 DEF Register, TypeOK, startVars, connVars
  <2>5. CASE \E c \in Clients : Clear(i, c)
    BY <2>5 DEF Clear, TypeOK, startVars
  <2>6. QED
    BY <1>7, <2>1, <2>2, <2>3, <2>4, <2>5 DEF ThreadStep
<1>8. ASSUME NEW c \in Clients, Connect(c) \/ Leave(c) PROVE TypeOK'
  <2>1. CASE Connect(c)
    BY <2>1 DEF Connect, TypeOK, startVars, connVars
  <2>2. CASE Leave(c)
    BY <2>2 DEF Leave, TypeOK, startVars, connVars
  <2>3. QED
    BY <1>8, <2>1, <2>2
<1>9. CASE UNCHANGED vars
  BY <1>9 DEF vars, TypeOK, startVars, connVars
<1>10. QED
  BY <1>1, <1>2, <1>3, <1>4, <1>5, <1>6, <1>7, <1>8, <1>9 DEF Next, MainStep

-----------------------------------------------------------------------------
(* Only the start-up actions touch what StartInv speaks of.                *)
LEMMA StartKept ==
  ASSUME TypeOK, StartInv, [Next]_vars
  PROVE  StartInv'
<1> USE ServerAssumption DEF Threads
<1>1. CASE MakeAcceptor \/ AcceptorExits
  BY <1>1 DEF MakeAcceptor, AcceptorExits, StartInv, ThreadStarted, startVars, Listening, TypeOK
<1>2. CASE CreateThread
  BY <1>2 DEF CreateThread, StartInv, ThreadStarted, startVars, Listening, TypeOK
<1>3. CASE WaitInit
  <2>1. built' = built + 1 /\ main' = "create" /\ main = "waitInit" /\ thread' = thread
        /\ startSem' = startSem /\ started' = started /\ built + 1 \in Threads /\ started = 0
    BY <1>3 DEF WaitInit, StartInv, TypeOK, Listening
  <2>2. thread[built + 1] = "waiting" /\ initSem'[built + 1] = 0
    BY <1>3, <2>1 DEF WaitInit, StartInv, ThreadStarted, TypeOK
  <2>3. ASSUME NEW i \in Threads, i # built + 1 PROVE initSem'[i] = initSem[i]
    BY <1>3, <2>3 DEF WaitInit, TypeOK
  <2>4. ASSUME NEW i \in Threads PROVE ThreadStarted(i)'
    <3>1. ThreadStarted(i) /\ i \in Int /\ built \in Int /\ startSem[i] = 0 /\ thread[i] # "looping"
      BY <2>1 DEF StartInv, ThreadStarted, TypeOK
    <3>2. CASE i = built + 1
      BY <2>1, <2>2, <3>1, <3>2 DEF ThreadStarted
    <3>3. CASE i # built + 1
      <4>1. initSem'[i] = initSem[i]
        BY <2>3, <3>3
      <4>2. i <= built' => i <= built
        BY <2>1, <3>1, <3>3
      <4>3. initSem[i] > 0 => FALSE
        BY <2>1, <3>1, <3>3 DEF ThreadStarted
      <4>4. i > built' => i > built
        BY <2>1, <3>1
      <4>5. QED
        BY <2>1, <3>1, <3>3, <4>1, <4>2, <4>3, <4>4 DEF ThreadStarted
    <3>4. QED
      BY <3>2, <3>3
  <2>5. QED
    BY <2>1, <2>4 DEF StartInv, TypeOK, Listening
<1>4. CASE Listen \/ EnterLoop
  BY <1>4 DEF Listen, EnterLoop, StartInv, ThreadStarted, startVars, Listening, TypeOK
<1>5. CASE StartThread
  BY <1>5 DEF StartThread, StartInv, ThreadStarted, Listening, TypeOK
<1>6. CASE OnAccept \/ SetState \/ AcceptFails
  <2>1. /\ main \in {"loop", "setState"} /\ main' \in {"loop", "setState", "crashed", "stuck"}
        /\ UNCHANGED <<startVars, thread>>
    BY <1>6 DEF OnAccept, SetState, AcceptFails, startVars
  <2>2. \A i \in Threads : ThreadStarted(i)'
    BY <2>1 DEF StartInv, ThreadStarted, startVars
  <2>3. QED
    BY <2>1, <2>2 DEF StartInv, startVars, Listening
<1>7. ASSUME NEW i \in Threads, ThreadStep(i) PROVE StartInv'
  <2>1. CASE MakeLoop(i)
    BY <2>1 DEF MakeLoop, StartInv, ThreadStarted, startVars, Listening, TypeOK
  <2>2. CASE PostInit(i)
    BY <2>2 DEF PostInit, StartInv, ThreadStarted, Listening, TypeOK
  <2>3. CASE StartLoop(i)
    BY <2>3 DEF StartLoop, StartInv, ThreadStarted, Listening, TypeOK
  <2>4. CASE Register(i) \/ \E c \in Clients : Clear(i, c)
    BY <2>4 DEF Register, Clear, StartInv, ThreadStarted, startVars, Listening
  <2>5. QED
    BY <1>7, <2>1, <2>2, <2>3, <2>4 DEF ThreadStep
<1>8. CASE UNCHANGED vars \/ \E c \in Clients : Connect(c) \/ Leave(c)
  BY <1>8 DEF vars, Connect, Leave, StartInv, ThreadStarted, startVars, Listening
<1>9. QED
  BY <1>1, <1>2, <1>3, <1>4, <1>5, <1>6, <1>7, <1>8 DEF Next, MainStep

(* What onAccept does to the connections, in the terms of the invariants.  *)
Accepted(c, i) ==
  /\ main = "loop" /\ backlog # <<>> /\ c = Head(backlog) /\ c \in Clients
  /\ i \in Threads /\ i = NextThread /\ index' = i
  /\ given' = [given EXCEPT ![i] = @ + 1]
  /\ loopOf' = [loopOf EXCEPT ![c] = i]
  /\ fdOf' = [fdOf EXCEPT ![c] = NextFd]
  /\ state' = [state EXCEPT ![c] = "NotConnected"]
  /\ tasks' = [tasks EXCEPT ![i] = Append(@, c)]
  /\ backlog' = Tail(backlog) /\ watched' = watched /\ started' = started
  /\ counts' = counts + 1 /\ groupSize' = Grown(NextFd)

LEMMA OnAcceptIs ==
  ASSUME TypeOK, OnAccept
  PROVE  \E c \in Clients, i \in Threads : Accepted(c, i)
<1>1. Head(backlog) \in Clients
  BY DEF OnAccept, TypeOK
<1>2. NextThread \in Threads
  BY ServerAssumption DEF TypeOK, NextThread, Threads
<1>3. Accepted(Head(backlog), NextThread)
  BY <1>1, <1>2 DEF OnAccept, Asks, Accepted, startVars
<1>4. QED
  BY <1>1, <1>2, <1>3

(* The steps that leave the connections as they are.                       *)
Apart == UNCHANGED <<connVars, tasks, watched, backlog>> /\ (started' = started \/ started < N)

LEMMA OtherSteps ==
  ASSUME TypeOK, Next
  PROVE  \/ Apart
         \/ OnAccept \/ SetState
         \/ \E i \in Threads : Register(i) \/ \E c \in Clients : Clear(i, c)
         \/ \E c \in Clients : Connect(c)
<1>1. CASE MainStep
  BY <1>1 DEF MainStep, MakeAcceptor, AcceptorExits, CreateThread, WaitInit, Listen, StartThread,
     EnterLoop, AcceptFails, Apart, startVars, connVars
<1>2. ASSUME NEW i \in Threads, ThreadStep(i)
      PROVE  Apart \/ Register(i) \/ \E c \in Clients : Clear(i, c)
  BY <1>2 DEF ThreadStep, MakeLoop, PostInit, StartLoop, Apart, startVars, connVars
<1>3. ASSUME NEW c \in Clients, Leave(c) PROVE Apart
  BY <1>3 DEF Leave, Apart, startVars
<1>4. QED
  BY <1>1, <1>2, <1>3 DEF Next

LEMMA GivenKept ==
  ASSUME TypeOK, StartInv, GivenInv, [Next]_vars
  PROVE  GivenInv'
<1>1. CASE Apart
  BY <1>1 DEF Apart, GivenInv, connVars, StartInv, TypeOK
<1>2. CASE OnAccept
  <2>1. PICK c \in Clients, i \in Threads : Accepted(c, i)
    BY <1>2, OnAcceptIs
  <2>2. started' = N /\ i # 0
    BY <1>2, <2>1 DEF StartInv, OnAccept, startVars, Threads
  <2>3. QED
    BY <2>1, <2>2 DEF Accepted, GivenInv, TypeOK
<1>3. CASE SetState
  BY <1>3 DEF SetState, GivenInv, startVars, TypeOK
<1>4. ASSUME NEW i \in Threads, Register(i) \/ \E c \in Clients : Clear(i, c) PROVE GivenInv'
  BY <1>4 DEF Register, Clear, GivenInv, connVars, startVars, TypeOK
<1>5. ASSUME NEW c \in Clients, Connect(c) PROVE GivenInv'
  BY <1>5 DEF Connect, GivenInv, connVars, startVars
<1>6. CASE UNCHANGED vars
  BY <1>6 DEF vars, GivenInv, connVars, startVars
<1>7. QED
  BY <1>1, <1>2, <1>3, <1>4, <1>5, <1>6, OtherSteps

LEMMA RoundRobinKept ==
  ASSUME TypeOK, RoundRobin, [Next]_vars
  PROVE  RoundRobin'
<1>1. CASE OnAccept
  <2>1. PICK c \in Clients, i \in Threads : Accepted(c, i)
    BY <1>1, OnAcceptIs
  <2>2. ASSUME NEW j \in Threads
        PROVE  Share(j)' = IF index = N THEN Share(j) + 1 ELSE Share(j)
    <3>1. /\ index' = IF index = N THEN 1 ELSE index + 1
          /\ given'[j] = IF j = index' THEN given[j] + 1 ELSE given[j]
      BY <2>1 DEF Accepted, NextThread, TypeOK
    <3>2. given[j] \in Nat /\ index \in 0..N /\ j \in 1..N /\ N \in Nat \ {0}
      BY ServerAssumption DEF TypeOK, Threads
    <3>3. CASE index = N
      <4>1. index' = 1 /\ Turn(j) = 1
        BY <3>1, <3>2, <3>3 DEF Turn
      <4>2. CASE j = 1
        BY <3>1, <3>2, <3>3, <4>1, <4>2 DEF Share, Turn
      <4>3. CASE j # 1
        BY <3>1, <3>2, <3>3, <4>1, <4>3 DEF Share, Turn
      <4>4. QED
        BY <4>2, <4>3
    <3>4. CASE index # N
      <4>1. index' = index + 1
        BY <3>1, <3>4
      <4>2. CASE j = index + 1
        BY <3>1, <3>2, <3>4, <4>1, <4>2 DEF Share, Turn
      <4>3. CASE j # index + 1
        BY <3>1, <3>2, <3>4, <4>1, <4>3 DEF Share, Turn
      <4>4. QED
        BY <4>2, <4>3
    <3>5. QED
      BY <3>3, <3>4
  <2>3. QED
    BY <2>2, Zenon DEF RoundRobin, Threads
<1>2. CASE ~OnAccept
  <2>1. given' = given /\ index' = index
    BY <1>2, OtherSteps DEF Apart, SetState, Register, Clear, Connect, vars, connVars
  <2>2. QED
    BY <2>1 DEF RoundRobin, Share, Turn
<1>3. QED
  BY <1>1, <1>2

LEMMA FdKept ==
  ASSUME TypeOK, FdInv, [Next]_vars
  PROVE  FdInv'
<1>1. CASE OnAccept
  <2>1. PICK c \in Clients, i \in Threads : Accepted(c, i)
    BY <1>1, OnAcceptIs
  <2> DEFINE fd == NextFd
  <2>2. fd \in Nat /\ fd < groupSize' /\ groupSize <= groupSize' /\ groupSize' \in Nat
        /\ fd = FirstFd + counts /\ counts' = counts + 1
    BY <2>1, GrownHolds DEF Accepted, NextFd, TypeOK, FdInv
  <2>3. \A d \in Clients : fdOf'[d] = IF d = c THEN fd ELSE fdOf[d]
    BY <2>1 DEF Accepted, TypeOK
  <2> HIDE DEF fd
  <2>5. FirstFd \in Nat /\ counts \in Nat /\ groupSize \in Nat /\ groupSize >= 2
    BY ServerAssumption DEF TypeOK, FdInv
  <2>4. ASSUME NEW d \in Clients, fdOf[d] # -1
        PROVE  fdOf[d] \in FirstFd..fd - 1 /\ fdOf[d] < groupSize'
    <3>1. fdOf[d] \in FirstFd..FirstFd + counts - 1 /\ fdOf[d] < groupSize
      BY <2>4 DEF FdInv
    <3>2. QED
      BY <2>2, <2>5, <3>1
  <2>6. ASSUME NEW d \in Clients, fdOf'[d] # -1
        PROVE  fdOf'[d] \in FirstFd..FirstFd + counts' - 1 /\ fdOf'[d] < groupSize'
    <3>1. CASE d = c
      <4>1. fdOf'[d] = fd
        BY <2>3, <3>1
      <4>2. QED
        BY <2>2, <2>5, <4>1
    <3>2. CASE d # c
      <4>1. fdOf'[d] \in FirstFd..fd - 1 /\ fdOf'[d] < groupSize'
        BY <2>3, <2>4, <2>6, <3>2
      <4>2. QED
        BY <2>2, <2>5, <4>1
    <3>3. QED
      BY <3>1, <3>2
  <2>7. ASSUME NEW d \in Clients, fdOf'[d] # -1, NEW e \in Clients \ {d}
        PROVE  fdOf'[d] # fdOf'[e]
    <3>1. fdOf[d] \in Int /\ fdOf[e] \in Int
      BY DEF TypeOK
    <3>2. fdOf[d] # fd /\ fdOf[e] # fd
      BY <2>2, <2>4, <2>5, <3>1
    <3>3. d # c => fdOf[d] # fdOf[e]
      BY <2>3, <2>7 DEF FdInv
    <3>4. QED
      BY <2>3, <3>2, <3>3
  <2>8. QED
    BY <2>2, <2>5, <2>6, <2>7 DEF FdInv
<1>2. CASE ~OnAccept
  <2>1. fdOf' = fdOf /\ counts' = counts /\ groupSize' = groupSize
    BY <1>2, OtherSteps DEF Apart, SetState, Register, Clear, Connect, vars, connVars
  <2>2. QED
    BY <2>1 DEF FdInv
<1>3. QED
  BY <1>1, <1>2

-----------------------------------------------------------------------------
(* What a queue without repetitions holds after Append and Tail.           *)
LEMMA AppendIn ==
  ASSUME NEW S, NEW s \in Seq(S), NEW e \in S
  PROVE  /\ \A x : In(x, Append(s, e)) <=> In(x, s) \/ x = e
         /\ Distinct(s) /\ ~In(e, s) => Distinct(Append(s, e))
<1>1. /\ Append(s, e) \in Seq(S) /\ Len(Append(s, e)) = Len(s) + 1 /\ Len(s) \in Nat
      /\ \A k \in 1..Len(s) : Append(s, e)[k] = s[k]
      /\ Append(s, e)[Len(s) + 1] = e
  OBVIOUS
<1>2. \A k : k \in 1..Len(s) + 1 <=> k \in 1..Len(s) \/ k = Len(s) + 1
  BY <1>1
<1>3. QED
  BY <1>1, <1>2, Zenon DEF In, Distinct, Places

LEMMA TailIn ==
  ASSUME NEW S, NEW s \in Seq(S), s # <<>>, Distinct(s)
  PROVE  /\ Head(s) \in S /\ In(Head(s), s)
         /\ \A x : In(x, Tail(s)) <=> In(x, s) /\ x # Head(s)
         /\ Distinct(Tail(s))
<1>1. /\ Tail(s) \in Seq(S) /\ Len(Tail(s)) = Len(s) - 1 /\ Len(s) \in Nat \ {0}
      /\ Head(s) = s[1] /\ Head(s) \in S
      /\ \A k \in 1..Len(s) - 1 : Tail(s)[k] = s[k + 1]
  OBVIOUS
<1>2. \A k \in 1..Len(s) - 1 : k + 1 \in 1..Len(s) /\ k + 1 # 1
  BY <1>1
<1>3. \A k \in 1..Len(s) : k # 1 => k - 1 \in 1..Len(s) - 1 /\ (k - 1) + 1 = k
  BY <1>1
<1>4. 1 \in 1..Len(s)
  BY <1>1
<1>5. Distinct(Tail(s))
  <2>1. SUFFICES ASSUME NEW k \in 1..Len(s) - 1, NEW l \in 1..Len(s) - 1, s[k + 1] = s[l + 1]
                 PROVE  k = l
    BY <1>1 DEF Distinct, Places
  <2>2. k + 1 = l + 1
    BY <1>2, <2>1 DEF Distinct, Places
  <2>3. QED
    BY <2>2
<1>6. ASSUME NEW x PROVE In(x, Tail(s)) <=> In(x, s) /\ x # Head(s)
  <2>1. ASSUME NEW k \in 1..Len(s) - 1, Tail(s)[k] = x PROVE In(x, s) /\ x # Head(s)
    BY <1>1, <1>2, <1>4, <2>1 DEF In, Distinct, Places
  <2>2. ASSUME NEW k \in 1..Len(s), s[k] = x, x # Head(s) PROVE In(x, Tail(s))
    <3>1. k # 1
      BY <1>1, <2>2
    <3>2. k - 1 \in 1..Len(s) - 1 /\ Tail(s)[k - 1] = x
      BY <1>1, <1>3, <2>2, <3>1
    <3>3. QED
      BY <1>1, <3>2 DEF In, Places
  <2>3. QED
    BY <1>1, <2>1, <2>2 DEF In, Places
<1>7. QED
  BY <1>1, <1>4, <1>5, <1>6 DEF In, Places

LEMMA BacklogKept ==
  ASSUME TypeOK, BacklogInv, [Next]_vars
  PROVE  BacklogInv'
<1>0. BacklogInv <=> Distinct(backlog) /\ \A x : In(x, backlog) => state[x] = "none"
  BY DEF BacklogInv, In
<1>0p. BacklogInv' <=> Distinct(backlog') /\ \A x : In(x, backlog') => state'[x] = "none"
  BY DEF BacklogInv, In, Distinct, Places
<1>1. CASE OnAccept
  <2>1. PICK c \in Clients, i \in Threads : Accepted(c, i)
    BY <1>1, OnAcceptIs
  <2>2. backlog \in Seq(Clients) /\ backlog # <<>>
    BY <2>1 DEF Accepted, TypeOK
  <2>3. Distinct(backlog') /\ \A x : In(x, backlog') <=> In(x, backlog) /\ x # c
    BY <1>0, <2>1, <2>2, TailIn DEF Accepted
  <2>4. \A x : x # c => state'[x] = state[x]
    BY <2>1 DEF Accepted, TypeOK
  <2>5. QED
    BY <1>0, <1>0p, <2>3, <2>4
<1>2. ASSUME NEW c \in Clients, Connect(c) PROVE BacklogInv'
  <2>1. backlog \in Seq(Clients) /\ backlog' = Append(backlog, c) /\ state' = state
        /\ state[c] = "none"
    BY <1>2 DEF Connect, TypeOK, connVars
  <2>2. ~In(c, backlog)
    BY <1>2, <2>1 DEF Connect, Range, In, Places
  <2>3. Distinct(backlog') /\ \A x : In(x, backlog') <=> In(x, backlog) \/ x = c
    BY <1>0, <2>1, <2>2, AppendIn
  <2>4. QED
    BY <1>0, <1>0p, <2>1, <2>3
<1>3. ASSUME UNCHANGED backlog, \A k \in Places(backlog) : state'[backlog[k]] = state[backlog[k]]
      PROVE BacklogInv'
  BY <1>3 DEF BacklogInv, Distinct, Places
<1>4. CASE SetState
  <2>1. \A k \in Places(backlog) : backlog[k] \in Clients
    BY DEF TypeOK, Places
  <2>2. QED
    BY <1>3, <1>4, <2>1 DEF SetState, BacklogInv
<1>5. ASSUME NEW i \in Threads, NEW c \in Clients, Clear(i, c) PROVE BacklogInv'
  <2>1. \A x : x # c => state'[x] = state[x]
    BY <1>5 DEF Clear, TypeOK
  <2>2. \A k \in Places(backlog) : backlog[k] # c
    BY <1>5 DEF Clear, BacklogInv
  <2>3. QED
    BY <1>3, <1>5, <2>1, <2>2 DEF Clear
<1>6. ASSUME NEW i \in Threads, Register(i) PROVE BacklogInv'
  BY <1>3, <1>6 DEF Register, connVars
<1>7. CASE Apart \/ UNCHANGED vars
  BY <1>3, <1>7 DEF Apart, vars, connVars
<1>8. QED
  BY <1>1, <1>2, <1>4, <1>5, <1>6, <1>7, OtherSteps

LEMMA QueueKept ==
  ASSUME TypeOK, GivenInv, QueueInv, [Next]_vars
  PROVE  QueueInv'
<1>0. BacklogInv'
  BY BacklogKept DEF QueueInv
<1>1. CASE OnAccept
  <2>1. PICK c \in Clients, i \in Threads : Accepted(c, i)
    BY <1>1, OnAcceptIs
  <2>2. backlog \in Seq(Clients) /\ 1 \in Places(backlog) /\ c = backlog[1]
    BY <2>1 DEF Accepted, TypeOK, Places
  <2>3. state[c] = "none" /\ loopOf[c] = 0
    BY <2>2 DEF QueueInv, BacklogInv, GivenInv
  <2>4. \A j \in Threads : c \notin watched[j] /\ ~In(c, tasks[j])
    BY <2>3 DEF QueueInv, LoopInv, Threads
  <2>5. tasks[i] \in Seq(Clients) /\ tasks'[i] = Append(tasks[i], c)
        /\ \A j \in Threads : j # i => tasks'[j] = tasks[j]
    BY <2>1 DEF Accepted, TypeOK
  <2>6. Distinct(tasks'[i]) /\ \A x : In(x, tasks'[i]) <=> In(x, tasks[i]) \/ x = c
    BY <2>4, <2>5, AppendIn DEF QueueInv
  <2>7. /\ loopOf'[c] = i /\ state'[c] = "NotConnected" /\ watched' = watched
        /\ \A d \in Clients : d # c => loopOf'[d] = loopOf[d] /\ state'[d] = state[d]
    BY <2>1 DEF Accepted, TypeOK
  <2>8. ASSUME NEW d \in Clients, NEW j \in Threads PROVE LoopInv(d, j)'
    <3>1. LoopInv(d, j)
      BY DEF QueueInv
    <3>2. LoopInv(d, j)' <=>
            /\ d \in watched'[j] \/ In(d, tasks'[j]) <=> loopOf'[d] = j /\ state'[d] # "Closed"
            /\ ~(d \in watched'[j] /\ In(d, tasks'[j]))
      BY DEF LoopInv, In, Places
    <3>3. CASE d = c
      BY <2>4, <2>5, <2>6, <2>7, <3>2, <3>3
    <3>4. CASE d # c
      BY <2>5, <2>6, <2>7, <3>1, <3>2, <3>4 DEF LoopInv
    <3>5. QED
      BY <3>3, <3>4
  <2>9. \A j \in Threads : Distinct(tasks'[j])
    BY <2>5, <2>6 DEF QueueInv
  <2>10. QED
    BY <1>0, <2>8, <2>9 DEF QueueInv, Distinct, Places
<1>2. ASSUME NEW i \in Threads, Register(i) PROVE QueueInv'
  <2> DEFINE c == Head(tasks[i])
  <2>1. tasks[i] \in Seq(Clients) /\ tasks[i] # <<>> /\ Distinct(tasks[i])
    BY <1>2 DEF Register, TypeOK, QueueInv
  <2>2. c \in Clients /\ In(c, tasks[i]) /\ Distinct(Tail(tasks[i]))
        /\ \A x : In(x, Tail(tasks[i])) <=> In(x, tasks[i]) /\ x # c
    BY <2>1, TailIn
  <2> HIDE DEF c
  <2>3. /\ tasks'[i] = Tail(tasks[i]) /\ watched'[i] = watched[i] \cup {c}
        /\ \A j \in Threads : j # i => tasks'[j] = tasks[j] /\ watched'[j] = watched[j]
        /\ loopOf' = loopOf /\ state' = state
    BY <1>2 DEF Register, TypeOK, connVars, c
  <2>4. ASSUME NEW d \in Clients, NEW j \in Threads PROVE LoopInv(d, j)'
    <3>1. LoopInv(d, j)
      BY DEF QueueInv
    <3>2. LoopInv(d, j)' <=>
            /\ d \in watched'[j] \/ In(d, tasks'[j]) <=> loopOf'[d] = j /\ state'[d] # "Closed"
            /\ ~(d \in watched'[j] /\ In(d, tasks'[j]))
      BY DEF LoopInv, In, Places
    <3>3. CASE j = i
      <4>1. d \in watched'[j] <=> d \in watched[j] \/ d = c
        BY <2>3, <3>3
      <4>2. In(d, tasks'[j]) <=> In(d, tasks[j]) /\ d # c
        BY <2>2, <2>3, <3>3
      <4>3. In(c, tasks[j])
        BY <2>2, <3>3
      <4>4. QED
        BY <2>3, <3>1, <3>2, <4>1, <4>2, <4>3 DEF LoopInv
    <3>4. CASE j # i
      BY <2>3, <3>1, <3>2, <3>4 DEF LoopInv
    <3>5. QED
      BY <3>3, <3>4
  <2>5. \A j \in Threads : Distinct(tasks'[j])
    BY <2>2, <2>3 DEF QueueInv
  <2>6. QED
    BY <1>0, <2>4, <2>5 DEF QueueInv, Distinct, Places
<1>3. ASSUME NEW i \in Threads, NEW c \in Clients, Clear(i, c) PROVE QueueInv'
  <2>1. /\ tasks' = tasks /\ loopOf' = loopOf /\ state'[c] = "Closed" /\ c \in watched[i]
        /\ watched'[i] = watched[i] \ {c}
        /\ \A j \in Threads : j # i => watched'[j] = watched[j]
        /\ \A d \in Clients : d # c => state'[d] = state[d]
    BY <1>3 DEF Clear, TypeOK
  <2>2. loopOf[c] = i
    BY <2>1 DEF QueueInv, LoopInv
  <2>3. ASSUME NEW d \in Clients, NEW j \in Threads PROVE LoopInv(d, j)'
    <3>1. LoopInv(d, j)
      BY DEF QueueInv
    <3>2. LoopInv(d, j)' <=>
            /\ d \in watched'[j] \/ In(d, tasks[j]) <=> loopOf[d] = j /\ state'[d] # "Closed"
            /\ ~(d \in watched'[j] /\ In(d, tasks[j]))
      BY <2>1 DEF LoopInv, In, Places
    <3>3. CASE d = c
      <4>1. j = i => ~In(d, tasks[j]) /\ d \notin watched'[j]
        BY <2>1, <3>1, <3>3 DEF LoopInv
      <4>2. j # i => ~In(d, tasks[j]) /\ d \notin watched'[j]
        BY <2>1, <2>2, <3>1, <3>3 DEF LoopInv
      <4>3. QED
        BY <2>1, <3>2, <3>3, <4>1, <4>2
    <3>4. CASE d # c
      <4>1. d \in watched'[j] <=> d \in watched[j]
        BY <2>1, <3>4
      <4>2. QED
        BY <2>1, <3>1, <3>2, <3>4, <4>1 DEF LoopInv
    <3>5. QED
      BY <3>3, <3>4
  <2>4. QED
    BY <1>0, <2>1, <2>3 DEF QueueInv, Distinct, Places
<1>4. ASSUME UNCHANGED <<tasks, watched, loopOf>>,
             \A c \in Clients : state'[c] = "Closed" <=> state[c] = "Closed"
      PROVE  QueueInv'
  BY <1>0, <1>4 DEF QueueInv, LoopInv, In, Distinct, Places
<1>5. CASE SetState
  BY <1>4, <1>5 DEF SetState
<1>6. ASSUME NEW c \in Clients, Connect(c) PROVE QueueInv'
  BY <1>4, <1>6 DEF Connect, connVars
<1>7. CASE Apart \/ UNCHANGED vars
  BY <1>4, <1>7 DEF Apart, vars, connVars
<1>8. QED
  BY <1>1, <1>2, <1>3, <1>5, <1>6, <1>7, OtherSteps

-----------------------------------------------------------------------------
LEMMA Invariant == Spec => []IInv
<1>1. IInv /\ [Next]_vars => IInv'
  BY TypeKept, StartKept, GivenKept, RoundRobinKept, FdKept, QueueKept DEF IInv
<1>2. QED
  BY <1>1, InitInv, PTL DEF Spec

(* The members of the server hold what their types say: a semaphore is     *)
(* never posted twice, and the index of the group stays within it.         *)
THEOREM TypeCorrect == Spec => []TypeOK
<1>1. IInv => TypeOK
  BY DEF IInv
<1>2. QED
  BY <1>1, Invariant, PTL

(* No connection is given to an I/O thread before that has made its loop,  *)
(* nor before start() has released it, for any number of threads.          *)
THEOREM LoopsMadeFirst == Spec => []LoopMadeFirst
<1>1. IInv => LoopMadeFirst
  <2>1. SUFFICES ASSUME IInv, NEW c \in Clients, loopOf[c] # 0
                 PROVE  /\ thread[loopOf[c]] \in {"waiting", "looping"}
                        /\ \A i \in Threads : thread[i] = "waiting" => startSem[i] = 1
    BY DEF LoopMadeFirst
  <2>2. started = N /\ N \in Nat /\ loopOf[c] \in Threads
    BY <2>1, ServerAssumption DEF IInv, GivenInv, TypeOK, Threads
  <2>3. \A i \in Threads :
          \/ thread[i] = "waiting" /\ startSem[i] = 1
          \/ thread[i] = "looping" /\ startSem[i] = 0
    BY <2>1, <2>2 DEF IInv, StartInv, ThreadStarted, Threads
  <2>4. QED
    BY <2>2, <2>3
<1>2. QED
  BY <1>1, Invariant, PTL

(* The I/O threads get equal shares of the connections, up to one.         *)
THEOREM SharesBalanced == Spec => []Balanced
<1>1. IInv => Balanced
  <2>1. SUFFICES ASSUME IInv, NEW i \in Threads, NEW j \in Threads
                 PROVE  given[i] <= given[j] + 1
    BY DEF Balanced
  <2>2. Share(i) = Share(j) /\ given[i] \in Nat /\ given[j] \in Nat
    BY <2>1 DEF IInv, RoundRobin, TypeOK
  <2>3. Turn(i) \in {0, 1} /\ Turn(j) \in {0, 1}
    BY DEF Turn
  <2>4. QED
    BY <2>2, <2>3 DEF Share
<1>2. QED
  BY <1>1, Invariant, PTL

(* Every connection has an FdEvent within the group and of its own.        *)
THEOREM FdEventsOwned == Spec => []OwnFdEvent
<1>1. IInv => OwnFdEvent
  <2>1. SUFFICES ASSUME IInv, NEW c \in Clients, fdOf[c] # -1
                 PROVE  /\ fdOf[c] \in 0..groupSize - 1
                        /\ \A d \in Clients \ {c} : fdOf[c] # fdOf[d]
    BY DEF OwnFdEvent
  <2>2. /\ fdOf[c] \in FirstFd..FirstFd + counts - 1 /\ fdOf[c] < groupSize
        /\ \A d \in Clients \ {c} : fdOf[c] # fdOf[d]
    BY <2>1 DEF IInv, FdInv
  <2>3. FirstFd \in Nat /\ groupSize \in Nat /\ counts \in Nat
    BY <2>1, ServerAssumption DEF IInv, TypeOK
  <2>4. QED
    BY <2>2, <2>3
<1>2. QED
  BY <1>1, Invariant, PTL

(* A connection is queued once for, or watched by, its own loop, and by no *)
(* other loop.                                                             *)
THEOREM LoopOwnsConnection == Spec => []OneLoop
<1>1. IInv => OneLoop
  <2>1. SUFFICES ASSUME IInv, NEW c \in Clients, NEW i \in Threads
                 PROVE  LET asked == {k \in DOMAIN tasks[i] : tasks[i][k] = c}
                        IN  IF loopOf[c] = i /\ state[c] # "Closed"
                            THEN IF c \in watched[i] THEN asked = {}
                                 ELSE \E k \in asked : asked = {k}
                            ELSE c \notin watched[i] /\ asked = {}
    BY DEF OneLoop
  <2> DEFINE asked == {k \in DOMAIN tasks[i] : tasks[i][k] = c}
  <2>2. DOMAIN tasks[i] = Places(tasks[i])
    BY <2>1 DEF IInv, TypeOK, Places
  <2>3. (In(c, tasks[i]) <=> asked # {}) /\ \A k, l \in asked : k = l
    BY <2>1, <2>2 DEF IInv, QueueInv, Distinct, In
  <2>4. LoopInv(c, i)
    BY <2>1 DEF IInv, QueueInv
  <2> HIDE DEF asked
  <2>5. asked # {} => \E k \in asked : asked = {k}
    BY <2>3
  <2>6. IF loopOf[c] = i /\ state[c] # "Closed"
        THEN IF c \in watched[i] THEN asked = {} ELSE \E k \in asked : asked = {k}
        ELSE c \notin watched[i] /\ asked = {}
    BY <2>3, <2>4, <2>5 DEF LoopInv
  <2>7. QED
    BY <2>6 DEF asked
<1>2. QED
  BY <1>1, Invariant, PTL
=============================================================================
