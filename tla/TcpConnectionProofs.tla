------------------------ MODULE TcpConnectionProofs ------------------------
(***************************************************************************)
(* Theorems about TcpConnection, for any messages, requests, services and  *)
(* sizes: the answers and the order in which the connection is made, what  *)
(* dispatch() calls, the read loop, and the types of the members, which    *)
(* need what the read loop, decode() and encode() do to the buffers.       *)
(***************************************************************************)
EXTENDS TcpConnection, CodecProofs, FiniteSetTheorems

(* The messages that wait in m_write_dones.                                *)
ToWrite == {writeDones[i] : i \in DOMAIN writeDones}

(* A message is in at most one of m_write_dones and m_read_dones, and, once*)
(* its read callback has run, in neither.                                  *)
AnswerInv ==
  /\ answers \in [Msgs -> Nat]
  /\ readDones \subseteq written /\ ToWrite \subseteq written
  /\ writeDones \in Seq(Msgs)
  /\ \A m \in Msgs :
       /\ answers[m] <= 1
       /\ answers[m] > 0 => m \in written
       /\ m \in readDones => m \notin ToWrite
       /\ answers[m] > 0 => m \notin ToWrite \cup readDones

(* The server's connection is Connected only after onAccept has ended.     *)
MadeInv ==
  /\ state \in [Sides -> {"NotConnected", "Connected", "Closed"}]
  /\ state["server"] = "Connected" => setup = "done"
  /\ ServesWhenMade

-----------------------------------------------------------------------------
(* What a step does to the callbacks of the client.                        *)
LEMMA ClientSteps ==
  ASSUME [Next]_vars
  PROVE  \/ UNCHANGED <<writeDones, readDones, written, answers>>
         \/ \E m \in Msgs : WriteMessage(m)
         \/ \E n \in 1..SocketRoom : OnReadClient(n)
         \/ OnWriteClient
<1>1. CASE UNCHANGED vars
  BY <1>1 DEF vars
<1>2. CASE ListenAtOnce \/ MakeCoder \/ SetState
  BY <1>2 DEF ListenAtOnce, MakeCoder, SetState, clientVars
<1>3. CASE OnWriteServer
  BY <1>3 DEF OnWriteServer, Writes
<1>4. ASSUME NEW x \in Sides,
             QueueCallbacks(x) \/ OnReadRefused(x) \/ OnReadEof(x) \/ OnWriteRefused(x)
             \/ OnWriteBroken(x) \/ Exit(x)
      PROVE  UNCHANGED <<writeDones, readDones, written, answers>>
  BY <1>4 DEF QueueCallbacks, OnReadRefused, OnReadEof, OnWriteRefused, OnWriteBroken, Exit,
     Ends, clientVars
<1>5. ASSUME NEW n \in 1..SocketRoom, OnReadServer(n) \/ OnReadCrash(n) \/ OnReadStuck(n)
      PROVE  UNCHANGED <<writeDones, readDones, written, answers>>
  BY <1>5 DEF OnReadServer, OnReadCrash, OnReadStuck, Ends, clientVars
<1>6. QED
  BY <1>1, <1>2, <1>3, <1>4, <1>5 DEF Next

LEMMA AnswerKept ==
  ASSUME AnswerInv, [Next]_vars
  PROVE  AnswerInv'
<1>1. CASE UNCHANGED <<writeDones, readDones, written, answers>>
  BY <1>1 DEF AnswerInv, ToWrite
<1>2. ASSUME NEW m \in Msgs, WriteMessage(m) PROVE AnswerInv'
  <2>1. /\ m \notin written /\ written' = written \cup {m}
        /\ writeDones' = Append(writeDones, m) /\ readDones' = readDones /\ answers' = answers
    BY <1>2 DEF WriteMessage
  <2>2. writeDones' \in Seq(Msgs) /\ ToWrite' = ToWrite \cup {m}
    BY <2>1 DEF AnswerInv, ToWrite
  <2>3. QED
    BY <2>1, <2>2, Zenon DEF AnswerInv
<1>3. ASSUME NEW n \in 1..SocketRoom, OnReadClient(n) PROVE AnswerInv'
  <2>1. PICK ids : RunReadDones(ids)
    BY <1>3 DEF OnReadClient
  <2>2. written' = written /\ writeDones' = writeDones
    BY <1>3 DEF OnReadClient
  <2>3. ASSUME NEW m \in Msgs
        PROVE  /\ answers'[m] \in Nat /\ answers'[m] <= 1
               /\ answers'[m] > 0 => m \in written /\ m \notin ToWrite /\ m \notin readDones'
    BY <2>1 DEF RunReadDones, AnswerInv
  <2>4. answers' \in [Msgs -> Nat] /\ readDones' \subseteq readDones
    BY <2>1 DEF RunReadDones, AnswerInv
  <2>5. ToWrite' = ToWrite
    BY <2>2 DEF ToWrite
  <2>6. QED
    BY <2>2, <2>3, <2>4, <2>5 DEF AnswerInv
<1>4. CASE OnWriteClient
  <2>1. /\ readDones' = readDones \cup ToWrite /\ writeDones' = <<>>
        /\ written' = written /\ answers' = answers
    BY <1>4 DEF OnWriteClient, Writes, ToWrite
  <2>2. ToWrite' = {} /\ writeDones' \in Seq(Msgs)
    BY <2>1 DEF ToWrite
  <2>3. QED
    BY <2>1, <2>2, Zenon DEF AnswerInv
<1>5. QED
  BY <1>1, <1>2, <1>3, <1>4, ClientSteps

(* The read callback of a request runs at most once, however many replies  *)
(* to it arrive, and whatever decode() makes of them.                      *)
THEOREM AnsweredOnce == Spec => []AnswerOnce
<1>1. Init => AnswerInv
  BY DEF Init, AnswerInv, ToWrite
<1>2. AnswerInv => AnswerOnce
  BY DEF AnswerInv, AnswerOnce
<1>3. QED
  BY <1>1, <1>2, AnswerKept, PTL DEF Spec

-----------------------------------------------------------------------------
LEMMA MadeKept ==
  ASSUME MadeInv, [Next]_vars
  PROVE  MadeInv'
<1> USE DEF MadeInv, ServesWhenMade
<1>1. CASE UNCHANGED <<state, setup, served>>
  BY <1>1
<1>2. CASE ListenAtOnce \/ MakeCoder
  BY <1>2 DEF ListenAtOnce, MakeCoder
<1>3. CASE SetState
  BY <1>3 DEF SetState, Sides
<1>4. ASSUME NEW x \in Sides, OnReadEof(x) PROVE MadeInv'
  BY <1>4 DEF OnReadEof, Sides
<1>5. ASSUME NEW n \in 1..SocketRoom, OnReadServer(n) PROVE MadeInv'
  BY <1>5 DEF OnReadServer, ReadsCells
<1>6. ASSUME \/ OnWriteServer \/ OnWriteClient
             \/ \E m \in Msgs : WriteMessage(m)
             \/ \E x \in Sides : \/ QueueCallbacks(x) \/ OnReadRefused(x)
                                 \/ OnWriteRefused(x) \/ OnWriteBroken(x) \/ Exit(x)
             \/ \E n \in 1..SocketRoom : OnReadClient(n) \/ OnReadCrash(n) \/ OnReadStuck(n)
      PROVE  UNCHANGED <<state, setup, served>>
  BY <1>6 DEF OnWriteServer, OnWriteClient, Writes, WriteMessage, QueueCallbacks, OnReadRefused,
     OnWriteRefused, OnWriteBroken, Exit, OnReadClient, OnReadCrash, OnReadStuck, Ends
<1>7. QED
  BY <1>1, <1>2, <1>3, <1>4, <1>5, <1>6 DEF Next, vars

(* No request is dispatched before the main thread has made the connection.*)
THEOREM ServedWhenMade == Spec => []ServesWhenMade
<1>1. Init => MadeInv
  BY DEF Init, MadeInv, ServesWhenMade, Sides
<1>2. MadeInv => ServesWhenMade
  BY DEF MadeInv
<1>3. QED
  BY <1>1, <1>2, MadeKept, PTL DEF Spec

-----------------------------------------------------------------------------
(* Sequences of one and of two elements.                                   *)
LEMMA LenOne == ASSUME NEW a PROVE Len(<<a>>) = 1 /\ <<a>>[1] = a
OBVIOUS

LEMMA HeadOne == ASSUME NEW a PROVE Head(<<a>>) = a
OBVIOUS

LEMMA SingleIs ==
  ASSUME NEW S, NEW s \in Seq(S), Len(s) = 1
  PROVE  s[1] \in S /\ s = <<s[1]>>
<1>1. s[1] \in S /\ <<s[1]>> \in Seq(S) /\ Len(<<s[1]>>) = 1 /\ <<s[1]>>[1] = s[1]
  OBVIOUS
<1>2. \A i \in 1..1 : s[i] = <<s[1]>>[i]
  BY <1>1
<1>3. QED
  BY <1>1, <1>2, SeqEqual

LEMMA PairOf ==
  ASSUME NEW S, NEW a \in S, NEW b \in S
  PROVE  /\ <<a>> \o <<b>> = <<a, b>> /\ Len(<<a, b>>) = 2 /\ Head(<<a, b>>) = a
         /\ Tail(<<a, b>>) = <<b>> /\ Head(<<b>>) = b
<1>1. Len(<<a, b>>) = 2 /\ Head(<<a, b>>) = a /\ Head(<<b>>) = b
  OBVIOUS
<1>2. Tail(<<a, b>>) = <<b>>
  OBVIOUS
<1>3. <<a>> \o <<b>> = <<a, b>>
  <2>1. /\ <<a>> \o <<b>> \in Seq(S) /\ <<a, b>> \in Seq(S)
        /\ Len(<<a>> \o <<b>>) = 2 /\ Len(<<a, b>>) = 2
        /\ (<<a>> \o <<b>>)[1] = a /\ (<<a>> \o <<b>>)[2] = b
    OBVIOUS
  <2>2. \A i \in 1..2 : (<<a>> \o <<b>>)[i] = <<a, b>>[i]
    BY <2>1
  <2>3. QED
    BY <2>1, <2>2, SeqEqual
<1>4. QED
  BY <1>1, <1>2, <1>3

LEMMA PairIs ==
  ASSUME NEW S, NEW s \in Seq(S), NEW a, Len(s) >= 2, Tail(s) = <<a>>
  PROVE  s = <<Head(s), a>>
<1>1. Len(s) \in Nat /\ Len(Tail(s)) = Len(s) - 1 /\ Tail(s)[1] = s[2]
  OBVIOUS
<1>2. Len(Tail(s)) = 1 /\ Tail(s)[1] = a
  BY Zenon, <1>1, LenOne
<1>3. Len(s) = 2 /\ s[2] = a /\ Head(s) = s[1]
  BY <1>1, <1>2
<1>4. QED
  BY <1>3

(* dispatch() calls a method for the requests a client may count on and no *)
(* others, whatever services are registered: a service of a package, which *)
(* is registered under a name with a dot, is never found.                  *)
THEOREM DispatchCalls ==
  ASSUME NEW Parts, NEW r, r.method \in Seq(Parts), r.valid \in BOOLEAN,
         \A s \in Registered : s.name \in Seq(Parts) /\ s.methods \subseteq Parts
  PROVE  Dispatch(r) = "called" <=> Servable(r)
<1> DEFINE method == r.method
           service == <<Head(method)>>
<1>1. ASSUME NEW s \in Registered PROVE s.name \in DOMAIN ServiceMap /\ ServiceMap[s.name] = s
  <2>1. (CHOOSE t \in Registered : t.name = s.name) = s
    BY RegisteredAssumption
  <2>2. QED
    BY <2>1 DEF ServiceMap
<1>2. ASSUME NEW n \in DOMAIN ServiceMap
      PROVE  \E s \in Registered : s.name = n /\ ServiceMap[n] = s
  <2>1. PICK s \in Registered : s.name = n
    BY DEF ServiceMap
  <2>2. QED
    BY <1>1, <2>1
<1>3. ASSUME Servable(r) PROVE Dispatch(r) = "called"
  <2>1. PICK s \in Registered : Len(s.name) = 1 /\ \E n \in s.implemented : method = s.name \o <<n>>
    BY <1>3 DEF Servable
  <2>2. PICK n \in s.implemented : method = s.name \o <<n>>
    BY <2>1
  <2>3. n \in s.methods /\ n \in Parts /\ s.name \in Seq(Parts)
    BY <2>2, RegisteredAssumption
  <2>4. s.name[1] \in Parts /\ s.name = <<s.name[1]>> /\ method = <<s.name[1], n>>
    <3>1. s.name[1] \in Parts /\ s.name = <<s.name[1]>>
      BY <2>1, <2>3, SingleIs
    <3>2. n \in Parts
      BY <2>3
    <3>3. <<s.name[1]>> \o <<n>> = <<s.name[1], n>>
      BY <3>1, <3>2, PairOf
    <3>4. QED
      BY <2>2, <3>1, <3>3, Zenon
  <2>5. Len(method) = 2 /\ service = s.name /\ Tail(method) = <<n>> /\ Head(Tail(method)) = n
    <3>1. s.name[1] \in Parts /\ n \in Parts
      BY <2>3, <2>4
    <3>2. /\ Len(<<s.name[1], n>>) = 2 /\ Head(<<s.name[1], n>>) = s.name[1]
          /\ Tail(<<s.name[1], n>>) = <<n>> /\ Head(<<n>>) = n
      BY <3>1, PairOf
    <3>3. QED
      BY <2>4, <3>2, Zenon
  <2>6. service \in DOMAIN ServiceMap /\ ServiceMap[service] = s
    BY <1>1, <2>5
  <2>7. Parses(r.method) /\ FindsMethod(r) /\ Service(r) = s
    BY <2>3, <2>5, <2>6 DEF Parses, FindsMethod, FindsService, Service, ParseServiceFullName
  <2>8. r.valid
    BY <1>3 DEF Servable
  <2>9. CallMethod(Service(r), Head(Tail(r.method))) = "called"
    BY <2>2, <2>5, <2>7 DEF CallMethod
  <2>10. QED
    BY <2>7, <2>8, <2>9 DEF Dispatch
<1>4. ASSUME Dispatch(r) = "called" PROVE Servable(r)
  <2>1. FindsMethod(r) /\ r.valid /\ CallMethod(Service(r), Head(Tail(r.method))) = "called"
    BY <1>4 DEF Dispatch, FindsMethod, FindsService
  <2>2. /\ Len(method) >= 2 /\ service \in DOMAIN ServiceMap
        /\ \E n \in Service(r).methods : Tail(method) = <<n>>
    BY <2>1 DEF FindsMethod, FindsService, Parses, ParseServiceFullName
  <2>3. PICK s \in Registered : s.name = service /\ Service(r) = s
    BY <1>2, <2>2 DEF Service, ParseServiceFullName
  <2>4. PICK n \in s.methods : Tail(method) = <<n>>
    BY <2>2, <2>3
  <2>5. n \in s.implemented
    <3>1. Head(Tail(r.method)) = n
      BY <2>4, HeadOne, Zenon
    <3>2. CallMethod(s, n) = "called"
      BY <2>1, <2>3, <3>1, Zenon
    <3>3. QED
      BY <3>2 DEF CallMethod
  <2>6. method = <<Head(method), n>> /\ Head(method) \in Parts
    BY <2>2, <2>4, PairIs
  <2>7. method = s.name \o <<n>> /\ Len(s.name) = 1
    <3>1. \A a \in Parts : <<a, n>> = <<a>> \o <<n>> /\ Len(<<a>>) = 1
      OBVIOUS
    <3>2. QED
      BY <2>3, <2>6, <3>1, Zenon
  <2>8. QED
    BY <2>1, <2>5, <2>7 DEF Servable
<1>5. QED
  BY <1>3, <1>4

-----------------------------------------------------------------------------
(* The states of the loop of onRead: the buffer, and the cells that have   *)
(* arrived and are still to be read.                                       *)
ReadStates == [buf : Buffers, rest : Seq(Cells)]

(* A round of the loop: the buffer it reads into, how many cells it reads, *)
(* the buffer it leaves, whether it is the last one, and what it returns   *)
(* or goes on with.                                                        *)
ReadRoom(s) == IF WriteAble(s.buf) = 0 THEN ResizeBuffer(s.buf, 2 * s.buf.size) ELSE s.buf
ReadSize(s) == IF WriteAble(ReadRoom(s)) <= Len(s.rest) THEN WriteAble(ReadRoom(s)) ELSE Len(s.rest)
ReadInto(s) == MoveWriteIndex(ReadRoom(s), SubSeq(s.rest, 1, ReadSize(s)))
ReadEnds(s) == ReadSize(s) < WriteAble(ReadRoom(s))
ReadEnd(s) == [buf |-> ReadInto(s), last |-> ReadSize(s)]
ReadNext(s) == [buf |-> ReadInto(s), rest |-> SubSeq(s.rest, ReadSize(s) + 1, Len(s.rest))]

(* The loop: what it makes of each of its states.                          *)
ReadFrom ==
  CHOOSE f : f = [s \in ReadStates |-> IF ReadEnds(s) THEN ReadEnd(s) ELSE f[ReadNext(s)]]

(* A round leads from state to state, or to a result.                      *)
LEMMA ReadNextType ==
  ASSUME NEW s \in ReadStates
  PROVE  /\ ReadNext(s) \in ReadStates /\ ReadEnd(s) \in [buf : Buffers, last : Nat]
         /\ ReadSize(s) \in Nat /\ ReadSize(s) <= Len(s.rest)
<1>1. s.buf \in Buffers /\ s.rest \in Seq(Cells) /\ Len(s.rest) \in Nat
  BY DEF ReadStates
<1>2. /\ s.buf.size \in Nat /\ s.buf.read \in Nat /\ Len(s.buf.data) \in Nat
      /\ s.buf.read + Len(s.buf.data) <= s.buf.size
  BY <1>1, BufferFields
<1>3. ReadRoom(s) \in Buffers
  <2>1. 2 * s.buf.size \in Nat /\ Len(s.buf.data) <= 2 * s.buf.size
    BY <1>2
  <2>2. ResizeBuffer(s.buf, 2 * s.buf.size) \in Buffers
    BY <1>1, <2>1, ResizeIs
  <2>3. QED
    BY <1>1, <2>2 DEF ReadRoom
<1>4. WriteAble(ReadRoom(s)) \in Nat
  BY <1>3, BufferFields DEF WriteAble, WriteIndex
<1>5. ReadSize(s) \in Nat /\ ReadSize(s) <= Len(s.rest)
  BY <1>1, <1>4 DEF ReadSize
<1>6. SubSeq(s.rest, 1, ReadSize(s)) \in Seq(Cells) /\ SubSeq(s.rest, ReadSize(s) + 1, Len(s.rest)) \in Seq(Cells)
  BY <1>1, <1>5, SubSeqProperties
<1>7. ReadInto(s) \in Buffers
  BY <1>3, <1>6, MoveWriteKeeps DEF ReadInto
<1>8. QED
  BY <1>5, <1>6, <1>7 DEF ReadNext, ReadEnd, ReadStates

(* The loop is well defined: it goes on as its body says.                  *)
LEMMA ReadLoops ==
  /\ \A s \in ReadStates : ReadFrom[s] = IF ReadEnds(s) THEN ReadEnd(s) ELSE ReadFrom[ReadNext(s)]
  /\ \A x, n : ReadLoop(x, n) = ReadFrom[[buf |-> inBuf[x], rest |-> SubSeq(stream[Peer(x)], 1, n)]]
<1> DEFINE T == [buf : Buffers, last : Nat]
           done == {s \in ReadStates : ReadEnds(s)}
           res == [s \in ReadStates |-> ReadEnd(s)]
           next == [s \in ReadStates |-> ReadNext(s)]
           F(f) == [s \in ReadStates |-> IF ReadEnds(s) THEN ReadEnd(s) ELSE f[ReadNext(s)]]
<1>1. next \in [ReadStates -> ReadStates] /\ res \in [ReadStates -> T]
  BY ReadNextType
<1>2. T # {}
  <2>1. <<>> \in Seq(Cells) /\ 0 \in Nat /\ 0 + Len(<<>>) <= 0
    OBVIOUS
  <2>2. [size |-> 0, read |-> 0, data |-> <<>>] \in Buffers
    BY <2>1, RecordIsBuffer
  <2>3. [buf |-> [size |-> 0, read |-> 0, data |-> <<>>], last |-> 0] \in T
    BY <2>2
  <2>4. QED
    BY <2>3
<1>3. \A s \in ReadStates : s \in done <=> ReadEnds(s)
  OBVIOUS
<1>4. \A s \in ReadStates : res[s] = ReadEnd(s) /\ next[s] = ReadNext(s)
  OBVIOUS
<1> HIDE DEF done, res, next, T
<1>5. PICK f : Loops(ReadStates, T, done, res, next, f)
  BY <1>1, <1>2, LoopExists
<1>6. f = F(f)
  <2>1. /\ f \in [ReadStates -> T]
        /\ \A s \in ReadStates : f[s] = IF s \in done THEN res[s] ELSE f[next[s]]
    BY <1>5 DEF Loops
  <2>2. \A s \in ReadStates : f[s] = F(f)[s]
    BY <1>3, <1>4, <2>1
  <2>3. QED
    BY <2>1, <2>2
<1>7. ReadFrom = F(ReadFrom)
  <2>1. \E g : g = F(g)
    BY <1>6
  <2>2. ReadFrom = CHOOSE g : g = F(g)
    BY DEF ReadFrom
  <2> HIDE DEF F
  <2>3. QED
    BY <2>1, <2>2
<1>8. \A x, n : ReadLoop(x, n) = ReadFrom[[buf |-> inBuf[x], rest |-> SubSeq(stream[Peer(x)], 1, n)]]
  BY DEF ReadLoop, ReadFrom, ReadStates, ReadEnds, ReadEnd, ReadNext, ReadInto, ReadSize, ReadRoom
<1>9. QED
  BY <1>7, <1>8

(* One round over a buffer that is not full: a read that gets all it asked *)
(* for leaves the buffer as it was, and a shorter one appends its cells.   *)
LEMMA ReadOnce ==
  ASSUME NEW size, NEW s \in ReadStates, s.buf \in Filled(size)
  PROVE  /\ ReadEnds(s) => /\ ReadEnd(s).buf \in Filled(size)
                           /\ ReadEnd(s).buf.data = s.buf.data \o s.rest
         /\ ~ReadEnds(s) => /\ ReadNext(s).buf = s.buf
                            /\ Len(ReadNext(s).rest) < Len(s.rest)
         /\ Len(s.rest) < WriteAble(s.buf) => ReadEnds(s)
<1>1. /\ s.buf \in Buffers /\ s.buf.size = size /\ WriteIndex(s.buf) < size
      /\ s.rest \in Seq(Cells) /\ Len(s.rest) \in Nat
  BY DEF ReadStates, Filled
<1>2. /\ size \in Nat /\ WriteIndex(s.buf) \in Nat /\ WriteAble(s.buf) \in Nat /\ WriteAble(s.buf) # 0
      /\ WriteIndex(s.buf) + WriteAble(s.buf) = size
  BY <1>1, BufferFields DEF WriteIndex, WriteAble
<1>3. ReadRoom(s) = s.buf
  BY <1>2 DEF ReadRoom
<1> DEFINE n == ReadSize(s)
           bytes == SubSeq(s.rest, 1, n)
<1>4. /\ n \in Nat /\ n <= Len(s.rest)
      /\ n = IF WriteAble(s.buf) <= Len(s.rest) THEN WriteAble(s.buf) ELSE Len(s.rest)
  BY <1>3, ReadNextType DEF ReadSize
<1> HIDE DEF n
<1>5. bytes \in Seq(Cells) /\ Len(bytes) = n /\ (n = Len(s.rest) => bytes = s.rest)
  <2>1. bytes \in Seq(Cells) /\ Len(bytes) = n
    BY <1>1, <1>4, SubSeqProperties
  <2>2. n = Len(s.rest) => bytes = s.rest
    BY <1>1, WholeSubSeq
  <2>3. QED
    BY <2>1, <2>2
<1> HIDE DEF bytes
<1> DEFINE m == MoveWriteIndex(s.buf, bytes)
<1>6. ReadEnds(s) <=> n < WriteAble(s.buf)
  BY <1>3 DEF ReadEnds, n
<1>7. ReadEnd(s).buf = m /\ ReadNext(s).buf = m /\ ReadNext(s).rest = SubSeq(s.rest, n + 1, Len(s.rest))
  BY <1>3, Zenon DEF ReadEnd, ReadNext, ReadInto, n, bytes
<1>8. /\ m \in Buffers /\ m.size = s.buf.size
      /\ WriteIndex(s.buf) + Len(bytes) < s.buf.size =>
           m.data = s.buf.data \o bytes /\ WriteIndex(m) < s.buf.size
      /\ ~(WriteIndex(s.buf) + Len(bytes) < s.buf.size) => m = s.buf
  BY <1>1, <1>5, MoveWriteKeeps
<1> HIDE DEF m
<1>9. ASSUME n < WriteAble(s.buf)
      PROVE  m \in Filled(size) /\ m.data = s.buf.data \o s.rest
  <2>1. WriteIndex(s.buf) + Len(bytes) < s.buf.size
    BY <1>1, <1>2, <1>4, <1>5, <1>9
  <2>2. bytes = s.rest
    BY <1>1, <1>2, <1>4, <1>5, <1>9
  <2>3. QED
    BY <1>1, <1>8, <2>1, <2>2 DEF Filled
<1>10. ASSUME ~(n < WriteAble(s.buf))
       PROVE  m = s.buf /\ Len(ReadNext(s).rest) < Len(s.rest)
  <2>1. ~(WriteIndex(s.buf) + Len(bytes) < s.buf.size) /\ n # 0
    BY <1>1, <1>2, <1>4, <1>5, <1>10
  <2>2. Len(SubSeq(s.rest, n + 1, Len(s.rest))) = Len(s.rest) - n
    BY <1>1, <1>4, Suffix
  <2>3. Len(s.rest) - n < Len(s.rest)
    BY <1>1, <1>4, <2>1
  <2>4. QED
    BY <1>7, <1>8, <2>1, <2>2, <2>3, Zenon
<1>11. ASSUME Len(s.rest) < WriteAble(s.buf) PROVE n < WriteAble(s.buf)
  BY <1>1, <1>2, <1>4, <1>5, <1>11
<1>12. QED
  BY <1>6, <1>7, <1>9, <1>10, <1>11, Zenon

(* What the loop starts with, and the buffers it ends with: of one size,   *)
(* not full, their cells from C.                                           *)
Reads(s, size, C) == s.buf \in Filled(size) /\ s.buf.data \in Seq(C) /\ s.rest \in Seq(C)
Leaves(r, size, C) == r.buf \in Filled(size) /\ r.buf.data \in Seq(C)

LEMMA ReadFromKeeps ==
  ASSUME NEW size, NEW C, NEW s \in ReadStates, Reads(s, size, C)
  PROVE  Leaves(ReadFrom[s], size, C)
<1> DEFINE U == {n \in Nat : \A t \in ReadStates :
                   Reads(t, size, C) /\ Len(t.rest) <= n => Leaves(ReadFrom[t], size, C)}
<1>1. ASSUME NEW t \in ReadStates PROVE Len(t.rest) \in Nat
  BY DEF ReadStates
<1>2. ASSUME NEW t \in ReadStates, Reads(t, size, C), ReadEnds(t)
      PROVE  Leaves(ReadFrom[t], size, C)
  <2>1. ReadFrom[t] = ReadEnd(t)
    BY <1>2, ReadLoops
  <2>2. ReadEnd(t).buf \in Filled(size) /\ ReadEnd(t).buf.data = t.buf.data \o t.rest
    BY <1>2, ReadOnce DEF Reads
  <2>3. t.buf.data \o t.rest \in Seq(C)
    BY <1>2, ConcatProperties DEF Reads
  <2>4. QED
    BY <2>1, <2>2, <2>3 DEF Leaves
<1>3. ASSUME NEW t \in ReadStates, Reads(t, size, C), ~ReadEnds(t)
      PROVE  /\ ReadFrom[t] = ReadFrom[ReadNext(t)] /\ ReadNext(t) \in ReadStates
             /\ Reads(ReadNext(t), size, C) /\ Len(ReadNext(t).rest) < Len(t.rest)
  <2>1. ReadNext(t).buf = t.buf /\ Len(ReadNext(t).rest) < Len(t.rest)
    BY <1>3, ReadOnce DEF Reads
  <2>2. ReadFrom[t] = ReadFrom[ReadNext(t)] /\ ReadNext(t) \in ReadStates
    BY <1>3, ReadLoops, ReadNextType
  <2>3. ReadNext(t).rest \in Seq(C)
    <3>1. /\ ReadNext(t).rest = SubSeq(t.rest, ReadSize(t) + 1, Len(t.rest))
          /\ ReadSize(t) \in Nat /\ ReadSize(t) <= Len(t.rest) /\ t.rest \in Seq(C)
      BY <1>3, ReadNextType DEF ReadNext, Reads
    <3>2. QED
      BY <3>1, Suffix
  <2>4. QED
    BY <1>3, <2>1, <2>2, <2>3, Zenon DEF Reads
<1>4. 0 \in U
  <2>1. ASSUME NEW t \in ReadStates, Reads(t, size, C), Len(t.rest) <= 0
        PROVE  Leaves(ReadFrom[t], size, C)
    <3>1. ~ReadEnds(t) => ReadNext(t) \in ReadStates /\ Len(ReadNext(t).rest) < Len(t.rest)
      BY <1>3, <2>1
    <3>2. ReadEnds(t)
      BY <1>1, <2>1, <3>1
    <3>3. QED
      BY <1>2, <2>1, <3>2
  <2>2. QED
    BY <2>1
<1>5. ASSUME NEW n \in Nat, n \in U PROVE n + 1 \in U
  <2>1. ASSUME NEW t \in ReadStates, Reads(t, size, C), Len(t.rest) <= n + 1
        PROVE  Leaves(ReadFrom[t], size, C)
    <3>1. CASE ReadEnds(t)
      BY <1>2, <2>1, <3>1
    <3>2. CASE ~ReadEnds(t)
      <4>1. /\ ReadFrom[t] = ReadFrom[ReadNext(t)] /\ ReadNext(t) \in ReadStates
            /\ Reads(ReadNext(t), size, C) /\ Len(ReadNext(t).rest) < Len(t.rest)
        BY <1>3, <2>1, <3>2
      <4>2. Len(ReadNext(t).rest) <= n
        BY <1>1, <2>1, <4>1
      <4>3. QED
        BY <1>5, <4>1, <4>2
    <3>3. QED
      BY <3>1, <3>2
  <2>2. QED
    BY <2>1
<1> HIDE DEF U
<1>6. Nat \subseteq U
  BY <1>4, <1>5, SetInduction
<1>7. Len(s.rest) \in U /\ Len(s.rest) <= Len(s.rest)
  BY <1>1, <1>6
<1>8. QED
  BY <1>7 DEF U

(* So does onRead's; and of fewer cells than the buffer has room for, none *)
(* is lost.                                                                *)
LEMMA ReadLoopKeeps ==
  ASSUME NEW x \in Sides, inBuf[x] \in Filled(BufferSize), NEW C \in SUBSET Cells,
         inBuf[x].data \in Seq(C), stream[Peer(x)] \in Seq(C),
         NEW n \in Nat, n <= Len(stream[Peer(x)])
  PROVE  /\ Leaves(ReadLoop(x, n), BufferSize, C)
         /\ n < WriteAble(inBuf[x]) =>
              ReadLoop(x, n).buf.data = inBuf[x].data \o SubSeq(stream[Peer(x)], 1, n)
<1> DEFINE rest == SubSeq(stream[Peer(x)], 1, n)
           s == [buf |-> inBuf[x], rest |-> rest]
<1>1. rest \in Seq(C) /\ rest \in Seq(Cells) /\ Len(rest) = n
  BY SubSeqProperties
<1> HIDE DEF rest
<1>2. s \in ReadStates /\ s.buf = inBuf[x] /\ s.rest = rest
  BY <1>1 DEF ReadStates, Filled
<1>3. ReadLoop(x, n) = ReadFrom[s]
  BY ReadLoops DEF rest
<1> HIDE DEF s
<1>4. Leaves(ReadFrom[s], BufferSize, C)
  BY <1>1, <1>2, ReadFromKeeps DEF Reads
<1>5. ASSUME n < WriteAble(inBuf[x]) PROVE ReadFrom[s].buf.data = inBuf[x].data \o rest
  <2>1. ReadEnds(s) /\ ReadEnd(s).buf.data = s.buf.data \o s.rest
    <3>1. s.buf \in Filled(BufferSize) /\ Len(s.rest) < WriteAble(s.buf)
      BY <1>1, <1>2, <1>5
    <3>2. QED
      BY <1>2, <3>1, ReadOnce
  <2>2. ReadFrom[s] = ReadEnd(s)
    BY <1>2, <2>1, ReadLoops
  <2>3. QED
    BY <1>2, <2>1, <2>2, Zenon
<1>6. QED
  BY <1>3, <1>4, <1>5 DEF rest

-----------------------------------------------------------------------------
(* The element that a fold over the set s takes first.                     *)
First(s) == CHOOSE x \in s : TRUE

(* iter is the fold of f over the subsets of S.                            *)
Sums(S, f, iter) ==
  /\ iter \in [SUBSET S -> Nat]
  /\ \A s \in SUBSET S : iter[s] = IF s = {} THEN 0 ELSE f[First(s)] + iter[s \ {First(s)}]

(* It is an element.                                                       *)
LEMMA FirstIn == ASSUME NEW s, s # {} PROVE First(s) \in s
BY DEF First

(* The sums over the subsets of a finite set can be computed.              *)
LEMMA SumsExist ==
  ASSUME NEW S, IsFiniteSet(S), NEW f \in [S -> Nat]
  PROVE  \E iter : Sums(S, f, iter)
<1> DEFINE T == [SUBSET S -> Nat]
           zero == [s \in SUBSET S |-> 0]
           step == [n \in Nat |-> [g \in T |-> [s \in SUBSET S |->
                      IF s = {} THEN 0 ELSE f[First(s)] + g[s \ {First(s)}]]]]
<1>1. zero \in T
  OBVIOUS
<1>2. step \in [Nat -> [T -> T]]
  <2>1. ASSUME NEW g \in T, NEW s \in SUBSET S, s # {}
        PROVE  f[First(s)] + g[s \ {First(s)}] \in Nat
    <3>1. First(s) \in S /\ s \ {First(s)} \in SUBSET S
      BY <2>1, FirstIn
    <3>2. f[First(s)] \in Nat /\ g[s \ {First(s)}] \in Nat
      BY <3>1
    <3>3. QED
      BY <3>2
  <2>2. QED
    BY <2>1
<1>3. \A n \in Nat, g \in T, s \in SUBSET S :
        step[n][g][s] = IF s = {} THEN 0 ELSE f[First(s)] + g[s \ {First(s)}]
  OBVIOUS
<1> HIDE DEF step, zero
<1>4. PICK g : Recurs(T, zero, step, g)
  BY <1>1, <1>2, Recursion
<1> DEFINE iter == [s \in SUBSET S |-> g[Cardinality(s)][s]]
<1>5. ASSUME NEW s \in SUBSET S PROVE IsFiniteSet(s) /\ Cardinality(s) \in Nat
  BY FS_Subset, FS_CardinalityType
<1>6. g \in [Nat -> T] /\ g[0] = zero /\ \A n \in Nat : g[n + 1] = step[n][g[n]]
  BY <1>4 DEF Recurs
<1>7. iter \in T
  BY <1>5, <1>6
<1>8. ASSUME NEW s \in SUBSET S
      PROVE  iter[s] = IF s = {} THEN 0 ELSE f[First(s)] + iter[s \ {First(s)}]
  <2>1. CASE s = {}
    <3>1. Cardinality(s) = 0
      BY <2>1, FS_EmptySet
    <3>2. g[0][s] = 0
      BY <1>6 DEF zero
    <3>3. QED
      BY <2>1, <3>1, <3>2
  <2>2. CASE s # {}
    <3> DEFINE x == First(s)
    <3>1. x \in s
      BY <2>2, FirstIn
    <3> HIDE DEF x
    <3>2. s \ {x} \in SUBSET S /\ Cardinality(s \ {x}) = Cardinality(s) - 1
      BY <1>5, <3>1, FS_RemoveElement
    <3>3. Cardinality(s \ {x}) \in Nat /\ Cardinality(s) = Cardinality(s \ {x}) + 1
      BY <1>5, <3>2
    <3> DEFINE n == Cardinality(s \ {x})
    <3> HIDE DEF n
    <3>4. n \in Nat /\ Cardinality(s) = n + 1
      BY <3>3 DEF n
    <3>5. g[n] \in T /\ g[n + 1] = step[n][g[n]]
      BY <1>6, <3>4
    <3>6. g[n + 1][s] = f[x] + g[n][s \ {x}]
      BY <1>3, <2>2, <3>4, <3>5 DEF x
    <3>7. iter[s] = g[n + 1][s] /\ iter[s \ {x}] = g[n][s \ {x}]
      BY <3>2, <3>4 DEF n
    <3>8. QED
      BY <2>2, <3>6, <3>7 DEF x
  <2>3. QED
    BY <2>1, <2>2
<1>9. Sums(S, f, iter)
  BY <1>7, <1>8 DEF Sums
<1>10. QED
  BY <1>9

(* FoldFunction(+, 0, f) is one of them.                                   *)
LEMMA FoldSums ==
  ASSUME NEW S, IsFiniteSet(S), NEW f \in [S -> Nat]
  PROVE  \E iter : Sums(S, f, iter) /\ FoldFunction(+, 0, f) = iter[S]
<1> DEFINE F(g) == [s \in SUBSET S |-> IF s = {} THEN 0 ELSE f[First(s)] + g[s \ {First(s)}]]
           iter == CHOOSE g : g = F(g)
<1>1. PICK h : Sums(S, f, h)
  BY SumsExist
<1>2. h = F(h)
  BY <1>1 DEF Sums
<1>3. iter = F(iter)
  <2>1. \E g : g = F(g)
    BY <1>2
  <2> HIDE DEF F
  <2>2. QED
    BY <2>1
<1>4. FoldFunction(+, 0, f) = iter[S]
  <2>1. DOMAIN f = S
    OBVIOUS
  <2>2. QED
    BY <2>1 DEF FoldFunction, FoldFunctionOnSet, MapThenFoldSet, First
<1> HIDE DEF iter
<1>5. \A s \in SUBSET S : iter[s] = IF s = {} THEN 0 ELSE f[First(s)] + iter[s \ {First(s)}]
  BY <1>3
<1>6. \A s \in SUBSET S : iter[s] = h[s]
  <2> DEFINE U == {n \in Nat : \A s \in SUBSET S : Cardinality(s) = n => iter[s] = h[s]}
  <2>1. ASSUME NEW s \in SUBSET S PROVE IsFiniteSet(s) /\ Cardinality(s) \in Nat
    BY FS_Subset, FS_CardinalityType
  <2>2. 0 \in U
    <3>1. ASSUME NEW s \in SUBSET S, Cardinality(s) = 0 PROVE iter[s] = h[s]
      <4>1. s = {}
        BY <2>1, <3>1, FS_EmptySet
      <4>2. QED
        BY <1>1, <1>5, <4>1 DEF Sums
    <3>2. QED
      BY <3>1
  <2>3. ASSUME NEW n \in Nat, n \in U PROVE n + 1 \in U
    <3>1. ASSUME NEW s \in SUBSET S, Cardinality(s) = n + 1 PROVE iter[s] = h[s]
      <4>1. s # {}
        BY <3>1, FS_EmptySet
      <4> DEFINE x == First(s)
      <4>2. x \in s
        BY <4>1, FirstIn
      <4> HIDE DEF x
      <4>3. s \ {x} \in SUBSET S /\ Cardinality(s \ {x}) = n
        BY <2>1, <3>1, <4>2, FS_RemoveElement
      <4>4. iter[s \ {x}] = h[s \ {x}]
        BY <2>3, <4>3
      <4>5. iter[s] = f[x] + iter[s \ {x}] /\ h[s] = f[x] + h[s \ {x}]
        BY <1>1, <1>5, <4>1 DEF Sums, x
      <4>6. QED
        BY <4>4, <4>5
    <3>2. QED
      BY <3>1
  <2> HIDE DEF U
  <2>4. Nat \subseteq U
    BY <2>2, <2>3, SetInduction
  <2>5. ASSUME NEW s \in SUBSET S PROVE iter[s] = h[s]
    BY <2>1, <2>4 DEF U
  <2>6. QED
    BY <2>5
<1>7. QED
  BY <1>1, <1>4, <1>6

(* No term is larger than the sum.                                         *)
LEMMA SumBounds ==
  ASSUME NEW S, IsFiniteSet(S), NEW f \in [S -> Nat]
  PROVE  FoldFunction(+, 0, f) \in Nat /\ \A m \in S : f[m] <= FoldFunction(+, 0, f)
<1>1. PICK iter : Sums(S, f, iter) /\ FoldFunction(+, 0, f) = iter[S]
  BY FoldSums
<1> DEFINE U == {n \in Nat : \A s \in SUBSET S : Cardinality(s) = n => \A m \in s : f[m] <= iter[s]}
<1>2. ASSUME NEW s \in SUBSET S PROVE IsFiniteSet(s) /\ Cardinality(s) \in Nat
  BY FS_Subset, FS_CardinalityType
<1>3. 0 \in U
  <2>1. ASSUME NEW s \in SUBSET S, Cardinality(s) = 0 PROVE s = {}
    BY <1>2, <2>1, FS_EmptySet
  <2>2. QED
    BY <2>1
<1>4. ASSUME NEW n \in Nat, n \in U PROVE n + 1 \in U
  <2>1. ASSUME NEW s \in SUBSET S, Cardinality(s) = n + 1, NEW m \in s PROVE f[m] <= iter[s]
    <3> DEFINE x == First(s)
    <3>1. s # {}
      BY <2>1
    <3>2. x \in s
      BY <3>1, FirstIn
    <3>3. iter[s] = f[x] + iter[s \ {x}]
      BY <1>1, <3>1 DEF Sums
    <3> HIDE DEF x
    <3>4. s \ {x} \in SUBSET S /\ Cardinality(s \ {x}) = n
      <4>1. IsFiniteSet(s) /\ x \in s
        BY <1>2, <3>2
      <4>2. Cardinality(s \ {x}) = Cardinality(s) - 1
        BY <4>1, FS_RemoveElement
      <4>3. QED
        BY <2>1, <4>2
    <3>5. iter[s \ {x}] \in Nat /\ f[x] \in Nat /\ f[m] \in Nat
      BY <1>1, <3>2, <3>4 DEF Sums
    <3>6. CASE m = x
      BY <3>3, <3>5, <3>6
    <3>7. CASE m # x
      <4>1. f[m] <= iter[s \ {x}]
        BY <1>4, <3>4, <3>7
      <4>2. QED
        BY <3>3, <3>5, <4>1
    <3>8. QED
      BY <3>6, <3>7
  <2>2. QED
    BY <2>1
<1> HIDE DEF U
<1>5. Nat \subseteq U
  BY <1>3, <1>4, SetInduction
<1>6. Cardinality(S) \in U /\ S \in SUBSET S
  BY <1>2, <1>5
<1>7. iter[S] \in Nat
  BY <1>1, <1>6 DEF Sums
<1>8. QED
  BY <1>1, <1>6, <1>7 DEF U

(* A message is among the ids as often as there are ids, at most.          *)
LEMMA CountBounds ==
  ASSUME NEW ids \in Seq(Msgs), NEW m
  PROVE  Count(ids, m) \in Nat /\ Count(ids, m) <= Len(ids)
<1> DEFINE at == {i \in DOMAIN ids : ids[i] = m}
<1>1. DOMAIN ids = 1..Len(ids) /\ Len(ids) \in Nat
  OBVIOUS
<1>2. IsFiniteSet(1..Len(ids)) /\ Cardinality(1..Len(ids)) = Len(ids)
  BY <1>1, FS_Interval
<1>3. at \in SUBSET (1..Len(ids))
  BY <1>1
<1> HIDE DEF at
<1>4. IsFiniteSet(at) /\ Cardinality(at) <= Len(ids)
  BY <1>2, <1>3, FS_Subset
<1>5. Cardinality(at) \in Nat
  BY <1>4, FS_CardinalityType
<1>6. QED
  BY <1>4, <1>5 DEF Count, at

-----------------------------------------------------------------------------
(* The cells of some messages; packets of such cells carry their ids.      *)
CellsOf(ms) == {c \in Cells : c.msg \in ms}

LEMMA IdsType ==
  ASSUME NEW ms, NEW out \in Seq(FramesOf(CellsOf(ms)))
  PROVE  IdsOf(out) \in Seq(ms)
<1>1. Len(out) \in Nat /\ DOMAIN out = 1..Len(out) /\ \A i \in 1..Len(out) : out[i] \in FramesOf(CellsOf(ms))
  OBVIOUS
<1>2. ASSUME NEW p \in FramesOf(CellsOf(ms)) PROVE Head(p).msg \in ms
  <2>1. p \in Seq(CellsOf(ms)) /\ Len(p) # 0
    BY MsgLenAssumption DEF FramesOf
  <2>2. Head(p) \in CellsOf(ms)
    BY <2>1
  <2>3. QED
    BY <2>2 DEF CellsOf
<1>3. IdsOf(out) \in [1..Len(out) -> ms]
  BY <1>1, <1>2 DEF IdsOf
<1>4. QED
  BY <1>1, <1>3

(* The types of what steers the sides.                                     *)
ControlTypes ==
  /\ request \in [Msgs -> Requests]
  /\ setup \in {"accept", "coder", "state", "done"}
  /\ state \in [Sides -> {"NotConnected", "Connected", "Closed"}]
  /\ listening \in [Sides -> SUBSET {"in", "out"}]
  /\ queued \in [Sides -> SUBSET {"in", "out"}]
  /\ eof \in [Sides -> BOOLEAN]

(* The types of the bytes.  An input buffer has its first size and a write *)
(* index below it: a full one would be resized by the next onRead, and     *)
(* moveReadIndex would refuse to leave a packet that ends where it does.   *)
DataTypes ==
  /\ inBuf \in [Sides -> Filled(BufferSize)]
  /\ outBuf \in [Sides -> Buffers]
  /\ DOMAIN stream = Sides
  /\ \A x \in Sides : stream[x] \in Seq(Cells) /\ Len(stream[x]) <= SocketRoom

(* The types of the requests, their callbacks and the counters.            *)
CallTypes ==
  /\ writeDones \in Seq(Msgs) /\ readDones \subseteq Msgs /\ written \subseteq Msgs
  /\ served \in [Msgs -> 0..MaxServed] /\ answers \in [Msgs -> Nat]

(* The inductive invariant of the types.                                   *)
TypeInv == ControlTypes /\ DataTypes /\ CallTypes

(* The peer is the other side.                                             *)
LEMMA PeerSide == ASSUME NEW x \in Sides PROVE Peer(x) \in Sides /\ Peer(x) # x /\ Peer(Peer(x)) = x
BY DEF Sides, Peer

(* The invariant holds at first,                                           *)
LEMMA InitTypes == Init => TypeInv
<1> SUFFICES ASSUME Init PROVE TypeInv
  OBVIOUS
<1>1. ControlTypes
  BY DEF Init, ControlTypes, Sides
<1>2. DataTypes
  <2>1. /\ BufferSize \in Nat /\ BufferSize > 0 /\ 0 \in Nat /\ <<>> \in Seq(Cells)
        /\ 0 + Len(<<>>) <= BufferSize /\ SocketRoom \in Nat
    BY SizesAssumption
  <2>2. NewBuffer(BufferSize) \in Buffers
    BY <2>1, RecordIsBuffer DEF NewBuffer
  <2>3. NewBuffer(BufferSize) \in Filled(BufferSize)
    BY <2>1, <2>2 DEF NewBuffer, Filled, WriteIndex
  <2>4. QED
    BY <2>1, <2>2, <2>3 DEF Init, DataTypes
<1>3. CallTypes
  BY SizesAssumption DEF Init, CallTypes
<1>4. QED
  BY <1>1, <1>2, <1>3 DEF TypeInv

(* every step keeps its first part,                                        *)
LEMMA ControlKept ==
  ASSUME ControlTypes, [Next]_vars
  PROVE  ControlTypes'
<1> USE DEF ControlTypes, Sides
<1>1. CASE UNCHANGED vars
  BY <1>1 DEF vars
<1>2. CASE ListenAtOnce \/ MakeCoder \/ SetState
  BY <1>2 DEF ListenAtOnce, MakeCoder, SetState, Listens
<1>3. ASSUME NEW m \in Msgs, WriteMessage(m) PROVE ControlTypes'
  BY <1>3 DEF WriteMessage, Listens
<1>4. CASE OnWriteServer
  BY <1>4 DEF OnWriteServer, Writes, Takes, StillOut
<1>5. CASE OnWriteClient
  BY <1>5 DEF OnWriteClient, Writes, Takes, StillOut
<1>6. ASSUME NEW x \in Sides, QueueCallbacks(x) \/ OnReadRefused(x) \/ OnReadEof(x) \/ OnWriteRefused(x)
      PROVE  ControlTypes'
  BY <1>6 DEF QueueCallbacks, OnReadRefused, OnReadEof, OnWriteRefused, Takes
<1>7. ASSUME NEW x \in Sides, OnWriteBroken(x) \/ Exit(x) PROVE ControlTypes'
  <2>1. Ends(x)
    BY <1>7 DEF OnWriteBroken, Exit
  <2>2. /\ eof' = [eof EXCEPT ![x] = TRUE] /\ listening' = [listening EXCEPT ![x] = {}]
        /\ queued' = [queued EXCEPT ![x] = {}] /\ UNCHANGED <<request, setup, state>>
    BY <2>1 DEF Ends
  <2>3. eof' \in [Sides -> BOOLEAN]
    BY <2>2
  <2>4. QED
    BY <2>2, <2>3
<1>8. ASSUME NEW n \in 1..SocketRoom, OnReadServer(n) PROVE ControlTypes'
  BY <1>8 DEF OnReadServer, ReadsCells, Takes, Listens
<1>9. ASSUME NEW n \in 1..SocketRoom, OnReadClient(n) PROVE ControlTypes'
  BY <1>9 DEF OnReadClient, ReadsCells, Takes
<1>10. ASSUME NEW n \in 1..SocketRoom, OnReadCrash(n) \/ OnReadStuck(n) PROVE ControlTypes'
  BY <1>10 DEF OnReadCrash, OnReadStuck, Ends
<1>11. QED
  BY <1>1, <1>2, <1>3, <1>4, <1>5, <1>6, <1>7, <1>8, <1>9, <1>10 DEF Next

(* What onRead makes of the cells that have arrived: packets of the        *)
(* messages whose cells they are.                                          *)
LEMMA ReadKeepsOrigin ==
  ASSUME DataTypes, NEW x \in Sides, NEW n \in Nat, n <= Len(stream[Peer(x)]),
         NEW ms, inBuf[x].data \in Seq(CellsOf(ms)), stream[Peer(x)] \in Seq(CellsOf(ms))
  PROVE  /\ Decoded(x, n).buf \in Filled(BufferSize) /\ Decoded(x, n).buf.data \in Seq(CellsOf(ms))
         /\ IdsOf(Decoded(x, n).out) \in Seq(ms)
<1>1. Peer(x) \in Sides /\ CellsOf(ms) \in SUBSET Cells /\ inBuf[x] \in Filled(BufferSize)
  BY PeerSide DEF CellsOf, DataTypes
<1>2. Leaves(ReadLoop(x, n), BufferSize, CellsOf(ms))
  BY <1>1, ReadLoopKeeps
<1>3. /\ Decoded(x, n).buf \in Filled(BufferSize) /\ Decoded(x, n).buf.data \in Seq(CellsOf(ms))
      /\ Decoded(x, n).out \in Seq(FramesOf(CellsOf(ms)))
  BY <1>1, <1>2, DecodeKeeps DEF Decoded, Leaves
<1>4. QED
  BY <1>3, IdsType

LEMMA ReadKeeps ==
  ASSUME DataTypes, NEW x \in Sides, NEW n \in Nat, n <= Len(stream[Peer(x)])
  PROVE  /\ Decoded(x, n).buf \in Filled(BufferSize)
         /\ IdsOf(Decoded(x, n).out) \in Seq(Msgs)
<1>1. CellsOf(Msgs) = Cells
  BY DEF CellsOf, Cells
<1>2. inBuf[x].data \in Seq(Cells) /\ stream[Peer(x)] \in Seq(Cells)
  BY PeerSide, BufferFields DEF DataTypes, Filled
<1>3. QED
  BY <1>1, <1>2, ReadKeepsOrigin

(* What it takes from the stream.                                          *)
LEMMA ReadTakes ==
  ASSUME DataTypes, NEW x \in Sides, NEW n \in Nat, n <= Len(stream[Peer(x)]), ReadsCells(x, n)
  PROVE  /\ DOMAIN stream' = Sides
         /\ \A y \in Sides : /\ stream'[y] \in Seq(Cells) /\ Len(stream'[y]) <= Len(stream[y])
                             /\ Len(stream'[y]) <= SocketRoom
<1>1. DOMAIN stream' = Sides
  BY DEF ReadsCells, DataTypes
<1>2. ASSUME NEW y \in Sides
      PROVE  /\ stream'[y] \in Seq(Cells) /\ Len(stream'[y]) <= Len(stream[y])
             /\ Len(stream'[y]) <= SocketRoom
  <2>1. stream[y] \in Seq(Cells) /\ Len(stream[y]) <= SocketRoom /\ Len(stream[y]) \in Nat
    BY DEF DataTypes
  <2>2. CASE y = Peer(x)
    <3>1. stream'[y] = SubSeq(stream[y], n + 1, Len(stream[y]))
      BY <2>2 DEF ReadsCells, DataTypes
    <3>2. /\ SubSeq(stream[y], n + 1, Len(stream[y])) \in Seq(Cells)
          /\ Len(SubSeq(stream[y], n + 1, Len(stream[y]))) = Len(stream[y]) - n
      BY <2>1, <2>2, Suffix
    <3>3. Len(stream[y]) - n <= Len(stream[y]) /\ Len(stream[y]) - n <= SocketRoom
      BY <2>1, SizesAssumption
    <3>4. QED
      BY <3>1, <3>2, <3>3, Zenon
  <2>3. CASE y # Peer(x)
    <3>1. stream'[y] = stream[y]
      BY <2>3 DEF ReadsCells, DataTypes
    <3>2. QED
      BY <2>1, <3>1
  <2>4. QED
    BY <2>2, <2>3
<1>3. QED
  BY <1>1, <1>2

(* What is written is what there is, or what there is room for.            *)
LEMMA RoomLeft ==
  ASSUME NEW all \in Nat, NEW held \in Nat, NEW room \in Nat, held <= room
  PROVE  LET n == IF all <= room - held THEN all ELSE room - held
         IN  n \in Nat /\ n <= all /\ held + n <= room
OBVIOUS

(* What onWrite leaves: at most SocketRoom cells are on their way.         *)
LEMMA WriteTakes ==
  ASSUME DataTypes, NEW x \in Sides, NEW out \in Buffers, Writes(x, out)
  PROVE  DataTypes'
<1> DEFINE room == SocketRoom - Len(stream[x])
           all == ReadAble(out)
           n == IF all <= room THEN all ELSE room
           d == SubSeq(out.data, 1, n)
<1>1. /\ stream[x] \in Seq(Cells) /\ Len(stream[x]) \in Nat /\ Len(stream[x]) <= SocketRoom
      /\ SocketRoom \in Nat /\ out.data \in Seq(Cells) /\ all \in Nat /\ all = Len(out.data)
  BY SizesAssumption, BufferFields DEF DataTypes, ReadAble
<1>2. n \in Nat /\ n <= Len(out.data) /\ Len(stream[x]) + n <= SocketRoom
  <2> HIDE DEF all
  <2>1. QED
    BY <1>1, RoomLeft
<1> HIDE DEF n
<1>3. d \in Seq(Cells) /\ Len(d) = n
  BY <1>1, <1>2, SubSeqProperties
<1>4. stream' = [stream EXCEPT ![x] = @ \o d] /\ outBuf' = [outBuf EXCEPT ![x] = out] /\ inBuf' = inBuf
  BY DEF Writes, n
<1> HIDE DEF d
<1>5. stream[x] \o d \in Seq(Cells) /\ Len(stream[x] \o d) <= SocketRoom
  <2>1. stream[x] \o d \in Seq(Cells) /\ Len(stream[x] \o d) = Len(stream[x]) + Len(d)
    BY <1>1, <1>3, ConcatProperties
  <2>2. QED
    BY <1>2, <1>3, <2>1
<1>6. DOMAIN stream' = Sides /\ \A y \in Sides : stream'[y] = IF y = x THEN stream[x] \o d ELSE stream[y]
  BY <1>4 DEF DataTypes
<1>7. \A y \in Sides : stream'[y] \in Seq(Cells) /\ Len(stream'[y]) <= SocketRoom
  BY <1>5, <1>6 DEF DataTypes
<1>8. outBuf' \in [Sides -> Buffers] /\ inBuf' \in [Sides -> Filled(BufferSize)]
  BY <1>4 DEF DataTypes
<1>9. QED
  BY <1>6, <1>7, <1>8 DEF DataTypes

(* its second part: each callback leaves buffers and streams of their      *)
(* types,                                                                  *)
LEMMA DataKept ==
  ASSUME DataTypes, CallTypes, [Next]_vars
  PROVE  DataTypes'
<1>1. CASE UNCHANGED ioVars
  BY <1>1 DEF DataTypes, ioVars
<1>2. CASE OnWriteServer
  <2>1. outBuf["server"] \in Buffers /\ "server" \in Sides
    BY DEF DataTypes, Sides
  <2>2. Writes("server", outBuf["server"])
    BY <1>2 DEF OnWriteServer
  <2>3. QED
    BY <2>1, <2>2, WriteTakes
<1>3. CASE OnWriteClient
  <2>1. outBuf["client"] \in Buffers /\ "client" \in Sides /\ writeDones \in Seq(Msgs)
    BY DEF DataTypes, CallTypes, Sides
  <2>2. Encode(outBuf["client"], writeDones, {}) \in Buffers
    BY <2>1, EncodeType
  <2>3. Writes("client", Encode(outBuf["client"], writeDones, {}))
    BY <1>3 DEF OnWriteClient
  <2>4. QED
    BY <2>1, <2>2, <2>3, WriteTakes
<1>4. ASSUME NEW x \in Sides, OnReadEof(x) PROVE DataTypes'
  <2>1. stream' = [stream EXCEPT ![Peer(x)] = <<>>] /\ inBuf' = inBuf /\ outBuf' = outBuf
    BY <1>4 DEF OnReadEof
  <2>2. <<>> \in Seq(Cells) /\ Len(<<>>) <= SocketRoom
    BY SizesAssumption
  <2>3. QED
    BY <2>1, <2>2 DEF DataTypes
<1>5. ASSUME NEW n \in 1..SocketRoom, n <= Len(stream["client"]), OnReadServer(n) PROVE DataTypes'
  <2> DEFINE ids == IdsOf(Decoded("server", n).out)
             failed == {m \in Msgs : HasErrInfo(request[m])}
             o == Encode(outBuf["server"], ids, failed)
             i == Decoded("server", n).buf
  <2>1. "server" \in Sides /\ Peer("server") = "client" /\ n \in Nat
    BY SizesAssumption DEF Sides, Peer
  <2>2. i \in Filled(BufferSize) /\ ids \in Seq(Msgs)
    BY <1>5, <2>1, ReadKeeps
  <2>3. o \in Buffers
    BY <2>1, <2>2, EncodeType DEF DataTypes
  <2>4. ReadsCells("server", n) /\ inBuf' = [inBuf EXCEPT !["server"] = i]
        /\ outBuf' = [outBuf EXCEPT !["server"] = o]
    BY <1>5 DEF OnReadServer
  <2> HIDE DEF i, o
  <2>5. inBuf' \in [Sides -> Filled(BufferSize)] /\ outBuf' \in [Sides -> Buffers]
    BY <2>2, <2>3, <2>4 DEF DataTypes
  <2>6. DOMAIN stream' = Sides /\ \A y \in Sides : stream'[y] \in Seq(Cells) /\ Len(stream'[y]) <= SocketRoom
    BY <1>5, <2>1, <2>4, ReadTakes
  <2>7. QED
    BY <2>5, <2>6 DEF DataTypes
<1>6. ASSUME NEW n \in 1..SocketRoom, n <= Len(stream["server"]), OnReadClient(n) PROVE DataTypes'
  <2> DEFINE i == Decoded("client", n).buf
  <2>1. "client" \in Sides /\ Peer("client") = "server" /\ n \in Nat
    BY SizesAssumption DEF Sides, Peer
  <2>2. i \in Filled(BufferSize)
    BY <1>6, <2>1, ReadKeeps
  <2>3. ReadsCells("client", n) /\ inBuf' = [inBuf EXCEPT !["client"] = i] /\ outBuf' = outBuf
    BY <1>6 DEF OnReadClient
  <2> HIDE DEF i
  <2>4. inBuf' \in [Sides -> Filled(BufferSize)] /\ outBuf' \in [Sides -> Buffers]
    BY <2>2, <2>3 DEF DataTypes
  <2>5. DOMAIN stream' = Sides /\ \A y \in Sides : stream'[y] \in Seq(Cells) /\ Len(stream'[y]) <= SocketRoom
    BY <1>6, <2>1, <2>3, ReadTakes
  <2>6. QED
    BY <2>4, <2>5 DEF DataTypes
<1>7. ASSUME \/ ListenAtOnce \/ MakeCoder \/ SetState
             \/ \E m \in Msgs : WriteMessage(m)
             \/ \E x \in Sides : \/ QueueCallbacks(x) \/ OnReadRefused(x)
                                 \/ OnWriteRefused(x) \/ OnWriteBroken(x) \/ Exit(x)
             \/ \E n \in 1..SocketRoom : OnReadCrash(n) \/ OnReadStuck(n)
      PROVE  UNCHANGED ioVars
  BY <1>7 DEF ListenAtOnce, MakeCoder, SetState, WriteMessage, QueueCallbacks, OnReadRefused,
     OnWriteRefused, OnWriteBroken, Exit, OnReadCrash, OnReadStuck, Ends
<1>8. UNCHANGED vars => UNCHANGED ioVars
  BY DEF vars, ioVars
<1>9. QED
  BY <1>1, <1>2, <1>3, <1>4, <1>5, <1>6, <1>7, <1>8 DEF Next

(* and its third: the guard on the sum of served bounds each of them.      *)
LEMMA CallsKept ==
  ASSUME DataTypes, CallTypes, [Next]_vars
  PROVE  CallTypes'
<1>1. CASE UNCHANGED <<clientVars, served>>
  BY <1>1 DEF CallTypes, clientVars
<1>2. ASSUME NEW m \in Msgs, WriteMessage(m) PROVE CallTypes'
  <2>1. /\ written' = written \cup {m} /\ writeDones' = Append(writeDones, m)
        /\ readDones' = readDones /\ served' = served /\ answers' = answers
    BY <1>2 DEF WriteMessage
  <2>2. writeDones' \in Seq(Msgs)
    BY <2>1 DEF CallTypes
  <2>3. QED
    BY <2>1, <2>2 DEF CallTypes
<1>3. CASE OnWriteServer
  BY <1>3 DEF OnWriteServer, Writes, CallTypes
<1>4. CASE OnWriteClient
  <2>1. /\ readDones' = readDones \cup {writeDones[i] : i \in DOMAIN writeDones} /\ writeDones' = <<>>
        /\ written' = written /\ served' = served /\ answers' = answers
    BY <1>4 DEF OnWriteClient, Writes
  <2>2. {writeDones[i] : i \in DOMAIN writeDones} \subseteq Msgs /\ <<>> \in Seq(Msgs)
    BY DEF CallTypes
  <2>3. QED
    BY <2>1, <2>2, Zenon DEF CallTypes
<1>5. ASSUME NEW n \in 1..SocketRoom, n <= Len(stream["client"]), OnReadServer(n) PROVE CallTypes'
  <2> DEFINE ids == IdsOf(Decoded("server", n).out)
             total == FoldFunction(+, 0, served)
  <2>1. "server" \in Sides /\ Peer("server") = "client" /\ n \in Nat
    BY SizesAssumption DEF Sides, Peer
  <2>2. ids \in Seq(Msgs) /\ Len(ids) \in Nat
    BY <1>5, <2>1, ReadKeeps
  <2>3. /\ total + Len(ids) <= MaxServed /\ UNCHANGED clientVars
        /\ served' = [m \in Msgs |-> served[m] + Count(ids, m)]
    BY <1>5 DEF OnReadServer
  <2>4. served \in [Msgs -> Nat] /\ IsFiniteSet(Msgs) /\ MaxServed \in Nat
    BY MsgsAssumption, SizesAssumption DEF CallTypes
  <2>5. total \in Nat /\ \A m \in Msgs : served[m] <= total
    BY <2>4, SumBounds
  <2>6. \A m \in Msgs : Count(ids, m) \in Nat /\ Count(ids, m) <= Len(ids)
    BY <2>2, CountBounds
  <2> HIDE DEF ids, total
  <2>7. \A m \in Msgs : served[m] + Count(ids, m) \in 0..MaxServed
    BY <2>2, <2>3, <2>4, <2>5, <2>6
  <2>8. served' \in [Msgs -> 0..MaxServed]
    BY <2>3, <2>7
  <2>9. QED
    BY <2>3, <2>8 DEF CallTypes, clientVars
<1>6. ASSUME NEW n \in 1..SocketRoom, OnReadClient(n) PROVE CallTypes'
  <2>1. PICK ids : RunReadDones(ids)
    BY <1>6 DEF OnReadClient
  <2>2. writeDones' = writeDones /\ written' = written /\ served' = served
    BY <1>6 DEF OnReadClient
  <2>3. answers' \in [Msgs -> Nat] /\ readDones' \subseteq readDones
    BY <2>1 DEF RunReadDones, CallTypes
  <2>4. QED
    BY <2>2, <2>3 DEF CallTypes
<1>7. ASSUME \/ ListenAtOnce \/ MakeCoder \/ SetState
             \/ \E x \in Sides : \/ QueueCallbacks(x) \/ OnReadRefused(x) \/ OnReadEof(x)
                                 \/ OnWriteRefused(x) \/ OnWriteBroken(x) \/ Exit(x)
             \/ \E n \in 1..SocketRoom : OnReadCrash(n) \/ OnReadStuck(n)
      PROVE  UNCHANGED <<clientVars, served>>
  BY <1>7 DEF ListenAtOnce, MakeCoder, SetState, QueueCallbacks, OnReadRefused, OnReadEof,
     OnWriteRefused, OnWriteBroken, Exit, OnReadCrash, OnReadStuck, Ends
<1>8. UNCHANGED vars => UNCHANGED <<clientVars, served>>
  BY DEF vars, clientVars
<1>9. QED
  BY <1>1, <1>2, <1>3, <1>4, <1>5, <1>6, <1>7, <1>8 DEF Next

(* So it always holds.                                                     *)
LEMMA TypesHold == Spec => []TypeInv
<1>1. TypeInv /\ [Next]_vars => TypeInv'
  BY ControlKept, DataKept, CallsKept DEF TypeInv
<1>2. QED
  BY InitTypes, <1>1, PTL DEF Spec

(* The members of the connections have their types: the write index of no  *)
(* TcpBuffer passes the end of its vector, whatever is encoded into it,    *)
(* read into it or decoded from it.                                        *)
THEOREM ConnectionTypes == Spec => []TypeOK
<1>1. TypeInv => TypeOK
  <2> SUFFICES ASSUME TypeInv PROVE TypeOK
    OBVIOUS
  <2>1. inBuf \in [Sides -> Buffers]
    BY DEF TypeInv, DataTypes, Filled
  <2>2. QED
    BY <2>1 DEF TypeInv, ControlTypes, DataTypes, CallTypes, TypeOK
<1>2. QED
  BY <1>1, TypesHold, PTL

(* What a step may do to a closed connection.                              *)
Quiet == \A x \in Sides : state[x] = "Closed" =>
           /\ Len(stream'[x]) <= Len(stream[x])
           /\ x = "server" => served' = served

(* Each step does no more.                                                 *)
LEMMA QuietStep ==
  ASSUME TypeInv, [Next]_vars
  PROVE  Quiet
<1> SUFFICES ASSUME NEW x \in Sides, state[x] = "Closed"
             PROVE  /\ Len(stream'[x]) <= Len(stream[x])
                    /\ x = "server" => served' = served
  BY DEF Quiet
<1>0. DataTypes /\ Len(stream[x]) \in Nat
  BY DEF TypeInv, DataTypes
<1>1. CASE UNCHANGED <<stream, served>>
  BY <1>0, <1>1
<1>2. ASSUME NEW y \in Sides, NEW out, Writes(y, out)
      PROVE  stream'[x] = stream[x] /\ served' = served
  BY <1>0, <1>2 DEF Writes, DataTypes
<1>3. CASE OnWriteServer \/ OnWriteClient
  BY <1>0, <1>2, <1>3 DEF OnWriteServer, OnWriteClient, Sides
<1>4. ASSUME NEW y \in Sides, OnReadEof(y)
      PROVE  Len(stream'[x]) <= Len(stream[x]) /\ served' = served
  <2>1. stream' = [stream EXCEPT ![Peer(y)] = <<>>] /\ served' = served
    BY <1>4 DEF OnReadEof
  <2>2. stream'[x] = <<>> \/ stream'[x] = stream[x]
    BY <1>0, <2>1 DEF DataTypes
  <2>3. QED
    BY <1>0, <2>1, <2>2
<1>5. ASSUME NEW n \in 1..SocketRoom, n <= Len(stream["client"]), OnReadServer(n)
      PROVE  Len(stream'[x]) <= Len(stream[x]) /\ x # "server"
  <2>0. ReadsCells("server", n)
    BY <1>5 DEF OnReadServer
  <2>1. "server" \in Sides /\ Peer("server") = "client" /\ n \in Nat /\ ReadsCells("server", n)
    BY <2>0, SizesAssumption DEF Sides, Peer
  <2>2. Len(stream'[x]) <= Len(stream[x])
    BY <1>0, <1>5, <2>1, ReadTakes
  <2>3. state["server"] # "Closed"
    BY <2>1 DEF ReadsCells
  <2>4. QED
    BY <2>2, <2>3
<1>6. ASSUME NEW n \in 1..SocketRoom, n <= Len(stream["server"]), OnReadClient(n)
      PROVE  Len(stream'[x]) <= Len(stream[x]) /\ served' = served
  <2>1. "client" \in Sides /\ Peer("client") = "server" /\ n \in Nat /\ ReadsCells("client", n)
    BY <1>6, SizesAssumption DEF OnReadClient, Sides, Peer
  <2>2. Len(stream'[x]) <= Len(stream[x])
    BY <1>0, <1>6, <2>1, ReadTakes
  <2>3. QED
    BY <1>6, <2>2 DEF OnReadClient
<1>7. ASSUME \/ ListenAtOnce \/ MakeCoder \/ SetState
             \/ \E m \in Msgs : WriteMessage(m)
             \/ \E y \in Sides : \/ QueueCallbacks(y) \/ OnReadRefused(y)
                                 \/ OnWriteRefused(y) \/ OnWriteBroken(y) \/ Exit(y)
             \/ \E n \in 1..SocketRoom : OnReadCrash(n) \/ OnReadStuck(n)
      PROVE  UNCHANGED <<stream, served>>
  BY <1>7 DEF ListenAtOnce, MakeCoder, SetState, WriteMessage, QueueCallbacks, OnReadRefused,
     OnWriteRefused, OnWriteBroken, Exit, OnReadCrash, OnReadStuck, Ends, ioVars
<1>8. UNCHANGED vars => UNCHANGED <<stream, served>>
  BY DEF vars
<1>9. QED
  BY <1>1, <1>3, <1>4, <1>5, <1>6, <1>7, <1>8 DEF Next

(* A closed connection writes and dispatches nothing, although callbacks   *)
(* queued before it was closed still run.                                  *)
THEOREM ClosedWritesNothing == Spec => ClosedIsQuiet
<1>1. TypeInv /\ TypeInv' /\ [Next]_vars => [Quiet]_vars
  BY QuietStep
<1>2. QED
  BY <1>1, TypesHold, PTL DEF Spec, ClosedIsQuiet, Quiet

-----------------------------------------------------------------------------
(* The messages a side may speak of: the client of those written, the      *)
(* server of those dispatched.                                             *)
Known(x) == IF x = "client" THEN written ELSE {m \in Msgs : served[m] > 0}

(* All cells of a side, in its output buffer, on their way, and in the     *)
(* peer's input buffer, are of such messages.                              *)
OwnCells(x) ==
  /\ outBuf[x].data \in Seq(CellsOf(Known(x))) /\ stream[x] \in Seq(CellsOf(Known(x)))
  /\ inBuf[Peer(x)].data \in Seq(CellsOf(Known(x)))

OriginInv ==
  /\ writeDones \in Seq(written)
  /\ \A x \in Sides : OwnCells(x)
  /\ AnswersMeetRequests

(* Cells of some messages are cells of more messages.                      *)
LEMMA CellsGrow ==
  ASSUME NEW ms, NEW ns, ms \subseteq ns
  PROVE  Seq(CellsOf(ms)) \subseteq Seq(CellsOf(ns))
<1>1. CellsOf(ms) \subseteq CellsOf(ns)
  BY DEF CellsOf
<1>2. QED
  BY <1>1

(* A step that leaves the cells of a side alone, while more messages may   *)
(* become known.                                                           *)
LEMMA OwnCellsKept ==
  ASSUME NEW x \in Sides, OwnCells(x), Known(x) \subseteq Known(x)',
         outBuf'[x].data = outBuf[x].data, stream'[x] = stream[x],
         inBuf'[Peer(x)].data = inBuf[Peer(x)].data
  PROVE  OwnCells(x)'
<1>1. Seq(CellsOf(Known(x))) \subseteq Seq(CellsOf(Known(x)'))
  BY CellsGrow
<1>2. QED
  BY <1>1 DEF OwnCells, CellsOf

(* encode() adds cells of the messages it encodes.                         *)
LEMMA EncodeOrigin ==
  ASSUME NEW ms \in SUBSET Msgs, NEW b \in Buffers, b.data \in Seq(CellsOf(ms)),
         NEW ids \in Seq(ms), NEW failed
  PROVE  Encode(b, ids, failed).data \in Seq(CellsOf(ms))
<1>1. ids \in Seq(Msgs) /\ Len(ids) \in Nat /\ \A i \in 1..Len(ids) : ids[i] \in ms
  OBVIOUS
<1>2. ASSUME NEW m \in ms PROVE Packet(m, failed) \in Seq(CellsOf(ms))
  <2>1. MsgLen \in Nat
    BY MsgLenAssumption
  <2>2. ASSUME NEW i \in 1..MsgLen
        PROVE  [msg |-> m, pos |-> i, end |-> i = MsgLen /\ ~(m \in failed)] \in CellsOf(ms)
    BY <2>2 DEF Cells, CellsOf
  <2>3. Packet(m, failed) \in [1..MsgLen -> CellsOf(ms)]
    BY <2>2 DEF Packet, EncodeTinyPB
  <2>4. QED
    BY <2>1, <2>3
<1>3. Packets(ids, failed) \in [1..Len(ids) -> Seq(CellsOf(ms))]
  BY <1>1, <1>2 DEF Packets
<1>4. Packets(ids, failed) \in Seq(Seq(CellsOf(ms)))
  BY <1>1, <1>3
<1>5. FlattenSeq(Packets(ids, failed)) \in Seq(CellsOf(ms))
  BY <1>4, FlattenType
<1>6. b.data \o FlattenSeq(Packets(ids, failed)) \in Seq(CellsOf(ms))
  BY <1>5, ConcatProperties
<1>7. QED
  BY <1>1, <1>6, EncodeData

(* What onWrite sends are cells of the buffer it writes from.              *)
LEMMA WriteOrigin ==
  ASSUME DataTypes, NEW x \in Sides, NEW out \in Buffers, Writes(x, out),
         NEW C, out.data \in Seq(C), stream[x] \in Seq(C)
  PROVE  /\ stream'[x] \in Seq(C) /\ outBuf'[x] = out /\ inBuf' = inBuf
         /\ \A y \in Sides \ {x} : stream'[y] = stream[y] /\ outBuf'[y] = outBuf[y]
<1> DEFINE room == SocketRoom - Len(stream[x])
           all == ReadAble(out)
           n == IF all <= room THEN all ELSE room
           d == SubSeq(out.data, 1, n)
<1>1. /\ Len(stream[x]) \in Nat /\ Len(stream[x]) <= SocketRoom
      /\ SocketRoom \in Nat /\ all \in Nat /\ all = Len(out.data)
  BY SizesAssumption, BufferFields DEF DataTypes, ReadAble
<1>2. n \in Nat /\ n <= Len(out.data)
  <2> HIDE DEF all
  <2>1. QED
    BY <1>1, RoomLeft
<1> HIDE DEF n
<1>3. d \in Seq(C)
  BY <1>1, <1>2, SubSeqProperties
<1>4. stream' = [stream EXCEPT ![x] = @ \o d] /\ outBuf' = [outBuf EXCEPT ![x] = out] /\ inBuf' = inBuf
  BY DEF Writes, n
<1> HIDE DEF d
<1>5. stream[x] \o d \in Seq(C)
  BY <1>3, ConcatProperties
<1>6. QED
  BY <1>4, <1>5 DEF DataTypes

(* What onRead leaves in the stream is a part of it.                       *)
LEMMA ReadOrigin ==
  ASSUME DataTypes, NEW x \in Sides, NEW n \in Nat, n <= Len(stream[Peer(x)]), ReadsCells(x, n),
         NEW C, stream[Peer(x)] \in Seq(C)
  PROVE  stream'[Peer(x)] \in Seq(C) /\ stream'[x] = stream[x]
<1>1. Peer(x) \in Sides /\ Peer(x) # x
  BY PeerSide
<1>2. /\ stream'[Peer(x)] = SubSeq(stream[Peer(x)], n + 1, Len(stream[Peer(x)]))
      /\ stream'[x] = stream[x]
  BY <1>1 DEF ReadsCells, DataTypes
<1>3. QED
  BY <1>2, Suffix

(* A message is counted if it is among the ids.                            *)
LEMMA CountPositive ==
  ASSUME NEW ids \in Seq(Msgs), NEW m
  PROVE  Count(ids, m) > 0 <=> m \in Range(ids)
<1> DEFINE at == {i \in DOMAIN ids : ids[i] = m}
<1>1. DOMAIN ids = 1..Len(ids) /\ Len(ids) \in Nat
  OBVIOUS
<1>2. IsFiniteSet(at)
  <2>1. IsFiniteSet(1..Len(ids))
    BY <1>1, FS_Interval
  <2>2. at \in SUBSET (1..Len(ids))
    BY <1>1
  <2>3. QED
    BY <2>1, <2>2, FS_Subset
<1>3. m \in Range(ids) <=> at # {}
  BY DEF Range
<1> HIDE DEF at
<1>4. Cardinality(at) \in Nat /\ (Cardinality(at) = 0 <=> at = {})
  BY <1>2, FS_CardinalityType, FS_EmptySet
<1>5. QED
  BY <1>3, <1>4 DEF Count, at

(* Nothing is sent, read or counted at first;                              *)
LEMMA OriginInit == Init => OriginInv
<1> SUFFICES ASSUME Init PROVE OriginInv
  OBVIOUS
<1>1. \A C : <<>> \in Seq(C)
  OBVIOUS
<1>2. \A x \in Sides : OwnCells(x)
  BY <1>1, PeerSide DEF Init, NewBuffer, OwnCells
<1>3. AnswersMeetRequests
  BY DEF Init, AnswersMeetRequests
<1>4. QED
  BY <1>1, <1>2, <1>3 DEF OriginInv, Init

(* and a step that changes no bytes,                                       *)
LEMMA OriginStays ==
  ASSUME OriginInv, UNCHANGED ioVars, written \subseteq written', writeDones' \in Seq(written'),
         served' = served, answers' = answers
  PROVE  OriginInv'
<1>1. \A x \in Sides : Known(x) \subseteq Known(x)'
  BY DEF Known
<1>2. ASSUME NEW x \in Sides PROVE OwnCells(x)'
  BY <1>1, OwnCellsKept DEF OriginInv, ioVars
<1>3. AnswersMeetRequests'
  BY DEF OriginInv, AnswersMeetRequests
<1>4. QED
  BY <1>2, <1>3 DEF OriginInv

(* one that writes,                                                        *)
LEMMA OriginWrites ==
  ASSUME TypeInv, OriginInv, OnWriteServer \/ OnWriteClient
  PROVE  OriginInv'
<1>1. DataTypes /\ CallTypes /\ \A x \in Sides : OwnCells(x) /\ outBuf[x] \in Buffers
  BY DEF TypeInv, OriginInv, DataTypes
<1>2. ASSUME NEW x \in Sides, NEW out \in Buffers, out.data \in Seq(CellsOf(Known(x))),
             Writes(x, out), writeDones' \in Seq(written)
      PROVE  OriginInv'
  <2>1. written' = written /\ served' = served /\ answers' = answers
    BY <1>2 DEF Writes
  <2>2. \A y \in Sides : Known(y)' = Known(y)
    BY <2>1 DEF Known
  <2>3. /\ stream'[x] \in Seq(CellsOf(Known(x))) /\ outBuf'[x] = out /\ inBuf' = inBuf
        /\ \A y \in Sides \ {x} : stream'[y] = stream[y] /\ outBuf'[y] = outBuf[y]
    BY <1>1, <1>2, WriteOrigin DEF OwnCells
  <2>4. ASSUME NEW y \in Sides PROVE OwnCells(y)'
    <3>1. CASE y = x
      BY <1>1, <1>2, <2>2, <2>3, <3>1 DEF OwnCells, CellsOf
    <3>2. CASE y # x
      BY <1>1, <2>2, <2>3, <3>2, OwnCellsKept
    <3>3. QED
      BY <3>1, <3>2
  <2>5. AnswersMeetRequests'
    BY <2>1 DEF OriginInv, AnswersMeetRequests
  <2>6. QED
    BY <1>2, <2>1, <2>4, <2>5 DEF OriginInv
<1>3. CASE OnWriteServer
  <2>1. "server" \in Sides /\ Writes("server", outBuf["server"]) /\ writeDones' \in Seq(written)
    BY <1>3 DEF OnWriteServer, Sides, OriginInv
  <2>2. QED
    BY <1>1, <1>2, <2>1 DEF OwnCells
<1>4. CASE OnWriteClient
  <2> DEFINE out == Encode(outBuf["client"], writeDones, {})
  <2>1. "client" \in Sides /\ Known("client") = written /\ written \in SUBSET Msgs /\ writeDones \in Seq(written)
    BY <1>1 DEF Sides, Known, CallTypes, OriginInv
  <2>2. out \in Buffers
    BY <1>1, <2>1, EncodeType DEF CallTypes
  <2>3. out.data \in Seq(CellsOf(Known("client")))
    BY <1>1, <2>1, EncodeOrigin DEF OwnCells
  <2>4. Writes("client", out) /\ writeDones' = <<>>
    BY <1>4 DEF OnWriteClient
  <2>5. QED
    BY <1>2, <2>1, <2>2, <2>3, <2>4
<1>5. QED
  BY <1>3, <1>4

(* one that finds the end of the stream,                                   *)
LEMMA OriginEof ==
  ASSUME TypeInv, OriginInv, NEW x \in Sides, OnReadEof(x)
  PROVE  OriginInv'
<1>1. /\ stream' = [stream EXCEPT ![Peer(x)] = <<>>] /\ inBuf' = inBuf /\ outBuf' = outBuf
      /\ UNCHANGED <<writeDones, written, served, answers>>
  BY DEF OnReadEof, clientVars
<1>2. \A y \in Sides : Known(y)' = Known(y)
  BY <1>1 DEF Known
<1>3. ASSUME NEW y \in Sides PROVE stream'[y] \in Seq(CellsOf(Known(y)))
  BY <1>1 DEF TypeInv, DataTypes, OriginInv, OwnCells
<1>4. \A y \in Sides : OwnCells(y)'
  BY <1>1, <1>2, <1>3 DEF OriginInv, OwnCells, CellsOf
<1>5. AnswersMeetRequests'
  BY <1>1 DEF OriginInv, AnswersMeetRequests
<1>6. QED
  BY <1>1, <1>4, <1>5 DEF OriginInv

(* one that dispatches requests,                                           *)
LEMMA OriginServes ==
  ASSUME TypeInv, OriginInv, NEW n \in 1..SocketRoom, n <= Len(stream["client"]), OnReadServer(n)
  PROVE  OriginInv'
<1> DEFINE decoded == Decoded("server", n)
           ids == IdsOf(decoded.out)
           failed == {m \in Msgs : HasErrInfo(request[m])}
           o == Encode(outBuf["server"], ids, failed)
<1>1. /\ "server" \in Sides /\ "client" \in Sides /\ Peer("server") = "client" /\ Peer("client") = "server"
      /\ n \in Nat /\ DataTypes /\ CallTypes
      /\ OwnCells("client") /\ OwnCells("server") /\ Known("client") = written
  BY SizesAssumption DEF Sides, Peer, TypeInv, OriginInv, Known
<1>2. /\ ReadsCells("server", n) /\ inBuf' = [inBuf EXCEPT !["server"] = decoded.buf]
      /\ outBuf' = [outBuf EXCEPT !["server"] = o]
      /\ served' = [m \in Msgs |-> served[m] + Count(ids, m)]
      /\ UNCHANGED <<writeDones, written, answers>>
  BY DEF OnReadServer, clientVars
<1>3. decoded.buf.data \in Seq(CellsOf(written)) /\ ids \in Seq(written)
  BY <1>1, ReadKeepsOrigin DEF OwnCells
<1>4. stream'["client"] \in Seq(CellsOf(written)) /\ stream'["server"] = stream["server"]
  BY <1>1, <1>2, ReadOrigin DEF OwnCells
<1>5. ids \in Seq(Msgs) /\ written \subseteq Msgs
  BY <1>1, <1>3 DEF CallTypes
<1> HIDE DEF decoded, ids, failed
<1>6. ASSUME NEW m \in Msgs
      PROVE  /\ served'[m] = served[m] + Count(ids, m) /\ served[m] \in Nat /\ Count(ids, m) \in Nat
             /\ served'[m] > 0 <=> served[m] > 0 \/ m \in Range(ids)
  <2>1. served'[m] = served[m] + Count(ids, m) /\ served[m] \in Nat
    BY <1>1, <1>2, SizesAssumption DEF CallTypes
  <2>2. Count(ids, m) \in Nat /\ (Count(ids, m) > 0 <=> m \in Range(ids))
    BY <1>5, CountBounds, CountPositive
  <2>3. QED
    BY <2>1, <2>2
<1>7. Known("client")' = written /\ Known("server") \subseteq Known("server")'
  BY <1>2, <1>6 DEF Known
<1>8. ids \in Seq(Known("server")')
  <2>1. \A i \in 1..Len(ids) : ids[i] \in Range(ids) /\ ids[i] \in Msgs
    BY <1>5 DEF Range
  <2>2. \A i \in 1..Len(ids) : ids[i] \in Known("server")'
    BY <1>6, <2>1 DEF Known
  <2>3. QED
    BY <1>5, <2>2
<1>9. o.data \in Seq(CellsOf(Known("server")'))
  <2>1. outBuf["server"].data \in Seq(CellsOf(Known("server")'))
    BY <1>1, <1>7, CellsGrow DEF OwnCells
  <2>2. Known("server")' \in SUBSET Msgs /\ outBuf["server"] \in Buffers
    BY <1>1 DEF Known, DataTypes
  <2>3. QED
    BY <1>8, <2>1, <2>2, EncodeOrigin
<1> HIDE DEF o
<1>10. /\ inBuf'["server"] = decoded.buf /\ inBuf'["client"] = inBuf["client"]
       /\ outBuf'["server"] = o /\ outBuf'["client"] = outBuf["client"]
  BY <1>1, <1>2 DEF DataTypes
<1>11. OwnCells("client")'
  BY <1>1, <1>3, <1>4, <1>7, <1>10 DEF OwnCells, CellsOf
<1>12. OwnCells("server")'
  <2>1. Seq(CellsOf(Known("server"))) \subseteq Seq(CellsOf(Known("server")'))
    BY <1>7, CellsGrow
  <2>2. QED
    BY <1>1, <1>4, <1>9, <1>10, <2>1 DEF OwnCells, CellsOf
<1>13. AnswersMeetRequests'
  <2>1. Range(ids) \subseteq written
    BY <1>3 DEF Range
  <2>2. QED
    BY <1>2, <1>6, <2>1 DEF OriginInv, AnswersMeetRequests
<1>14. QED
  BY <1>2, <1>11, <1>12, <1>13 DEF OriginInv, Sides

(* and one that runs read callbacks, keep it.                              *)
LEMMA OriginAnswers ==
  ASSUME TypeInv, OriginInv, NEW n \in 1..SocketRoom, n <= Len(stream["server"]), OnReadClient(n)
  PROVE  OriginInv'
<1> DEFINE decoded == Decoded("client", n)
           ids == IdsOf(decoded.out)
<1>1. /\ "server" \in Sides /\ "client" \in Sides /\ Peer("server") = "client" /\ Peer("client") = "server"
      /\ n \in Nat /\ DataTypes /\ CallTypes
      /\ OwnCells("client") /\ OwnCells("server") /\ Known("server") = {m \in Msgs : served[m] > 0}
  BY SizesAssumption DEF Sides, Peer, TypeInv, OriginInv, Known
<1>2. /\ ReadsCells("client", n) /\ inBuf' = [inBuf EXCEPT !["client"] = decoded.buf]
      /\ RunReadDones(ids)
      /\ UNCHANGED <<outBuf, writeDones, written, served>>
  BY DEF OnReadClient
<1>3. decoded.buf.data \in Seq(CellsOf(Known("server"))) /\ ids \in Seq(Known("server"))
  BY <1>1, ReadKeepsOrigin DEF OwnCells
<1>4. stream'["server"] \in Seq(CellsOf(Known("server"))) /\ stream'["client"] = stream["client"]
  BY <1>1, <1>2, ReadOrigin DEF OwnCells
<1> HIDE DEF decoded, ids
<1>5. \A x \in Sides : Known(x)' = Known(x)
  BY <1>2 DEF Known
<1>6. inBuf'["client"] = decoded.buf /\ inBuf'["server"] = inBuf["server"]
  BY <1>1, <1>2 DEF DataTypes
<1>7. OwnCells("client")' /\ OwnCells("server")'
  BY <1>1, <1>2, <1>3, <1>4, <1>5, <1>6 DEF OwnCells, CellsOf
<1>8. AnswersMeetRequests'
  <2>1. \A m \in Range(ids) : served[m] > 0
    BY <1>1, <1>3 DEF Range
  <2>2. ASSUME NEW m \in Msgs, answers'[m] > 0 PROVE answers[m] > 0 \/ m \in Range(ids)
    BY <1>2, <2>2 DEF RunReadDones
  <2>3. QED
    BY <1>2, <2>1, <2>2 DEF OriginInv, AnswersMeetRequests
<1>9. QED
  BY <1>2, <1>7, <1>8 DEF OriginInv, Sides

(* So every step does.                                                     *)
LEMMA OriginKept ==
  ASSUME TypeInv, OriginInv, [Next]_vars
  PROVE  OriginInv'
<1>1. CASE UNCHANGED <<ioVars, writeDones, written, served, answers>>
  BY <1>1, OriginStays DEF OriginInv
<1>2. ASSUME NEW m \in Msgs, WriteMessage(m) PROVE OriginInv'
  <2>1. /\ UNCHANGED ioVars /\ served' = served /\ answers' = answers
        /\ written' = written \cup {m} /\ writeDones' = Append(writeDones, m)
    BY <1>2 DEF WriteMessage
  <2>2. writeDones \in Seq(written') /\ m \in written'
    BY <2>1 DEF OriginInv
  <2>3. writeDones' \in Seq(written')
    BY <2>1, <2>2, AppendProperties
  <2>4. QED
    BY <2>1, <2>3, OriginStays
<1>3. ASSUME \/ ListenAtOnce \/ MakeCoder \/ SetState
             \/ \E x \in Sides : \/ QueueCallbacks(x) \/ OnReadRefused(x)
                                 \/ OnWriteRefused(x) \/ OnWriteBroken(x) \/ Exit(x)
             \/ \E n \in 1..SocketRoom : OnReadCrash(n) \/ OnReadStuck(n)
      PROVE  UNCHANGED <<ioVars, writeDones, written, served, answers>>
  BY <1>3 DEF ListenAtOnce, MakeCoder, SetState, QueueCallbacks, OnReadRefused,
     OnWriteRefused, OnWriteBroken, Exit, OnReadCrash, OnReadStuck, Ends, clientVars
<1>4. UNCHANGED vars => UNCHANGED <<ioVars, writeDones, written, served, answers>>
  BY DEF vars, ioVars
<1>5. QED
  BY <1>1, <1>2, <1>3, <1>4, OriginWrites, OriginEof, OriginServes, OriginAnswers DEF Next

(* The server dispatches only requests the client has written, and a read  *)
(* callback runs only for a request it has dispatched, whatever the        *)
(* buffers drop and however often requests and replies are sent again.     *)
THEOREM AnswersHaveRequests == Spec => []AnswersMeetRequests
<1>1. TypeInv /\ OriginInv /\ [Next]_vars => OriginInv'
  BY OriginKept
<1>2. OriginInv => AnswersMeetRequests
  BY DEF OriginInv
<1>3. QED
  BY OriginInit, <1>1, <1>2, TypesHold, PTL DEF Spec

-----------------------------------------------------------------------------
(* The ids of the packets that encode() has written.                       *)
LEMMA IdsOfPackets ==
  ASSUME NEW ids \in Seq(Msgs)
  PROVE  IdsOf(Packets(ids, {})) = ids
<1>1. /\ DOMAIN Packets(ids, {}) = 1..Len(ids) /\ ids = [i \in 1..Len(ids) |-> ids[i]]
      /\ \A i \in 1..Len(ids) : ids[i] \in Msgs /\ Packets(ids, {})[i] = Packet(ids[i], {})
  BY DEF Packets
<1>2. ASSUME NEW m \in Msgs PROVE Head(Packet(m, {})).msg = m
  <2>1. 1 \in 1..MsgLen /\ Len(Packet(m, {})) = MsgLen /\ MsgLen # 0 /\ Packet(m, {}) \in Seq(Cells)
    BY MsgLenAssumption, PacketType
  <2>2. Head(Packet(m, {})) = Packet(m, {})[1]
    BY <2>1
  <2>3. Packet(m, {})[1] = [msg |-> m, pos |-> 1, end |-> 1 = MsgLen /\ ~(m \in {})]
    BY <2>1 DEF Packet, EncodeTinyPB
  <2>4. QED
    BY <2>2, <2>3
<1>3. \A i \in 1..Len(ids) : Head(Packets(ids, {})[i]).msg = ids[i]
  BY <1>1, <1>2
<1>4. IdsOf(Packets(ids, {})) = [i \in 1..Len(ids) |-> ids[i]]
  BY <1>1, <1>3 DEF IdsOf
<1>5. QED
  BY <1>1, <1>4

(* One run of onRead, in any state the connection reaches: when what is    *)
(* left in the input buffer and the cells that have arrived are packets    *)
(* encode() wrote and a part of another, and all fit, it hands on exactly  *)
(* the messages written, in their order, and keeps the part for the next   *)
(* run.                                                                    *)
THEOREM ReadsWhatWasWritten ==
  ASSUME TypeInv, NEW x \in Sides, NEW n \in Nat, n <= Len(stream[Peer(x)]),
         n < WriteAble(inBuf[x]),
         NEW from \in Buffers, from.data = <<>>, NEW ids \in Seq(Msgs),
         NEW part \in Seq(Cells), Len(part) < MsgLen,
         inBuf[x].data \o SubSeq(stream[Peer(x)], 1, n) = Encode(from, ids, {}).data \o part
  PROVE  IdsOf(Decoded(x, n).out) = ids /\ Decoded(x, n).buf.data = part
<1> DEFINE b == ReadLoop(x, n).buf
<1>1. Peer(x) \in Sides /\ DataTypes
  BY PeerSide DEF TypeInv
<1>2. b \in Filled(BufferSize) /\ b.data = inBuf[x].data \o SubSeq(stream[Peer(x)], 1, n)
  <2>1. inBuf[x].data \in Seq(Cells) /\ inBuf[x] \in Filled(BufferSize)
    BY <1>1, BufferFields DEF DataTypes, Filled
  <2>2. QED
    BY <1>1, <2>1, ReadLoopKeeps DEF DataTypes, Leaves
<1>3. PacketStarts(part) = {}
  BY PartHoldsNone
<1>4. Decoded(x, n) = Decode(b)
  BY DEF Decoded
<1> HIDE DEF b
<1>5. b.data = FlattenSeq(Packets(ids, {})) \o part
  BY <1>2, EncodeEmpty, Zenon
<1>6. Yields(b, ids, part)
  BY <1>2, <1>3, <1>5, DecodeAll
<1>7. QED
  BY <1>4, <1>6, IdsOfPackets DEF Yields
=============================================================================
