--------------------------- MODULE TcpConnection ---------------------------
(***************************************************************************)
(* The two TcpConnections (hl/net/tcp/tcp_connection.cc) of one connection *)
(* of a client and a server, each run by its own event loop: the server's  *)
(* constructor on the main thread, requests written by TcpClient, the      *)
(* callbacks onRead and onWrite with their buffers, the dispatch of        *)
(* requests, and the two byte streams between the sockets.                 *)
(***************************************************************************)
EXTENDS TinyPBCoder, RpcDispatcher, FiniteSets

CONSTANTS Requests,   \* what a client may ask for
          BufferSize, \* the size both buffers start with
          SocketRoom, \* cells the kernel holds of one stream
          MaxServed   \* bound: requests dispatched

ASSUME SizesAssumption == BufferSize \in Nat \ {0} /\ SocketRoom \in Nat /\ MaxServed \in Nat

ASSUME MsgsAssumption == IsFiniteSet(Msgs)

Sides == {"client", "server"}
Peer(x) == IF x = "client" THEN "server" ELSE "client"

VARIABLES
  request,    \* the request of each message
  setup,      \* the main thread in TcpServer::onAccept
  state,      \* m_state of each side
  listening,  \* what each side's FdEvent listens for
  queued,     \* callbacks of each side its event loop has queued
  inBuf,      \* m_in_buffer of each side
  outBuf,     \* m_out_buffer of each side
  stream,     \* stream[x]: cells on their way from x
  eof,        \* eof[x]: x has closed its socket
  writeDones, \* m_write_dones of the client
  readDones,  \* m_read_dones of the client: the ids it waits for
  written,    \* the requests passed to writeMessage
  served,     \* served[m]: how often the server dispatched request m
  answers     \* answers[m]: how often the read callback of m ran

ioVars == <<inBuf, outBuf, stream>>
clientVars == <<writeDones, readDones, written, answers>>
vars == <<request, setup, state, listening, queued, inBuf, outBuf, stream, eof,
          writeDones, readDones, written, served, answers>>

(* Mutant of Init: the server's connection starts out Connected.           *)
InitConnected ==
  /\ request \in [Msgs -> Requests]
  /\ setup = "accept"
  /\ state = [x \in Sides |-> "Connected"]
  /\ listening = [x \in Sides |-> {}]
  /\ queued = [x \in Sides |-> {}]
  /\ inBuf = [x \in Sides |-> NewBuffer(BufferSize)]
  /\ outBuf = [x \in Sides |-> NewBuffer(BufferSize)]
  /\ stream = [x \in Sides |-> <<>>]
  /\ eof = [x \in Sides |-> FALSE]
  /\ writeDones = <<>> /\ readDones = {} /\ written = {}
  /\ served = [m \in Msgs |-> 0] /\ answers = [m \in Msgs |-> 0]

Init ==
  /\ request \in [Msgs -> Requests]
  /\ setup = "accept"
  /\ state = [x \in Sides |-> IF x = "client" THEN "Connected" ELSE "NotConnected"]
  /\ listening = [x \in Sides |-> {}]
  /\ queued = [x \in Sides |-> {}]
  /\ inBuf = [x \in Sides |-> NewBuffer(BufferSize)]
  /\ outBuf = [x \in Sides |-> NewBuffer(BufferSize)]
  /\ stream = [x \in Sides |-> <<>>]
  /\ eof = [x \in Sides |-> FALSE]
  /\ writeDones = <<>> /\ readDones = {} /\ written = {}
  /\ served = [m \in Msgs |-> 0] /\ answers = [m \in Msgs |-> 0]

-----------------------------------------------------------------------------
(* listenRead and listenWrite: a side's FdEvent listens for one more event.*)
Listens(x, e) == listening' = [listening EXCEPT ![x] = @ \cup {e}]

(* The server's side of the connection is made on the main thread: the     *)
(* constructor registers it with an I/O thread that is already running     *)
(* (listenRead), then makes m_coder; onAccept then sets the state.         *)
ListenAtOnce ==
  /\ setup = "accept"
  /\ setup' = "coder"
  /\ Listens("server", "in")
  /\ UNCHANGED <<request, state, queued, ioVars, eof, clientVars, served>>

MakeCoder ==
  /\ setup = "coder"
  /\ setup' = "state"
  /\ UNCHANGED <<request, state, listening, queued, ioVars, eof, clientVars, served>>

(* setState: whatever its argument, the state becomes Connected.           *)
SetState ==
  /\ setup = "state"
  /\ setup' = "done"
  /\ state' = [state EXCEPT !["server"] = "Connected"]
  /\ UNCHANGED <<request, listening, queued, ioVars, eof, clientVars, served>>

-----------------------------------------------------------------------------
(* The event loop of a side queues the callbacks of the events it is       *)
(* listening for, and runs them later, whatever was unregistered between.  *)
Readable(x) == stream[Peer(x)] # <<>> \/ eof[Peer(x)]
Writable(x) == Len(stream[x]) < SocketRoom

QueueCallbacks(x) ==
  LET events == {e \in listening[x] : \/ e = "in" /\ Readable(x)
                                      \/ e = "out" /\ Writable(x)}
  IN  /\ queued[x] = {}
      /\ events # {}
      /\ queued' = [queued EXCEPT ![x] = events]
      /\ UNCHANGED <<request, setup, state, listening, ioVars, eof, clientVars, served>>

(* The IN callback is queued before the OUT callback.                      *)
Takes(x, e) ==
  /\ e \in queued[x]
  /\ e = "out" => "in" \notin queued[x]
  /\ queued' = [queued EXCEPT ![x] = @ \ {e}]

-----------------------------------------------------------------------------
(* The read loop of onRead, when n cells of the peer's stream have arrived *)
(* and `last`, what its last read returned.  A read asks for all the room  *)
(* the buffer has; one that gets it fills the buffer to the end, an index  *)
(* moveWriteIndex refuses, and the next read overwrites these cells.  The  *)
(* first read that gets less ends the loop.                                *)
ReadLoop(x, n) ==
  LET loop[s \in [buf : Buffers, rest : Seq(Cells)]] ==
        LET room == IF WriteAble(s.buf) = 0 THEN ResizeBuffer(s.buf, 2 * s.buf.size) ELSE s.buf
            asked == WriteAble(room)
            rt == IF asked <= Len(s.rest) THEN asked ELSE Len(s.rest)
            after == MoveWriteIndex(room, SubSeq(s.rest, 1, rt))
        IN  IF rt < asked THEN [buf |-> after, last |-> rt]
            ELSE loop[[buf |-> after, rest |-> SubSeq(s.rest, rt + 1, Len(s.rest))]]
  IN  loop[[buf |-> inBuf[x], rest |-> SubSeq(stream[Peer(x)], 1, n)]]

(* read() returns 0, not EAGAIN, when the peer has closed the socket.      *)
ReadsEof(x, n) ==
  eof[Peer(x)] /\ n = Len(stream[Peer(x)]) /\ ReadLoop(x, n).last = 0

(* onRead in a state other than Connected reads nothing.                   *)
OnReadRefused(x) ==
  /\ Takes(x, "in")
  /\ state[x] # "Connected"
  /\ UNCHANGED <<request, setup, state, listening, ioVars, eof, clientVars, served>>

(* onRead that finds the peer closed: clear(), and what the loop had read  *)
(* is not decoded.                                                         *)
OnReadEof(x) ==
  /\ Takes(x, "in")
  /\ state[x] = "Connected"
  /\ ReadsEof(x, Len(stream[Peer(x)]))
  /\ stream' = [stream EXCEPT ![Peer(x)] = <<>>]
  /\ listening' = [listening EXCEPT ![x] = {}]
  /\ state' = [state EXCEPT ![x] = "Closed"]
  /\ UNCHANGED <<request, setup, inBuf, outBuf, eof, clientVars, served>>

(* The first n cells of the stream have arrived and are read.              *)
ReadsCells(x, n) ==
  /\ Takes(x, "in")
  /\ state[x] = "Connected"
  /\ ~ReadsEof(x, n)
  /\ stream' = [stream EXCEPT ![Peer(x)] = SubSeq(@, n + 1, Len(@))]

Decoded(x, n) == Decode(ReadLoop(x, n).buf)

IdsOf(packets) == [i \in DOMAIN packets |-> Head(packets[i]).msg]
Count(ids, m) == Cardinality({i \in DOMAIN ids : ids[i] = m})

(* excute() of the server: every packet decoded is dispatched, and the     *)
(* replies, of which some have an error text, go to the output buffer.     *)
OnReadServer(n) ==
  LET decoded == Decoded("server", n)
      ids == IdsOf(decoded.out)
  IN  /\ ReadsCells("server", n)
      /\ \A m \in Range(ids) : Dispatch(request[m]) # "SIGSEGV"
      /\ FoldFunction(+, 0, served) + Len(ids) <= MaxServed
      /\ served' = [m \in Msgs |-> served[m] + Count(ids, m)]
      /\ inBuf' = [inBuf EXCEPT !["server"] = decoded.buf]
      /\ outBuf' = [outBuf EXCEPT
            !["server"] = Encode(@, ids, {m \in Msgs : HasErrInfo(request[m])})]
      /\ Listens("server", "out")
      /\ UNCHANGED <<request, setup, state, eof, clientVars>>

(* Mutant of RunReadDones: a callback that has run is kept.                *)
KeepReadDones(ids) ==
  /\ readDones' = readDones
  /\ answers' = [m \in Msgs |-> IF m \in readDones THEN answers[m] + Count(ids, m)
                                ELSE answers[m]]

(* Mutant of RunReadDones: a reply runs all the callbacks that wait.       *)
RunAllDones(ids) ==
  /\ readDones' = IF ids = <<>> THEN readDones ELSE {}
  /\ answers' = [m \in Msgs |-> IF m \in readDones /\ ids # <<>> THEN answers[m] + 1
                                ELSE answers[m]]

(* excute() of the client: the read callbacks of the packets decoded run   *)
(* and are forgotten; ids nobody waits for (any longer) are dropped.       *)
RunReadDones(ids) ==
  /\ readDones' = readDones \ Range(ids)
  /\ answers' = [m \in Msgs |-> IF m \in readDones \cap Range(ids) THEN answers[m] + 1
                                ELSE answers[m]]

OnReadClient(n) ==
  LET decoded == Decoded("client", n)
  IN  /\ ReadsCells("client", n)
      /\ inBuf' = [inBuf EXCEPT !["client"] = decoded.buf]
      /\ RunReadDones(IdsOf(decoded.out))
      /\ UNCHANGED <<request, setup, state, listening, outBuf, eof, writeDones, written, served>>

-----------------------------------------------------------------------------
(* TcpClient::writeMessage: the message is left for onWrite to encode.     *)
WriteMessage(m) ==
  /\ ~eof["client"]
  /\ m \notin written
  /\ written' = written \cup {m}
  /\ writeDones' = Append(writeDones, m)
  /\ Listens("client", "out")
  /\ UNCHANGED <<request, setup, state, queued, ioVars, eof, readDones, served, answers>>

OnWriteRefused(x) ==
  /\ Takes(x, "out")
  /\ state[x] # "Connected"
  /\ UNCHANGED <<request, setup, state, listening, ioVars, eof, clientVars, served>>

(* The write loop of onWrite gives the socket what it has room for, from   *)
(* the read index on; nothing moves that index.  OUT stays listened for    *)
(* unless everything went in one write.                                    *)
(* Mutant: the state is not looked at.                                     *)
WritesAnyhow(x, out) ==
  LET room == SocketRoom - Len(stream[x])
      all == ReadAble(out)
  IN  /\ Takes(x, "out")
      /\ outBuf' = [outBuf EXCEPT ![x] = out]
      /\ stream' = [stream EXCEPT
            ![x] = @ \o SubSeq(out.data, 1, IF all <= room THEN all ELSE room)]
      /\ UNCHANGED <<request, setup, state, inBuf, eof, written, served, answers>>

Writes(x, out) ==
  LET room == SocketRoom - Len(stream[x])
      all == ReadAble(out)
  IN  /\ Takes(x, "out")
      /\ state[x] = "Connected" /\ ~eof[Peer(x)]
      /\ outBuf' = [outBuf EXCEPT ![x] = out]
      /\ stream' = [stream EXCEPT
            ![x] = @ \o SubSeq(out.data, 1, IF all <= room THEN all ELSE room)]
      /\ UNCHANGED <<request, setup, state, inBuf, eof, written, served, answers>>

StillOut(x, out) ==
  IF ReadAble(out) <= SocketRoom - Len(stream[x]) THEN {} ELSE {"out"}

OnWriteServer ==
  /\ Writes("server", outBuf["server"])
  /\ listening' = [listening EXCEPT
        !["server"] = (@ \ {"out"}) \cup StillOut("server", outBuf["server"])]
  /\ UNCHANGED <<writeDones, readDones>>

(* The client encodes its requests first.  Afterwards their callbacks run, *)
(* whatever was written: each has the connection wait for the reply        *)
(* (TcpClient::readMessage).                                               *)
OnWriteClient ==
  LET out == Encode(outBuf["client"], writeDones, {})
      done == {writeDones[i] : i \in DOMAIN writeDones}
  IN  /\ Writes("client", out)
      /\ readDones' = readDones \cup done
      /\ writeDones' = <<>>
      /\ listening' = [listening EXCEPT
            !["client"] = (@ \ {"out"}) \cup StillOut("client", out)
                          \cup {e \in {"in"} : done # {}}]

-----------------------------------------------------------------------------
(* A side's process ends, by itself, or by the SIGPIPE of a write to a     *)
(* socket whose peer is gone (nothing in the code ignores the signal).     *)
Ends(x) ==
  /\ eof' = [eof EXCEPT ![x] = TRUE]
  /\ listening' = [listening EXCEPT ![x] = {}]
  /\ queued' = [queued EXCEPT ![x] = {}]
  /\ UNCHANGED <<request, setup, state, ioVars, clientVars, served>>

Exit(x) == ~eof[x] /\ Ends(x)

OnWriteBroken(x) ==
  /\ "out" \in queued[x] /\ "in" \notin queued[x]
  /\ state[x] = "Connected" /\ eof[Peer(x)]
  /\ Ends(x)

(* A request that crashes its dispatch: the signal ends the process, or    *)
(* its handler never returns (Logger), and the loop stands still.          *)
Crashes(n) ==
  /\ "in" \in queued["server"] /\ state["server"] = "Connected"
  /\ \E m \in written : /\ Dispatch(request[m]) = "SIGSEGV"
                        /\ m \in Range(IdsOf(Decoded("server", n).out))
  /\ ~ReadsEof("server", n)

OnReadCrash(n) == Crashes(n) /\ Ends("server")

OnReadStuck(n) ==
  /\ Crashes(n)
  /\ listening' = [listening EXCEPT !["server"] = {}]
  /\ queued' = [queued EXCEPT !["server"] = {}]
  /\ UNCHANGED <<request, setup, state, ioVars, eof, clientVars, served>>

Next ==
  \/ ListenAtOnce \/ MakeCoder \/ SetState
  \/ \E m \in Msgs : WriteMessage(m)
  \/ OnWriteServer \/ OnWriteClient
  \/ \E x \in Sides :
       \/ QueueCallbacks(x)
       \/ OnReadRefused(x) \/ OnReadEof(x) \/ OnWriteRefused(x)
       \/ OnWriteBroken(x) \/ Exit(x)
  \/ \E n \in 1..SocketRoom :
       \/ n <= Len(stream["client"]) /\ (OnReadServer(n) \/ OnReadCrash(n) \/ OnReadStuck(n))
       \/ n <= Len(stream["server"]) /\ OnReadClient(n)

Spec == Init /\ [][Next]_vars

(* Each event loop keeps running and the main thread finishes onAccept.    *)
(* What has been written arrives.                                          *)
SideStep(x) ==
  \/ QueueCallbacks(x) \/ OnReadRefused(x) \/ OnReadEof(x)
  \/ OnWriteRefused(x) \/ OnWriteBroken(x)
  \/ x = "server" /\ \/ OnWriteServer
                     \/ \E n \in 1..Len(stream["client"]) :
                          OnReadServer(n) \/ OnReadCrash(n) \/ OnReadStuck(n)
  \/ x = "client" /\ (OnWriteClient \/ \E n \in 1..Len(stream["server"]) : OnReadClient(n))

FairSpec ==
  /\ Spec
  /\ WF_vars(ListenAtOnce \/ MakeCoder \/ SetState)
  /\ \A x \in Sides : WF_vars(SideStep(x))

-----------------------------------------------------------------------------
(* Members of the connections are in their ranges: the write index of a    *)
(* TcpBuffer never passes its end, whatever is encoded into it or read.    *)
TypeOK ==
  /\ request \in [Msgs -> Requests]
  /\ setup \in {"accept", "coder", "state", "done"}
  /\ state \in [Sides -> {"NotConnected", "Connected", "Closed"}]
  /\ listening \in [Sides -> SUBSET {"in", "out"}]
  /\ queued \in [Sides -> SUBSET {"in", "out"}]
  /\ inBuf \in [Sides -> Buffers] /\ outBuf \in [Sides -> Buffers]
  /\ \A x \in Sides : stream[x] \in Seq(Cells) /\ Len(stream[x]) <= SocketRoom
  /\ eof \in [Sides -> BOOLEAN]
  /\ writeDones \in Seq(Msgs) /\ readDones \subseteq Msgs /\ written \subseteq Msgs
  /\ served \in [Msgs -> 0..MaxServed] /\ answers \in [Msgs -> Nat]

(* The read callback of a request runs at most once, although the server   *)
(* answers every copy of the request it is sent (m_read_dones).            *)
AnswerOnce == \A m \in Msgs : answers[m] <= 1

(* No side acts on what the other has not sent: the server dispatches only *)
(* requests a client has written, and a read callback runs only for a      *)
(* request that was dispatched, although buffers drop cells, and requests  *)
(* and replies are sent again.                                             *)
AnswersMeetRequests ==
  \A m \in Msgs : /\ served[m] > 0 => m \in written
                  /\ answers[m] > 0 => served[m] > 0

(* The server dispatches no request before onAccept has made m_coder and   *)
(* set the state, although the constructor has registered the socket with  *)
(* a running I/O thread before (excute calls m_coder).                     *)
ServesWhenMade == (\E m \in Msgs : served[m] > 0) => setup = "done"

(* A closed connection writes and dispatches nothing, although an OUT      *)
(* callback queued with the IN callback that closed it still runs.         *)
ClosedIsQuiet ==
  [][\A x \in Sides : state[x] = "Closed" =>
       /\ Len(stream'[x]) <= Len(stream[x])
       /\ x = "server" => served' = served]_vars

(* A stream holds all that its socket can, or as much as would fill the    *)
(* reader's input buffer to its end, which drops what is read (InputKept). *)
Full == \E x \in Sides : \/ Len(stream[x]) >= SocketRoom
                         \/ Len(stream[x]) >= WriteAble(inBuf[Peer(x)])

(* As long as no socket or input buffer fills up, a request that a client  *)
(* may count on (Servable) has its read callback run in the end: through   *)
(* partial reads, several packets in a read, copies of requests and        *)
(* replies, and the undecodable error replies to other requests.  Excepted *)
(* are the end of a side and another request that crashes its dispatch.    *)
RequestAnswered ==
  []~Full => \A m \in Msgs :
    m \in written /\ Servable(request[m]) ~>
      \/ answers[m] > 0
      \/ \E x \in Sides : eof[x]
      \/ \E k \in written : Dispatch(request[k]) = "SIGSEGV"

(* What onRead takes off a socket stays in the input buffer until decode() *)
(* takes it, which is by whole packets; a full buffer is made larger.      *)
InputKept ==
  [][\A x \in Sides :
       LET read == Len(stream[Peer(x)]) - Len(stream'[Peer(x)])
       IN  read > 0 /\ state'[x] = "Connected" =>
             ReadAble(inBuf'[x]) % MsgLen = (ReadAble(inBuf[x]) + read) % MsgLen]_vars

(* A request written once is dispatched once.                              *)
ServedOnce == \A m \in Msgs : served[m] <= 1
=============================================================================
