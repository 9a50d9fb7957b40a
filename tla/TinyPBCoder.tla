---------------------------- MODULE TinyPBCoder ----------------------------
(***************************************************************************)
(* TinyPBCoder (hl/net/coder/tinypb_coder.cc) over bytes abstracted to     *)
(* cells: each belongs to a message, and may be its PB_START (with the     *)
(* packet length) or its PB_END.  Every packet has MsgLen cells.           *)
(***************************************************************************)
EXTENDS TcpBuffer, SequencesExt

CONSTANTS Msgs,     \* message ids
          MsgLen    \* cells of a packet

ASSUME MsgLenAssumption == MsgLen \in Nat /\ MsgLen >= 2

Cells == [msg : Msgs, pos : 1..MsgLen, end : BOOLEAN]

Buffers == {b \in [size : Nat, read : Nat, data : Seq(Cells)] : WriteAble(b) >= 0}

IsStart(c) == c.pos = 1
IsEnd(c) == c.end

(* encodeTinyPB computes pk_len without the length of m_err_info and       *)
(* writes m_err_info all the same: of a packet with error text, PB_END is  *)
(* beyond pk_len and is not copied out.                                    *)
EncodeTinyPB(m, hasErrInfo) ==
  [i \in 1..MsgLen |->
     [msg |-> m, pos |-> i, end |-> i = MsgLen /\ ~hasErrInfo]]

(* encode(): the packets of the ids, those of `failed` with error text.    *)
Encode(b, ids, failed) ==
  LET encoded[i \in 0..Len(ids)] ==
        IF i = 0 THEN b
        ELSE WriteToBuffer(encoded[i - 1], EncodeTinyPB(ids[i], ids[i] \in failed))
  IN  encoded[Len(ids)]

(* Where decode() finds a packet: a PB_START whose packet length ends on a *)
(* PB_END.                                                                 *)
PacketStarts(d) ==
  {i \in 1..Len(d) : /\ IsStart(d[i]) /\ i + MsgLen - 1 <= Len(d)
                     /\ IsEnd(d[i + MsgLen - 1])}

FirstPacket(d) ==
  LET first == CHOOSE i \in PacketStarts(d) : \A j \in PacketStarts(d) : i <= j
  IN  SubSeq(d, first, first + MsgLen - 1)

(* Mutant of Decode: it returns after one packet.                          *)
DecodeFirst(buffer) ==
  IF PacketStarts(buffer.data) = {} THEN [buf |-> buffer, out |-> <<>>]
  ELSE [buf |-> MoveReadIndex(buffer, MsgLen), out |-> <<FirstPacket(buffer.data)>>]

(* decode(): while a packet is found, the first one is parsed, and the     *)
(* read index moves by its length, from where it was.                      *)
Decode(buffer) ==
  LET loop[s \in [buf : Buffers, out : Seq(Seq(Cells))]] ==
        IF PacketStarts(s.buf.data) = {} THEN s
        ELSE loop[[buf |-> MoveReadIndex(s.buf, MsgLen),
                   out |-> Append(s.out, FirstPacket(s.buf.data))]]
  IN  loop[[buf |-> buffer, out |-> <<>>]]
=============================================================================
