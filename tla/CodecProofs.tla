---------------------------- MODULE CodecProofs ----------------------------
(***************************************************************************)
(* What the operators of TcpBuffer and TinyPBCoder compute, for buffers of *)
(* any size and packets of any number of cells: which buffers encode(),    *)
(* decode() and the index moves leave, and that decode() returns what      *)
(* encode() wrote.                                                         *)
(***************************************************************************)
EXTENDS TinyPBCoder, SequenceLemmas

(* The rest of a sequence after its first n elements.                      *)
LEMMA Suffix ==
  ASSUME NEW S, NEW s \in Seq(S), NEW n \in Nat, n <= Len(s)
  PROVE  /\ SubSeq(s, n + 1, Len(s)) \in Seq(S) /\ Len(SubSeq(s, n + 1, Len(s))) = Len(s) - n
         /\ \A i \in 1..Len(s) - n : SubSeq(s, n + 1, Len(s))[i] = s[n + i]
OBVIOUS

(* A buffer is a record whose write index is not beyond its size,          *)
LEMMA BufferIs ==
  ASSUME NEW b
  PROVE  b \in Buffers <=> /\ b \in [size : Nat, read : Nat, data : Seq(Cells)]
                           /\ b.read + Len(b.data) <= b.size
<1>1. ASSUME b \in [size : Nat, read : Nat, data : Seq(Cells)]
      PROVE  WriteAble(b) >= 0 <=> b.read + Len(b.data) <= b.size
  <2>1. b.size \in Nat /\ b.read \in Nat /\ Len(b.data) \in Nat
    BY <1>1
  <2>2. QED
    BY <2>1 DEF WriteAble, WriteIndex
<1>2. QED
  BY <1>1 DEF Buffers

(* with these fields,                                                      *)
LEMMA BufferFields ==
  ASSUME NEW b \in Buffers
  PROVE  /\ b.size \in Nat /\ b.read \in Nat /\ b.data \in Seq(Cells) /\ Len(b.data) \in Nat
         /\ b.read + Len(b.data) <= b.size
         /\ b = [size |-> b.size, read |-> b.read, data |-> b.data]
BY BufferIs

(* and every such record is one.                                           *)
LEMMA RecordIsBuffer ==
  ASSUME NEW size \in Nat, NEW read \in Nat, NEW data \in Seq(Cells), read + Len(data) <= size
  PROVE  [size |-> size, read |-> read, data |-> data] \in Buffers
<1>1. [size |-> size, read |-> read, data |-> data] \in [size : Nat, read : Nat, data : Seq(Cells)]
  OBVIOUS
<1>2. QED
  BY <1>1, BufferIs

(* Appending changes the data only.                                        *)
LEMMA DataAppended ==
  ASSUME NEW b \in Buffers, NEW x
  PROVE  [b EXCEPT !.data = @ \o x] = [size |-> b.size, read |-> b.read, data |-> b.data \o x]
<1>1. ASSUME NEW y PROVE [b EXCEPT !.data = y] = [size |-> b.size, read |-> b.read, data |-> y]
  <2>1. b \in [size : Nat, read : Nat, data : Seq(Cells)]
    BY BufferIs
  <2>2. QED
    BY <2>1
<1>2. QED
  BY <1>1

(* adjustBuffer keeps size and data and moves the read index back, if at   *)
(* all.                                                                    *)
LEMMA AdjustKeeps ==
  ASSUME NEW b \in Buffers
  PROVE  /\ AdjustBuffer(b) \in Buffers
         /\ AdjustBuffer(b).size = b.size /\ AdjustBuffer(b).data = b.data
         /\ AdjustBuffer(b).read <= b.read
<1>1. CASE b.read < b.size \div 3
  BY <1>1, BufferFields DEF AdjustBuffer
<1>2. CASE ~(b.read < b.size \div 3)
  <2>1. AdjustBuffer(b) = [size |-> b.size, read |-> 0, data |-> b.data]
    BY <1>2, BufferFields DEF AdjustBuffer
  <2>2. [size |-> b.size, read |-> 0, data |-> b.data] \in Buffers
    <3>1. b.size \in Nat /\ 0 \in Nat /\ b.data \in Seq(Cells) /\ 0 + Len(b.data) <= b.size
      BY BufferFields
    <3>2. QED
      BY <3>1, RecordIsBuffer
  <2>3. QED
    BY <2>1, <2>2, BufferFields
<1>3. QED
  BY <1>1, <1>2

(* The subsequence of all elements is the sequence.                        *)
LEMMA WholeSubSeq ==
  ASSUME NEW S, NEW s \in Seq(S)
  PROVE  SubSeq(s, 1, Len(s)) = s
OBVIOUS

(* resizeBuffer to a size that holds the data keeps all of it.             *)
LEMMA ResizeIs ==
  ASSUME NEW b \in Buffers, NEW n \in Nat, Len(b.data) <= n
  PROVE  /\ ResizeBuffer(b, n) = [size |-> n, read |-> 0, data |-> b.data]
         /\ ResizeBuffer(b, n) \in Buffers
<1>1. /\ b.size \in Nat /\ b.data \in Seq(Cells) /\ Len(b.data) \in Nat
  BY BufferFields
<1>2. (IF n < Len(b.data) THEN n ELSE Len(b.data)) = Len(b.data)
  BY <1>1
<1>3. SubSeq(b.data, 1, Len(b.data)) = b.data
  BY <1>1, WholeSubSeq
<1>4. ResizeBuffer(b, n) = [size |-> n, read |-> 0, data |-> b.data]
  BY <1>2, <1>3, Zenon DEF ResizeBuffer, ReadAble
<1>5. [size |-> n, read |-> 0, data |-> b.data] \in Buffers
  BY <1>1, RecordIsBuffer
<1>6. QED
  BY <1>4, <1>5

(* writeToBuffer appends all it is given and leaves a buffer, grown if     *)
(* need be: the size it grows to, 1.5 times the new write index, suffices. *)
LEMMA WriteKeeps ==
  ASSUME NEW b \in Buffers, NEW bytes \in Seq(Cells)
  PROVE  WriteToBuffer(b, bytes) \in Buffers /\ WriteToBuffer(b, bytes).data = b.data \o bytes
<1> DEFINE n == Len(bytes)
           w == b.read + Len(b.data)
           size == (3 * (w + n)) \div 2
<1>1. /\ b.size \in Nat /\ b.read \in Nat /\ b.data \in Seq(Cells) /\ Len(b.data) \in Nat
      /\ w <= b.size /\ n \in Nat /\ w \in Nat
      /\ b = [size |-> b.size, read |-> b.read, data |-> b.data]
  BY BufferFields
<1>2. b.data \o bytes \in Seq(Cells) /\ Len(b.data \o bytes) = Len(b.data) + n
  BY <1>1, ConcatProperties
<1>3. size \in Nat /\ w + n <= size
  <2> HIDE DEF w, n
  <2>1. QED
    BY <1>1
<1>4. CASE n > b.size - w
  <2>1. Len(b.data) <= size
    <3> HIDE DEF size
    <3>1. QED
      BY <1>1, <1>3
  <2>2. ResizeBuffer(b, size) = [size |-> size, read |-> 0, data |-> b.data]
    BY <1>3, <2>1, ResizeIs
  <2>3. WriteToBuffer(b, bytes) = [[size |-> size, read |-> 0, data |-> b.data] EXCEPT !.data = @ \o bytes]
    BY <1>4, <2>2, Zenon DEF WriteToBuffer, WriteAble, WriteIndex
  <2>4. WriteToBuffer(b, bytes) = [size |-> size, read |-> 0, data |-> b.data \o bytes]
    BY <2>3
  <2>5. 0 + Len(b.data \o bytes) <= size
    <3> HIDE DEF size
    <3>1. QED
      BY <1>1, <1>2, <1>3
  <2>6. [size |-> size, read |-> 0, data |-> b.data \o bytes] \in Buffers
    <3> HIDE DEF size
    <3>1. QED
      BY <1>2, <1>3, <2>5, RecordIsBuffer
  <2>7. QED
    BY <2>4, <2>6
<1>5. CASE ~(n > b.size - w)
  <2>1. WriteToBuffer(b, bytes) = [b EXCEPT !.data = @ \o bytes]
    BY <1>5, Zenon DEF WriteToBuffer, WriteAble, WriteIndex
  <2>2. WriteToBuffer(b, bytes) = [size |-> b.size, read |-> b.read, data |-> b.data \o bytes]
    BY <1>1, <2>1
  <2>3. b.read + Len(b.data \o bytes) <= b.size
    BY <1>1, <1>2, <1>5
  <2>4. [size |-> b.size, read |-> b.read, data |-> b.data \o bytes] \in Buffers
    BY <1>1, <1>2, <2>3, RecordIsBuffer
  <2>5. QED
    BY <2>2, <2>4
<1>6. QED
  BY <1>4, <1>5

(* moveReadIndex leaves a buffer of the same size, without the bytes read, *)
(* unless it refuses the index.                                            *)
LEMMA MoveReadKeeps ==
  ASSUME NEW b \in Buffers, NEW n \in Nat, n <= Len(b.data)
  PROVE  /\ MoveReadIndex(b, n) \in Buffers /\ MoveReadIndex(b, n).size = b.size
         /\ WriteIndex(MoveReadIndex(b, n)) <= WriteIndex(b)
         /\ b.read + n < b.size =>
              MoveReadIndex(b, n).data = SubSeq(b.data, n + 1, Len(b.data))
<1>1. /\ b.size \in Nat /\ b.read \in Nat /\ b.data \in Seq(Cells) /\ Len(b.data) \in Nat
      /\ b.read + Len(b.data) <= b.size
      /\ b = [size |-> b.size, read |-> b.read, data |-> b.data]
  BY BufferFields
<1>2. CASE b.read + n >= b.size
  <2>1. MoveReadIndex(b, n) = b
    BY <1>2 DEF MoveReadIndex
  <2>2. QED
    BY <1>1, <1>2, <2>1 DEF WriteIndex
<1>3. CASE ~(b.read + n >= b.size)
  <2> DEFINE d == SubSeq(b.data, n + 1, Len(b.data))
             a == [size |-> b.size, read |-> b.read + n, data |-> d]
  <2>1. d \in Seq(Cells) /\ Len(d) = Len(b.data) - n
    BY <1>1, Suffix
  <2>2. MoveReadIndex(b, n) = AdjustBuffer(a)
    BY <1>3 DEF MoveReadIndex
  <2>4. a \in Buffers
    <3> HIDE DEF d
    <3>1. b.read + n \in Nat /\ (b.read + n) + Len(d) <= b.size
      BY <1>1, <2>1
    <3>2. QED
      BY <1>1, <2>1, <3>1, RecordIsBuffer
  <2>5. /\ MoveReadIndex(b, n) \in Buffers /\ MoveReadIndex(b, n).size = b.size
        /\ MoveReadIndex(b, n).data = d /\ MoveReadIndex(b, n).read <= b.read + n
        /\ MoveReadIndex(b, n).read \in Nat
    <3> HIDE DEF d
    <3>1. /\ AdjustBuffer(a) \in Buffers /\ AdjustBuffer(a).size = b.size
          /\ AdjustBuffer(a).data = d /\ AdjustBuffer(a).read <= b.read + n
      BY <2>4, AdjustKeeps
    <3>3. AdjustBuffer(a).read \in Nat
      BY <3>1, BufferFields
    <3>4. QED
      BY <2>2, <3>1, <3>3, Zenon
  <2>6. WriteIndex(MoveReadIndex(b, n)) <= WriteIndex(b)
    <3> HIDE DEF d
    <3>1. QED
      BY <1>1, <2>1, <2>5 DEF WriteIndex
  <2>7. QED
    BY <2>5, <2>6
<1>4. QED
  BY <1>2, <1>3

(* moveWriteIndex appends the bytes and stays below the size, or changes   *)
(* nothing.                                                                *)
LEMMA MoveWriteKeeps ==
  ASSUME NEW b \in Buffers, NEW bytes \in Seq(Cells)
  PROVE  /\ MoveWriteIndex(b, bytes) \in Buffers /\ MoveWriteIndex(b, bytes).size = b.size
         /\ WriteIndex(b) + Len(bytes) < b.size =>
              /\ MoveWriteIndex(b, bytes).data = b.data \o bytes
              /\ WriteIndex(MoveWriteIndex(b, bytes)) < b.size
         /\ ~(WriteIndex(b) + Len(bytes) < b.size) => MoveWriteIndex(b, bytes) = b
<1>1. /\ b.size \in Nat /\ b.read \in Nat /\ b.data \in Seq(Cells) /\ Len(b.data) \in Nat
      /\ b.read + Len(b.data) <= b.size /\ Len(bytes) \in Nat
      /\ b = [size |-> b.size, read |-> b.read, data |-> b.data]
  BY BufferFields
<1>2. CASE WriteIndex(b) + Len(bytes) >= b.size
  <2>1. MoveWriteIndex(b, bytes) = b
    BY <1>2 DEF MoveWriteIndex
  <2>2. ~(WriteIndex(b) + Len(bytes) < b.size)
    BY <1>1, <1>2 DEF WriteIndex
  <2>3. QED
    BY <2>1, <2>2
<1>3. CASE ~(WriteIndex(b) + Len(bytes) >= b.size)
  <2> DEFINE d == b.data \o bytes
             a == [size |-> b.size, read |-> b.read, data |-> d]
             m == MoveWriteIndex(b, bytes)
  <2>1. d \in Seq(Cells) /\ Len(d) = Len(b.data) + Len(bytes)
    BY <1>1, ConcatProperties
  <2>2. m = AdjustBuffer([b EXCEPT !.data = @ \o bytes])
    BY <1>3 DEF MoveWriteIndex
  <2>3. [b EXCEPT !.data = @ \o bytes] = a
    BY DataAppended
  <2> HIDE DEF d, m
  <2>4. b.read + Len(d) < b.size /\ b.read + Len(d) <= b.size
    BY <1>1, <1>3, <2>1 DEF WriteIndex
  <2>5. a \in Buffers
    BY <1>1, <2>1, <2>4, RecordIsBuffer
  <2>6. /\ AdjustBuffer(a) \in Buffers /\ AdjustBuffer(a).size = b.size
        /\ AdjustBuffer(a).data = d /\ AdjustBuffer(a).read <= b.read
    BY <2>5, AdjustKeeps
  <2>7. m = AdjustBuffer(a)
    BY <2>2, <2>3, Zenon
  <2>8. AdjustBuffer(a).read \in Nat
    BY <2>6, BufferFields
  <2>9. /\ m \in Buffers /\ m.size = b.size /\ m.data = d /\ m.read <= b.read /\ m.read \in Nat
    BY <2>6, <2>7, <2>8, Zenon
  <2>10. WriteIndex(m) < b.size
    BY <1>1, <2>1, <2>4, <2>9 DEF WriteIndex
  <2>11. ~(WriteIndex(b) + Len(bytes) >= b.size) <=> WriteIndex(b) + Len(bytes) < b.size
    BY <1>1 DEF WriteIndex
  <2>12. QED
    BY <1>3, <2>9, <2>10, <2>11 DEF d, m
<1>4. QED
  BY <1>2, <1>3

-----------------------------------------------------------------------------
(* What encodeTinyPB makes of message m, with an error text for those in   *)
(* failed.                                                                 *)
Packet(m, failed) == EncodeTinyPB(m, m \in failed)

(* It has MsgLen cells.                                                    *)
LEMMA PacketType ==
  ASSUME NEW m \in Msgs, NEW failed
  PROVE  Packet(m, failed) \in Seq(Cells) /\ Len(Packet(m, failed)) = MsgLen
<1>1. MsgLen \in Nat
  BY MsgLenAssumption
<1>2. ASSUME NEW i \in 1..MsgLen
      PROVE  [msg |-> m, pos |-> i, end |-> i = MsgLen /\ ~(m \in failed)] \in Cells
  BY <1>2 DEF Cells
<1>3. Packet(m, failed) \in [1..MsgLen -> Cells]
  BY <1>2 DEF Packet, EncodeTinyPB
<1>4. QED
  BY <1>1, <1>3

(* f lists the buffers that encode() goes through.                         *)
Encodes(b, ids, failed, f) ==
  /\ f \in [0..Len(ids) -> Buffers]
  /\ f[0] = b
  /\ \A i \in 1..Len(ids) : f[i] = WriteToBuffer(f[i - 1], Packet(ids[i], failed))

(* encode() goes through such buffers and returns the last.                *)
LEMMA EncodeResults ==
  ASSUME NEW b \in Buffers, NEW ids \in Seq(Msgs), NEW failed
  PROVE  \E f : Encodes(b, ids, failed, f) /\ Encode(b, ids, failed) = f[Len(ids)]
<1> DEFINE step == [n \in Nat |-> [x \in Buffers |->
                      IF n + 1 <= Len(ids) THEN WriteToBuffer(x, Packet(ids[n + 1], failed)) ELSE x]]
           F(f) == [i \in 0..Len(ids) |->
                      IF i = 0 THEN b
                      ELSE WriteToBuffer(f[i - 1], EncodeTinyPB(ids[i], ids[i] \in failed))]
<1>1. Len(ids) \in Nat /\ \A i \in 1..Len(ids) : ids[i] \in Msgs
  OBVIOUS
<1>2. step \in [Nat -> [Buffers -> Buffers]]
  <2>1. ASSUME NEW n \in Nat, NEW x \in Buffers, n + 1 <= Len(ids)
        PROVE  WriteToBuffer(x, Packet(ids[n + 1], failed)) \in Buffers
    <3>1. n + 1 \in 1..Len(ids)
      BY <1>1, <2>1
    <3>2. Packet(ids[n + 1], failed) \in Seq(Cells)
      BY <1>1, <3>1, PacketType
    <3>3. QED
      BY <3>2, WriteKeeps
  <2>2. QED
    BY <2>1
<1>3. \A n \in Nat, x \in Buffers :
        n + 1 <= Len(ids) => step[n][x] = WriteToBuffer(x, Packet(ids[n + 1], failed))
  OBVIOUS
<1> HIDE DEF step
<1>4. PICK g : Recurs(Buffers, b, step, g)
  BY <1>2, Recursion
<1>5. /\ g \in [Nat -> Buffers] /\ g[0] = b
      /\ \A n \in Nat : n + 1 <= Len(ids) => g[n + 1] = WriteToBuffer(g[n], Packet(ids[n + 1], failed))
  BY <1>3, <1>4 DEF Recurs
<1> DEFINE h == [i \in 0..Len(ids) |-> g[i]]
<1>6. ASSUME NEW i \in 0..Len(ids), i # 0
      PROVE  h[i] = WriteToBuffer(h[i - 1], Packet(ids[i], failed))
  <2>1. i - 1 \in Nat /\ i - 1 \in 0..Len(ids) /\ (i - 1) + 1 = i /\ i <= Len(ids)
    BY <1>1, <1>6
  <2>2. QED
    BY <1>5, <2>1
<1>7. h = F(h)
  BY <1>5, <1>6 DEF Packet
<1>8. \E f : f = F(f)
  BY <1>7
<1> DEFINE encoded == CHOOSE f : f = F(f)
<1>9. encoded = F(encoded)
  <2> HIDE DEF F
  <2>1. QED
    BY <1>8
<1>10. Encode(b, ids, failed) = encoded[Len(ids)]
  BY DEF Encode
<1> HIDE DEF encoded
<1>11. \A i \in 0..Len(ids) :
         encoded[i] = IF i = 0 THEN b ELSE WriteToBuffer(encoded[i - 1], Packet(ids[i], failed))
  BY <1>9 DEF Packet
<1>12. ASSUME NEW i \in 0..Len(ids) PROVE encoded[i] = g[i]
  <2> DEFINE U == {k \in Nat : k <= Len(ids) => encoded[k] = g[k]}
  <2>1. 0 \in U
    BY <1>1, <1>5, <1>11
  <2>2. ASSUME NEW k \in Nat, k \in U PROVE k + 1 \in U
    <3>1. SUFFICES ASSUME k + 1 <= Len(ids) PROVE encoded[k + 1] = g[k + 1]
      OBVIOUS
    <3>2. k + 1 \in 0..Len(ids) /\ k + 1 # 0 /\ (k + 1) - 1 = k /\ k <= Len(ids)
      BY <1>1, <3>1
    <3>3. encoded[k + 1] = WriteToBuffer(encoded[k], Packet(ids[k + 1], failed))
      BY <1>11, <3>2
    <3>4. g[k + 1] = WriteToBuffer(g[k], Packet(ids[k + 1], failed))
      BY <1>5, <3>1
    <3>5. encoded[k] = g[k]
      BY <2>2, <3>2
    <3>6. QED
      BY <3>3, <3>4, <3>5
  <2> HIDE DEF U
  <2>3. Nat \subseteq U
    BY <2>1, <2>2, SetInduction
  <2>4. i \in U /\ i <= Len(ids)
    BY <1>1, <2>3
  <2>5. QED
    BY <2>4 DEF U
<1>13. encoded \in [0..Len(ids) -> Buffers]
  <2>1. encoded = [i \in 0..Len(ids) |-> encoded[i]]
    BY <1>9
  <2>2. \A i \in 0..Len(ids) : encoded[i] \in Buffers
    BY <1>1, <1>5, <1>12
  <2>3. QED
    BY <2>1, <2>2
<1>14. Encodes(b, ids, failed, encoded)
  <2>1. \A i \in 1..Len(ids) : i \in 0..Len(ids) /\ i # 0
    BY <1>1
  <2>2. 0 \in 0..Len(ids)
    BY <1>1
  <2>3. QED
    BY <1>11, <1>13, <2>1, <2>2 DEF Encodes
<1>15. QED
  BY <1>10, <1>14

(* So it returns a buffer.                                                 *)
LEMMA EncodeType ==
  ASSUME NEW b \in Buffers, NEW ids \in Seq(Msgs), NEW failed
  PROVE  Encode(b, ids, failed) \in Buffers
<1>1. PICK f : Encodes(b, ids, failed, f) /\ Encode(b, ids, failed) = f[Len(ids)]
  BY EncodeResults
<1>2. Len(ids) \in 0..Len(ids)
  OBVIOUS
<1>3. QED
  BY <1>1, <1>2 DEF Encodes

-----------------------------------------------------------------------------
(* What decode() takes for a packet.                                       *)
FramesOf(C) == {p \in Seq(C) : Len(p) = MsgLen}

(* Where there is a packet, the first is a frame; one that starts at the   *)
(* read index is first.                                                    *)
LEMMA FirstPacketIs ==
  ASSUME NEW C, NEW d \in Seq(C), PacketStarts(d) # {}
  PROVE  /\ FirstPacket(d) \in FramesOf(C) /\ MsgLen <= Len(d)
         /\ 1 \in PacketStarts(d) => FirstPacket(d) = SubSeq(d, 1, MsgLen)
<1> DEFINE starts == PacketStarts(d)
           first == CHOOSE i \in starts : \A j \in starts : i <= j
<1>1. starts \in SUBSET Nat
  BY DEF PacketStarts
<1>2. \E i \in starts : \A j \in starts : i <= j
  BY <1>1, NatMinimum
<1>3. first \in starts /\ \A j \in starts : first <= j
  BY <1>2
<1>4. FirstPacket(d) = SubSeq(d, first, first + MsgLen - 1)
  BY DEF FirstPacket
<1>5. first \in 1..Len(d) /\ first + MsgLen - 1 <= Len(d)
  BY <1>3 DEF PacketStarts
<1> HIDE DEF first
<1>6. MsgLen \in Nat /\ MsgLen >= 2 /\ Len(d) \in Nat
  BY MsgLenAssumption
<1>7. first \in Nat /\ first + MsgLen - 1 \in Nat /\ first >= 1 /\ MsgLen <= Len(d)
  BY <1>5, <1>6
<1>8. SubSeq(d, first, first + MsgLen - 1) \in FramesOf(C)
  <2> DEFINE to == first + MsgLen - 1
  <2>1. to \in Nat /\ to <= Len(d) /\ to - first + 1 = MsgLen /\ first <= to + 1
    BY <1>5, <1>6, <1>7
  <2> HIDE DEF to
  <2>2. SubSeq(d, first, to) \in Seq(C) /\ Len(SubSeq(d, first, to)) = to - first + 1
    BY <1>5, <1>7, <2>1
  <2>3. QED
    BY <2>1, <2>2 DEF FramesOf, to
<1>9. ASSUME 1 \in starts PROVE first = 1 /\ first + MsgLen - 1 = MsgLen
  BY <1>3, <1>6, <1>7, <1>9
<1>10. QED
  BY <1>4, <1>7, <1>8, <1>9

(* The states of the loop of decode(), and the loop.                       *)
DecodeStates == [buf : Buffers, out : Seq(Seq(Cells))]

DecodeNext(s) == [buf |-> MoveReadIndex(s.buf, MsgLen), out |-> Append(s.out, FirstPacket(s.buf.data))]

DecodeLoop ==
  CHOOSE f : f = [s \in DecodeStates |->
                    IF PacketStarts(s.buf.data) = {} THEN s ELSE f[DecodeNext(s)]]

(* The loop goes on from a state to a state.                               *)
LEMMA DecodeNextType ==
  ASSUME NEW s \in DecodeStates, PacketStarts(s.buf.data) # {}
  PROVE  /\ DecodeNext(s) \in DecodeStates
         /\ FirstPacket(s.buf.data) \in FramesOf(Cells) /\ MsgLen <= Len(s.buf.data)
<1>1. s.buf \in Buffers /\ s.out \in Seq(Seq(Cells))
  BY DEF DecodeStates
<1>2. s.buf.data \in Seq(Cells) /\ MsgLen \in Nat
  BY <1>1, BufferFields, MsgLenAssumption
<1>3. FirstPacket(s.buf.data) \in FramesOf(Cells) /\ MsgLen <= Len(s.buf.data)
  BY <1>2, FirstPacketIs
<1>4. MoveReadIndex(s.buf, MsgLen) \in Buffers
  BY <1>1, <1>2, <1>3, MoveReadKeeps
<1>5. Append(s.out, FirstPacket(s.buf.data)) \in Seq(Seq(Cells))
  <2>1. FirstPacket(s.buf.data) \in Seq(Cells)
    BY <1>3 DEF FramesOf
  <2>2. QED
    BY <1>1, <2>1, AppendProperties
<1>6. QED
  BY <1>3, <1>4, <1>5 DEF DecodeNext, DecodeStates

(* The loop is well defined, it goes on as its body says, and decode() is  *)
(* the loop from no packets.                                               *)
LEMMA DecodeLoops ==
  /\ \A s \in DecodeStates :
       DecodeLoop[s] = IF PacketStarts(s.buf.data) = {} THEN s ELSE DecodeLoop[DecodeNext(s)]
  /\ \A b : Decode(b) = DecodeLoop[[buf |-> b, out |-> <<>>]]
<1> DEFINE done == {s \in DecodeStates : PacketStarts(s.buf.data) = {}}
           res == [s \in DecodeStates |-> s]
           next == [s \in DecodeStates |-> IF s \in done THEN s ELSE DecodeNext(s)]
           F(f) == [s \in DecodeStates |->
                      IF PacketStarts(s.buf.data) = {} THEN s ELSE f[DecodeNext(s)]]
<1>1. next \in [DecodeStates -> DecodeStates]
  BY DecodeNextType
<1>2. res \in [DecodeStates -> DecodeStates]
  OBVIOUS
<1>3. DecodeStates # {}
  <2>1. [size |-> 0, read |-> 0, data |-> <<>>] \in Buffers
    <3>1. <<>> \in Seq(Cells) /\ 0 \in Nat /\ 0 + Len(<<>>) <= 0
      OBVIOUS
    <3>2. QED
      BY <3>1, RecordIsBuffer
  <2>2. <<>> \in Seq(Seq(Cells))
    OBVIOUS
  <2>3. [buf |-> [size |-> 0, read |-> 0, data |-> <<>>], out |-> <<>>] \in DecodeStates
    BY <2>1, <2>2 DEF DecodeStates
  <2>4. QED
    BY <2>3
<1>4. \A s \in DecodeStates : s \in done <=> PacketStarts(s.buf.data) = {}
  OBVIOUS
<1>5. \A s \in DecodeStates : res[s] = s /\ (s \notin done => next[s] = DecodeNext(s))
  OBVIOUS
<1> HIDE DEF done, res, next
<1>6. PICK f : Loops(DecodeStates, DecodeStates, done, res, next, f)
  BY <1>1, <1>2, <1>3, LoopExists
<1>7. f = F(f)
  <2>1. /\ f \in [DecodeStates -> DecodeStates]
        /\ \A s \in DecodeStates : f[s] = IF s \in done THEN res[s] ELSE f[next[s]]
    BY <1>6 DEF Loops
  <2>2. \A s \in DecodeStates : f[s] = F(f)[s]
    BY <1>4, <1>5, <2>1
  <2>3. QED
    BY <2>1, <2>2
<1>8. \E g : g = F(g)
  BY <1>7
<1>9. DecodeLoop = F(DecodeLoop)
  <2>1. DecodeLoop = CHOOSE g : g = F(g)
    BY DEF DecodeLoop
  <2> HIDE DEF F
  <2>2. QED
    BY <1>8, <2>1
<1>10. ASSUME NEW b PROVE Decode(b) = DecodeLoop[[buf |-> b, out |-> <<>>]]
  BY DEF Decode, DecodeLoop, DecodeStates, DecodeNext
<1>11. QED
  BY <1>9, <1>10

(* The buffers that moveReadIndex and moveWriteIndex have not refused.     *)
Filled(size) == {b \in Buffers : b.size = size /\ WriteIndex(b) < size}

(* moveReadIndex does not refuse to leave a packet of such a buffer, and   *)
(* leaves such a buffer.                                                   *)
LEMMA FilledMoves ==
  ASSUME NEW size, NEW b \in Filled(size), MsgLen <= Len(b.data)
  PROVE  /\ MoveReadIndex(b, MsgLen) \in Filled(size)
         /\ MoveReadIndex(b, MsgLen).data = SubSeq(b.data, MsgLen + 1, Len(b.data))
         /\ Len(MoveReadIndex(b, MsgLen).data) = Len(b.data) - MsgLen
<1>1. b \in Buffers /\ b.size = size /\ WriteIndex(b) < size /\ MsgLen \in Nat
  BY MsgLenAssumption DEF Filled
<1>2. b.size \in Nat /\ b.read \in Nat /\ b.data \in Seq(Cells) /\ Len(b.data) \in Nat
  BY <1>1, BufferFields
<1>3. b.read + MsgLen < b.size
  BY <1>1, <1>2 DEF WriteIndex
<1> DEFINE m == MoveReadIndex(b, MsgLen)
<1>4. /\ m \in Buffers /\ m.size = b.size /\ WriteIndex(m) <= WriteIndex(b)
      /\ m.data = SubSeq(b.data, MsgLen + 1, Len(b.data))
  BY <1>1, <1>3, MoveReadKeeps
<1> HIDE DEF m
<1>5. m.read \in Nat /\ Len(m.data) \in Nat
  BY <1>4, BufferFields
<1>6. WriteIndex(m) < size
  BY <1>1, <1>2, <1>4, <1>5 DEF WriteIndex
<1>7. Len(SubSeq(b.data, MsgLen + 1, Len(b.data))) = Len(b.data) - MsgLen
  BY <1>1, <1>2, Suffix
<1>8. QED
  BY <1>1, <1>4, <1>6, <1>7, Zenon DEF m, Filled

(* decode() leaves such a buffer, and the packets it returns are frames;   *)
(* all their cells are from the buffer (C).  It returns: each round takes  *)
(* a packet from the data.                                                 *)
LEMMA DecodeKeeps ==
  ASSUME NEW size, NEW C \in SUBSET Cells, NEW b \in Filled(size), b.data \in Seq(C)
  PROVE  /\ Decode(b).buf \in Filled(size) /\ Decode(b).buf.data \in Seq(C)
         /\ Decode(b).out \in Seq(FramesOf(C))
<1> DEFINE In(s) == s.buf \in Filled(size) /\ s.buf.data \in Seq(C) /\ s.out \in Seq(FramesOf(C))
           U == {n \in Nat : \A s \in DecodeStates :
                   In(s) /\ Len(s.buf.data) <= n => In(DecodeLoop[s])}
<1>0. MsgLen \in Nat /\ MsgLen >= 2
  BY MsgLenAssumption
<1>1. ASSUME NEW s \in DecodeStates PROVE s.buf \in Buffers /\ s.buf.data \in Seq(Cells) /\ Len(s.buf.data) \in Nat
  BY BufferFields DEF DecodeStates
<1>2. ASSUME NEW s \in DecodeStates, PacketStarts(s.buf.data) = {}, In(s)
      PROVE  In(DecodeLoop[s])
  <2>1. DecodeLoop[s] = s
    BY <1>2, DecodeLoops
  <2>2. QED
    BY <1>2, <2>1
<1>3. ASSUME NEW s \in DecodeStates, PacketStarts(s.buf.data) # {}, In(s)
      PROVE  /\ DecodeLoop[s] = DecodeLoop[DecodeNext(s)]
             /\ DecodeNext(s) \in DecodeStates /\ In(DecodeNext(s))
             /\ MsgLen <= Len(s.buf.data)
             /\ Len(DecodeNext(s).buf.data) = Len(s.buf.data) - MsgLen
  <2>1. DecodeLoop[s] = DecodeLoop[DecodeNext(s)]
    BY <1>3, DecodeLoops
  <2>2. /\ DecodeNext(s) \in DecodeStates /\ FirstPacket(s.buf.data) \in FramesOf(C)
        /\ MsgLen <= Len(s.buf.data)
    BY <1>3, DecodeNextType, FirstPacketIs
  <2>3. /\ MoveReadIndex(s.buf, MsgLen) \in Filled(size)
        /\ MoveReadIndex(s.buf, MsgLen).data \in Seq(C)
        /\ Len(MoveReadIndex(s.buf, MsgLen).data) = Len(s.buf.data) - MsgLen
    <3>1. SubSeq(s.buf.data, MsgLen + 1, Len(s.buf.data)) \in Seq(C)
      BY <1>0, <1>3, <2>2, Suffix
    <3>2. QED
      BY <1>3, <2>2, <3>1, FilledMoves
  <2>4. Append(s.out, FirstPacket(s.buf.data)) \in Seq(FramesOf(C))
    BY <1>3, <2>2, AppendProperties
  <2>5. /\ DecodeNext(s).buf = MoveReadIndex(s.buf, MsgLen)
        /\ DecodeNext(s).out = Append(s.out, FirstPacket(s.buf.data))
    BY DEF DecodeNext
  <2>6. QED
    BY <2>1, <2>2, <2>3, <2>4, <2>5, Zenon
<1>4. 0 \in U
  <2>1. ASSUME NEW s \in DecodeStates, In(s), Len(s.buf.data) <= 0 PROVE In(DecodeLoop[s])
    <3>1. PacketStarts(s.buf.data) = {}
      <4>1. PacketStarts(s.buf.data) # {} => MsgLen <= Len(s.buf.data)
        BY <1>3, <2>1
      <4>2. Len(s.buf.data) \in Nat
        BY <1>1
      <4> HIDE DEF In
      <4>3. QED
        BY <1>0, <2>1, <4>1, <4>2
    <3>2. QED
      BY <1>2, <2>1, <3>1
  <2>2. QED
    BY <2>1
<1>5. ASSUME NEW n \in Nat, n \in U PROVE n + 1 \in U
  <2>1. ASSUME NEW s \in DecodeStates, In(s), Len(s.buf.data) <= n + 1 PROVE In(DecodeLoop[s])
    <3>1. CASE PacketStarts(s.buf.data) = {}
      BY <1>2, <2>1, <3>1
    <3>2. CASE PacketStarts(s.buf.data) # {}
      <4>1. /\ DecodeLoop[s] = DecodeLoop[DecodeNext(s)]
            /\ DecodeNext(s) \in DecodeStates /\ In(DecodeNext(s))
            /\ MsgLen <= Len(s.buf.data)
            /\ Len(DecodeNext(s).buf.data) = Len(s.buf.data) - MsgLen
        BY <1>3, <2>1, <3>2
      <4>2. Len(DecodeNext(s).buf.data) <= n
        BY <1>0, <1>1, <2>1, <4>1
      <4> HIDE DEF In
      <4>3. QED
        BY <1>5, <4>1, <4>2
    <3>3. QED
      BY <3>1, <3>2
  <2>2. QED
    BY <2>1
<1> HIDE DEF U
<1>6. Nat \subseteq U
  BY <1>4, <1>5, SetInduction
<1> DEFINE s0 == [buf |-> b, out |-> <<>>]
<1>7. s0 \in DecodeStates /\ In(s0)
  <2>1. b \in Buffers /\ <<>> \in Seq(FramesOf(C)) /\ <<>> \in Seq(Seq(Cells))
    BY DEF Filled
  <2>2. s0.buf = b /\ s0.out = <<>>
    OBVIOUS
  <2> HIDE DEF s0
  <2>3. In(s0)
    BY <2>1, <2>2
  <2>4. s0 \in DecodeStates
    BY <2>1 DEF DecodeStates, s0
  <2>5. QED
    BY <2>3, <2>4
<1>8. Decode(b) = DecodeLoop[s0]
  BY DecodeLoops
<1>9. In(DecodeLoop[s0])
  <2> HIDE DEF In, s0
  <2>1. Len(s0.buf.data) \in Nat /\ Len(s0.buf.data) \in U
    BY <1>1, <1>6, <1>7
  <2>2. QED
    BY <1>7, <2>1 DEF U
<1>10. QED
  BY <1>8, <1>9

-----------------------------------------------------------------------------
(* The packets of several messages.                                        *)
Packets(ids, failed) == [i \in 1..Len(ids) |-> Packet(ids[i], failed)]

(* They are as many, and each is a sequence of cells.                      *)
LEMMA PacketsType ==
  ASSUME NEW ids \in Seq(Msgs), NEW failed
  PROVE  /\ Packets(ids, failed) \in Seq(Seq(Cells)) /\ Len(Packets(ids, failed)) = Len(ids)
         /\ \A i \in 1..Len(ids) : Packets(ids, failed)[i] = Packet(ids[i], failed)
<1>1. Len(ids) \in Nat /\ \A i \in 1..Len(ids) : ids[i] \in Msgs
  OBVIOUS
<1>2. \A i \in 1..Len(ids) : Packet(ids[i], failed) \in Seq(Cells)
  BY <1>1, PacketType
<1>3. Packets(ids, failed) \in [1..Len(ids) -> Seq(Cells)]
  BY <1>2 DEF Packets
<1>4. QED
  BY <1>1, <1>3 DEF Packets

(* A prefix and the next element.                                          *)
LEMMA PrefixGrows ==
  ASSUME NEW S, NEW s \in Seq(S), NEW k \in Nat, k + 1 <= Len(s)
  PROVE  /\ SubSeq(s, 1, k) \in Seq(S) /\ s[k + 1] \in S
         /\ SubSeq(s, 1, k + 1) = Append(SubSeq(s, 1, k), s[k + 1])
OBVIOUS

(* The prefix of no elements.                                              *)
LEMMA EmptyPrefix == ASSUME NEW S, NEW s \in Seq(S) PROVE SubSeq(s, 1, 0) = <<>>
OBVIOUS

(* encode() appends the packets of its messages to the buffer, one after   *)
(* the other, whatever it held, and however often it has to grow it.       *)
THEOREM EncodeData ==
  ASSUME NEW b \in Buffers, NEW ids \in Seq(Msgs), NEW failed
  PROVE  Encode(b, ids, failed).data = b.data \o FlattenSeq(Packets(ids, failed))
<1> DEFINE q == Packets(ids, failed)
<1>0. /\ q \in Seq(Seq(Cells)) /\ Len(q) = Len(ids) /\ Len(ids) \in Nat
      /\ \A i \in 1..Len(ids) : q[i] = Packet(ids[i], failed)
      /\ b.data \in Seq(Cells)
  BY PacketsType, BufferFields
<1>1. PICK f : Encodes(b, ids, failed, f) /\ Encode(b, ids, failed) = f[Len(ids)]
  BY EncodeResults
<1>2. /\ f \in [0..Len(ids) -> Buffers] /\ f[0] = b
      /\ \A i \in 1..Len(ids) : f[i] = WriteToBuffer(f[i - 1], Packet(ids[i], failed))
  BY <1>1 DEF Encodes
<1> HIDE DEF q
<1> DEFINE Holds(k) == f[k].data = b.data \o FlattenSeq(SubSeq(q, 1, k))
           U == {k \in Nat : k <= Len(ids) => Holds(k)}
<1>3. Holds(0)
  <2>1. SubSeq(q, 1, 0) = <<>>
    BY <1>0, EmptyPrefix
  <2>2. b.data \o <<>> = b.data
    BY <1>0, JoinedEmpty
  <2>3. QED
    BY <1>2, <2>1, <2>2, FlattenEmpty, Zenon
<1>4. ASSUME NEW k \in Nat, k + 1 <= Len(ids), Holds(k) PROVE Holds(k + 1)
  <2> DEFINE p == SubSeq(q, 1, k)
             e == q[k + 1]
  <2>2. k + 1 \in 1..Len(ids) /\ (k + 1) - 1 = k /\ k \in 0..Len(ids) /\ k <= Len(ids)
    BY <1>0, <1>4
  <2>3. p \in Seq(Seq(Cells)) /\ e \in Seq(Cells) /\ SubSeq(q, 1, k + 1) = Append(p, e)
    BY <1>0, <1>4, PrefixGrows
  <2>4. f[k + 1].data = f[k].data \o e
    <3>1. f[k + 1] = WriteToBuffer(f[k], e) /\ f[k] \in Buffers
      BY <1>0, <1>2, <2>2
    <3> HIDE DEF e
    <3>2. QED
      BY <2>3, <3>1, WriteKeeps
  <2>5. f[k].data = b.data \o FlattenSeq(p)
    BY <1>4
  <2> HIDE DEF p, e
  <2>6. FlattenSeq(Append(p, e)) = FlattenSeq(p) \o e
    BY <2>3, FlattenAppend
  <2>7. FlattenSeq(p) \in Seq(Cells)
    BY <2>3, FlattenType
  <2>8. Same((b.data \o FlattenSeq(p)) \o e, b.data \o (FlattenSeq(p) \o e))
    BY <1>0, <2>3, <2>7, ConcatRegroup, Zenon
  <2>9. QED
    BY <2>3, <2>4, <2>5, <2>6, <2>8, Zenon DEF Same
<1> HIDE DEF Holds
<1>5. Len(ids) \in U
  <2>1. 0 \in U
    BY <1>3
  <2>2. \A k \in Nat : k \in U => k + 1 \in U
    BY <1>0, <1>4
  <2> HIDE DEF U
  <2>3. Nat \subseteq U
    BY <2>1, <2>2, SetInduction
  <2>4. QED
    BY <1>0, <2>3
<1>6. Holds(Len(ids))
  BY <1>0, <1>5
<1>7. SubSeq(q, 1, Len(ids)) = q
  BY <1>0, WholeSubSeq
<1>8. f[Len(ids)].data = b.data \o FlattenSeq(SubSeq(q, 1, Len(ids)))
  BY <1>6 DEF Holds
<1>9. QED
  BY <1>1, <1>7, <1>8, Zenon DEF q

-----------------------------------------------------------------------------
(* A concatenation is split where it was joined.                           *)
LEMMA SplitConcat ==
  ASSUME NEW S, NEW u \in Seq(S), NEW v \in Seq(S)
  PROVE  /\ SubSeq(u \o v, 1, Len(u)) = u
         /\ SubSeq(u \o v, Len(u) + 1, Len(u \o v)) = v
<1>1. /\ u \o v \in Seq(S) /\ Len(u \o v) = Len(u) + Len(v) /\ Len(u) \in Nat /\ Len(v) \in Nat
      /\ \A i \in 1..Len(u) + Len(v) : (u \o v)[i] = IF i <= Len(u) THEN u[i] ELSE v[i - Len(u)]
  BY ConcatProperties
<1> DEFINE w == u \o v
<1> HIDE DEF w
<1>2. /\ w \in Seq(S) /\ Len(w) = Len(u) + Len(v)
      /\ \A i \in 1..Len(u) + Len(v) : w[i] = IF i <= Len(u) THEN u[i] ELSE v[i - Len(u)]
  BY <1>1 DEF w
<1>3. SubSeq(w, 1, Len(u)) = u
  <2>1. /\ SubSeq(w, 1, Len(u)) \in Seq(S) /\ Len(SubSeq(w, 1, Len(u))) = Len(u)
        /\ \A i \in 1..Len(u) : SubSeq(w, 1, Len(u))[i] = w[i]
    BY <1>1, <1>2
  <2>2. \A i \in 1..Len(u) : SubSeq(w, 1, Len(u))[i] = u[i]
    BY <1>1, <1>2, <2>1
  <2>3. QED
    BY <2>1, <2>2, SeqEqual
<1>4. SubSeq(w, Len(u) + 1, Len(w)) = v
  <2>1. /\ SubSeq(w, Len(u) + 1, Len(w)) \in Seq(S) /\ Len(SubSeq(w, Len(u) + 1, Len(w))) = Len(w) - Len(u)
        /\ \A i \in 1..Len(w) - Len(u) : SubSeq(w, Len(u) + 1, Len(w))[i] = w[Len(u) + i]
    BY <1>1, <1>2, Suffix
  <2>2. Len(w) - Len(u) = Len(v)
    BY <1>1, <1>2
  <2>3. \A i \in 1..Len(v) : SubSeq(w, Len(u) + 1, Len(w))[i] = v[i]
    BY <1>1, <1>2, <2>1, <2>2
  <2>4. QED
    BY <2>1, <2>2, <2>3, SeqEqual
<1>5. QED
  BY <1>3, <1>4 DEF w

(* The fields of a cell.                                                   *)
LEMMA CellIs ==
  ASSUME NEW m, NEW i, NEW e
  PROVE  [msg |-> m, pos |-> i, end |-> e].pos = i /\ ([msg |-> m, pos |-> i, end |-> e].end <=> e)
OBVIOUS

(* A packet without error text has its PB_START first and its PB_END last. *)
LEMMA PacketEnds ==
  ASSUME NEW m
  PROVE  Packet(m, {})[1].pos = 1 /\ Packet(m, {})[MsgLen].end
<1>1. 1 \in 1..MsgLen /\ MsgLen \in 1..MsgLen
  BY MsgLenAssumption
<1>2. \A i \in 1..MsgLen : Packet(m, {})[i] = [msg |-> m, pos |-> i, end |-> i = MsgLen /\ ~(m \in {})]
  BY DEF Packet, EncodeTinyPB
<1>3. Packet(m, {})[1].pos = 1
  <2>1. Packet(m, {})[1] = [msg |-> m, pos |-> 1, end |-> 1 = MsgLen /\ ~(m \in {})]
    BY <1>1, <1>2
  <2>2. QED
    BY <2>1
<1>4. Packet(m, {})[MsgLen].end
  <2>1. [msg |-> m, pos |-> MsgLen, end |-> MsgLen = MsgLen /\ ~(m \in {})]
          = [msg |-> m, pos |-> MsgLen, end |-> TRUE]
    OBVIOUS
  <2>2. Packet(m, {})[MsgLen] = [msg |-> m, pos |-> MsgLen, end |-> TRUE]
    BY <1>1, <1>2, <2>1
  <2>3. QED
    BY <2>2
<1>5. QED
  BY <1>3, <1>4

(* A whole packet at the front is the first one.                           *)
LEMMA FrontPacket ==
  ASSUME NEW m \in Msgs, NEW v \in Seq(Cells)
  PROVE  /\ PacketStarts(Packet(m, {}) \o v) # {}
         /\ FirstPacket(Packet(m, {}) \o v) = Packet(m, {})
<1> DEFINE h == Packet(m, {})
           d == h \o v
<1>1. h \in Seq(Cells) /\ Len(h) = MsgLen /\ MsgLen \in Nat /\ MsgLen >= 2
  BY PacketType, MsgLenAssumption
<1>2. /\ d \in Seq(Cells) /\ Len(d) = MsgLen + Len(v) /\ Len(v) \in Nat
      /\ \A i \in 1..MsgLen : d[i] = h[i]
  <2> HIDE DEF h
  <2>1. QED
    BY <1>1, ConcatProperties
<1>3. h[1].pos = 1 /\ h[MsgLen].end
  BY <1>1, PacketEnds
<1>4. 1 \in PacketStarts(d)
  <2>1. 1 \in 1..MsgLen /\ MsgLen \in 1..MsgLen /\ 1 + MsgLen - 1 = MsgLen /\ MsgLen <= Len(d) /\ 1 \in 1..Len(d)
    <3> HIDE DEF d
    <3>1. QED
      BY <1>1, <1>2
  <2>2. d[1] = h[1] /\ d[MsgLen] = h[MsgLen]
    BY <1>2, <2>1
  <2> HIDE DEF d, h
  <2>3. QED
    BY <1>3, <2>1, <2>2 DEF PacketStarts, IsStart, IsEnd
<1>5. FirstPacket(d) = SubSeq(d, 1, MsgLen)
  <2> HIDE DEF d
  <2>1. QED
    BY <1>2, <1>4, FirstPacketIs
<1>6. SubSeq(d, 1, Len(h)) = h
  <2> HIDE DEF h
  <2>1. QED
    BY <1>1, SplitConcat
<1>7. QED
  BY <1>1, <1>4, <1>5, <1>6

(* The first message, and the others.                                      *)
LEMMA PacketsHead ==
  ASSUME NEW ids \in Seq(Msgs), NEW failed, Len(ids) # 0
  PROVE  /\ ids[1] \in Msgs /\ Tail(ids) \in Seq(Msgs) /\ Len(Tail(ids)) = Len(ids) - 1
         /\ Head(Packets(ids, failed)) = Packet(ids[1], failed)
         /\ Tail(Packets(ids, failed)) = Packets(Tail(ids), failed)
<1> DEFINE q == Packets(ids, failed)
           r == Packets(Tail(ids), failed)
<1>1. /\ ids[1] \in Msgs /\ Tail(ids) \in Seq(Msgs) /\ Len(Tail(ids)) = Len(ids) - 1
      /\ Len(ids) \in Nat /\ \A i \in 1..Len(ids) - 1 : Tail(ids)[i] = ids[i + 1]
  OBVIOUS
<1>2. /\ q \in Seq(Seq(Cells)) /\ Len(q) = Len(ids)
      /\ \A i \in 1..Len(ids) : q[i] = Packet(ids[i], failed)
  BY PacketsType
<1>3. /\ r \in Seq(Seq(Cells)) /\ Len(r) = Len(ids) - 1
      /\ \A i \in 1..Len(ids) - 1 : r[i] = Packet(Tail(ids)[i], failed)
  BY <1>1, PacketsType
<1> HIDE DEF q, r
<1>4. Head(q) = Packet(ids[1], failed)
  BY <1>1, <1>2
<1>5. Tail(q) = r
  <2>1. Tail(q) \in Seq(Seq(Cells)) /\ Len(Tail(q)) = Len(ids) - 1 /\ \A i \in 1..Len(ids) - 1 : Tail(q)[i] = q[i + 1]
    BY <1>1, <1>2
  <2>2. \A i \in 1..Len(ids) - 1 : i + 1 \in 1..Len(ids)
    BY <1>1
  <2>3. \A i \in 1..Len(ids) - 1 : Tail(q)[i] = r[i]
    BY <1>1, <1>2, <1>3, <2>1, <2>2
  <2>4. QED
    BY <1>3, <2>1, <2>3, SeqEqual
<1>6. QED
  BY <1>1, <1>4, <1>5 DEF q, r

(* Appending the first of q, then the others, is appending q.              *)
LEMMA ConsAppend ==
  ASSUME NEW S, NEW s \in Seq(S), NEW q \in Seq(S), Len(q) # 0
  PROVE  Same(Append(s, Head(q)) \o Tail(q), s \o q)
<1> DEFINE h == Head(q)
           t == Tail(q)
<1>1. h \in S /\ t \in Seq(S) /\ Len(t) = Len(q) - 1 /\ Len(q) \in Nat /\ q[1] = h
      /\ \A i \in 1..Len(q) - 1 : t[i] = q[i + 1]
  OBVIOUS
<1>2. <<h>> \in Seq(S) /\ Append(s, h) = s \o <<h>>
  BY <1>1, AppendIsConcat
<1>3. Same((s \o <<h>>) \o t, s \o (<<h>> \o t))
  BY <1>1, <1>2, ConcatRegroup, Zenon
<1> HIDE DEF h, t
<1>4. <<h>> \o t = q
  <2>1. /\ <<h>> \o t \in Seq(S) /\ Len(<<h>> \o t) = Len(q)
        /\ \A i \in 1..Len(q) : (<<h>> \o t)[i] = IF i = 1 THEN h ELSE t[i - 1]
    BY <1>1
  <2>2. \A i \in 1..Len(q) : (<<h>> \o t)[i] = q[i]
    <3>1. ASSUME NEW i \in 1..Len(q), i # 1 PROVE t[i - 1] = q[i]
      <4>1. i - 1 \in 1..Len(q) - 1 /\ (i - 1) + 1 = i
        BY <1>1, <3>1
      <4>2. QED
        BY <1>1, <4>1
    <3>2. QED
      BY <1>1, <2>1, <3>1
  <2>3. QED
    BY <2>1, <2>2, SeqEqual
<1>5. QED
  BY <1>2, <1>3, <1>4, Zenon DEF Same, h, t

(* The data of state s: the packets of the ids, and a part of another.     *)
Carries(s, ids, part) == s.buf.data = FlattenSeq(Packets(ids, {})) \o part

(* The loop returns from s the packets of the ids and keeps the part.      *)
DecodesTo(s, ids, part) ==
  DecodeLoop[s].buf.data = part /\ DecodeLoop[s].out = s.out \o Packets(ids, {})

(* It does when there are no ids left,                                     *)
LEMMA DecodeNone ==
  ASSUME NEW s \in DecodeStates, NEW ids \in Seq(Msgs), Len(ids) = 0,
         NEW part \in Seq(Cells), PacketStarts(part) = {}, Carries(s, ids, part)
  PROVE  DecodesTo(s, ids, part)
<1> DEFINE q == Packets(ids, {})
<1>1. q \in Seq(Seq(Cells)) /\ Len(q) = 0
  BY PacketsType
<1> HIDE DEF q
<1>2. q = <<>>
  BY <1>1
<1>3. s.out \in Seq(Seq(Cells))
  BY DEF DecodeStates
<1>4. s.out \o <<>> = s.out /\ <<>> \o part = part
  BY <1>3, JoinedEmpty
<1>5. s.buf.data = part
  BY <1>2, <1>4, FlattenEmpty, Zenon DEF Carries, q
<1>6. DecodeLoop[s] = s
  BY <1>5, DecodeLoops
<1>7. QED
  BY <1>2, <1>4, <1>5, <1>6, Zenon DEF DecodesTo, q

(* and when it does for the others after one round.                        *)
LEMMA DecodeOne ==
  ASSUME NEW size, NEW s \in DecodeStates, s.buf \in Filled(size),
         NEW ids \in Seq(Msgs), Len(ids) # 0, NEW part \in Seq(Cells), Carries(s, ids, part)
  PROVE  /\ DecodeNext(s) \in DecodeStates /\ DecodeNext(s).buf \in Filled(size)
         /\ Carries(DecodeNext(s), Tail(ids), part)
         /\ DecodesTo(DecodeNext(s), Tail(ids), part) => DecodesTo(s, ids, part)
<1> DEFINE q == Packets(ids, {})
           r == Packets(Tail(ids), {})
           h == Packet(ids[1], {})
           rest == FlattenSeq(r) \o part
<1>1. ids[1] \in Msgs /\ Tail(ids) \in Seq(Msgs) /\ Head(q) = h /\ Tail(q) = r
  BY PacketsHead
<1>2. q \in Seq(Seq(Cells)) /\ Len(q) # 0 /\ r \in Seq(Seq(Cells))
  BY <1>1, PacketsType
<1>3. h \in Seq(Cells) /\ Len(h) = MsgLen
  BY <1>1, PacketType
<1>4. FlattenSeq(r) \in Seq(Cells) /\ rest \in Seq(Cells)
  <2>1. FlattenSeq(r) \in Seq(Cells)
    BY <1>2, FlattenType
  <2> HIDE DEF r
  <2>2. QED
    BY <2>1, ConcatProperties
<1>5. PacketStarts(h \o rest) # {} /\ FirstPacket(h \o rest) = h
  <2> HIDE DEF rest
  <2>1. QED
    BY <1>1, <1>4, FrontPacket
<1> HIDE DEF q, r, h
<1>6. s.buf.data = h \o rest
  <2>1. FlattenSeq(q) = h \o FlattenSeq(r)
    BY <1>1, <1>2, FlattenTail
  <2>2. Same((h \o FlattenSeq(r)) \o part, h \o (FlattenSeq(r) \o part))
    BY <1>3, <1>4, ConcatRegroup, Zenon
  <2>3. QED
    BY <2>1, <2>2, Zenon DEF Same, Carries, q
<1> HIDE DEF rest
<1>7. PacketStarts(s.buf.data) # {} /\ FirstPacket(s.buf.data) = h
  BY <1>5, <1>6, Zenon
<1>8. DecodeNext(s) \in DecodeStates /\ MsgLen <= Len(s.buf.data)
  BY <1>7, DecodeNextType
<1>9. /\ MoveReadIndex(s.buf, MsgLen) \in Filled(size)
      /\ MoveReadIndex(s.buf, MsgLen).data = SubSeq(s.buf.data, MsgLen + 1, Len(s.buf.data))
  BY <1>8, FilledMoves
<1>10. /\ DecodeNext(s).buf = MoveReadIndex(s.buf, MsgLen)
       /\ DecodeNext(s).out = Append(s.out, h)
  BY <1>7 DEF DecodeNext
<1>11. DecodeNext(s).buf.data = rest
  <2>1. SubSeq(h \o rest, Len(h) + 1, Len(h \o rest)) = rest
    BY <1>3, <1>4, SplitConcat
  <2>2. QED
    BY <1>3, <1>6, <1>9, <1>10, <2>1, Zenon
<1>12. Carries(DecodeNext(s), Tail(ids), part)
  BY <1>11 DEF Carries, rest, r
<1>13. ASSUME DecodesTo(DecodeNext(s), Tail(ids), part) PROVE DecodesTo(s, ids, part)
  <2>1. DecodeLoop[s] = DecodeLoop[DecodeNext(s)]
    BY <1>7, DecodeLoops
  <2>2. DecodeLoop[s].buf.data = part /\ DecodeLoop[s].out = Append(s.out, h) \o r
    BY <1>10, <1>13, <2>1, Zenon DEF DecodesTo, r
  <2>3. s.out \in Seq(Seq(Cells))
    BY DEF DecodeStates
  <2>4. Same(Append(s.out, Head(q)) \o Tail(q), s.out \o q)
    BY <1>2, <2>3, ConsAppend
  <2>5. QED
    BY <1>1, <2>2, <2>4, Zenon DEF DecodesTo, Same, q
<1>14. QED
  BY <1>8, <1>9, <1>10, <1>12, <1>13, Zenon

(* What decode() makes of a buffer that holds these packets.               *)
Yields(b, ids, part) == Decode(b).out = Packets(ids, {}) /\ Decode(b).buf.data = part

(* By induction on the number of packets.                                  *)
LEMMA DecodeAll ==
  ASSUME NEW size, NEW b \in Filled(size), NEW ids \in Seq(Msgs),
         NEW part \in Seq(Cells), PacketStarts(part) = {},
         b.data = FlattenSeq(Packets(ids, {})) \o part
  PROVE  Yields(b, ids, part)
<1> DEFINE Good(s, w) == s.buf \in Filled(size) /\ Carries(s, w, part)
           U == {n \in Nat : \A s \in DecodeStates, w \in Seq(Msgs) :
                   Len(w) = n /\ Good(s, w) => DecodesTo(s, w, part)}
<1>1. 0 \in U
  BY DecodeNone
<1>2. ASSUME NEW n \in Nat, n \in U PROVE n + 1 \in U
  <2>1. ASSUME NEW s \in DecodeStates, NEW w \in Seq(Msgs), Len(w) = n + 1, Good(s, w)
        PROVE  DecodesTo(s, w, part)
    <3>1. Len(w) # 0 /\ Tail(w) \in Seq(Msgs) /\ Len(Tail(w)) = n
      BY <2>1
    <3>2. /\ DecodeNext(s) \in DecodeStates /\ Good(DecodeNext(s), Tail(w))
          /\ DecodesTo(DecodeNext(s), Tail(w), part) => DecodesTo(s, w, part)
      BY <2>1, <3>1, DecodeOne
    <3> HIDE DEF Good
    <3>3. QED
      BY <1>2, <3>1, <3>2
  <2> HIDE DEF Good
  <2>2. QED
    BY <2>1
<1> HIDE DEF U
<1>3. Nat \subseteq U
  BY <1>1, <1>2, SetInduction
<1> DEFINE s0 == [buf |-> b, out |-> <<>>]
<1>4. s0 \in DecodeStates /\ s0.buf = b /\ s0.out = <<>>
  <2>1. b \in Buffers /\ <<>> \in Seq(Seq(Cells))
    BY DEF Filled
  <2>2. QED
    BY <2>1 DEF DecodeStates
<1>5. Good(s0, ids)
  BY <1>4 DEF Carries
<1>6. Len(ids) \in U
  <2>1. Len(ids) \in Nat
    OBVIOUS
  <2>2. QED
    BY <1>3, <2>1
<1>7. Decode(b) = DecodeLoop[s0]
  BY DecodeLoops
<1> HIDE DEF s0, Good
<1>8. DecodesTo(s0, ids, part)
  BY <1>4, <1>5, <1>6 DEF U
<1>9. <<>> \o Packets(ids, {}) = Packets(ids, {})
  BY PacketsType, JoinedEmpty
<1>10. QED
  BY <1>4, <1>7, <1>8, <1>9, Zenon DEF DecodesTo, Yields

(* In fewer cells than a packet has, decode() finds none.                  *)
LEMMA PartHoldsNone ==
  ASSUME NEW part \in Seq(Cells), Len(part) < MsgLen
  PROVE  PacketStarts(part) = {}
BY MsgLenAssumption DEF PacketStarts

(* The bytes encode() has written into an empty buffer.                    *)
LEMMA EncodeEmpty ==
  ASSUME NEW from \in Buffers, from.data = <<>>, NEW ids \in Seq(Msgs)
  PROVE  Encode(from, ids, {}).data = FlattenSeq(Packets(ids, {}))
<1>1. FlattenSeq(Packets(ids, {})) \in Seq(Cells)
  BY PacketsType, FlattenType
<1>2. Encode(from, ids, {}).data = <<>> \o FlattenSeq(Packets(ids, {}))
  BY EncodeData, Zenon
<1>3. <<>> \o FlattenSeq(Packets(ids, {})) = FlattenSeq(Packets(ids, {}))
  BY <1>1, JoinedEmpty
<1>4. QED
  BY <1>2, <1>3, Zenon

(* What encode() has written, decode() returns, packet by packet and in    *)
(* the order written, and it keeps what has arrived of the next packet; in *)
(* an input buffer of any size, for packets without an error text.         *)
THEOREM DecodesEncoded ==
  ASSUME NEW from \in Buffers, from.data = <<>>, NEW ids \in Seq(Msgs),
         NEW size, NEW b \in Filled(size),
         NEW part \in Seq(Cells), PacketStarts(part) = {},
         b.data = Encode(from, ids, {}).data \o part
  PROVE  Decode(b).out = Packets(ids, {}) /\ Decode(b).buf.data = part
<1>1. b.data = FlattenSeq(Packets(ids, {})) \o part
  BY EncodeEmpty, Zenon
<1>2. QED
  BY <1>1, DecodeAll DEF Yields

-----------------------------------------------------------------------------
(* Without a PB_END there is no packet.                                    *)
Endless == {c \in Cells : ~c.end}

(* decode() finds none,                                                    *)
LEMMA EndlessHasNone ==
  ASSUME NEW d \in Seq(Endless)
  PROVE  PacketStarts(d) = {}
<1>1. ASSUME NEW i \in 1..Len(d), i + MsgLen - 1 <= Len(d) PROVE ~IsEnd(d[i + MsgLen - 1])
  <2>1. i + MsgLen - 1 \in 1..Len(d)
    BY <1>1, MsgLenAssumption
  <2>2. QED
    BY <2>1 DEF Endless, IsEnd
<1>2. QED
  BY <1>1 DEF PacketStarts

(* and a packet with an error text has none.                               *)
LEMMA ErrorPacketEndless ==
  ASSUME NEW failed, NEW m \in Msgs, m \in failed
  PROVE  Packet(m, failed) \in Seq(Endless)
<1>1. MsgLen \in Nat
  BY MsgLenAssumption
<1>2. ASSUME NEW i \in 1..MsgLen
      PROVE  [msg |-> m, pos |-> i, end |-> i = MsgLen /\ ~(m \in failed)] \in Endless
  <2>1. [msg |-> m, pos |-> i, end |-> i = MsgLen /\ ~(m \in failed)]
          = [msg |-> m, pos |-> i, end |-> FALSE]
    BY m \in failed
  <2>2. [msg |-> m, pos |-> i, end |-> FALSE] \in Endless
    BY DEF Endless, Cells
  <2>3. QED
    BY <2>1, <2>2
<1>3. Packet(m, failed) \in [1..MsgLen -> Endless]
  BY <1>2 DEF Packet, EncodeTinyPB
<1>4. QED
  BY <1>1, <1>3

(* Replies with an error text are never decoded, however many encode() has *)
(* written: they stay in the input buffer.                                 *)
THEOREM ErrorsNotDecoded ==
  ASSUME NEW from \in Buffers, from.data = <<>>,
         NEW failed, NEW ids \in Seq(Msgs), \A i \in 1..Len(ids) : ids[i] \in failed,
         NEW b \in Buffers, b.data = Encode(from, ids, failed).data
  PROVE  Decode(b) = [buf |-> b, out |-> <<>>]
<1> DEFINE q == Packets(ids, failed)
           s == [buf |-> b, out |-> <<>>]
<1>1. q \in Seq(Seq(Endless))
  <2>1. Len(ids) \in Nat /\ \A i \in 1..Len(ids) : ids[i] \in Msgs
    OBVIOUS
  <2>2. \A i \in 1..Len(ids) : Packet(ids[i], failed) \in Seq(Endless)
    BY <2>1, ErrorPacketEndless
  <2>3. q \in [1..Len(ids) -> Seq(Endless)]
    BY <2>2 DEF Packets
  <2> HIDE DEF q
  <2>4. QED
    BY <2>1, <2>3
<1>2. FlattenSeq(q) \in Seq(Endless)
  BY <1>1, FlattenType
<1>3. b.data = FlattenSeq(q)
  <2>1. Encode(from, ids, failed).data = <<>> \o FlattenSeq(q)
    BY EncodeData, Zenon
  <2>2. <<>> \o FlattenSeq(q) = FlattenSeq(q)
    BY <1>2, JoinedEmpty
  <2>3. QED
    BY <2>1, <2>2, Zenon
<1>4. PacketStarts(b.data) = {}
  BY <1>2, <1>3, EndlessHasNone
<1>5. s \in DecodeStates /\ s.buf = b
  BY DEF DecodeStates
<1>6. Decode(b) = DecodeLoop[s]
  BY DecodeLoops
<1> HIDE DEF s
<1>7. DecodeLoop[s] = s
  BY <1>4, <1>5, DecodeLoops
<1>8. QED
  BY <1>6, <1>7 DEF s
=============================================================================
