----------------------------- MODULE TcpBuffer -----------------------------
(***************************************************************************)
(* TcpBuffer (hl/net/tcp/tcp_buffer.cc) as a value: the vector's size, the *)
(* read index, and the readable bytes, which end at the write index.       *)
(***************************************************************************)
EXTENDS Integers, Sequences

NewBuffer(size) == [size |-> size, read |-> 0, data |-> <<>>]

ReadAble(b) == Len(b.data)
WriteIndex(b) == b.read + Len(b.data)
WriteAble(b) == b.size - WriteIndex(b)

(* The readable bytes move to the front when a third has been read.        *)
AdjustBuffer(b) ==
  IF b.read < b.size \div 3 THEN b ELSE [b EXCEPT !.read = 0]

ResizeBuffer(b, n) ==
  [size |-> n, read |-> 0,
   data |-> SubSeq(b.data, 1, IF n < ReadAble(b) THEN n ELSE ReadAble(b))]

(* Mutant of WriteToBuffer: it does not grow the buffer.                   *)
WriteWithoutGrowing(b, bytes) == [b EXCEPT !.data = @ \o bytes]

WriteToBuffer(b, bytes) ==
  LET n == Len(bytes)
      grown == IF n > WriteAble(b)
               THEN ResizeBuffer(b, (3 * (WriteIndex(b) + n)) \div 2)
               ELSE b
  IN  [grown EXCEPT !.data = @ \o bytes]

(* Both moves refuse an index equal to the size.                           *)
MoveReadIndex(b, n) ==
  IF b.read + n >= b.size THEN b
  ELSE AdjustBuffer([size |-> b.size, read |-> b.read + n,
                     data |-> SubSeq(b.data, n + 1, Len(b.data))])

(* The bytes are those that read() has put at the write index.             *)
MoveWriteIndex(b, bytes) ==
  IF WriteIndex(b) + Len(bytes) >= b.size THEN b
  ELSE AdjustBuffer([b EXCEPT !.data = @ \o bytes])
=============================================================================
