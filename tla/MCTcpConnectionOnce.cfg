SPECIFICATION Spec
CONSTANTS
  m1 = m1
  m2 = m2
  Msgs = {m1, m2}
  MsgLen = 2
  Requests <- Good
  Registered <- Services
  BufferSize = 4
  SocketRoom = 4
  MaxServed = 2
INVARIANT ServedOnce
CHECK_DEADLOCK FALSE
