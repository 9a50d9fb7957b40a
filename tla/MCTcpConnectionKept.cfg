SPECIFICATION Spec
CONSTANTS
  m1 = m1
  m2 = m2
  Msgs = {m1, m2}
  MsgLen = 2
  Requests <- Good
  Registered <- Services
  BufferSize = 3
  SocketRoom = 6
  MaxServed = 2
PROPERTY InputKept
CHECK_DEADLOCK FALSE
