SPECIFICATION FairSpec
CONSTANTS
  m1 = m1
  m2 = m2
  Msgs = {m1, m2}
  MsgLen = 2
  Requests <- Mixed
  Registered <- Services
  BufferSize = 5
  SocketRoom = 12
  MaxServed = 3
INVARIANTS TypeOK AnswerOnce AnswersMeetRequests ServesWhenMade
PROPERTIES ClosedIsQuiet RequestAnswered
CHECK_DEADLOCK FALSE
