SPECIFICATION FairSpec
CONSTANTS
  N = 2
  Port = 12346
  c1 = c1
  c2 = c2
  c3 = c3
  c4 = c4
  Clients = {c1, c2, c3, c4}
  FirstFd = 3
  FdLimit = 6
  GroupSize = 4
INVARIANTS TypeOK LoopMadeFirst Balanced OwnFdEvent OneLoop
PROPERTIES ThreadsLoop ClientWatched
CHECK_DEADLOCK FALSE
