SPECIFICATION FairSpec
CONSTANTS
  soon = soon
  late = late
  tick = tick
  Events = {soon, late, tick}
  Interval <- Intervals
  Repeated = {tick}
  Retry = 1
  LoopThread = loopThread
  Threads = {t1}
INVARIANTS TypeOK PendingIsArmed OnePlace
PROPERTIES TakenWhenDue FirstLeaves
