SPECIFICATION Spec
CONSTANTS
  soon = soon
  late = late
  tick = tick
  Events = {soon, late, tick}
  Interval <- Intervals
  Repeated = {tick}
  Retry = 1
  LoopThread = loopThread
  Threads = {t1}
INVARIANTS EventsKept
