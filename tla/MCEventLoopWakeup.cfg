SPECIFICATION Spec
CONSTANTS
  t1 = t1
  t2 = t2
  Threads = {t1, t2}
  Fds = {f1}
  WakeFd = w
  MaxEvents = 1
  MaxPosts <- TwoAndOne
INVARIANTS WakeupWakes
