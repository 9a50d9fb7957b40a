SPECIFICATION FairSpec
CONSTANTS
  c1 = c1
  c2 = c2
  c3 = c3
  Calls = {c1, c2, c3}
INVARIANTS TypeOK ClosureOnce RepliedIsSettled FailedConnectOnlyTimesOut
PROPERTIES CallsEndOnce ClosureSeesOutcome RepliedNeverTimesOut ResponseRunsClosure
CHECK_DEADLOCK FALSE
