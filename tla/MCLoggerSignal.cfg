SPECIFICATION FairSpec
CONSTANTS
  MaxLines <- FewLines
PROPERTY SignalEnds
CHECK_DEADLOCK FALSE
