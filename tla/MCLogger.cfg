SPECIFICATION FairSpec
CONSTANTS
  MaxLines <- FewLines
INVARIANTS TypeOK LinesKept FileInOrder
PROPERTIES LinesStoredOnce SwappedWritten BusyLoggersEnd
CHECK_DEADLOCK FALSE
