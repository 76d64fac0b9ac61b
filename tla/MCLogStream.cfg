SPECIFICATION FairSpec
CONSTANTS
  s1 = s1
  s2 = s2
  Stream = {s1}
  BufCap = 2
  ChanCap = 1
  PipeCap = 1
  LogCommand = TRUE
  MaxEntries = 5
CHECK_DEADLOCK FALSE
INVARIANTS NothingLostSilently Consistent
PROPERTIES Arrives LeftHandlersEnd
