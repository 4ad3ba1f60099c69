SPECIFICATION FairSpec
CHECK_DEADLOCK FALSE
CONSTANTS
  p1 = p1
  p2 = p2
  c1 = c1
  c2 = c2
  Cleaner = cleaner
  NoProc = NoProc
  Callers <- OneCaller
  Closers <- OneCloser
  Calls <- LockedCalls
  CleanupAtOpen = {TRUE}
PROPERTY CloseReturns
