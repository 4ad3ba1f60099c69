SPECIFICATION FairSpec
\* Close may wait for ever for the cleanup goroutine: the system may stop.
CHECK_DEADLOCK FALSE
CONSTANTS
  p1 = p1
  p2 = p2
  c1 = c1
  c2 = c2
  Cleaner = cleaner
  NoProc = NoProc
  Callers <- TwoCallers
  Closers <- TwoClosers
  Calls <- AllCalls
  CleanupAtOpen = {TRUE, FALSE}
INVARIANTS TypeOK DrainedClose SingleCleanup
PROPERTIES CleanupStopped UndisturbedReturns
