SPECIFICATION FairSpec
CONSTANTS
  Readers = {r1, r2}
  Closers = {c1, c2}
  TimedClosers = {c2}
  Size = 1
  MaxBody = 1
  NotifyCap = 1
  Requests <- WholeFile
  Evictable = FALSE
PROPERTIES GateSpec ReadReturns CloseReturns
