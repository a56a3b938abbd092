SPECIFICATION Spec
CONSTANTS
  Readers = {r1, r2}
  Closers = {}
  TimedClosers = {}
  Size <- MCSize
  MaxBody = 2
  NotifyCap = 1
  Requests <- FirstBlock
  Evictable = FALSE
INVARIANT NoLostWakeup
