SPECIFICATION Spec
CONSTANTS
  Readers = {r1, r2}
  Closers = {c1}
  TimedClosers = {}
  Size <- MCSize
  MaxBody = 2
  NotifyCap = 2
  Requests <- BlocksAndEnd
  Evictable = FALSE
INVARIANT NoPanic
