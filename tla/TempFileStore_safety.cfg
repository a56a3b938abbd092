SPECIFICATION Spec
CONSTANTS
  Readers = {r1, r2}
  Closers = {c1}
  TimedClosers = {}
  Size <- MCSize
  MaxBody = 3
  NotifyCap = 1
  Requests <- BlocksAndEnd
  Evictable = TRUE
SYMMETRY Symmetry
INVARIANTS TypeOK ReadComplete Releases
PROPERTY GateSpec
