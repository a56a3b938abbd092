SPECIFICATION ServicesSpec
CONSTANTS
  Writers = {w1, w2}
  Keeper = w1
  LogBuffer = 2
  RotateAt = 2
  MaxLines = 3
  Callers = {c1, c2}
  NoCaller = NoCaller
  Margin = 1
  AskTimeout = 1
  Lifetimes = {1, 3}
  MaxTime = 4
  Handles = {h1, h2, h3}
  MaxTasks = 3
  Users = {u1, u2}
  Ops = {o1, o2}
  MaxStarts = 2
  FReaders = {r1, r2}
  Prefetchers = {p1}
  FChunks = 2
  CacheSize = 1
  MaxConcurrency = 1
  MaxRetries = 2
  Readahead = 1
  MaxReads = 2
  Files = {f1}
  EnableAppNap = TRUE
  MaxRuns = 2
INVARIANTS
  ServicesTypeOK
  LogCloseFlushes
  LogLostByFailure
  CachedTokenAlive
  NoNeedlessRequest
  SleepCovered
  NoStrayPrevention
  WatchdogPanics
  CleanExit
  ShutdownWaits
  LifecyclePanics
PROPERTIES
  WatchdogStops
  FetcherSingleFlight
  FetcherReturns
  ExitReached
CHECK_DEADLOCK FALSE
