------------------------------ MODULE Watchdog ------------------------------
(***************************************************************************)
(* internal/fs/watchdog.go: the table of FUSE operations in flight, and    *)
(* the goroutine that looks through it, started and stopped once or, by    *)
(* callers the type does not exclude, again.                               *)
(*                                                                         *)
(* What the goroutine reports of stalled operations changes no state, so a *)
(* tick is nothing here.  Operations are of one kind.                      *)
(***************************************************************************)
EXTENDS Integers, FiniteSets

CONSTANTS
  Users,     \* goroutines that start and stop the watchdog
  Ops,       \* FUSE worker threads, an operation each at a time
  MaxStarts  \* bound: starts that find the watchdog disabled

ASSUME WatchdogAssumption == MaxStarts \in Nat

VARIABLES
  enabled,
  stopCh, stopped,   \* closed or not
  monitors,          \* monitor goroutines running
  upc,               \* start and stop of each user
  inflight, opCounts,
  opc,               \* enter and the function it returns, of each operation
  starts, halted,    \* history: starts, and whether a stop came before one
  restarted, wdPanicked

channelVars == <<stopCh, stopped, monitors>>
opVars == <<inflight, opCounts, opc>>
wdHistory == <<starts, halted, restarted>>
watchdogVars == <<enabled, channelVars, upc, opVars, wdHistory, wdPanicked>>

WatchdogInit ==
  /\ enabled = FALSE /\ stopCh = FALSE /\ stopped = FALSE /\ monitors = 0
  /\ upc = [u \in Users |-> "idle"]
  /\ inflight = {} /\ opCounts = 0 /\ opc = [o \in Ops |-> "out"]
  /\ starts = 0 /\ halted = FALSE /\ restarted = FALSE /\ wdPanicked = FALSE

UsGoto(u, from, to) == upc[u] = from /\ upc' = [upc EXCEPT ![u] = to]

(* start: an enabled watchdog is left alone.                               *)
WdStart(u) ==
  /\ starts < MaxStarts
  /\ ~enabled /\ enabled' = TRUE
  /\ UsGoto(u, "idle", "go")
  /\ starts' = starts + 1 /\ restarted' = (restarted \/ halted)
  /\ UNCHANGED <<channelVars, opVars, halted, wdPanicked>>

WdGo(u) ==
  /\ UsGoto(u, "go", "idle")
  /\ monitors' = monitors + 1
  /\ UNCHANGED <<enabled, stopCh, stopped, opVars, wdHistory, wdPanicked>>

(* Mutant: a watchdog that is disabled already is stopped once more.       *)
WdStopAgain(u) ==
  /\ starts > 0 /\ enabled' = FALSE
  /\ UsGoto(u, "idle", "close")
  /\ halted' = TRUE
  /\ UNCHANGED <<channelVars, opVars, starts, restarted, wdPanicked>>

(* stop: the channel is closed after mu is given back.                     *)
WdStop(u) ==
  /\ enabled /\ enabled' = FALSE
  /\ UsGoto(u, "idle", "close")
  /\ halted' = TRUE
  /\ UNCHANGED <<channelVars, opVars, starts, restarted, wdPanicked>>

WdClose(u) ==
  /\ UsGoto(u, "close", "wait")
  /\ stopCh' = TRUE /\ wdPanicked' = (wdPanicked \/ stopCh)
  /\ UNCHANGED <<enabled, stopped, monitors, opVars, wdHistory>>

WdStopped(u) ==
  /\ stopped /\ UsGoto(u, "wait", "idle")
  /\ UNCHANGED <<enabled, channelVars, opVars, wdHistory, wdPanicked>>

(* Mutant: the goroutine ends only while the watchdog is enabled.          *)
MonitorEndEnabled ==
  /\ monitors > 0 /\ stopCh /\ enabled
  /\ monitors' = monitors - 1
  /\ stopped' = TRUE /\ wdPanicked' = (wdPanicked \/ stopped)
  /\ UNCHANGED <<enabled, stopCh, upc, opVars, wdHistory>>

(* monitor returns, and closes the other channel.                          *)
MonitorEnd ==
  /\ monitors > 0 /\ stopCh
  /\ monitors' = monitors - 1
  /\ stopped' = TRUE /\ wdPanicked' = (wdPanicked \/ stopped)
  /\ UNCHANGED <<enabled, stopCh, upc, opVars, wdHistory>>

-----------------------------------------------------------------------------
OpGoto(o, from, to) == opc[o] = from /\ opc' = [opc EXCEPT ![o] = to]

(* enter looks at enabled without mu; the operation of a disabled watchdog *)
(* is not counted.                                                         *)
WdEnter(o) ==
  /\ \/ enabled /\ OpGoto(o, "out", "seen")
     \/ ~enabled /\ OpGoto(o, "out", "uncounted")
     \/ OpGoto(o, "uncounted", "out")
  /\ UNCHANGED <<enabled, channelVars, upc, inflight, opCounts, wdHistory,
                 wdPanicked>>

WdCount(o) ==
  /\ OpGoto(o, "seen", "in")
  /\ inflight' = inflight \cup {o} /\ opCounts' = opCounts + 1
  /\ UNCHANGED <<enabled, channelVars, upc, wdHistory, wdPanicked>>

(* Mutant: the function enter returns asks whether the watchdog is enabled *)
(* before it takes the operation out of the table.                         *)
WdLeaveEnabled(o) ==
  /\ OpGoto(o, "in", "out")
  /\ IF enabled THEN inflight' = inflight \ {o} /\ opCounts' = opCounts - 1
                ELSE UNCHANGED <<inflight, opCounts>>
  /\ UNCHANGED <<enabled, channelVars, upc, wdHistory, wdPanicked>>

WdLeave(o) ==
  /\ OpGoto(o, "in", "out")
  /\ inflight' = inflight \ {o} /\ opCounts' = opCounts - 1
  /\ UNCHANGED <<enabled, channelVars, upc, wdHistory, wdPanicked>>

WatchdogStep ==
  \/ MonitorEnd
  \/ \E u \in Users : WdGo(u) \/ WdClose(u) \/ WdStopped(u)

WatchdogNext ==
  /\ ~wdPanicked
  /\ \/ WatchdogStep
     \/ \E u \in Users : WdStart(u) \/ WdStop(u)
     \/ \E o \in Ops : WdEnter(o) \/ WdCount(o) \/ WdLeave(o)

(* The goroutines go on; the process may panic.                            *)
WatchdogFairness ==
  /\ WF_watchdogVars(~wdPanicked /\ MonitorEnd)
  /\ \A u \in Users :
       WF_watchdogVars(~wdPanicked /\ (WdGo(u) \/ WdClose(u) \/ WdStopped(u)))

WatchdogSpec == WatchdogInit /\ [][WatchdogNext]_watchdogVars

-----------------------------------------------------------------------------
WatchdogTypeOK ==
  /\ enabled \in BOOLEAN /\ stopCh \in BOOLEAN /\ stopped \in BOOLEAN
  /\ monitors \in Nat
  /\ upc \in [Users -> {"idle", "go", "close", "wait"}]
  /\ inflight = {o \in Ops : opc[o] = "in"}
  /\ opCounts = Cardinality(inflight)
  /\ opc \in [Ops -> {"out", "seen", "in", "uncounted"}]
  /\ starts \in 0..MaxStarts
  /\ halted \in BOOLEAN /\ restarted \in BOOLEAN /\ wdPanicked \in BOOLEAN

(* However many goroutines start and stop it, no channel is closed twice   *)
(* and the process does not panic, unless it is started after a stop.      *)
WatchdogPanics == wdPanicked => restarted

(* stop returns, though it waits for the goroutine without a limit.        *)
WatchdogStops ==
  \A u \in Users : upc[u] # "idle" ~> upc[u] = "idle" \/ wdPanicked
=============================================================================
