-------------------------- MODULE SleepPrevention ---------------------------
(***************************************************************************)
(* internal/fs/fs_fuse.go and internal/sleep: the system is kept from      *)
(* sleeping while file handles are open.  Open starts a goroutine that     *)
(* enables it if its handle is the first one, Release always one that      *)
(* disables it; they run whenever the scheduler lets them, one at a time   *)
(* under sleepMu.  Stop switches it off.                                   *)
(*                                                                         *)
(* Of a handle there is only that it is in fhToStore.                      *)
(***************************************************************************)
EXTENDS Integers, FiniteSets

CONSTANTS
  Handles,    \* handles that can be open at once
  MaxTasks    \* bound: goroutines waiting to run, of each kind

ASSUME SleepAssumption == MaxTasks \in Nat \ {0}

VARIABLES
  fhToStore,     \* the open handles
  enabling, disabling,  \* goroutines that have not run yet
  disabler,      \* the running one, with sleepMu: "none", "empty"
  sleepRelease,  \* whether fs.sleepRelease is set
  refused,       \* history: PreventSleep failed the last time it was called
  overtaken,     \* history: enabled when no handle was open any more
  stoppedFS      \* history: Stop has been called

sleepVars == <<fhToStore, enabling, disabling, disabler, sleepRelease, refused,
               overtaken, stoppedFS>>

SleepInit ==
  /\ fhToStore = {} /\ enabling = 0 /\ disabling = 0 /\ disabler = "none"
  /\ sleepRelease = FALSE /\ refused = FALSE /\ overtaken = FALSE
  /\ stoppedFS = FALSE

(* The table is changed, and looked at, under fhMu.                        *)
SlOpen(fh) ==
  /\ fh \notin fhToStore
  /\ fhToStore' = fhToStore \cup {fh}
  /\ IF Cardinality(fhToStore') = 1
       THEN enabling < MaxTasks /\ enabling' = enabling + 1
       ELSE UNCHANGED enabling
  /\ UNCHANGED <<disabling, disabler, sleepRelease, refused, overtaken,
                 stoppedFS>>

(* Mutant: the goroutine is started if one handle is left, not none.       *)
SlReleaseLast(fh) ==
  /\ fh \in fhToStore
  /\ fhToStore' = fhToStore \ {fh}
  /\ IF Cardinality(fhToStore') = 1
       THEN disabling < MaxTasks /\ disabling' = disabling + 1
       ELSE UNCHANGED disabling
  /\ UNCHANGED <<enabling, disabler, sleepRelease, refused, overtaken,
                 stoppedFS>>

SlRelease(fh) ==
  /\ fh \in fhToStore
  /\ fhToStore' = fhToStore \ {fh}
  /\ disabling < MaxTasks /\ disabling' = disabling + 1
  /\ UNCHANGED <<enabling, disabler, sleepRelease, refused, overtaken,
                 stoppedFS>>

(* The assertion that keeps the system awake, which it may refuse, and the *)
(* release function that comes with it.                                    *)
PreventSleep(granted) == sleepRelease' = granted /\ refused' = ~granted
ReleaseSleep == sleepRelease' = FALSE

(* enableSleepPrevention.                                                  *)
Enable ==
  /\ enabling > 0 /\ enabling' = enabling - 1
  /\ \/ /\ sleepRelease
        /\ UNCHANGED <<sleepRelease, refused, overtaken>>
     \/ /\ ~sleepRelease /\ PreventSleep(TRUE)
        /\ overtaken' = (fhToStore = {} /\ disabling = 0)
     \/ /\ ~sleepRelease /\ PreventSleep(FALSE)
        /\ UNCHANGED overtaken
  /\ UNCHANGED <<fhToStore, disabling, disabler, stoppedFS>>

(* Mutant: sleepMu is not taken.                                           *)
SlEnableUnlocked == Enable

SlEnable == disabler = "none" /\ Enable

(* disableSleepPrevention looks for open handles, lets fhMu go, and then   *)
(* ends the prevention, with sleepMu held all the time.                    *)
SlDisableCheck ==
  /\ disabler = "none" /\ disabling > 0 /\ disabling' = disabling - 1
  /\ disabler' = IF sleepRelease /\ fhToStore = {} THEN "empty" ELSE "none"
  /\ UNCHANGED <<fhToStore, enabling, sleepRelease, refused, overtaken,
                 stoppedFS>>

SlDisable ==
  /\ disabler = "empty" /\ disabler' = "none"
  /\ ReleaseSleep
  /\ UNCHANGED <<fhToStore, enabling, disabling, refused, overtaken, stoppedFS>>

(* Stop, which does not ask for open handles.                              *)
SlStop ==
  /\ disabler = "none" /\ stoppedFS' = TRUE
  /\ ReleaseSleep
  /\ UNCHANGED <<fhToStore, enabling, disabling, disabler, refused, overtaken>>

SleepNext ==
  \/ SlEnable \/ SlDisableCheck \/ SlDisable \/ SlStop
  \/ \E fh \in Handles : SlOpen(fh) \/ SlRelease(fh)

SleepSpec == SleepInit /\ [][SleepNext]_sleepVars

-----------------------------------------------------------------------------
SleepTypeOK ==
  /\ fhToStore \subseteq Handles
  /\ enabling \in 0..MaxTasks /\ disabling \in 0..MaxTasks
  /\ disabler \in {"none", "empty"}
  /\ sleepRelease \in BOOLEAN /\ refused \in BOOLEAN /\ overtaken \in BOOLEAN
  /\ stoppedFS \in BOOLEAN

(* Whatever the order the goroutines run in: once those that enable have   *)
(* run, an open handle keeps the system awake, unless the system refused   *)
(* or Stop switched it off.                                                *)
SleepCovered ==
  fhToStore # {} /\ enabling = 0 /\ disabler = "none" =>
    sleepRelease \/ refused \/ stoppedFS

(* Once all have run and no handle is open the system may sleep, unless    *)
(* one that enables was overtaken by the Release of its handle.            *)
NoStrayPrevention ==
  fhToStore = {} /\ enabling + disabling = 0 /\ disabler = "none" =>
    ~sleepRelease \/ overtaken
=============================================================================
