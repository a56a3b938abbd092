-------------------------- MODULE TempFileManager --------------------------
(***************************************************************************)
(* internal/fetcher/tempfile_manager.go: the table of temporary files, the *)
(* eviction EnsureSpaceAvailable makes room by, and the cleanups at the    *)
(* start and the end of the process.  A store is what creates a file,      *)
(* registers it and, when it is closed, unregisters and removes it.        *)
(*                                                                         *)
(* A step is one hold of the manager's lock or one system call.  A stager  *)
(* settles beforehand which name os.CreateTemp will give its file.         *)
(***************************************************************************)
EXTENDS Integers, FiniteSets, UseOrder

CONSTANTS
  Stagers,       \* goroutines staging a file
  Paths,         \* names of temporary files
  SizeOf,        \* the size of the file of each name
  MaxTempFiles,  \* 10 in the code
  Allowance      \* what MaxDiskUsagePercent of the disk comes to

ASSUME ConstantsAssumption ==
  /\ IsFiniteSet(Stagers)
  /\ SizeOf \in [Paths -> Nat]
  /\ MaxTempFiles \in Nat \ {0}
  /\ Allowance \in Nat

VARIABLES
  files,     \* the table, least recently accessed first
  disk,      \* the temporary files there are
  life,      \* of the store of each file: "none", "made", "live", "closing"
  evicted,   \* stores told of their eviction
  pc, want,  \* where each stager is, and the file it stages
  roomy,     \* what it found: fewer files than MaxTempFiles,
  spaceOK,   \* and enough space
  entries,   \* its snapshot of the table, less the entries dealt with
  up,        \* the process runs
  panicked,  \* it is about to die of a nil dereference
  leftover,  \* history: files some os.Remove failed on
  cleaned    \* history: files CleanupAllFiles removed

storeVars  == <<life, evicted>>
ensureVars == <<roomy, spaceOK, entries>>
vars == <<files, disk, storeVars, pc, want, ensureVars, up, panicked, leftover,
          cleaned>>

Init ==
  /\ files = <<>> /\ disk = {}
  /\ life = [f \in Paths |-> "none"] /\ evicted = {}
  /\ pc = [p \in Stagers |-> "idle"] /\ want = [p \in Stagers |-> "none"]
  /\ roomy = [p \in Stagers |-> FALSE] /\ spaceOK = [p \in Stagers |-> FALSE]
  /\ entries = [p \in Stagers |-> <<>>]
  /\ up = TRUE /\ panicked = FALSE /\ leftover = {} /\ cleaned = {}

Alive == up /\ ~panicked

Table == ToSet(files)

Usage == MapThenSumSet(LAMBDA f : SizeOf[f], Table)

-----------------------------------------------------------------------------
(* EnsureSpaceAvailable, called by StageFile and again by NewTempFileStore *)
(* before it creates the file.                                             *)

EnGoto(p, from, to) == Alive /\ pc[p] = from /\ pc' = [pc EXCEPT ![p] = to]

EnReturn(p, from) ==
  /\ EnGoto(p, from, "idle")
  /\ want' = [want EXCEPT ![p] = "none"]
  /\ entries' = [entries EXCEPT ![p] = <<>>]
  /\ roomy' = [roomy EXCEPT ![p] = FALSE]
  /\ spaceOK' = [spaceOK EXCEPT ![p] = FALSE]

(* os.CreateTemp picks a name that no file has, and that it never picked.  *)
Unused(f) ==
  /\ f \notin disk /\ life[f] = "none"
  /\ \A p \in Stagers : want[p] # f /\ ~Contains(entries[p], f)

(* Mutant: <= for <.                                                       *)
EnCallOff(p) ==
  /\ EnGoto(p, "idle", "firstSpace")
  /\ \E f \in Paths : Unused(f) /\ want' = [want EXCEPT ![p] = f]
  /\ roomy' = [roomy EXCEPT ![p] = Len(files) <= MaxTempFiles]
  /\ UNCHANGED <<files, disk, storeVars, spaceOK, entries, up, panicked,
                 leftover, cleaned>>

EnCall(p) ==
  /\ EnGoto(p, "idle", "firstSpace")
  /\ \E f \in Paths : Unused(f) /\ want' = [want EXCEPT ![p] = f]
  /\ roomy' = [roomy EXCEPT ![p] = Len(files) < MaxTempFiles]
  /\ UNCHANGED <<files, disk, storeVars, spaceOK, entries, up, panicked,
                 leftover, cleaned>>

(* CheckSpaceAvailable: the table's sizes against the allowance.  Who else *)
(* fills the disk, and how far the downloads are, is not known.            *)
Checks(p) ==
  \E enough \in BOOLEAN :
    spaceOK' = [spaceOK EXCEPT
                  ![p] = enough /\ Usage + SizeOf[want[p]] <= Allowance]

EnFirstSpace(p) ==
  /\ pc[p] = "firstSpace"
  /\ \/ Checks(p) /\ UNCHANGED <<want, roomy, entries>>
        /\ EnGoto(p, "firstSpace",
                  IF roomy[p] /\ spaceOK'[p] THEN "granted" ELSE "snapshot")
     \/ EnReturn(p, "firstSpace")
  /\ UNCHANGED <<files, disk, storeVars, up, panicked, leftover, cleaned>>

(* Mutant: the loop runs until there is room, not to the last entry.       *)
NextEntryUntilRoom(es) == "space"

NextEntry(es) == IF es = <<>> THEN "lastSpace" ELSE "space"

EnSnapshot(p) ==
  /\ EnGoto(p, "snapshot", NextEntry(files))
  /\ entries' = [entries EXCEPT ![p] = files]
  /\ UNCHANGED <<files, disk, storeVars, want, roomy, spaceOK, up, panicked,
                 leftover, cleaned>>

EnSpace(p) ==
  /\ \/ EnGoto(p, "space", "count")
        /\ Checks(p) /\ UNCHANGED <<want, roomy, entries>>
     \/ EnReturn(p, "space")
  /\ UNCHANGED <<files, disk, storeVars, up, panicked, leftover, cleaned>>

EnCount(p) ==
  /\ EnGoto(p, "count", IF spaceOK[p] /\ Len(files) < MaxTempFiles
                          THEN "lastSpace" ELSE "take")
  /\ UNCHANGED <<files, disk, storeVars, want, ensureVars, up, panicked,
                 leftover, cleaned>>

(* The entry of the snapshot is looked up again, and taken to be there.    *)
EnTake(p) ==
  LET f == Head(entries[p]) IN
  /\ \/ EnGoto(p, "take", "notify") /\ f \in Table
        /\ files' = Without(files, f) /\ UNCHANGED panicked
     \/ EnGoto(p, "take", "take") /\ f \notin Table
        /\ panicked' = TRUE /\ UNCHANGED files
  /\ UNCHANGED <<disk, storeVars, want, ensureVars, up, leftover, cleaned>>

(* Mutant: the callback is not called.                                     *)
EnNotifyNobody(p) ==
  /\ EnGoto(p, "notify", "remove")
  /\ UNCHANGED <<files, disk, storeVars, want, ensureVars, up, panicked,
                 leftover, cleaned>>

(* OnEvict marks the store, if it is still there.                          *)
EnNotify(p) ==
  LET f == Head(entries[p]) IN
  /\ EnGoto(p, "notify", "remove")
  /\ evicted' = IF life[f] = "none" THEN evicted ELSE evicted \cup {f}
  /\ UNCHANGED <<files, disk, life, want, ensureVars, up, panicked, leftover,
                 cleaned>>

(* os.Remove, which may fail.                                              *)
RemoveFile(f) ==
  \/ disk' = disk \ {f} /\ UNCHANGED leftover
  \/ f \in disk /\ UNCHANGED disk /\ leftover' = leftover \cup {f}

(* A failure is logged and the next entry tried.                           *)
EnRemove(p) ==
  /\ EnGoto(p, "remove", NextEntry(Tail(entries[p])))
  /\ RemoveFile(Head(entries[p]))
  /\ entries' = [entries EXCEPT ![p] = Tail(@)]
  /\ UNCHANGED <<files, storeVars, want, roomy, spaceOK, up, panicked, cleaned>>

EnLastSpace(p) ==
  /\ \/ EnGoto(p, "lastSpace", "lastCount")
        /\ Checks(p) /\ UNCHANGED <<want, roomy, entries>>
     \/ EnReturn(p, "lastSpace")
  /\ UNCHANGED <<files, disk, storeVars, up, panicked, leftover, cleaned>>

(* The last look counts one file more, the one to come.                    *)
EnLastCount(p) ==
  /\ \/ /\ spaceOK[p] /\ Len(files) < MaxTempFiles
        /\ EnGoto(p, "lastCount", "granted")
        /\ entries' = [entries EXCEPT ![p] = <<>>]
        /\ UNCHANGED <<want, roomy, spaceOK>>
     \/ /\ ~spaceOK[p] \/ Len(files) >= MaxTempFiles
        /\ EnReturn(p, "lastCount")
  /\ UNCHANGED <<files, disk, storeVars, up, panicked, leftover, cleaned>>

-----------------------------------------------------------------------------
(* The store: NewTempFileStore's file, its registration, the downloader's  *)
(* opening of it, ReadAt's accesses, Close.                                *)

(* StageFile's own call, or a failure before the file is there.            *)
TfGiveUp(p) ==
  /\ EnReturn(p, "granted")
  /\ UNCHANGED <<files, disk, storeVars, up, panicked, leftover, cleaned>>

TfCreate(p) ==
  LET f == want[p] IN
  /\ EnGoto(p, "granted", "register")
  /\ disk' = disk \cup {f}
  /\ life' = [life EXCEPT ![f] = "made"]
  /\ evicted' = evicted \ {f}
  /\ leftover' = leftover \ {f} /\ cleaned' = cleaned \ {f}
  /\ UNCHANGED <<files, want, ensureVars, up, panicked>>

(* Mutant: the file that cannot be opened stays.                           *)
TfAbandonKeeping(p) ==
  /\ EnReturn(p, "register")
  /\ life' = [life EXCEPT ![want[p]] = "none"]
  /\ UNCHANGED <<files, disk, evicted, up, panicked, leftover, cleaned>>

(* The file cannot be opened for reading and is removed.                   *)
TfAbandon(p) ==
  /\ EnReturn(p, "register")
  /\ RemoveFile(want[p])
  /\ life' = [life EXCEPT ![want[p]] = "none"]
  /\ UNCHANGED <<files, evicted, up, panicked, cleaned>>

TfRegister(p) ==
  /\ EnReturn(p, "register")
  /\ files' = Append(files, want[p])
  /\ life' = [life EXCEPT ![want[p]] = "new"]
  /\ UNCHANGED <<disk, evicted, up, panicked, leftover, cleaned>>

StGoto(f, from, to) ==
  Alive /\ life[f] = from /\ life' = [life EXCEPT ![f] = to]

(* The downloader opens the file with O_CREATE, or fails to.               *)
StOpen(f) ==
  /\ StGoto(f, "new", "live")
  /\ disk' \in {disk, disk \cup {f}}
  /\ UNCHANGED <<files, evicted, pc, want, ensureVars, up, panicked, leftover,
                 cleaned>>

(* ReadAt, when it has read.  A file that is not in the table stays out.   *)
UpdateAccess(f) ==
  /\ Alive /\ life[f] \in {"new", "live"} /\ f \in Table
  /\ files' = Used(files, f)
  /\ UNCHANGED <<disk, storeVars, pc, want, ensureVars, up, panicked, leftover,
                 cleaned>>

Unregister(f) ==
  /\ StGoto(f, "live", "closing")
  /\ files' = Without(files, f)
  /\ UNCHANGED <<disk, evicted, pc, want, ensureVars, up, panicked, leftover,
                 cleaned>>

StRemove(f) ==
  /\ StGoto(f, "closing", "none")
  /\ RemoveFile(f)
  /\ evicted' = evicted \ {f}
  /\ UNCHANGED <<files, pc, want, ensureVars, up, panicked, cleaned>>

-----------------------------------------------------------------------------
(* CleanupAllFiles, which Stop calls, forgets the files it cannot remove.  *)
CleanupAllFiles ==
  /\ Alive /\ files # <<>>
  /\ files' = <<>>
  /\ \E kept \in SUBSET (Table \cap disk) :
       /\ disk' = disk \ (Table \ kept)
       /\ leftover' = leftover \cup kept
       /\ cleaned' = cleaned \cup (Table \ kept)
  /\ UNCHANGED <<storeVars, pc, want, ensureVars, up, panicked>>

(* The process ends, with or without a Stop before it.                     *)
Crash ==
  /\ up /\ up' = FALSE /\ panicked' = FALSE
  /\ files' = <<>>
  /\ life' = [f \in Paths |-> "none"] /\ evicted' = {}
  /\ pc' = [p \in Stagers |-> "idle"] /\ want' = [p \in Stagers |-> "none"]
  /\ roomy' = [p \in Stagers |-> FALSE] /\ spaceOK' = [p \in Stagers |-> FALSE]
  /\ entries' = [p \in Stagers |-> <<>>]
  /\ leftover' = {} /\ cleaned' = {}
  /\ UNCHANGED disk

(* A new process removes what it finds, as far as it can, before it mounts. *)
CleanupStaleFiles ==
  /\ ~up /\ up' = TRUE
  /\ disk' \in SUBSET disk
  /\ leftover' = disk'
  /\ UNCHANGED <<files, storeVars, pc, want, ensureVars, panicked, cleaned>>

Next ==
  \/ \E p \in Stagers :
       \/ EnCall(p) \/ EnFirstSpace(p) \/ EnSnapshot(p) \/ EnSpace(p)
       \/ EnCount(p) \/ EnTake(p) \/ EnNotify(p) \/ EnRemove(p)
       \/ EnLastSpace(p) \/ EnLastCount(p)
       \/ TfGiveUp(p) \/ TfCreate(p) \/ TfAbandon(p) \/ TfRegister(p)
  \/ \E f \in Paths :
       StOpen(f) \/ UpdateAccess(f) \/ Unregister(f) \/ StRemove(f)
  \/ CleanupAllFiles \/ Crash \/ CleanupStaleFiles

Spec == Init /\ [][Next]_vars

-----------------------------------------------------------------------------
(* Properties.                                                             *)

EnPcs == {"idle", "firstSpace", "snapshot", "space", "count", "take", "notify",
          "remove", "lastSpace", "lastCount", "granted", "register"}

(* Who deals with an entry of its snapshot has one.                        *)
EntryInHand ==
  \A p \in Stagers :
    pc[p] \in {"space", "count", "take", "notify", "remove"} => entries[p] # <<>>

(* Every variable holds a value the code can give it, and an eviction      *)
(* never indexes past the end of its snapshot, however many files leave    *)
(* the table as it goes through.                                           *)
TypeOK ==
  /\ files \in Seq(Paths) /\ NoRepeats(files)
  /\ disk \subseteq Paths
  /\ life \in [Paths -> {"none", "made", "new", "live", "closing"}]
  /\ evicted \subseteq Paths
  /\ pc \in [Stagers -> EnPcs]
  /\ want \in [Stagers -> Paths \cup {"none"}]
  /\ roomy \in [Stagers -> BOOLEAN] /\ spaceOK \in [Stagers -> BOOLEAN]
  /\ entries \in [Stagers -> Seq(Paths)]
  /\ \A p \in Stagers : NoRepeats(entries[p])
  /\ up \in BOOLEAN /\ panicked \in BOOLEAN
  /\ leftover \subseteq Paths /\ cleaned \subseteq Paths
  /\ EntryInHand

(* Nobody's file is lost: while the process runs, a file on the disk is in *)
(* the table, or a call that will register or remove it is under way, or   *)
(* an os.Remove of it failed, or the store it belongs to was evicted and   *)
(* removes it again when it is closed.                                     *)
Evicting(f) ==
  \E p \in Stagers : pc[p] \in {"notify", "remove"} /\ Head(entries[p]) = f

NoFileLost ==
  Alive => \A f \in disk :
    \/ f \in Table
    \/ life[f] \in {"made", "closing"} \/ Evicting(f)
    \/ f \in leftover
    \/ life[f] \in {"new", "live"} /\ f \in evicted \cup cleaned

(* The store of a file that is gone knows it: StageFile and Open ask       *)
(* IsEvicted and would else serve a file without its data.  Stop's cleanup *)
(* tells nobody.                                                           *)
EvictionKnown ==
  Alive => \A f \in Paths :
    life[f] \in {"new", "live"} /\ f \notin Table =>
      f \in evicted \cup cleaned \/ f \in leftover \/ Evicting(f)

(* What the limits come to when stagings overlap: each file of the table   *)
(* was granted with the limits kept, but by what was there at the time, so *)
(* every other stager may add one file more.                               *)
OverrunBounded == Len(files) <= MaxTempFiles + Cardinality(Stagers) - 1

(* EnsureSpaceAvailable ends with a grant or an error: an entry of its     *)
(* snapshot that was unregistered meanwhile is no reason to die.           *)
NoNilEntry == ~panicked
=============================================================================
