------------------------- MODULE AppLifecycle_proofs -------------------------
(***************************************************************************)
(* How a process ends, for any number of temporary files and of processes  *)
(* one after the other.  The inductive invariant says what a process that  *)
(* has not finished Start cannot have yet, what each Stop has done so far, *)
(* and who holds daemon.mu.                                                *)
(***************************************************************************)
EXTENDS AppLifecycle, TLAPS

Starting == {"cleanup", "recover", "probe"}

(* Until Start has returned nobody stops and nothing is to be waited for.  *)
Beginning ==
  main \in {"down"} \cup Starting =>
    /\ spc = NotStopping
    /\ ~instance /\ ~shutdownComplete /\ ~waited /\ ~shutdownCalled
    /\ ui = "idle" /\ (main # "probe" => mountGo = "none")

(* daemon.mu is held by Start and by UnmountFS, each to its end.           *)
MuHeld ==
  /\ daemonMu = "main" <=> main \in Starting
  /\ daemonMu = "delegate" => spc["delegate"] \notin {"idle", "waiting"}

(* Once Start has returned there is an instance until Shutdown resets it.  *)
Instanced ==
  main \notin {"down"} \cup Starting => instance \/ shutdownCalled

(* The directory is served as long as host.Mount has not returned; a Stop  *)
(* that has unmounted found it serving.                                    *)
Mounting ==
  /\ mountpoint = "fuse" <=> mountGo = "serving"
  /\ \A s \in Stoppers :
       spc[s] \in {"remove", "stopped"} => mountGo = "over"

(* What a Stop leaves behind: App Nap allowed, no file in its hands, and   *)
(* after its cleanup no file in the table but those that came later.  What *)
(* an earlier process left is gone first, or could not be removed.         *)
NapLeft ==
  \A s \in Stoppers :
    spc[s] \in {"unmount", "remove", "stopped", "failed"} => ~appNap

FilesLeft ==
  /\ \A s \in Stoppers : spc[s] # "close" => FilesIn({s}) = {}
  /\ CleanedUp => FilesIn({"tracked"}) = {}
  /\ main \notin {"down", "cleanup"} => FilesIn({"left"}) = {}

(* The channel is closed when the daemon's Stop has returned.              *)
Completing ==
  /\ shutdownComplete => spc["daemon"] \in {"stopped", "failed"}
  /\ waited => main = "exited"

LifecycleInv ==
  /\ LifecycleTypeOK /\ Beginning /\ MuHeld /\ Instanced /\ Mounting
  /\ NapLeft /\ FilesLeft /\ Completing /\ ShutdownWaits /\ LifecyclePanics

-----------------------------------------------------------------------------
(* The types.                                                              *)

(* LifecycleTypeOK in parts: what is Boolean, the files, and the rest.     *)
LcPlaceTypes ==
  /\ main \in {"down", "cleanup", "recover", "probe", "running", "locking",
              "waiting", "exited", "panicked"}
  /\ daemonMu \in {"none", "main", "delegate"}
  /\ spc \in [Stoppers -> {"idle", "waiting", "evict", "close", "unmount",
                          "remove", "stopped", "failed"}]
  /\ mountGo \in {"none", "calling", "serving", "failed", "over"}
  /\ mountpoint \in {"dir", "fuse", "stale"}
  /\ ui \in {"idle", "staging", "creating"}
  /\ runs \in 0..MaxRuns

LcFileTypes ==
  /\ tempFile \in [Files -> FileStates] /\ opening \subseteq Files

LcFlagTypes ==
  /\ instance \in BOOLEAN /\ cancelled \in BOOLEAN
  /\ shutdownComplete \in BOOLEAN /\ waited \in BOOLEAN
  /\ mounted \in BOOLEAN /\ appNap \in BOOLEAN /\ shutdownCalled \in BOOLEAN

LEMMA LifecycleTypeParts ==
  LifecycleTypeOK <=> LcPlaceTypes /\ LcFileTypes /\ LcFlagTypes
BY Zenon DEF LifecycleTypeOK, LcPlaceTypes, LcFileTypes, LcFlagTypes

(* Every step keeps the types.                                             *)
LEMMA LcPlaceTypesStep ==
  LifecycleInv /\ [LifecycleNext]_lifecycleVars => LcPlaceTypes'
<1> SUFFICES ASSUME LifecycleInv, [LifecycleNext]_lifecycleVars
             PROVE  LcPlaceTypes'
  OBVIOUS
<1>1. LcPlaceTypes
  BY LifecycleTypeParts DEF LifecycleInv
<1> USE <1>1 DEF LcPlaceTypes, SpGoto, NotStopping, Stoppers, daemonVars,
     mountVars, fileVarsOf
<1>2. CASE LcCrash \/ LcGone \/ LcStartFails
  BY <1>2 DEF LcCrash, LcGone, LcStartFails, Die
<1>3. CASE LcStart \/ LcCleanupStale \/ LcRecover \/ LcReady
  <2>1. CASE LcStart
    <3>1. runs + 1 \in 0..MaxRuns
      BY <2>1, LifecycleAssumption DEF LcStart, LifecycleAssumption
    <3> QED
      BY <2>1, <3>1 DEF LcStart
  <2>2. CASE LcCleanupStale
    BY <2>2 DEF LcCleanupStale
  <2>3. CASE LcRecover
    BY <2>3 DEF LcRecover
  <2>4. CASE LcReady
    BY <2>4 DEF LcReady
  <2> QED
    BY <1>3, <2>1, <2>2, <2>3, <2>4
<1>4. CASE UiGetFS \/ UiCreate \/ UiRegister \/ UnmountFS \/ Shutdown
            \/ LcSignal
  BY <1>4 DEF UiGetFS, UiCreate, UiRegister, UnmountFS, Shutdown, LcSignal
<1>5. CASE LcQuit \/ LcWait \/ LcWaited
  BY <1>5 DEF LcQuit, LcWait, LcWaited
<1>6. CASE Alive /\ (MountServes \/ MountFails)
  BY <1>6 DEF MountServes, MountFails
<1>7. CASE Alive /\ (LcWoken \/ LcUnmounted \/ LcComplete)
  BY <1>7 DEF LcWoken, LcUnmounted, LcComplete
<1>8. ASSUME NEW s \in Stoppers, StopStep(s) PROVE LcPlaceTypes'
  BY <1>8 DEF StopStep, SpEvict, SpClose, SpUnmount, SpRemove
<1>9. CASE TakeOut \/ RemoveTaken \/ DownloaderOpens
  BY <1>9 DEF TakeOut, RemoveTaken, DownloaderOpens
<1>10. CASE UNCHANGED lifecycleVars
  BY <1>10 DEF lifecycleVars
<1> QED
  BY <1>2, <1>3, <1>4, <1>5, <1>6, <1>7, <1>8, <1>9, <1>10
     DEF LifecycleNext

LEMMA LcFlagTypesStep ==
  LifecycleInv /\ [LifecycleNext]_lifecycleVars => LcFlagTypes'
<1> SUFFICES ASSUME LifecycleInv, [LifecycleNext]_lifecycleVars
             PROVE  LcFlagTypes'
  OBVIOUS
<1>1. LcFlagTypes
  BY LifecycleTypeParts DEF LifecycleInv
<1> USE <1>1, LifecycleAssumption DEF LcFlagTypes, LifecycleAssumption,
     daemonVars, mountVars, fileVarsOf
<1>2. CASE LcCrash \/ LcGone \/ LcStartFails
  BY <1>2 DEF LcCrash, LcGone, LcStartFails, Die
<1>3. CASE LcStart \/ LcCleanupStale \/ LcRecover \/ LcReady
  BY <1>3 DEF LcStart, LcCleanupStale, LcRecover, LcReady
<1>4. CASE UiGetFS \/ UiCreate \/ UiRegister \/ UnmountFS \/ Shutdown
            \/ LcSignal
  BY <1>4 DEF UiGetFS, UiCreate, UiRegister, UnmountFS, Shutdown, LcSignal
<1>5. CASE LcQuit \/ LcWait \/ LcWaited
  BY <1>5 DEF LcQuit, LcWait, LcWaited
<1>6. CASE Alive /\ (MountServes \/ MountFails)
  BY <1>6 DEF MountServes, MountFails
<1>7. CASE Alive /\ (LcWoken \/ LcUnmounted \/ LcComplete)
  BY <1>7 DEF LcWoken, LcUnmounted, LcComplete
<1>8. ASSUME NEW s \in Stoppers, StopStep(s) PROVE LcFlagTypes'
  BY <1>8 DEF StopStep, SpEvict, SpClose, SpUnmount, SpRemove
<1>9. CASE TakeOut \/ RemoveTaken \/ DownloaderOpens
  BY <1>9 DEF TakeOut, RemoveTaken, DownloaderOpens
<1>10. CASE UNCHANGED lifecycleVars
  BY <1>10 DEF lifecycleVars
<1> QED
  BY <1>2, <1>3, <1>4, <1>5, <1>6, <1>7, <1>8, <1>9, <1>10
     DEF LifecycleNext

-----------------------------------------------------------------------------
(* The parts of the invariant.                                             *)

LEMMA BeginningStep ==
  LifecycleInv /\ [LifecycleNext]_lifecycleVars => Beginning'
<1> SUFFICES ASSUME LifecycleInv, [LifecycleNext]_lifecycleVars
             PROVE  Beginning'
  OBVIOUS
<1>1. Beginning /\ LcPlaceTypes
  BY LifecycleTypeParts DEF LifecycleInv
<1> USE <1>1 DEF Stoppers, Beginning, LcPlaceTypes, Starting, SpGoto,
     NotStopping, daemonVars, mountVars, fileVarsOf
<1>2. CASE LcCrash \/ LcGone \/ LcStartFails
  BY <1>2 DEF LcCrash, LcGone, LcStartFails, Die
<1>3. CASE LcStart \/ LcCleanupStale \/ LcRecover \/ LcReady
  BY <1>3 DEF LcStart, LcCleanupStale, LcRecover, LcReady
<1>4. CASE UiGetFS \/ UiCreate \/ UiRegister \/ UnmountFS \/ Shutdown
            \/ LcSignal
  BY <1>4 DEF UiGetFS, UiCreate, UiRegister, UnmountFS, Shutdown, LcSignal
<1>5. CASE LcQuit \/ LcWait \/ LcWaited
  BY <1>5 DEF LcQuit, LcWait, LcWaited
<1>6. CASE Alive /\ (MountServes \/ MountFails)
  BY <1>6 DEF MountServes, MountFails
<1>7. CASE Alive /\ (LcWoken \/ LcUnmounted \/ LcComplete)
  BY <1>7 DEF LcWoken, LcUnmounted, LcComplete
<1>8. ASSUME NEW s \in Stoppers, StopStep(s) PROVE Beginning'
  BY <1>8 DEF StopStep, SpEvict, SpClose, SpUnmount, SpRemove
<1>9. CASE TakeOut \/ RemoveTaken \/ DownloaderOpens
  BY <1>9 DEF TakeOut, RemoveTaken, DownloaderOpens
<1>10. CASE UNCHANGED lifecycleVars
  BY <1>10 DEF lifecycleVars
<1> QED
  BY <1>2, <1>3, <1>4, <1>5, <1>6, <1>7, <1>8, <1>9, <1>10
     DEF LifecycleNext

LEMMA MuStep ==
  LifecycleInv /\ [LifecycleNext]_lifecycleVars => MuHeld'
<1> SUFFICES ASSUME LifecycleInv, [LifecycleNext]_lifecycleVars
             PROVE  MuHeld'
  OBVIOUS
<1>1. MuHeld /\ LcPlaceTypes /\ Beginning
  BY LifecycleTypeParts DEF LifecycleInv
<1> USE <1>1 DEF Stoppers, MuHeld, LcPlaceTypes, Beginning, Starting, SpGoto,
     NotStopping, daemonVars, mountVars, fileVarsOf
<1>2. CASE LcCrash \/ LcGone \/ LcStartFails
  BY <1>2 DEF LcCrash, LcGone, LcStartFails, Die
<1>3. CASE LcStart \/ LcCleanupStale \/ LcRecover \/ LcReady
  BY <1>3 DEF LcStart, LcCleanupStale, LcRecover, LcReady
<1>4. CASE UiGetFS \/ UiCreate \/ UiRegister \/ UnmountFS \/ Shutdown
            \/ LcSignal
  BY <1>4 DEF UiGetFS, UiCreate, UiRegister, UnmountFS, Shutdown, LcSignal
<1>5. CASE LcQuit \/ LcWait \/ LcWaited
  BY <1>5 DEF LcQuit, LcWait, LcWaited
<1>6. CASE Alive /\ (MountServes \/ MountFails)
  BY <1>6 DEF MountServes, MountFails
<1>7. CASE Alive /\ (LcWoken \/ LcUnmounted \/ LcComplete)
  BY <1>7 DEF LcWoken, LcUnmounted, LcComplete
<1>8. ASSUME NEW s \in Stoppers, StopStep(s) PROVE MuHeld'
  BY <1>8 DEF StopStep, SpEvict, SpClose, SpUnmount, SpRemove
<1>9. CASE TakeOut \/ RemoveTaken \/ DownloaderOpens
  BY <1>9 DEF TakeOut, RemoveTaken, DownloaderOpens
<1>10. CASE UNCHANGED lifecycleVars
  BY <1>10 DEF lifecycleVars
<1> QED
  BY <1>2, <1>3, <1>4, <1>5, <1>6, <1>7, <1>8, <1>9, <1>10
     DEF LifecycleNext

LEMMA InstancedStep ==
  LifecycleInv /\ [LifecycleNext]_lifecycleVars => Instanced'
<1> SUFFICES ASSUME LifecycleInv, [LifecycleNext]_lifecycleVars
             PROVE  Instanced'
  OBVIOUS
<1>1. Instanced /\ Beginning
  BY LifecycleTypeParts DEF LifecycleInv
<1> USE <1>1 DEF Stoppers, Instanced, Starting, Alive, Beginning, NotStopping,
     daemonVars, mountVars, fileVarsOf
<1>2. CASE LcCrash \/ LcGone \/ LcStartFails
  BY <1>2 DEF LcCrash, LcGone, LcStartFails, Die
<1>3. CASE LcStart \/ LcCleanupStale \/ LcRecover \/ LcReady
  BY <1>3 DEF LcStart, LcCleanupStale, LcRecover, LcReady
<1>4. CASE UiGetFS \/ UiCreate \/ UiRegister \/ UnmountFS \/ Shutdown
            \/ LcSignal
  BY <1>4 DEF UiGetFS, UiCreate, UiRegister, UnmountFS, Shutdown, LcSignal
<1>5. CASE LcQuit \/ LcWait \/ LcWaited
  BY <1>5 DEF LcQuit, LcWait, LcWaited
<1>6. CASE Alive /\ (MountServes \/ MountFails)
  BY <1>6 DEF MountServes, MountFails
<1>7. CASE Alive /\ (LcWoken \/ LcUnmounted \/ LcComplete)
  BY <1>7 DEF LcWoken, LcUnmounted, LcComplete
<1>8. ASSUME NEW s \in Stoppers, StopStep(s) PROVE Instanced'
  BY <1>8 DEF StopStep, SpEvict, SpClose, SpUnmount, SpRemove
<1>9. CASE TakeOut \/ RemoveTaken \/ DownloaderOpens
  BY <1>9 DEF TakeOut, RemoveTaken, DownloaderOpens
<1>10. CASE UNCHANGED lifecycleVars
  BY <1>10 DEF lifecycleVars
<1> QED
  BY <1>2, <1>3, <1>4, <1>5, <1>6, <1>7, <1>8, <1>9, <1>10
     DEF LifecycleNext

LEMMA MountingStep ==
  LifecycleInv /\ [LifecycleNext]_lifecycleVars => Mounting'
<1> SUFFICES ASSUME LifecycleInv, [LifecycleNext]_lifecycleVars
             PROVE  Mounting'
  OBVIOUS
<1>1. Mounting /\ LcPlaceTypes /\ Beginning
  BY LifecycleTypeParts DEF LifecycleInv
<1> USE <1>1 DEF Stoppers, Mounting, LcPlaceTypes, Beginning, Starting,
     SpGoto, NotStopping, daemonVars, mountVars, fileVarsOf
<1>2. CASE LcCrash \/ LcGone \/ LcStartFails
  BY <1>2 DEF LcCrash, LcGone, LcStartFails, Die
<1>3. CASE LcStart \/ LcCleanupStale \/ LcRecover \/ LcReady
  BY <1>3 DEF LcStart, LcCleanupStale, LcRecover, LcReady
<1>4. CASE UiGetFS \/ UiCreate \/ UiRegister \/ UnmountFS \/ Shutdown
            \/ LcSignal
  BY <1>4 DEF UiGetFS, UiCreate, UiRegister, UnmountFS, Shutdown, LcSignal
<1>5. CASE LcQuit \/ LcWait \/ LcWaited
  BY <1>5 DEF LcQuit, LcWait, LcWaited
<1>6. CASE Alive /\ (MountServes \/ MountFails)
  BY <1>6 DEF MountServes, MountFails
<1>7. CASE Alive /\ (LcWoken \/ LcUnmounted \/ LcComplete)
  BY <1>7 DEF LcWoken, LcUnmounted, LcComplete
<1>8. ASSUME NEW s \in Stoppers, StopStep(s) PROVE Mounting'
  BY <1>8 DEF StopStep, SpEvict, SpClose, SpUnmount, SpRemove
<1>9. CASE TakeOut \/ RemoveTaken \/ DownloaderOpens
  BY <1>9 DEF TakeOut, RemoveTaken, DownloaderOpens
<1>10. CASE UNCHANGED lifecycleVars
  BY <1>10 DEF lifecycleVars
<1> QED
  BY <1>2, <1>3, <1>4, <1>5, <1>6, <1>7, <1>8, <1>9, <1>10
     DEF LifecycleNext

LEMMA NapStep ==
  LifecycleInv /\ [LifecycleNext]_lifecycleVars => NapLeft'
<1> SUFFICES ASSUME LifecycleInv, [LifecycleNext]_lifecycleVars
             PROVE  NapLeft'
  OBVIOUS
<1>1. NapLeft /\ LcPlaceTypes /\ Beginning
  BY LifecycleTypeParts DEF LifecycleInv
<1> USE <1>1 DEF Stoppers, NapLeft, LcPlaceTypes, Beginning, Starting, SpGoto,
     NotStopping, daemonVars, mountVars, fileVarsOf
<1>2. CASE LcCrash \/ LcGone \/ LcStartFails
  BY <1>2 DEF LcCrash, LcGone, LcStartFails, Die
<1>3. CASE LcStart \/ LcCleanupStale \/ LcRecover \/ LcReady
  BY <1>3 DEF LcStart, LcCleanupStale, LcRecover, LcReady
<1>4. CASE UiGetFS \/ UiCreate \/ UiRegister \/ UnmountFS \/ Shutdown
            \/ LcSignal
  BY <1>4 DEF UiGetFS, UiCreate, UiRegister, UnmountFS, Shutdown, LcSignal
<1>5. CASE LcQuit \/ LcWait \/ LcWaited
  <2>1. CASE LcQuit
    BY <2>1 DEF LcQuit
  <2>2. CASE LcWait
    BY <2>2 DEF LcWait
  <2>3. CASE LcWaited
    BY <2>3 DEF LcWaited
  <2> QED
    BY <1>5, <2>1, <2>2, <2>3
<1>6. CASE Alive /\ (MountServes \/ MountFails)
  BY <1>6 DEF MountServes, MountFails
<1>7. CASE Alive /\ (LcWoken \/ LcUnmounted \/ LcComplete)
  BY <1>7 DEF LcWoken, LcUnmounted, LcComplete
<1>8. ASSUME NEW s \in Stoppers, StopStep(s) PROVE NapLeft'
  BY <1>8 DEF StopStep, SpEvict, SpClose, SpUnmount, SpRemove
<1>9. CASE TakeOut \/ RemoveTaken \/ DownloaderOpens
  BY <1>9 DEF TakeOut, RemoveTaken, DownloaderOpens
<1>10. CASE UNCHANGED lifecycleVars
  BY <1>10 DEF lifecycleVars
<1> QED
  BY <1>2, <1>3, <1>4, <1>5, <1>6, <1>7, <1>8, <1>9, <1>10
     DEF LifecycleNext

(* What os.Remove of some files does to each file.                         *)
LEMMA Removal ==
  ASSUME LcFileTypes, NEW fs \in SUBSET Files, NEW failed \in FileStates,
         TriesToRemove(fs, failed)
  PROVE  /\ tempFile' \in [Files -> FileStates]
         /\ \A f \in fs : tempFile'[f] \in {"none", failed}
         /\ \A f \in Files \ fs : tempFile'[f] = tempFile[f]
<1>1. PICK gone \in SUBSET fs :
        tempFile' = [f \in Files |-> IF f \in gone THEN "none"
                                     ELSE IF f \in fs THEN failed ELSE tempFile[f]]
  BY DEF TriesToRemove
<1>2. "none" \in FileStates
  BY DEF FileStates
<1> QED
  BY <1>1, <1>2 DEF LcFileTypes

(* The steps that move files, each file by itself.                         *)
FileStep(f) ==
  \/ tempFile'[f] = tempFile[f]
  \/ tempFile'[f] \in {"none", "made", "late", "again", "evictor", "kept"}
  \/ tempFile'[f] = "tracked" /\ ~CleanedUp

LEMMA FilesMoved ==
  ASSUME LifecycleInv, [LifecycleNext]_lifecycleVars,
         \/ UiCreate \/ UiRegister \/ TakeOut \/ RemoveTaken \/ DownloaderOpens
         \/ \E s \in Stoppers : SpClose(s) \/ SpRemove(s)
  PROVE  /\ tempFile' \in [Files -> FileStates]
         /\ \A f \in Files : FileStep(f)
<1>1. LcFileTypes /\ "kept" \in FileStates /\ "made" \in FileStates
      /\ "late" \in FileStates /\ "tracked" \in FileStates
      /\ "evictor" \in FileStates /\ "again" \in FileStates
  BY LifecycleTypeParts DEF LifecycleInv, FileStates, Removers
<1> HIDE DEF FileStates
<1>2. ASSUME NEW fs \in SUBSET Files, TriesToRemove(fs, "kept")
      PROVE  /\ tempFile' \in [Files -> FileStates]
             /\ \A f \in Files : FileStep(f)
  BY <1>1, <1>2, Removal DEF FileStep
<1>3. ASSUME NEW f \in Files, NEW state \in FileStates, Becomes(f, state),
             \/ state \in {"made", "late", "again", "evictor"}
             \/ state = "tracked" /\ ~CleanedUp
      PROVE  /\ tempFile' \in [Files -> FileStates]
             /\ \A g \in Files : FileStep(g)
  BY <1>1, <1>3 DEF Becomes, FileStep, LcFileTypes
<1>4. CASE UNCHANGED tempFile
  BY <1>1, <1>4 DEF FileStep, LcFileTypes
<1>5. CASE UiCreate
  BY <1>1, <1>3, <1>4, <1>5 DEF UiCreate, FilesIn
<1>6. CASE UiRegister
  <2>1. CASE TriesToRemove(FilesIn({"made"}), "kept")
    BY <1>2, <2>1 DEF FilesIn
  <2>2. ASSUME NEW f \in Files,
               Becomes(f, IF CleanedUp THEN "late" ELSE "tracked")
        PROVE  /\ tempFile' \in [Files -> FileStates]
               /\ \A g \in Files : FileStep(g)
    <3>1. CASE CleanedUp
      BY <1>1, <1>3, <2>2, <3>1
    <3>2. CASE ~CleanedUp
      BY <1>1, <1>3, <2>2, <3>2
    <3> QED
      BY <3>1, <3>2
  <2> QED
    BY <1>6, <2>1, <2>2 DEF UiRegister, FilesIn
<1>7. CASE TakeOut
  BY <1>1, <1>3, <1>7 DEF TakeOut, Closable, FilesIn
<1>8. CASE RemoveTaken
  BY <1>2, <1>8 DEF RemoveTaken, FilesIn
<1>9. CASE DownloaderOpens
  BY <1>1, <1>3, <1>4, <1>9 DEF DownloaderOpens, LcFileTypes
<1>10. ASSUME NEW s \in Stoppers, SpClose(s) \/ SpRemove(s)
       PROVE  /\ tempFile' \in [Files -> FileStates]
              /\ \A f \in Files : FileStep(f)
  BY <1>2, <1>10 DEF SpClose, SpRemove, FilesIn
<1> QED
  BY <1>5, <1>6, <1>7, <1>8, <1>9, <1>10

(* The steps that leave the files alone.                                   *)
LEMMA FilesUnmoved ==
  ASSUME [LifecycleNext]_lifecycleVars
  PROVE  \/ LcCrash \/ LcGone \/ LcStartFails \/ LcCleanupStale
         \/ UiCreate \/ UiRegister \/ TakeOut \/ RemoveTaken \/ DownloaderOpens
         \/ \E s \in Stoppers : SpEvict(s) \/ SpClose(s) \/ SpRemove(s)
         \/ UNCHANGED <<tempFile, opening>>
<1> USE DEF fileVarsOf
<1>1. CASE LcStart \/ LcRecover \/ LcReady
  BY <1>1 DEF LcStart, LcRecover, LcReady
<1>2. CASE UiGetFS \/ UnmountFS \/ Shutdown \/ LcSignal
  BY <1>2 DEF UiGetFS, UnmountFS, Shutdown, LcSignal
<1>3. CASE LcQuit \/ LcWait \/ LcWaited
  BY <1>3 DEF LcQuit, LcWait, LcWaited
<1>4. CASE MountServes \/ MountFails
  BY <1>4 DEF MountServes, MountFails
<1>5. CASE LcWoken \/ LcUnmounted \/ LcComplete
  BY <1>5 DEF LcWoken, LcUnmounted, LcComplete
<1>6. ASSUME NEW s \in Stoppers, SpUnmount(s)
      PROVE  UNCHANGED <<tempFile, opening>>
  BY <1>6 DEF SpUnmount
<1>7. CASE UNCHANGED lifecycleVars
  BY <1>7 DEF lifecycleVars
<1> QED
  BY <1>1, <1>2, <1>3, <1>4, <1>5, <1>6, <1>7 DEF LifecycleNext, StopStep

LEMMA LcFileTypesStep ==
  LifecycleInv /\ [LifecycleNext]_lifecycleVars => LcFileTypes'
<1> SUFFICES ASSUME LifecycleInv, [LifecycleNext]_lifecycleVars
             PROVE  LcFileTypes'
  OBVIOUS
<1>1. LcFileTypes
  BY LifecycleTypeParts DEF LifecycleInv
<1>2. opening' \subseteq Files
  <2>1. CASE LcCrash \/ LcGone \/ LcStartFails
    BY <2>1 DEF LcCrash, LcGone, LcStartFails, Die
  <2>2. CASE LcCleanupStale \/ UiCreate \/ TakeOut \/ RemoveTaken
    BY <1>1, <2>2
       DEF LcFileTypes, LcCleanupStale, UiCreate, TakeOut, RemoveTaken
  <2>3. CASE UiRegister \/ DownloaderOpens
    BY <1>1, <2>3 DEF LcFileTypes, UiRegister, DownloaderOpens, FilesIn
  <2>4. ASSUME NEW s \in Stoppers, SpEvict(s) \/ SpClose(s) \/ SpRemove(s)
        PROVE  opening' \subseteq Files
    BY <1>1, <2>4 DEF LcFileTypes, SpEvict, SpClose, SpRemove
  <2>5. CASE UNCHANGED <<tempFile, opening>>
    BY <1>1, <2>5 DEF LcFileTypes
  <2> QED
    BY <2>1, <2>2, <2>3, <2>4, <2>5, FilesUnmoved
<1>3. tempFile' \in [Files -> FileStates]
  <2>1. CASE LcCrash \/ LcGone \/ LcStartFails
    BY <2>1 DEF LcCrash, LcGone, LcStartFails, Die, FileStates
  <2>2. CASE LcCleanupStale
    <3>1. FilesIn({"left"}) \in SUBSET Files /\ "stale" \in FileStates
      BY DEF FilesIn, FileStates
    <3> QED
      BY <1>1, <2>2, <3>1, Removal DEF LcCleanupStale
  <2>3. ASSUME NEW s \in Stoppers, SpEvict(s)
        PROVE  tempFile' \in [Files -> FileStates]
    BY <1>1, <2>3 DEF SpEvict, LcFileTypes, FileStates, Removers
  <2>4. CASE UNCHANGED <<tempFile, opening>>
    BY <1>1, <2>4 DEF LcFileTypes
  <2> QED
    BY <2>1, <2>2, <2>3, <2>4, FilesMoved, FilesUnmoved
<1> QED
  BY <1>2, <1>3 DEF LcFileTypes

(* A step that neither registers files nor takes them in hand.             *)
LEMMA FilesKept ==
  ASSUME FilesLeft, \A f \in Files : FileStep(f),
         \A s \in Stoppers : spc[s] = "close" => spc'[s] = "close",
         CleanedUp' <=> CleanedUp,
         main \in {"down", "cleanup"} => main' \in {"down", "cleanup"}
  PROVE  FilesLeft'
BY DEF FilesLeft, FilesIn, FileStep, Stoppers

LEMMA FilesStep ==
  LifecycleInv /\ [LifecycleNext]_lifecycleVars => FilesLeft'
<1> SUFFICES ASSUME LifecycleInv, [LifecycleNext]_lifecycleVars
             PROVE  FilesLeft'
  OBVIOUS
<1>1. FilesLeft /\ LcPlaceTypes /\ LcFileTypes
  BY LifecycleTypeParts DEF LifecycleInv
<1>2. CASE LcCrash \/ LcGone \/ LcStartFails
  BY <1>2
     DEF LcCrash, LcGone, LcStartFails, Die, FilesLeft, FilesIn, CleanedUp,
         NotStopping, Stoppers
<1>3. CASE LcCleanupStale
  <2>1. FilesIn({"left"}) \in SUBSET Files /\ "stale" \in FileStates
    BY DEF FilesIn, FileStates
  <2>2. /\ \A f \in FilesIn({"left"}) : tempFile'[f] \in {"none", "stale"}
        /\ \A f \in Files \ FilesIn({"left"}) : tempFile'[f] = tempFile[f]
    BY <1>1, <1>3, <2>1, Removal DEF LcCleanupStale
  <2>3. spc' = spc /\ main' = "recover"
    BY <1>3 DEF LcCleanupStale, daemonVars
  <2> QED
    BY <1>1, <2>2, <2>3 DEF FilesLeft, FilesIn, CleanedUp, Stoppers
<1>4. CASE UiCreate \/ UiRegister \/ TakeOut \/ RemoveTaken \/ DownloaderOpens
  <2>1. UNCHANGED <<main, spc>>
    BY <1>4
       DEF UiCreate, UiRegister, TakeOut, RemoveTaken, DownloaderOpens,
           daemonVars
  <2>2. \A f \in Files : FileStep(f)
    BY <1>4, FilesMoved
  <2> QED
    BY <1>1, <2>1, <2>2, FilesKept DEF CleanedUp
<1>5. ASSUME NEW s \in Stoppers, SpEvict(s) PROVE FilesLeft'
  <2>1. /\ spc[s] = "evict" /\ spc' = [spc EXCEPT ![s] = "close"]
        /\ main' = main
    BY <1>5 DEF SpEvict, SpGoto
  <2>2. \A f \in Files : tempFile'[f] = tempFile[f] \/ tempFile'[f] = s
    BY <1>5 DEF SpEvict
  <2>3. s \notin {"tracked", "left"}
    BY DEF Stoppers
  <2>4. CleanedUp' => CleanedUp
    BY <1>1, <2>1 DEF CleanedUp, LcPlaceTypes
  <2>5. ASSUME NEW q \in Stoppers, spc'[q] # "close" PROVE FilesIn({q})' = {}
    BY <1>1, <2>1, <2>2, <2>5 DEF FilesLeft, FilesIn, LcPlaceTypes
  <2> QED
    BY <1>1, <2>1, <2>2, <2>3, <2>4, <2>5 DEF FilesLeft, FilesIn
<1>6. ASSUME NEW s \in Stoppers, SpClose(s) PROVE FilesLeft'
  <2>1. /\ spc[s] = "close" /\ spc' = [spc EXCEPT ![s] = "unmount"]
        /\ main' = main /\ FilesIn({s}) \in SUBSET Files
        /\ TriesToRemove(FilesIn({s}), "kept") /\ "kept" \in FileStates
    BY <1>6 DEF SpClose, SpGoto, FilesIn, FileStates
  <2>2. /\ \A f \in FilesIn({s}) : tempFile'[f] \in {"none", "kept"}
        /\ \A f \in Files \ FilesIn({s}) : tempFile'[f] = tempFile[f]
    BY <1>1, <2>1, Removal
  <2>3. CleanedUp' => CleanedUp
    BY <1>1, <2>1 DEF CleanedUp, LcPlaceTypes
  <2>4. s \notin {"none", "kept"} /\ \A q \in Stoppers : q \notin {"none", "kept"}
    BY DEF Stoppers
  <2>5. FilesIn({s})' = {}
    BY <2>2, <2>4 DEF FilesIn
  <2>6. ASSUME NEW q \in Stoppers, q # s, spc'[q] # "close"
        PROVE  FilesIn({q})' = {}
    BY <1>1, <2>1, <2>2, <2>4, <2>6 DEF FilesLeft, FilesIn, LcPlaceTypes
  <2>7. CleanedUp' => FilesIn({"tracked"})' = {}
    BY <1>1, <2>2, <2>3 DEF FilesLeft, FilesIn
  <2>8. main' \notin {"down", "cleanup"} => FilesIn({"left"})' = {}
    BY <1>1, <2>1, <2>2 DEF FilesLeft, FilesIn
  <2> QED
    BY <2>5, <2>6, <2>7, <2>8 DEF FilesLeft
<1>7. ASSUME NEW s \in Stoppers, SpRemove(s) PROVE FilesLeft'
  <2>1. /\ spc[s] = "remove" /\ spc' = [spc EXCEPT ![s] = "stopped"]
        /\ main' = main /\ FilesIn(InTable) \in SUBSET Files
        /\ TriesToRemove(FilesIn(InTable), "kept") /\ "kept" \in FileStates
    BY <1>7 DEF SpRemove, SpGoto, FilesIn, FileStates
  <2>2. /\ \A f \in FilesIn(InTable) : tempFile'[f] \in {"none", "kept"}
        /\ \A f \in Files \ FilesIn(InTable) : tempFile'[f] = tempFile[f]
    BY <1>1, <2>1, Removal
  <2>3. \A q \in Stoppers : q \notin {"none", "kept"}
    BY DEF Stoppers
  <2>4. ASSUME NEW q \in Stoppers, spc'[q] # "close" PROVE FilesIn({q})' = {}
    BY <1>1, <2>1, <2>2, <2>3, <2>4 DEF FilesLeft, FilesIn, LcPlaceTypes
  <2>5. FilesIn({"tracked"})' = {}
    BY <2>2 DEF FilesIn, InTable
  <2>6. main' \notin {"down", "cleanup"} => FilesIn({"left"})' = {}
    BY <1>1, <2>1, <2>2 DEF FilesLeft, FilesIn
  <2> QED
    BY <2>4, <2>5, <2>6 DEF FilesLeft
<1>8. CASE UNCHANGED <<tempFile, opening>>
  <2>1. \A f \in Files : FileStep(f)
    BY <1>8 DEF FileStep
  <2> DEFINE Still ==
        /\ \A s \in Stoppers : spc[s] = "close" => spc'[s] = "close"
        /\ CleanedUp' <=> CleanedUp
        /\ main \in {"down", "cleanup"} => main' \in {"down", "cleanup"}
  <2> USE <1>1 DEF LcPlaceTypes, CleanedUp, SpGoto, daemonVars, Serving, Alive
  <2>2. ASSUME LcStart \/ LcRecover \/ MountServes \/ MountFails PROVE Still
    BY <2>2 DEF LcStart, LcRecover, MountServes, MountFails
  <2>3. ASSUME LcReady PROVE Still
    <3>1. spc = NotStopping
      BY <2>3 DEF LcReady, LifecycleInv, Beginning, Starting
    <3> QED
      BY <2>3, <3>1 DEF LcReady, NotStopping, Stoppers
  <2>4. ASSUME UiGetFS \/ Shutdown \/ LcSignal PROVE Still
    BY <2>4 DEF UiGetFS, Shutdown, LcSignal
  <2>5. ASSUME LcQuit \/ LcWait \/ LcWaited PROVE Still
    BY <2>5 DEF LcQuit, LcWait, LcWaited
  <2>6. ASSUME UnmountFS \/ LcWoken PROVE Still
    BY <2>6 DEF UnmountFS, LcWoken
  <2>7. ASSUME Alive /\ (LcUnmounted \/ LcComplete) PROVE Still
    <3>1. LcComplete => main \notin {"down", "cleanup"}
      BY DEF LcComplete, LifecycleInv, Beginning, Starting, NotStopping, Stoppers
    <3> QED
      BY <2>7, <3>1 DEF LcUnmounted, LcComplete
  <2>8. ASSUME NEW s \in Stoppers, SpUnmount(s) PROVE Still
    BY <2>8 DEF SpUnmount
  <2>9. ASSUME UNCHANGED lifecycleVars PROVE Still
    BY <2>9 DEF lifecycleVars
  <2>10. CASE Still
    BY <2>1, <2>10, FilesKept
  <2> HIDE DEF Still
  <2> QED
    BY <1>2, <1>3, <1>4, <1>5, <1>6, <1>7, <2>2, <2>3, <2>4, <2>5, <2>6, <2>7,
       <2>8, <2>9, <2>10
       DEF LifecycleNext, StopStep
<1> QED
  BY <1>2, <1>3, <1>4, <1>5, <1>6, <1>7, <1>8, FilesUnmoved

LEMMA CompletingStep ==
  LifecycleInv /\ [LifecycleNext]_lifecycleVars => Completing'
<1> SUFFICES ASSUME LifecycleInv, [LifecycleNext]_lifecycleVars
             PROVE  Completing'
  OBVIOUS
<1>1. Completing /\ LcPlaceTypes /\ Beginning
  BY LifecycleTypeParts DEF LifecycleInv
<1> USE <1>1 DEF Stoppers, Completing, LcPlaceTypes, Alive, SpGoto, Beginning,
     Starting, daemonVars, mountVars, fileVarsOf
<1>2. CASE LcCrash \/ LcGone \/ LcStartFails
  BY <1>2 DEF LcCrash, LcGone, LcStartFails, Die
<1>3. CASE LcStart \/ LcCleanupStale \/ LcRecover \/ LcReady
  <2>1. CASE LcStart
    BY <2>1 DEF LcStart
  <2>2. CASE LcCleanupStale
    BY <2>2 DEF LcCleanupStale
  <2>3. CASE LcRecover
    BY <2>3 DEF LcRecover
  <2>4. CASE LcReady
    BY <2>4 DEF LcReady
  <2> QED
    BY <1>3, <2>1, <2>2, <2>3, <2>4
<1>4. CASE UiGetFS \/ UiCreate \/ UiRegister \/ UnmountFS \/ Shutdown
            \/ LcSignal
  BY <1>4 DEF UiGetFS, UiCreate, UiRegister, UnmountFS, Shutdown, LcSignal
<1>5. CASE LcQuit \/ LcWait \/ LcWaited
  <2>1. CASE LcQuit
    BY <2>1 DEF LcQuit
  <2>2. CASE LcWait
    BY <2>2 DEF LcWait
  <2>3. CASE LcWaited
    BY <2>3 DEF LcWaited
  <2> QED
    BY <1>5, <2>1, <2>2, <2>3
<1>6. CASE Alive /\ (MountServes \/ MountFails)
  BY <1>6 DEF MountServes, MountFails
<1>7. CASE Alive /\ (LcWoken \/ LcUnmounted \/ LcComplete)
  BY <1>7 DEF LcWoken, LcUnmounted, LcComplete
<1>8. ASSUME NEW s \in Stoppers, StopStep(s) PROVE Completing'
  BY <1>8 DEF StopStep, SpEvict, SpClose, SpUnmount, SpRemove
<1>9. CASE TakeOut \/ RemoveTaken \/ DownloaderOpens
  BY <1>9 DEF TakeOut, RemoveTaken, DownloaderOpens
<1>10. CASE UNCHANGED lifecycleVars
  BY <1>10 DEF lifecycleVars
<1> QED
  BY <1>2, <1>3, <1>4, <1>5, <1>6, <1>7, <1>8, <1>9, <1>10
     DEF LifecycleNext

LEMMA WaitsStep ==
  LifecycleInv /\ [LifecycleNext]_lifecycleVars => ShutdownWaits'
<1> SUFFICES ASSUME LifecycleInv, [LifecycleNext]_lifecycleVars
             PROVE  ShutdownWaits'
  OBVIOUS
<1>1. ShutdownWaits /\ LcPlaceTypes /\ Instanced /\ Completing
  BY LifecycleTypeParts DEF LifecycleInv
<1> USE <1>1 DEF Stoppers, ShutdownWaits, LcPlaceTypes, Instanced, Completing,
     Starting, SpGoto, Alive, daemonVars, mountVars, fileVarsOf
<1>2. CASE LcCrash \/ LcGone \/ LcStartFails
  BY <1>2 DEF LcCrash, LcGone, LcStartFails, Die
<1>3. CASE LcStart \/ LcCleanupStale \/ LcRecover \/ LcReady
  BY <1>3 DEF LcStart, LcCleanupStale, LcRecover, LcReady
<1>4. CASE UiGetFS \/ UiCreate \/ UiRegister \/ UnmountFS \/ Shutdown
            \/ LcSignal
  BY <1>4 DEF UiGetFS, UiCreate, UiRegister, UnmountFS, Shutdown, LcSignal
<1>5. CASE LcQuit \/ LcWait \/ LcWaited
  BY <1>5 DEF LcQuit, LcWait, LcWaited
<1>6. CASE Alive /\ (MountServes \/ MountFails)
  BY <1>6 DEF MountServes, MountFails
<1>7. CASE Alive /\ (LcWoken \/ LcUnmounted \/ LcComplete)
  BY <1>7 DEF LcWoken, LcUnmounted, LcComplete
<1>8. ASSUME NEW s \in Stoppers, StopStep(s) PROVE ShutdownWaits'
  BY <1>8 DEF StopStep, SpEvict, SpClose, SpUnmount, SpRemove
<1>9. CASE TakeOut \/ RemoveTaken \/ DownloaderOpens
  BY <1>9 DEF TakeOut, RemoveTaken, DownloaderOpens
<1>10. CASE UNCHANGED lifecycleVars
  BY <1>10 DEF lifecycleVars
<1> QED
  BY <1>2, <1>3, <1>4, <1>5, <1>6, <1>7, <1>8, <1>9, <1>10
     DEF LifecycleNext

LEMMA PanicsStep ==
  LifecycleInv /\ [LifecycleNext]_lifecycleVars => LifecyclePanics'
<1> SUFFICES ASSUME LifecycleInv, [LifecycleNext]_lifecycleVars
             PROVE  LifecyclePanics'
  OBVIOUS
<1>1. LifecyclePanics /\ Instanced /\ Beginning
  BY LifecycleTypeParts DEF LifecycleInv
<1> USE <1>1 DEF Stoppers, LifecyclePanics, Instanced, Beginning, NotStopping,
     Starting, Alive, daemonVars, mountVars, fileVarsOf
<1>2. CASE LcCrash \/ LcGone \/ LcStartFails
  BY <1>2 DEF LcCrash, LcGone, LcStartFails, Die
<1>3. CASE LcStart \/ LcCleanupStale \/ LcRecover \/ LcReady
  BY <1>3 DEF LcStart, LcCleanupStale, LcRecover, LcReady
<1>4. CASE UiGetFS \/ UiCreate \/ UiRegister \/ UnmountFS \/ Shutdown
            \/ LcSignal
  BY <1>4 DEF UiGetFS, UiCreate, UiRegister, UnmountFS, Shutdown, LcSignal
<1>5. CASE LcQuit \/ LcWait \/ LcWaited
  BY <1>5 DEF LcQuit, LcWait, LcWaited
<1>6. CASE Alive /\ (MountServes \/ MountFails)
  BY <1>6 DEF MountServes, MountFails
<1>7. CASE Alive /\ (LcWoken \/ LcUnmounted \/ LcComplete)
  BY <1>7 DEF LcWoken, LcUnmounted, LcComplete
<1>8. ASSUME NEW s \in Stoppers, StopStep(s) PROVE LifecyclePanics'
  BY <1>8 DEF StopStep, SpEvict, SpClose, SpUnmount, SpRemove
<1>9. CASE TakeOut \/ RemoveTaken \/ DownloaderOpens
  BY <1>9 DEF TakeOut, RemoveTaken, DownloaderOpens
<1>10. CASE UNCHANGED lifecycleVars
  BY <1>10 DEF lifecycleVars
<1> QED
  BY <1>2, <1>3, <1>4, <1>5, <1>6, <1>7, <1>8, <1>9, <1>10
     DEF LifecycleNext

-----------------------------------------------------------------------------
(* The theorems.                                                           *)

LEMMA LifecycleInitial == LifecycleInit => LifecycleInv
<1> SUFFICES ASSUME LifecycleInit PROVE LifecycleInv
  OBVIOUS
<1> USE DEF LifecycleInit
<1>1. LcFlagTypes
  BY DEF LcFlagTypes
<1>6. LcFileTypes
  BY DEF LcFileTypes, FileStates
<1>2. LcPlaceTypes
  BY LifecycleAssumption DEF LcPlaceTypes, LifecycleAssumption, NotStopping
<1>3. Beginning /\ MuHeld /\ Instanced /\ Completing
  BY DEF Beginning, MuHeld, Instanced, Completing, Starting, NotStopping,
     Stoppers
<1>4. Mounting /\ NapLeft /\ FilesLeft
  BY DEF Mounting, NapLeft, FilesLeft, FilesIn, CleanedUp, NotStopping, Stoppers
<1>5. ShutdownWaits /\ LifecyclePanics
  BY DEF ShutdownWaits, LifecyclePanics
<1> QED
  BY <1>1, <1>2, <1>3, <1>4, <1>5, <1>6, LifecycleTypeParts DEF LifecycleInv

LEMMA LifecycleStep ==
  LifecycleInv /\ [LifecycleNext]_lifecycleVars => LifecycleInv'
<1> SUFFICES ASSUME LifecycleInv, [LifecycleNext]_lifecycleVars
             PROVE  LifecycleInv'
  OBVIOUS
<1>1. LcPlaceTypes' /\ LcFileTypes' /\ LcFlagTypes'
  BY LcPlaceTypesStep, LcFileTypesStep, LcFlagTypesStep
<1>2. LifecycleTypeOK'
  BY <1>1, Zenon DEF LifecycleTypeOK, LcPlaceTypes, LcFileTypes, LcFlagTypes
<1>3. Beginning' /\ MuHeld' /\ Instanced' /\ Mounting'
  BY BeginningStep, MuStep, InstancedStep, MountingStep
<1>4. NapLeft' /\ FilesLeft' /\ Completing' /\ ShutdownWaits' /\ LifecyclePanics'
  BY NapStep, FilesStep, CompletingStep, WaitsStep, PanicsStep
<1> QED
  BY <1>2, <1>3, <1>4 DEF LifecycleInv

(* LifecycleInv holds in every state, of every process in turn.            *)
THEOREM LifecycleInvariant == LifecycleSpec => []LifecycleInv
BY LifecycleInitial, LifecycleStep, PTL DEF LifecycleSpec

(* The type invariant.                                                     *)
THEOREM LifecycleTypeCorrect == LifecycleSpec => []LifecycleTypeOK
<1>1. LifecycleInv => LifecycleTypeOK
  BY DEF LifecycleInv
<1> QED
  BY <1>1, LifecycleInvariant, PTL

(* A process that ends in time after a Stop that went through leaves the   *)
(* mountpoint free and App Nap allowed; a temporary file is still there    *)
(* only if it could not be removed, came back by its downloader, or was in *)
(* another goroutine's hands or not in the table when Stop cleaned up.     *)
THEOREM ExitsClean == LifecycleSpec => []CleanExit
<1>1. LifecycleInv => CleanExit
  <2> SUFFICES ASSUME LifecycleInv, spc["daemon"] = "stopped", main = "exited"
               PROVE  /\ mountpoint # "fuse" /\ ~appNap
                      /\ FilesIn({"tracked", "left", "daemon"}) = {}
    BY DEF CleanExit
  <2>1. "daemon" \in Stoppers
    BY DEF Stoppers
  <2>2. mountpoint # "fuse"
    BY <2>1 DEF LifecycleInv, Mounting
  <2>3. ~appNap
    BY <2>1 DEF LifecycleInv, NapLeft
  <2>4. /\ FilesIn({"tracked"}) = {} /\ FilesIn({"left"}) = {}
        /\ FilesIn({"daemon"}) = {}
    BY <2>1 DEF LifecycleInv, FilesLeft, CleanedUp
  <2> QED
    BY <2>2, <2>3, <2>4 DEF FilesIn
<1> QED
  BY <1>1, LifecycleInvariant, PTL

(* WaitForShutdown says that all is done only when the daemon's Stop has   *)
(* returned, unless Shutdown has been called.                              *)
THEOREM ShutdownIsAwaited == LifecycleSpec => []ShutdownWaits
<1>1. LifecycleInv => ShutdownWaits
  BY DEF LifecycleInv
<1> QED
  BY <1>1, LifecycleInvariant, PTL

(* The daemon's goroutine finds an instance, unless Shutdown was called.   *)
THEOREM PanicsByShutdown == LifecycleSpec => []LifecyclePanics
<1>1. LifecycleInv => LifecyclePanics
  BY DEF LifecycleInv
<1> QED
  BY <1>1, LifecycleInvariant, PTL
=============================================================================
