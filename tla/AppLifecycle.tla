---------------------------- MODULE AppLifecycle ----------------------------
(***************************************************************************)
(* main.go, internal/daemon and Start and Stop of internal/fs: one process *)
(* after the other mounts the file system, lets the UI stage files, and    *)
(* unmounts it when the context is cancelled.  Stop runs in the daemon's   *)
(* goroutine and, in UnmountFS, in the application delegate's.             *)
(*                                                                         *)
(* A process may crash anywhere, and leaves to the next one a mountpoint   *)
(* nobody serves and temporary files.  Of a staged file there is its       *)
(* temporary file, on its way into the table of TempFileManager and off    *)
(* the disk; FuseFS, TempFileStore and TempFileManager have the rest.      *)
(***************************************************************************)
EXTENDS Integers

CONSTANTS
  Files,         \* temporary files there can be
  EnableAppNap,  \* config.EnableAppNap
  MaxRuns        \* bound: processes started

ASSUME LifecycleAssumption == EnableAppNap \in BOOLEAN /\ MaxRuns \in Nat

Stoppers == {"daemon", "delegate"}

VARIABLES
  main,          \* where main is
  daemonMu,      \* who holds daemon.mu: "none", "main", "delegate"
  instance,      \* whether instance is set
  cancelled, shutdownComplete,
  spc,           \* Stop in each of the two goroutines
  waited,        \* what WaitForShutdown returned
  mountGo,       \* the goroutine in host.Mount
  mountpoint,    \* "dir" (nothing mounted), "fuse", "stale"
  mounted,       \* fs.mounted
  appNap,        \* appNapRelease # nil
  ui,            \* the UI's StageFile
  tempFile,      \* what has become of each file, below
  opening,       \* the files whose downloader has not opened them yet
  runs,          \* history: processes started
  shutdownCalled \* history: Shutdown has been called

daemonVars == <<daemonMu, instance, cancelled, shutdownComplete, spc, waited>>
mountVars == <<mountGo, mountpoint, mounted, appNap>>
fileVarsOf == <<ui, tempFile, opening>>
lifecycleVars ==
  <<main, daemonVars, mountVars, fileVarsOf, runs, shutdownCalled>>

(* A temporary file is "made" before it is "tracked", in the table of       *)
(* TempFileManager; "late" is one tracked after a Stop has cleaned up.     *)
(* Taken out of the table, it is in the hands of who will remove it, a     *)
(* Stop or another goroutine.  It stays, untracked, if that fails          *)
(* ("kept"), and comes back if its downloader opens it only then           *)
(* ("again").  The next process finds it "left", or can not remove it      *)
(* either ("stale").                                                       *)
Removers == Stoppers \cup {"evictor"}
FileStates ==
  {"none", "made", "tracked", "late", "kept", "again", "left", "stale"}
    \cup Removers

FilesIn(states) == {f \in Files : tempFile[f] \in states}
InTable == {"tracked", "late"}

Becomes(f, state) == tempFile' = [tempFile EXCEPT ![f] = state]

(* os.Remove of each, which may fail and is only logged then.              *)
TriesToRemove(fs, failed) ==
  \E gone \in SUBSET fs :
    tempFile' = [f \in Files |-> IF f \in gone THEN "none"
                                ELSE IF f \in fs THEN failed ELSE tempFile[f]]

NotStopping == [s \in Stoppers |-> "idle"]

LifecycleInit ==
  /\ main = "down"
  /\ daemonMu = "none" /\ instance = FALSE
  /\ cancelled = FALSE /\ shutdownComplete = FALSE
  /\ spc = NotStopping /\ waited = FALSE
  /\ mountGo = "none" /\ mounted = FALSE /\ appNap = FALSE
  /\ ui = "idle" /\ shutdownCalled = FALSE
  /\ mountpoint = "dir" /\ runs = 0
  /\ tempFile = [f \in Files |-> "none"] /\ opening = {}

Alive == main \notin {"down", "exited", "panicked"}

(* Start has returned, and main has not.                                   *)
Serving == main \in {"running", "locking", "waiting"}

(* A process is gone: what it had in memory, not what the system has.      *)
Die ==
  /\ main' = "down"
  /\ daemonMu' = "none" /\ instance' = FALSE
  /\ cancelled' = FALSE /\ shutdownComplete' = FALSE
  /\ spc' = NotStopping /\ waited' = FALSE
  /\ mountGo' = "none" /\ mounted' = FALSE /\ appNap' = FALSE
  /\ ui' = "idle" /\ shutdownCalled' = FALSE
  /\ mountpoint' = IF mountpoint = "fuse" THEN "stale" ELSE mountpoint
  /\ tempFile' = [f \in Files |->
                    IF tempFile[f] = "none" THEN "none" ELSE "left"]
  /\ opening' = {}
  /\ UNCHANGED runs

(* A crash, anywhere, or a panic.                                          *)
LcCrash == main \notin {"down", "exited"} /\ Die

LcGone == main = "exited" /\ Die

-----------------------------------------------------------------------------
(* daemon.Start, with daemon.mu held to the end, and Start.                *)

LcStart ==
  /\ main = "down" /\ runs < MaxRuns /\ runs' = runs + 1
  /\ main' = "cleanup" /\ daemonMu' = "main"
  /\ UNCHANGED <<instance, cancelled, shutdownComplete, spc, waited, mountVars,
                 fileVarsOf, shutdownCalled>>

(* CleanupStaleFiles, which warns of what it cannot remove and goes on.    *)
LcCleanupStale ==
  /\ main = "cleanup" /\ main' = "recover"
  /\ TriesToRemove(FilesIn({"left"}), "stale")
  /\ UNCHANGED <<daemonVars, mountVars, ui, opening, runs, shutdownCalled>>

(* recoverStaleMountMacOS forces anything off the mountpoint, if it can;   *)
(* then the goroutine that mounts is started.                              *)
LcRecover ==
  /\ main = "recover" /\ main' = "probe"
  /\ mountpoint' \in {mountpoint, "dir"}
  /\ mountGo' = "calling"
  /\ UNCHANGED <<daemonVars, mounted, appNap, fileVarsOf, runs, shutdownCalled>>

(* host.Mount serves until the file system is unmounted, or fails.         *)
MountServes ==
  /\ mountGo = "calling" /\ mountpoint = "dir"
  /\ mountGo' = "serving" /\ mountpoint' = "fuse"
  /\ UNCHANGED <<main, daemonVars, mounted, appNap, fileVarsOf, runs,
                 shutdownCalled>>

MountFails ==
  /\ mountGo = "calling" /\ mountGo' = "failed"
  /\ UNCHANGED <<main, daemonVars, mountpoint, mounted, appNap, fileVarsOf,
                 runs, shutdownCalled>>

(* The probe reads the mountpoint: a directory nothing is mounted on will  *)
(* answer too, before the mount and after one that failed.  App Nap may    *)
(* not let itself be prevented.                                            *)
LcReady ==
  /\ main = "probe" /\ mountpoint # "stale"
  /\ main' = "running"
  /\ mounted' = TRUE /\ appNap' \in {FALSE, EnableAppNap}
  /\ instance' = TRUE /\ daemonMu' = "none"
  /\ spc' = [spc EXCEPT !["daemon"] = "waiting"]
  /\ UNCHANGED <<cancelled, shutdownComplete, waited, mountGo, mountpoint,
                 fileVarsOf, runs, shutdownCalled>>

(* The mount has failed, or the probe has not succeeded in five seconds;   *)
(* what is mounted then stays behind.                                      *)
LcStartFails == main = "probe" /\ Die

-----------------------------------------------------------------------------
(* The UI: GetFS, which goes on handing out the file system after Stop,    *)
(* and StageFile.                                                          *)

UiGetFS ==
  /\ Serving /\ ui = "idle"
  /\ daemonMu = "none" /\ instance /\ ui' = "staging"
  /\ UNCHANGED <<main, daemonVars, mountVars, tempFile, opening, runs,
                 shutdownCalled>>

(* The temporary file is created; a staged one may do, or staging fail.    *)
UiCreate ==
  /\ Serving /\ ui = "staging"
  /\ \/ /\ ui' = "creating"
        /\ \E f \in FilesIn({"none"}) \ opening : Becomes(f, "made")
     \/ ui' = "idle" /\ UNCHANGED tempFile
  /\ UNCHANGED <<main, daemonVars, mountVars, opening, runs, shutdownCalled>>

CleanedUp == \E s \in Stoppers : spc[s] = "stopped"

(* Register, and the start of the downloader; or the file cannot be opened *)
(* for reading and is removed.                                             *)
UiRegister ==
  /\ Serving /\ ui = "creating" /\ ui' = "idle"
  /\ \/ \E f \in FilesIn({"made"}) :
          /\ Becomes(f, IF CleanedUp THEN "late" ELSE "tracked")
          /\ opening' = opening \cup {f}
     \/ TriesToRemove(FilesIn({"made"}), "kept") /\ UNCHANGED opening
  /\ UNCHANGED <<main, daemonVars, mountVars, runs, shutdownCalled>>

-----------------------------------------------------------------------------
(* The other goroutines: an eviction for space, a Close.                   *)

(* Close waits for the downloader, without a deadline in fs.  It tries     *)
(* once more what an eviction could not remove or has come back since.     *)
Closable == FilesIn(InTable \cup {"kept", "again"}) \ opening

(* The file leaves the table first.  An eviction does not wait.            *)
TakeOut ==
  /\ \E f \in FilesIn(InTable) \cup Closable : Becomes(f, "evictor")
  /\ UNCHANGED <<main, daemonVars, mountVars, ui, opening, runs,
                 shutdownCalled>>

RemoveTaken ==
  /\ \E f \in FilesIn({"evictor"}) : TriesToRemove({f}, "kept")
  /\ UNCHANGED <<main, daemonVars, mountVars, ui, opening, runs,
                 shutdownCalled>>

(* The downloader opens its file with O_CREATE, and starts only now:       *)
(* neither an eviction nor CleanupAllFiles has waited for it.              *)
DownloaderOpens ==
  /\ \E f \in opening :
       /\ opening' = opening \ {f}
       /\ \/ tempFile[f] = "none" /\ Becomes(f, "again")
          \/ UNCHANGED tempFile
  /\ UNCHANGED <<main, daemonVars, mountVars, ui, runs, shutdownCalled>>

-----------------------------------------------------------------------------
(* Stop.                                                                   *)

SpGoto(s, from, to) == spc[s] = from /\ spc' = [spc EXCEPT ![s] = to]

(* The daemon's goroutine, once the context is cancelled.                  *)
LcWoken ==
  /\ cancelled /\ SpGoto("daemon", "waiting", "evict")
  /\ UNCHANGED <<main, daemonMu, instance, cancelled, shutdownComplete, waited,
                 mountVars, fileVarsOf, runs, shutdownCalled>>

(* UnmountFS, with daemon.mu held to the end.                              *)
UnmountFS ==
  /\ Serving
  /\ daemonMu = "none" /\ instance /\ daemonMu' = "delegate"
  /\ SpGoto("delegate", "idle", "evict")
  /\ UNCHANGED <<main, instance, cancelled, shutdownComplete, waited, mountVars,
                 fileVarsOf, runs, shutdownCalled>>

(* EvictAllStagedFiles closes the stores without open handles; some stores *)
(* belong to no staged file any more.                                      *)
SpEvict(s) ==
  /\ SpGoto(s, "evict", "close")
  /\ \E fs \in SUBSET Closable :
       tempFile' = [f \in Files |-> IF f \in fs THEN s ELSE tempFile[f]]
  /\ UNCHANGED <<main, daemonMu, instance, cancelled, shutdownComplete, waited,
                 mountVars, ui, opening, runs, shutdownCalled>>

(* Their files are removed; then App Nap prevention ends and the context   *)
(* of the file system is cancelled.                                        *)
SpClose(s) ==
  /\ SpGoto(s, "close", "unmount")
  /\ TriesToRemove(FilesIn({s}), "kept")
  /\ appNap' = FALSE
  /\ UNCHANGED <<main, daemonMu, instance, cancelled, shutdownComplete, waited,
                 mountGo, mountpoint, mounted, ui, opening, runs,
                 shutdownCalled>>

(* Unmount may fail, always if nothing is mounted, and then Stop returns.  *)
SpUnmount(s) ==
  /\ \/ /\ mountGo = "serving" /\ SpGoto(s, "unmount", "remove")
        /\ mountGo' = "over" /\ mountpoint' = "dir"
     \/ SpGoto(s, "unmount", "failed") /\ UNCHANGED <<mountGo, mountpoint>>
  /\ UNCHANGED <<main, daemonMu, instance, cancelled, shutdownComplete, waited,
                 mounted, appNap, fileVarsOf, runs, shutdownCalled>>

(* Mutant: only what EvictAllStagedFiles closed is removed.                *)
SpRemoveNone(s) ==
  /\ SpGoto(s, "remove", "stopped")
  /\ UNCHANGED <<main, daemonMu, instance, cancelled, shutdownComplete, waited,
                 mountVars, fileVarsOf, runs, shutdownCalled>>

(* CleanupAllFiles: what is in the table, open handles or not.  It is out  *)
(* of the table whether it could be removed or not, and Stop goes on.      *)
SpRemove(s) ==
  /\ SpGoto(s, "remove", "stopped")
  /\ TriesToRemove(FilesIn(InTable), "kept")
  /\ UNCHANGED <<main, daemonMu, instance, cancelled, shutdownComplete, waited,
                 mountVars, ui, opening, runs, shutdownCalled>>

LcUnmounted ==
  /\ spc["delegate"] \in {"stopped", "failed"} /\ daemonMu = "delegate"
  /\ daemonMu' = "none"
  /\ UNCHANGED <<main, instance, cancelled, shutdownComplete, spc, waited,
                 mountVars, fileVarsOf, runs, shutdownCalled>>

(* Mutant: the channel is closed before Stop is called.                    *)
LcCompleteFirst ==
  /\ spc["daemon"] # "idle" /\ cancelled /\ instance /\ ~shutdownComplete
  /\ shutdownComplete' = TRUE
  /\ UNCHANGED <<main, daemonMu, instance, cancelled, spc, waited, mountVars,
                 fileVarsOf, runs, shutdownCalled>>

(* close(instance.shutdownComplete): a panic if Shutdown has reset it.     *)
LcComplete ==
  /\ spc["daemon"] \in {"stopped", "failed"} /\ ~shutdownComplete
  /\ \/ /\ instance /\ shutdownComplete' = TRUE /\ UNCHANGED main
     \/ /\ ~instance /\ main' = "panicked" /\ UNCHANGED shutdownComplete
  /\ UNCHANGED <<daemonMu, instance, cancelled, spc, waited, mountVars,
                 fileVarsOf, runs, shutdownCalled>>

Shutdown ==
  /\ Serving
  /\ daemonMu = "none" /\ instance /\ instance' = FALSE
  /\ cancelled' = TRUE /\ shutdownCalled' = TRUE
  /\ UNCHANGED <<main, daemonMu, shutdownComplete, spc, waited, mountVars,
                 fileVarsOf, runs>>

-----------------------------------------------------------------------------
(* The end of main: OnShutdown, or KeepAlive once the context is done, and *)
(* WaitForShutdown.                                                        *)

LcSignal ==
  /\ Alive /\ ~cancelled /\ cancelled' = TRUE
  /\ UNCHANGED <<main, daemonMu, instance, shutdownComplete, spc, waited,
                 mountVars, fileVarsOf, runs, shutdownCalled>>

(* Mutant: quitting shuts the daemon down.                                 *)
LcQuitShutsDown ==
  /\ main = "running" /\ main' = "locking"
  /\ cancelled' = TRUE /\ instance' = FALSE
  /\ UNCHANGED <<daemonMu, shutdownComplete, spc, waited, mountVars,
                 fileVarsOf, runs, shutdownCalled>>

LcQuit ==
  /\ main = "running" /\ main' = "locking"
  /\ cancelled' = TRUE
  /\ UNCHANGED <<daemonMu, instance, shutdownComplete, spc, waited, mountVars,
                 fileVarsOf, runs, shutdownCalled>>

LcWait ==
  /\ main = "locking" /\ daemonMu = "none"
  /\ IF instance THEN main' = "waiting" /\ UNCHANGED waited
                 ELSE main' = "exited" /\ waited' = TRUE
  /\ UNCHANGED <<daemonMu, instance, cancelled, shutdownComplete, spc, mountVars,
                 fileVarsOf, runs, shutdownCalled>>

(* Mutant: there is no limit of five seconds.                              *)
LcWaitedForEver ==
  /\ main = "waiting" /\ main' = "exited"
  /\ shutdownComplete /\ waited' = TRUE
  /\ UNCHANGED <<daemonMu, instance, cancelled, shutdownComplete, spc, mountVars,
                 fileVarsOf, runs, shutdownCalled>>

LcWaited ==
  /\ main = "waiting" /\ main' = "exited"
  /\ waited' \in {shutdownComplete, FALSE}
  /\ UNCHANGED <<daemonMu, instance, cancelled, shutdownComplete, spc, mountVars,
                 fileVarsOf, runs, shutdownCalled>>

StopStep(s) == SpEvict(s) \/ SpClose(s) \/ SpUnmount(s) \/ SpRemove(s)

LifecycleNext ==
  \/ LcStart \/ LcCrash \/ LcGone
  \/ LcCleanupStale \/ LcRecover \/ LcReady \/ LcStartFails
  \/ UiGetFS \/ UiCreate \/ UiRegister \/ UnmountFS \/ Shutdown
  \/ LcSignal \/ LcQuit \/ LcWait \/ LcWaited
  \/ /\ Alive
     /\ \/ MountServes \/ MountFails
        \/ TakeOut \/ RemoveTaken \/ DownloaderOpens
        \/ LcWoken \/ LcUnmounted \/ LcComplete
        \/ \E s \in Stoppers : StopStep(s)

(* Goroutines are scheduled and the timer of five seconds fires; but what  *)
(* the system is asked for, Unmount above all, may take for ever.          *)
LifecycleFairness ==
  /\ WF_lifecycleVars(LcWait) /\ WF_lifecycleVars(LcWaited)
  /\ WF_lifecycleVars(Alive /\ LcUnmounted)
  /\ \A s \in Stoppers :
       WF_lifecycleVars(Alive /\ (SpEvict(s) \/ SpClose(s) \/ SpRemove(s)))

LifecycleSpec == LifecycleInit /\ [][LifecycleNext]_lifecycleVars

-----------------------------------------------------------------------------
LifecycleTypeOK ==
  /\ main \in {"down", "cleanup", "recover", "probe", "running", "locking",
              "waiting", "exited", "panicked"}
  /\ daemonMu \in {"none", "main", "delegate"}
  /\ instance \in BOOLEAN /\ cancelled \in BOOLEAN
  /\ shutdownComplete \in BOOLEAN /\ waited \in BOOLEAN
  /\ spc \in [Stoppers -> {"idle", "waiting", "evict", "close", "unmount",
                          "remove", "stopped", "failed"}]
  /\ mountGo \in {"none", "calling", "serving", "failed", "over"}
  /\ mountpoint \in {"dir", "fuse", "stale"}
  /\ mounted \in BOOLEAN /\ appNap \in BOOLEAN
  /\ ui \in {"idle", "staging", "creating"}
  /\ tempFile \in [Files -> FileStates] /\ opening \subseteq Files
  /\ runs \in 0..MaxRuns /\ shutdownCalled \in BOOLEAN

(* A process that ends in time after a Stop that went through leaves the   *)
(* mountpoint free and App Nap allowed.  Of the temporary files that were  *)
(* in the table, those with open handles included, and of an earlier       *)
(* process's none is there but for a reason: its os.Remove failed, its     *)
(* downloader had not opened it yet when it was removed, or another        *)
(* goroutine has it in hand or registered it after the cleanup.  To that   *)
(* extent tempfile_manager.go:314, "to ensure all temp files are deleted", *)
(* holds.                                                                  *)
CleanExit ==
  main = "exited" /\ waited /\ spc["daemon"] = "stopped" =>
    /\ mountpoint # "fuse" /\ ~appNap
    /\ FilesIn({"tracked", "left", "daemon"}) = {}

(* WaitForShutdown says that all is done only if the daemon's Stop has     *)
(* returned, unless Shutdown has been called.                              *)
ShutdownWaits ==
  main = "exited" /\ waited =>
    spc["daemon"] \in {"stopped", "failed"} \/ shutdownCalled

(* The goroutine of the daemon finds an instance whose channel it can      *)
(* close, unless Shutdown has been called.                                 *)
LifecyclePanics == main = "panicked" => shutdownCalled

(* A program that was told to quit ends, though Stop may hang in Unmount:  *)
(* for ever it waits only for daemon.mu, while UnmountFS hangs there.      *)
ExitReached ==
  <>[](main \in {"locking", "waiting"}) => <>[](spc["delegate"] = "unmount")
=============================================================================
