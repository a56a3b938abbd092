--------------------------- MODULE TempFileStore ---------------------------
(***************************************************************************)
(* internal/fetcher/store_tempfile.go: a remote file downloaded by one     *)
(* goroutine into a temporary file, read by concurrent ReadAt calls and    *)
(* released by CloseWithContext.                                           *)
(*                                                                         *)
(* Everything is interleaved at the grain of the code's atomic operations, *)
(* channel operations and system calls.  Sizes and offsets count blocks.   *)
(* The initial state is a store NewTempFileStore has just returned.        *)
(***************************************************************************)
EXTENDS Integers, FiniteSets

CONSTANTS
  Readers,       \* goroutines that call ReadAt
  Closers,       \* goroutines that call CloseWithContext, once each
  TimedClosers,  \* those whose context expires (Close passes Background)
  Size,          \* the size the store was created for
  MaxBody,       \* the longest body the server sends
  NotifyCap,     \* the capacity of notifyCh (100 in the code)
  Requests,      \* the (offset, length) pairs ReadAt is called with
  Evictable      \* whether other stagings may evict the file

ASSUME ConstantsAssumption ==
  /\ TimedClosers \subseteq Closers
  /\ Size \in Nat \ {0}
  /\ MaxBody \in Nat
  /\ NotifyCap \in Nat \ {0}
  /\ Requests \subseteq [off : Nat, len : Nat \ {0}] /\ Requests # {}
  /\ Evictable \in BOOLEAN

VARIABLES
  (* the downloader goroutine *)
  dlpc,        \* where it is
  total,       \* totalWritten: blocks it has written to its file
  readErr,     \* what the last Body.Read returned besides data
  downloaded,  \* the published progress
  failed,      \* err # nil
  notify,      \* tokens in notifyCh
  cancelled,   \* the store's context was cancelled
  (* the temporary file *)
  path,        \* which file tempPath names: "orig", "fresh" or "none"
  target,      \* which file the downloader writes to
  registered,  \* tempPath is in the TempFileManager's table
  evicting,    \* the manager is between the table and os.Remove
  fileOpen,    \* readFile # nil
  (* closing *)
  closed, closing,
  cpc,         \* where each closer is, and how its call ended
  waiter,      \* the goroutine that calls readers.Wait()
  inFlight,    \* the readers WaitGroup: whom it counts
  (* ReadAt calls *)
  rpc, req, ret,
  panicked     \* a WaitGroup panic ended the process

dlVars     == <<dlpc, total, readErr, downloaded, failed>>
fileVars   == <<path, target, registered, evicting>>
closeVars  == <<fileOpen, closed, closing, cancelled, cpc>>
readVars   == <<rpc, req, ret>>
gateVars   == <<waiter, inFlight, panicked>>
vars == <<dlVars, notify, fileVars, closeVars, readVars, gateVars>>

-----------------------------------------------------------------------------
(* What a ReadAt call asks for once it is clipped to the file, and what it *)
(* finds in the file the shared handle refers to.                          *)

Lesser(a, b) == IF a < b THEN a ELSE b

WantEnd(q) == Lesser(q.off + q.len, Size)

(* The handle was opened before the downloader ran, on the file            *)
(* CreateTemp made: data written to a file re-created under the same name  *)
(* is not in it.                                                           *)
HandleLength == IF target = "orig" THEN total ELSE 0

(* os.File.ReadAt: the blocks there are, and EOF if they are too few.      *)
BlocksRead(q) ==
  LET end == Lesser(WantEnd(q), HandleLength)
  IN IF end > q.off THEN end - q.off ELSE 0

(* ReadAt's closing statements: an EOF with data in it is a success.       *)
ReadOutcome(q) ==
  LET n == BlocksRead(q) IN
  [n |-> n, err |-> IF n > 0 THEN "nil" ELSE "EOF"]

NoResult  == [n |-> 0, err |-> "none"]
NoRequest == CHOOSE q \in Requests : TRUE

(* close(notifyCh), close(doneCh) and wg.Done() run in this order when the *)
(* downloader returns.                                                     *)
NotifyClosed == dlpc \in {"notifyClosed", "doneClosed", "exited"}
DoneClosed   == dlpc \in {"doneClosed", "exited"}

Init ==
  /\ dlpc = "open" /\ total = 0 /\ readErr = "nil"
  /\ downloaded = 0 /\ failed = FALSE /\ notify = 0 /\ cancelled = FALSE
  /\ path = "orig" /\ target = "none" /\ registered = TRUE /\ evicting = FALSE
  /\ fileOpen = TRUE /\ closed = FALSE /\ closing = FALSE
  /\ cpc = [c \in Closers |-> "idle"]
  /\ waiter = "none" /\ inFlight = {} /\ panicked = FALSE
  /\ rpc = [r \in Readers |-> "idle"]
  /\ req = [r \in Readers |-> NoRequest]
  /\ ret = [r \in Readers |-> NoResult]

-----------------------------------------------------------------------------
(* The downloader.  Every step of a goroutine needs a process to run in.   *)

DlGoto(from, to) == ~panicked /\ dlpc = from /\ dlpc' = to

(* os.OpenFile with O_CREATE|O_TRUNC: a path that an eviction removed in   *)
(* the meantime is created again, as another file.                         *)
DlOpen ==
  /\ \/ /\ DlGoto("open", "request")
        /\ path' = IF path = "none" THEN "fresh" ELSE path
        /\ target' = path'
        /\ UNCHANGED failed
     \/ /\ DlGoto("open", "return")
        /\ failed' = TRUE
        /\ UNCHANGED <<path, target>>
  /\ UNCHANGED <<total, readErr, downloaded, notify, registered, evicting,
                 closeVars, readVars, gateVars>>

(* client.Do: an error, a status that is neither 200 nor 206, or a body.   *)
DlRequest ==
  /\ \/ DlGoto("request", "loop") /\ UNCHANGED failed
     \/ DlGoto("request", "return") /\ failed' = TRUE
  /\ UNCHANGED <<total, readErr, downloaded, notify, fileVars, closeVars,
                 readVars, gateVars>>

DlCheckContext ==
  /\ \/ ~cancelled /\ DlGoto("loop", "read") /\ UNCHANGED failed
     \/ cancelled /\ DlGoto("loop", "return") /\ failed' = TRUE
  /\ UNCHANGED <<total, readErr, downloaded, notify, fileVars, closeVars,
                 readVars, gateVars>>

(* Body.Read and, if it brought data, the write to the file.  A body that  *)
(* has sent MaxBody blocks ends or breaks off.                             *)
DlRead ==
  /\ \/ \E n \in 0..(MaxBody - total), e \in {"nil", "EOF", "fail"} :
          /\ e = "nil" => n > 0
          /\ total + n = MaxBody => e # "nil"
          /\ total' = total + n
          /\ readErr' = e
          /\ DlGoto("read", IF n > 0 THEN "publish" ELSE "verdict")
          /\ UNCHANGED failed
     \/ \* the write fails
        /\ total < MaxBody
        /\ DlGoto("read", "return")
        /\ failed' = TRUE
        /\ UNCHANGED <<total, readErr>>
  /\ UNCHANGED <<downloaded, notify, fileVars, closeVars, readVars, gateVars>>

(* Mutant: Add in the place of Store.                                      *)
DlPublishAdded ==
  /\ DlGoto("publish", "signal")
  /\ downloaded' = downloaded + total
  /\ UNCHANGED <<total, readErr, failed, notify, fileVars, closeVars, readVars,
                 gateVars>>

DlPublish ==
  /\ DlGoto("publish", "signal")
  /\ downloaded' = total
  /\ UNCHANGED <<total, readErr, failed, notify, fileVars, closeVars, readVars,
                 gateVars>>

(* The send does not block: a token that does not fit is dropped.          *)
DlSignal ==
  /\ DlGoto("signal", "verdict")
  /\ notify' = Lesser(notify + 1, NotifyCap)
  /\ UNCHANGED <<total, readErr, downloaded, failed, fileVars, closeVars,
                 readVars, gateVars>>

(* EOF counts as the whole file, however many blocks there were.           *)
DlVerdict ==
  /\ \/ /\ readErr = "EOF" /\ DlGoto("verdict", "return")
        /\ downloaded' = Size /\ UNCHANGED failed
     \/ /\ readErr = "fail" /\ DlGoto("verdict", "return")
        /\ failed' = TRUE /\ UNCHANGED downloaded
     \/ /\ readErr = "nil" /\ DlGoto("verdict", "loop")
        /\ UNCHANGED <<downloaded, failed>>
  /\ UNCHANGED <<total, readErr, notify, fileVars, closeVars, readVars,
                 gateVars>>

(* The deferred calls, last one first.                                     *)
DlReturn ==
  /\ \/ DlGoto("return", "notifyClosed")
     \/ DlGoto("notifyClosed", "doneClosed")
     \/ DlGoto("doneClosed", "exited")
  /\ UNCHANGED <<total, readErr, downloaded, failed, notify, fileVars,
                 closeVars, readVars, gateVars>>

Downloader == DlOpen \/ DlRequest \/ DlCheckContext \/ DlRead \/ DlPublish
              \/ DlSignal \/ DlVerdict \/ DlReturn

-----------------------------------------------------------------------------
(* ReadAt.                                                                 *)

RdGoto(r, from, to) ==
  ~panicked /\ rpc[r] = from /\ rpc' = [rpc EXCEPT ![r] = to]

Outcome(r, res) == ret' = [ret EXCEPT ![r] = res]

Fails(e) == [n |-> 0, err |-> e]

RdCall(r) ==
  /\ RdGoto(r, "idle", "gate")
  /\ \E q \in Requests : req' = [req EXCEPT ![r] = q]
  /\ UNCHANGED <<dlVars, notify, fileVars, closeVars, ret, gateVars>>

(* First look at the closing flag, before the reader is counted: a call    *)
(* that sees it set returns fs.ErrClosed.                                  *)
RdGate(r) ==
  /\ \/ ~closing /\ RdGoto(r, "gate", "enter") /\ UNCHANGED req
     \/ closing /\ RdGoto(r, "gate", "idle")
        /\ req' = [req EXCEPT ![r] = NoRequest]
  /\ UNCHANGED <<dlVars, notify, fileVars, closeVars, ret, gateVars>>

(* Mutant: the reader is not counted.                                      *)
RdEnterUncounted(r) ==
  /\ RdGoto(r, "enter", "recheck")
  /\ UNCHANGED <<dlVars, notify, fileVars, closeVars, req, ret, gateVars>>

(* readers.Add(1).                                                         *)
RdEnter(r) ==
  /\ RdGoto(r, "enter", "recheck")
  /\ inFlight' = inFlight \cup {r}
  /\ UNCHANGED <<dlVars, notify, fileVars, closeVars, req, ret, waiter,
                 panicked>>

(* Second look, and the offset.                                            *)
RdRecheck(r) ==
  /\ \/ /\ closing
        /\ RdGoto(r, "recheck", "leave") /\ Outcome(r, Fails("closed"))
     \/ /\ ~closing /\ req[r].off >= Size
        /\ RdGoto(r, "recheck", "leave") /\ Outcome(r, Fails("EOF"))
     \/ /\ ~closing /\ req[r].off < Size
        /\ RdGoto(r, "recheck", "loop") /\ UNCHANGED ret
  /\ UNCHANGED <<dlVars, notify, fileVars, closeVars, req, gateVars>>

(* One turn of the wait loop loads the flag, the progress and the error,   *)
(* one after the other, and blocks in the select if none settles the call. *)
RdLoopClosing(r) ==
  /\ \/ closing /\ RdGoto(r, "loop", "leave") /\ Outcome(r, Fails("closed"))
     \/ ~closing /\ RdGoto(r, "loop", "progress") /\ UNCHANGED ret
  /\ UNCHANGED <<dlVars, notify, fileVars, closeVars, req, gateVars>>

(* Mutant: any block past the offset is enough.                            *)
RdLoopProgressAny(r) ==
  /\ RdGoto(r, "progress",
            IF downloaded > req[r].off THEN "handle" ELSE "error")
  /\ UNCHANGED <<dlVars, notify, fileVars, closeVars, req, ret, gateVars>>

RdLoopProgress(r) ==
  /\ RdGoto(r, "progress",
            IF downloaded >= WantEnd(req[r]) THEN "handle" ELSE "error")
  /\ UNCHANGED <<dlVars, notify, fileVars, closeVars, req, ret, gateVars>>

RdLoopError(r) ==
  /\ \/ failed /\ RdGoto(r, "error", "leave") /\ Outcome(r, Fails("download"))
     \/ ~failed /\ RdGoto(r, "error", "select") /\ UNCHANGED ret
  /\ UNCHANGED <<dlVars, notify, fileVars, closeVars, req, gateVars>>

(* Mutant: the select waits for tokens alone.                              *)
RdWakeByToken(r) ==
  /\ RdGoto(r, "select", "loop")
  /\ notify > 0 /\ notify' = notify - 1
  /\ UNCHANGED <<dlVars, fileVars, closeVars, req, ret, gateVars>>

(* A token wakes the one reader that takes it; a closed channel all.       *)
RdWake(r) ==
  /\ RdGoto(r, "select", "loop")
  /\ \/ DoneClosed /\ UNCHANGED notify
     \/ notify > 0 /\ notify' = notify - 1
     \/ notify = 0 /\ NotifyClosed /\ UNCHANGED notify
  /\ UNCHANGED <<dlVars, fileVars, closeVars, req, ret, gateVars>>

(* The caller's context expires: seen before the select or inside it.      *)
RdContextDone(r) ==
  /\ \/ RdGoto(r, "error", "leave") /\ ~failed
     \/ RdGoto(r, "select", "leave")
  /\ Outcome(r, Fails("context"))
  /\ UNCHANGED <<dlVars, notify, fileVars, closeVars, req, gateVars>>

(* f := s.readFile and its nil test.                                       *)
RdHandle(r) ==
  /\ RdGoto(r, "handle", IF fileOpen THEN "pread" ELSE "leave")
  /\ Outcome(r, IF fileOpen THEN ret[r] ELSE Fails("closed"))
  /\ UNCHANGED <<dlVars, notify, fileVars, closeVars, req, gateVars>>

(* The system may fail to read, at the start or after some blocks.         *)
RdPread(r) ==
  /\ RdGoto(r, "pread", "leave")
  /\ \/ Outcome(r, ReadOutcome(req[r]))
     \/ \E n \in 0..BlocksRead(req[r]) : Outcome(r, [n |-> n, err |-> "io"])
  /\ UNCHANGED <<dlVars, notify, fileVars, closeVars, req, gateVars>>

(* Mutant: the deferred Done is missing.                                   *)
RdLeaveCounted(r) ==
  /\ RdGoto(r, "leave", "idle")
  /\ req' = [req EXCEPT ![r] = NoRequest]
  /\ Outcome(r, NoResult)
  /\ UNCHANGED <<dlVars, notify, fileVars, closeVars, gateVars>>

(* The deferred readers.Done(): the last one out releases the waiter.  The *)
(* call returns ret[r], and its frame is gone.                             *)
RdLeave(r) ==
  /\ RdGoto(r, "leave", "idle")
  /\ inFlight' = inFlight \ {r}
  /\ waiter' = IF waiter = "asleep" /\ inFlight' = {} THEN "woken" ELSE waiter
  /\ req' = [req EXCEPT ![r] = NoRequest]
  /\ Outcome(r, NoResult)
  /\ UNCHANGED <<dlVars, notify, fileVars, closeVars, panicked>>

(* What a ReadAt call does by itself, its caller and its context aside.    *)
ReaderStep(r) ==
  RdGate(r) \/ RdEnter(r) \/ RdRecheck(r) \/ RdLoopClosing(r)
  \/ RdLoopProgress(r) \/ RdLoopError(r) \/ RdWake(r) \/ RdHandle(r)
  \/ RdPread(r) \/ RdLeave(r)

-----------------------------------------------------------------------------
(* CloseWithContext.                                                       *)

ClGoto(c, from, to) ==
  ~panicked /\ cpc[c] = from /\ cpc' = [cpc EXCEPT ![c] = to]

ClCall(c) ==
  /\ \/ ~closed /\ closed' = TRUE /\ ClGoto(c, "idle", "flag")
     \/ closed /\ UNCHANGED closed /\ ClGoto(c, "idle", "alreadyClosed")
  /\ UNCHANGED <<dlVars, notify, fileVars, fileOpen, closing, cancelled,
                 readVars, gateVars>>

ClFlag(c) ==
  /\ ClGoto(c, "flag", "cancel")
  /\ closing' = TRUE
  /\ UNCHANGED <<dlVars, notify, fileVars, fileOpen, closed, cancelled,
                 readVars, gateVars>>

ClCancel(c) ==
  /\ ClGoto(c, "cancel", "downloader")
  /\ cancelled' = TRUE
  /\ UNCHANGED <<dlVars, notify, fileVars, fileOpen, closed, closing,
                 readVars, gateVars>>

(* Mutant: nobody waits for the downloader.                                *)
ClDownloaderIgnored(c) ==
  /\ ClGoto(c, "downloader", "readers")
  /\ waiter' = "started"
  /\ UNCHANGED <<dlVars, notify, fileVars, fileOpen, closed, closing,
                 cancelled, readVars, inFlight, panicked>>

(* Wait for the downloader, then start the goroutine that waits for the    *)
(* readers.                                                                *)
ClDownloaderDone(c) ==
  /\ dlpc = "exited"
  /\ ClGoto(c, "downloader", "readers")
  /\ waiter' = "started"
  /\ UNCHANGED <<dlVars, notify, fileVars, fileOpen, closed, closing,
                 cancelled, readVars, inFlight, panicked>>

(* A context that expires here only abandons the wait for the downloader.  *)
ClDownloaderTimeout(c) ==
  /\ c \in TimedClosers
  /\ ClGoto(c, "downloader", "readers")
  /\ waiter' = "started"
  /\ UNCHANGED <<dlVars, notify, fileVars, fileOpen, closed, closing,
                 cancelled, readVars, inFlight, panicked>>

ClReadersDone(c) ==
  /\ waiter = "done"
  /\ ClGoto(c, "readers", "handle")
  /\ UNCHANGED <<dlVars, notify, fileVars, fileOpen, closed, closing,
                 cancelled, readVars, gateVars>>

(* Mutant: an expired context abandons only the wait, as it does above.    *)
ClReadersTimeoutGoesOn(c) ==
  /\ c \in TimedClosers
  /\ ClGoto(c, "readers", "handle")
  /\ UNCHANGED <<dlVars, notify, fileVars, fileOpen, closed, closing,
                 cancelled, readVars, gateVars>>

(* Here it abandons the whole call, which stays marked as made.            *)
ClReadersTimeout(c) ==
  /\ c \in TimedClosers
  /\ ClGoto(c, "readers", "timedOut")
  /\ UNCHANGED <<dlVars, notify, fileVars, fileOpen, closed, closing,
                 cancelled, readVars, gateVars>>

ClHandle(c) ==
  /\ ClGoto(c, "handle", "unregister")
  /\ fileOpen' = FALSE
  /\ UNCHANGED <<dlVars, notify, fileVars, closed, closing, cancelled,
                 readVars, gateVars>>

ClUnregister(c) ==
  /\ ClGoto(c, "unregister", "remove")
  /\ registered' = FALSE
  /\ UNCHANGED <<dlVars, notify, path, target, evicting, fileOpen, closed,
                 closing, cancelled, readVars, gateVars>>

(* os.Remove; a path that is gone already is no error.                     *)
ClRemove(c) ==
  /\ \/ ClGoto(c, "remove", "released") /\ path' = "none"
     \/ ClGoto(c, "remove", "notRemoved") /\ UNCHANGED path
  /\ UNCHANGED <<dlVars, notify, target, registered, evicting, fileOpen,
                 closed, closing, cancelled, readVars, gateVars>>

(* sync.WaitGroup.Wait, run by the goroutine of its own: it returns at     *)
(* once when nobody is counted, else sleeps until the last Done.  Waking   *)
(* up to a counter that has grown again panics.                            *)
WaiterStep ==
  /\ ~panicked
  /\ \/ waiter \in {"started", "woken"} /\ inFlight = {}
        /\ waiter' = "done" /\ UNCHANGED panicked
     \/ waiter = "started" /\ inFlight # {}
        /\ waiter' = "asleep" /\ UNCHANGED panicked
     \/ waiter = "woken" /\ inFlight # {}
        /\ panicked' = TRUE /\ UNCHANGED waiter
  /\ UNCHANGED <<dlVars, notify, fileVars, closeVars, readVars, inFlight>>

(* What a CloseWithContext call does, its caller and its context aside.    *)
CloserStep(c) ==
  ClFlag(c) \/ ClCancel(c) \/ ClDownloaderDone(c) \/ ClReadersDone(c)
  \/ ClHandle(c) \/ ClUnregister(c) \/ ClRemove(c)

-----------------------------------------------------------------------------
(* TempFileManager.EnsureSpaceAvailable, on behalf of another staging,     *)
(* picks this file: it leaves the table under the manager's lock, then the *)
(* file is removed, if the removal succeeds.                               *)

EvictEntry ==
  /\ ~panicked /\ Evictable
  /\ registered
  /\ registered' = FALSE
  /\ evicting' = TRUE
  /\ UNCHANGED <<dlVars, notify, path, target, closeVars, readVars, gateVars>>

EvictFile ==
  /\ ~panicked
  /\ evicting
  /\ evicting' = FALSE
  /\ path' \in {"none", path}
  /\ UNCHANGED <<dlVars, notify, target, registered, closeVars, readVars,
                 gateVars>>

(* The process is gone.                                                    *)
Dead == panicked /\ UNCHANGED vars

Next ==
  \/ Downloader
  \/ \E r \in Readers : RdCall(r) \/ ReaderStep(r) \/ RdContextDone(r)
  \/ \E c \in Closers : \/ ClCall(c) \/ CloserStep(c)
                        \/ ClDownloaderTimeout(c) \/ ClReadersTimeout(c)
  \/ WaiterStep
  \/ EvictEntry \/ EvictFile
  \/ Dead

Spec == Init /\ [][Next]_vars

(* Goroutines are scheduled, a body ends or breaks off within the client's *)
(* five-minute timeout.  No context needs to expire, nobody needs to call. *)
Fairness ==
  /\ WF_vars(Downloader)
  /\ \A r \in Readers : WF_vars(ReaderStep(r))
  /\ \A c \in Closers : WF_vars(CloserStep(c))
  /\ WF_vars(WaiterStep)

FairSpec == Spec /\ Fairness

-----------------------------------------------------------------------------
(* Properties.                                                             *)

DlStates == {"open", "request", "loop", "read", "publish", "signal",
             "verdict", "return", "notifyClosed", "doneClosed", "exited"}
RdStates == {"idle", "gate", "enter", "recheck", "loop", "progress", "error",
             "select", "handle", "pread", "leave"}
ClStates == {"idle", "flag", "cancel", "downloader", "readers", "handle",
             "unregister", "remove", "released", "notRemoved", "timedOut",
             "alreadyClosed"}
WtStates == {"none", "started", "asleep", "woken", "done"}
Results  == [n : Nat,
             err : {"none", "nil", "EOF", "closed", "download", "context",
                    "io"}]

FlagsOK ==
  /\ failed \in BOOLEAN /\ cancelled \in BOOLEAN
  /\ registered \in BOOLEAN /\ evicting \in BOOLEAN
  /\ fileOpen \in BOOLEAN /\ closed \in BOOLEAN /\ closing \in BOOLEAN
  /\ panicked \in BOOLEAN

ValuesOK ==
  /\ dlpc \in DlStates
  /\ total \in 0..MaxBody
  /\ readErr \in {"nil", "EOF", "fail"}
  /\ downloaded \in 0..MaxBody \cup {Size}
  /\ notify \in 0..NotifyCap
  /\ path \in {"orig", "fresh", "none"}
  /\ target \in {"orig", "fresh", "none"}
  /\ cpc \in [Closers -> ClStates]
  /\ waiter \in WtStates
  /\ inFlight \subseteq Readers
  /\ rpc \in [Readers -> RdStates]
  /\ req \in [Readers -> Requests]
  /\ ret \in [Readers -> Results]

(* Every variable holds a value the code can give it: in particular the    *)
(* published progress is what was written, or the size once a body ended.  *)
TypeOK == FlagsOK /\ ValuesOK

(* READAT_CLOSE_RACE_FIX: the shared handle is closed only while no ReadAt *)
(* is inside the system call on it, and no ReadAt enters it afterwards.    *)
Gate == INSTANCE ReadersGate
          WITH Users <- Readers,
               open  <- fileOpen,
               using <- {r \in Readers : rpc[r] = "pread"}

GateSpec == Gate!Spec

(* Why the gate holds, as an inductive invariant: the WaitGroup counts the *)
(* readers that are past Add; there is one winning closer, which sets the  *)
(* flag before it starts the waiter; and once the waiter is through, no    *)
(* reader that saw the flag clear is left.                                 *)
Counted   == RdStates \ {"idle", "gate", "enter"}
Committed == {"loop", "progress", "error", "select", "handle", "pread"}

Won      == ClStates \ {"idle", "alreadyClosed"}
Flagging == {"flag", "cancel", "downloader"}
Shutting == {"handle", "unregister", "remove", "released", "notRemoved"}

GateInv ==
  /\ inFlight = {r \in Readers : rpc[r] \in Counted}
  /\ \A c, d \in Closers : cpc[c] \in Won /\ cpc[d] \in Won => c = d
  /\ \A c \in Closers : cpc[c] \in Won => closed
  /\ \A c \in Closers : cpc[c] \in Won \ {"flag"} => closing
  /\ \A c \in Closers : cpc[c] \in Flagging => waiter = "none" /\ fileOpen
  /\ \A c \in Closers : cpc[c] \in Shutting => waiter = "done"
  /\ ~closed => waiter = "none" /\ fileOpen
  /\ waiter # "none" => closing
  /\ ~fileOpen => waiter = "done"
  /\ waiter = "done" => \A r \in Readers : rpc[r] \notin Committed

(* A successful ReadAt, or one that reports the end of the file, delivers  *)
(* everything it was asked for up to the size of the file, unless the      *)
(* server's body was shorter than announced or the file was evicted before *)
(* the downloader opened it.                                               *)
Shortened == \/ target = "fresh"
             \/ readErr = "EOF" /\ total < Size

FullLength(q) == IF q.off >= Size THEN 0 ELSE WantEnd(q) - q.off

ReadComplete ==
  \A r \in Readers :
    rpc[r] = "leave" /\ ret[r].err \in {"nil", "EOF"}
      => ret[r].n = FullLength(req[r]) \/ Shortened

(* Once a Close that was not cut short by its context has returned, and no *)
(* eviction is half done, the handle is closed, the manager has no entry,  *)
(* and the file is gone and stays gone: no downloader brings it back.      *)
Releases ==
  \A c \in Closers \ TimedClosers :
    cpc[c] = "released" => ~fileOpen /\ ~registered /\ path = "none"

(* CONCURRENCY_FIX.md: "No missed signals possible".  While the downloader *)
(* sits in Body.Read, a reader blocked in the select whose data has been   *)
(* published finds a token to wake up by.                                  *)
NoLostWakeup ==
  \A r \in Readers :
    rpc[r] = "select" /\ dlpc = "read" /\ downloaded >= WantEnd(req[r])
      => notify > 0

(* store.go: ReadAt and Close may be called from any goroutine at any      *)
(* time; the WaitGroup between them never panics.                          *)
NoPanic == ~panicked

(* Every ReadAt call returns, a Close or an error from the server included *)
(* (the process may die first).                                            *)
ReadReturns ==
  \A r \in Readers : rpc[r] # "idle" ~> rpc[r] = "idle" \/ panicked

(* Every CloseWithContext call returns: cancelling the download frees the  *)
(* readers it waits for.                                                   *)
ClReturned == {"idle", "released", "notRemoved", "timedOut", "alreadyClosed"}

CloseReturns ==
  \A c \in Closers :
    cpc[c] \notin ClReturned ~> cpc[c] \in ClReturned \/ panicked
=============================================================================
