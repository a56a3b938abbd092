--------------------------- MODULE Services_proofs ---------------------------
(***************************************************************************)
(* The properties of the components around the file system and its stores, *)
(* for any number of goroutines and files.  Each small component has its   *)
(* inductive invariant here; those of the fetcher and of the daemon are in *)
(* modules of their own.                                                   *)
(***************************************************************************)
EXTENDS MC_Services, Fetcher_proofs, AppLifecycle_proofs

-----------------------------------------------------------------------------
(* The logger, for any number of goroutines that log and any size of the   *)
(* channel and of the file.  Close is safe because the goroutine of the    *)
(* writer ends only after the end was signalled and the channel found empty, *)
(* and Close touches the file only after that.                             *)

(* The lines in the channel are later than the end that was signalled.     *)
OnlyLate == \A i \in 1..Len(logChan) : logChan[i].n > early[logChan[i].from]

(* The writer's goroutine, the signal and Close.                           *)
Ending ==
  /\ writer \in {"drain", "ended"} => logDone
  /\ writer = "ended" => OnlyLate
  /\ keeper \in {"closed", "failed"} => writer = "ended"
  /\ \A w \in Writers : early[w] <= sent[w]

(* What became of the file.                                                *)
Filing ==
  /\ logFile = "open" => logSize < RotateAt
  /\ writer \in {"loop", "drain"} /\ logFile # "open" => ioFailed
  /\ LogLostByFailure

LoggerInv == LoggerTypeOK /\ Ending /\ Filing

(* Nothing is logged, and no goroutine writes.                             *)
LEMMA LoggerInitial == LoggerInit => LoggerInv
<1> SUFFICES ASSUME LoggerInit PROVE LoggerInv
  OBVIOUS
<1> USE LoggerAssumption DEF LoggerInit
<1>1. LoggerTypeOK
  <2>1. logChan \in Seq(Line) /\ Len(logChan) <= LogBuffer
    OBVIOUS
  <2>2. /\ sent \in [Writers -> 0..MaxLines]
        /\ early \in [Writers -> 0..MaxLines]
        /\ logSize \in 0..RotateAt
    OBVIOUS
  <2> QED
    BY <2>1, <2>2 DEF LoggerTypeOK
<1>2. Ending
  BY DEF Ending
<1>3. Filing
  BY DEF Filing, LogLostByFailure
<1> QED
  BY <1>1, <1>2, <1>3 DEF LoggerInv

(* A line that is logged now is later than any end signalled before.       *)
LEMMA PrintfKeeps ==
  ASSUME LoggerInv, NEW w \in Writers, Printf(w)
  PROVE  /\ sent' \in [Writers -> 0..MaxLines]
         /\ \A v \in Writers : sent[v] <= sent'[v]
         /\ logChan' \in Seq(Line) /\ Len(logChan') <= LogBuffer
         /\ OnlyLate =>
              \A i \in 1..Len(logChan') :
                logChan'[i].n > early[logChan'[i].from]
<1> USE LoggerAssumption DEF LoggerInv, LoggerTypeOK
<1>1. /\ sent' \in [Writers -> 0..MaxLines]
      /\ \A v \in Writers : sent[v] <= sent'[v]
      /\ sent'[w] = sent[w] + 1
  BY DEF Printf
<1> DEFINE line == [from |-> w, n |-> sent'[w]]
<1>2. line \in Line /\ line.n > early[line.from]
  BY <1>1 DEF Line, Ending, Printf
<1>3. CASE Len(logChan) < LogBuffer
  <2>1. logChan' = Append(logChan, line)
    BY <1>3 DEF Printf
  <2> QED
    BY <1>1, <1>2, <1>3, <2>1 DEF OnlyLate
<1>4. CASE ~(Len(logChan) < LogBuffer)
  BY <1>1, <1>4 DEF Printf, OnlyLate
<1> QED
  BY <1>3, <1>4

(* Every step keeps the invariant.                                         *)
LEMMA LoggerStep == LoggerInv /\ [LoggerNext]_loggerVars => LoggerInv'
<1> SUFFICES ASSUME LoggerInv, [LoggerNext]_loggerVars PROVE LoggerInv'
  OBVIOUS
<1> USE LoggerAssumption
<1>1. CASE UNCHANGED loggerVars
  BY <1>1 DEF LoggerInv, LoggerTypeOK, Ending, OnlyLate, Filing,
              LogLostByFailure, loggerVars, fileVars
<1>2. CASE LogOpen
  <2> USE <1>2 DEF LogOpen, OpenLogFile
  <2>1. LoggerTypeOK'
    BY PrintfKeeps DEF LoggerInv, LoggerTypeOK
  <2>2. Ending'
    BY PrintfKeeps DEF LoggerInv, LoggerTypeOK, Ending
  <2>3. Filing'
    BY DEF LoggerInv, LoggerTypeOK, Filing, LogLostByFailure
  <2> QED
    BY <2>1, <2>2, <2>3 DEF LoggerInv
<1>3. ASSUME NEW w \in Writers, LogWrite(w) PROVE LoggerInv'
  <2> USE <1>3 DEF LogWrite
  <2>1. LoggerTypeOK'
    BY PrintfKeeps DEF LoggerInv, LoggerTypeOK, fileVars
  <2>2. Ending'
    <3>1. /\ \A v \in Writers : sent[v] <= sent'[v]
          /\ sent' \in [Writers -> 0..MaxLines]
          /\ OnlyLate => OnlyLate'
      BY PrintfKeeps DEF LoggerInv, OnlyLate
    <3>2. \A v \in Writers : early'[v] <= sent'[v]
      BY <3>1 DEF LoggerInv, LoggerTypeOK, Ending
    <3> QED
      BY <3>1, <3>2 DEF LoggerInv, Ending
  <2>3. Filing'
    BY DEF LoggerInv, Filing, LogLostByFailure, fileVars
  <2> QED
    BY <2>1, <2>2, <2>3 DEF LoggerInv
<1>4. CASE LogTake
  <2>1. LoggerTypeOK'
    <3>1. logChan' \in Seq(Line) /\ Len(logChan') <= LogBuffer
      BY <1>4 DEF LogTake, LoggerInv, LoggerTypeOK
    <3>2. /\ logFile' \in {"none", "open", "dead"}
          /\ logSize' \in 0..RotateAt
      BY <1>4 DEF LogTake, WriteToFile, Rotate, LoggerInv, LoggerTypeOK, Filing
    <3>3. lost' \in BOOLEAN /\ ioFailed' \in BOOLEAN
      BY <1>4 DEF LogTake, WriteToFile, Rotate, LoggerInv, LoggerTypeOK
    <3> QED
      BY <1>4, <3>1, <3>2, <3>3 DEF LogTake, LoggerInv, LoggerTypeOK
  <2>2. Ending'
    BY <1>4 DEF LogTake, LoggerInv, LoggerTypeOK, Ending
  <2>3. Filing'
    <3>1. logFile' = "open" => logSize' < RotateAt
      BY <1>4 DEF LogTake, WriteToFile, Rotate, LoggerInv, LoggerTypeOK, Filing
    <3>2. logFile' # "open" => ioFailed'
      BY <1>4 DEF LogTake, WriteToFile, Rotate, LoggerInv, Filing
    <3>3. lost' => ioFailed'
      <4>1. CASE UNCHANGED lost
        <5>1. ioFailed => ioFailed'
          BY <1>4 DEF LogTake, WriteToFile, Rotate
        <5> QED
          BY <4>1, <5>1 DEF LoggerInv, Filing, LogLostByFailure
      <4>2. CASE logFile # "none" /\ ioFailed' = TRUE
        BY <4>2
      <4>3. CASE logFile = "none" /\ UNCHANGED ioFailed
        BY <1>4, <4>3 DEF LogTake, LoggerInv, Filing
      <4> QED
        BY <1>4, <4>1, <4>2, <4>3 DEF LogTake, WriteToFile
    <3> QED
      BY <3>1, <3>2, <3>3 DEF Filing, LogLostByFailure
  <2> QED
    BY <2>1, <2>2, <2>3 DEF LoggerInv
<1>5. CASE LogStop
  BY <1>5 DEF LogStop, LoggerInv, LoggerTypeOK, Ending, OnlyLate, Filing,
              LogLostByFailure, fileVars
<1>6. CASE LogDrained
  BY <1>6 DEF LogDrained, LoggerInv, LoggerTypeOK, Ending, OnlyLate, Filing,
              LogLostByFailure, fileVars
<1>7. CASE LogClose
  <2> USE <1>7 DEF LogClose
  <2>1. LoggerTypeOK'
    BY PrintfKeeps DEF LoggerInv, LoggerTypeOK, fileVars
  <2>2. Ending'
    <3>1. /\ \A v \in Writers : sent[v] <= sent'[v]
          /\ sent' \in [Writers -> 0..MaxLines]
          /\ OnlyLate => OnlyLate'
      BY PrintfKeeps DEF LoggerInv, OnlyLate
    <3>2. \A v \in Writers : early'[v] <= sent'[v]
      BY <3>1 DEF LoggerInv, LoggerTypeOK, Ending
    <3> QED
      BY <3>1, <3>2 DEF LoggerInv, Ending
  <2>3. Filing'
    BY DEF LoggerInv, Filing, LogLostByFailure, fileVars
  <2> QED
    BY <2>1, <2>2, <2>3 DEF LoggerInv
<1>8. CASE LogSignal
  <2>1. LoggerTypeOK'
    BY <1>8 DEF LogSignal, LoggerInv, LoggerTypeOK, fileVars
  <2>2. Ending'
    BY <1>8 DEF LogSignal, LoggerInv, LoggerTypeOK, Ending, OnlyLate
  <2>3. Filing'
    BY <1>8 DEF LogSignal, LoggerInv, Filing, LogLostByFailure, fileVars
  <2> QED
    BY <2>1, <2>2, <2>3 DEF LoggerInv
<1>9. CASE LogCloseFile
  <2>1. LoggerTypeOK'
    BY <1>9 DEF LogCloseFile, LoggerInv, LoggerTypeOK
  <2>2. Ending'
    BY <1>9 DEF LogCloseFile, LoggerInv, Ending, OnlyLate
  <2>3. Filing'
    BY <1>9 DEF LogCloseFile, LoggerInv, Filing, LogLostByFailure
  <2> QED
    BY <2>1, <2>2, <2>3 DEF LoggerInv
<1> QED
  BY <1>1, <1>2, <1>3, <1>4, <1>5, <1>6, <1>7, <1>8, <1>9
     DEF LoggerNext, WriterLoop

(* The goroutine, the channel and the file go together in every state.     *)
THEOREM LoggerInvariant == LoggerSpec => []LoggerInv
BY LoggerInitial, LoggerStep, PTL DEF LoggerSpec

(* Close flushes: when it has returned, what is in the channel was logged  *)
(* after it signalled the end.                                             *)
THEOREM CloseFlushes == LoggerSpec => []LogCloseFlushes
<1>1. LoggerInv => LogCloseFlushes
  BY DEF LoggerInv, Ending, OnlyLate, LogCloseFlushes
<1> QED
  BY <1>1, LoggerInvariant, PTL

(* No line is lost to a file that Close has shut.                          *)
THEOREM LostByFailure == LoggerSpec => []LogLostByFailure
<1>1. LoggerInv => LogLostByFailure
  BY DEF LoggerInv, Filing
<1> QED
  BY <1>1, LoggerInvariant, PTL

-----------------------------------------------------------------------------
(* The token cache, for any number of callers and any lifetimes: who asks  *)
(* the server holds the lock and finds no usable token, and what the cache *)
(* reckons is at most AskTimeout later than the truth.                     *)

Asking(c) == gpc[c] \in {"asking", "issued"}

(* The lock and the requests.                                              *)
LockHeld ==
  \A c \in Callers : /\ Asking(c) <=> tokenMu = c
                     /\ Asking(c) => ~Usable /\ asked[c] <= now

(* The two reckonings of a token's end, by the server and in the cache.    *)
Reckoned ==
  /\ \A c \in Callers :
       gpc[c] = "issued" => /\ asked[c] + issued[c].life <= issued[c].expires
                            /\ issued[c].expires <= now + issued[c].life
  /\ cached.until <= cached.expires + AskTimeout

TokenInv == TokenTypeOK /\ LockHeld /\ Reckoned /\ CachedTokenAlive

(* GetToken starts with an empty cache and the lock free.                  *)
LEMMA TokenInitial == TokenInit => TokenInv
BY TokenCacheAssumption
   DEF TokenInit, TokenInv, TokenTypeOK, LockHeld, Reckoned, CachedTokenAlive,
       Asking, Usable, NoToken, NoIssue, NoReturn

(* Taking the cached token gives one the server still accepts.             *)
LEMMA TakenAlive ==
  ASSUME TokenInv, NEW c \in Callers, TakeCached(c)
  PROVE  /\ returned' \in [Callers -> [expires : Nat, at : 0..MaxTime]]
         /\ \A d \in Callers : returned'[d].at < returned'[d].expires
<1>1. now < cached.expires
  BY TokenCacheAssumption DEF TokenInv, TokenTypeOK, Reckoned, TakeCached, Usable
<1>2. returned' = [returned EXCEPT ![c] = [expires |-> cached.expires,
                                           at |-> now]]
  BY DEF TakeCached
<1> QED
  BY <1>1, <1>2 DEF TokenInv, TokenTypeOK, CachedTokenAlive

(* Every step of GetToken keeps the invariant.                             *)
LEMMA TokenStep == TokenInv /\ [TokenNext]_tokenVars => TokenInv'
<1> SUFFICES ASSUME TokenInv, [TokenNext]_tokenVars PROVE TokenInv'
  OBVIOUS
<1> USE TokenCacheAssumption
<1>1. CASE UNCHANGED tokenVars
  BY <1>1 DEF TokenInv, TokenTypeOK, LockHeld, Reckoned, CachedTokenAlive,
              Asking, Usable, tokenVars
<1>2. CASE Tick
  BY <1>2 DEF Tick, TokenInv, TokenTypeOK, LockHeld, Reckoned,
              CachedTokenAlive, Asking, Usable
<1>3. ASSUME NEW c \in Callers, TcLookup(c) PROVE TokenInv'
  <2>1. CASE TakeCached(c) /\ gpc' = gpc
    BY <1>3, <2>1, TakenAlive
       DEF TcLookup, TokenInv, TokenTypeOK, LockHeld, Reckoned,
           CachedTokenAlive, Asking, Usable
  <2>2. CASE TcGoto(c, "idle", "missed") /\ UNCHANGED returned
    BY <1>3, <2>2
       DEF TcLookup, TcGoto, TokenInv, TokenTypeOK, LockHeld, Reckoned,
           CachedTokenAlive, Asking, Usable
  <2> QED
    BY <1>3, <2>1, <2>2 DEF TcLookup, TcGoto, TokenInv, TokenTypeOK
<1>4. ASSUME NEW c \in Callers, TcLock(c) PROVE TokenInv'
  <2>1. CASE /\ TakeCached(c) /\ TcGoto(c, "missed", "idle")
             /\ UNCHANGED <<tokenMu, asked>>
    BY <1>4, <2>1, TakenAlive
       DEF TcLock, TcGoto, TokenInv, TokenTypeOK, LockHeld, Reckoned,
           CachedTokenAlive, Asking, Usable
  <2>2. CASE ~Usable /\ Ask(c)
    BY <1>4, <2>2
       DEF TcLock, Ask, TcGoto, TokenInv, TokenTypeOK, LockHeld, Reckoned,
           CachedTokenAlive, Asking, Usable
  <2> QED
    BY <1>4, <2>1, <2>2 DEF TcLock
<1>5. ASSUME NEW c \in Callers, TcIssue(c) PROVE TokenInv'
  <2>1. PICK life \in Lifetimes :
          issued' = [issued EXCEPT ![c] = [expires |-> now + life,
                                           life |-> life]]
    BY <1>5 DEF TcIssue
  <2> QED
    BY <1>5, <2>1
       DEF TcIssue, TcGoto, TokenInv, TokenTypeOK, LockHeld, Reckoned,
           CachedTokenAlive, Asking, Usable
<1>6. ASSUME NEW c \in Callers, TcAnswer(c) PROVE TokenInv'
  BY <1>6
     DEF TcAnswer, TcUnlock, TcGoto, TokenInv, TokenTypeOK, LockHeld, Reckoned,
         CachedTokenAlive, Asking, Usable, NoIssue
<1>7. ASSUME NEW c \in Callers, TcFail(c) PROVE TokenInv'
  BY <1>7
     DEF TcFail, TcUnlock, TcGoto, TokenInv, TokenTypeOK, LockHeld, Reckoned,
         CachedTokenAlive, Asking, Usable, NoIssue
<1> QED
  BY <1>1, <1>2, <1>3, <1>4, <1>5, <1>6, <1>7 DEF TokenNext

(* The lock, the requests and the two reckonings go together in every      *)
(* state of the cache.                                                     *)
THEOREM TokenInvariant == TokenSpec => []TokenInv
BY TokenInitial, TokenStep, PTL DEF TokenSpec

(* Whatever the callers, the margin and the lifetimes: a token taken from  *)
(* the cache has not expired, provided the margin is no shorter than a     *)
(* request may take.                                                       *)
THEOREM TokensAlive == TokenSpec => []CachedTokenAlive
BY TokenInvariant, PTL DEF TokenInv

(* One caller at a time asks the server, and only without a usable token.  *)
THEOREM OneRequest == TokenSpec => []NoNeedlessRequest
<1>1. TokenInv => NoNeedlessRequest
  BY DEF TokenInv, TokenTypeOK, LockHeld, NoNeedlessRequest, Asking
<1> QED
  BY <1>1, TokenInvariant, PTL

-----------------------------------------------------------------------------
(* Sleep prevention, for any number of handles and of waiting goroutines.  *)
(* What SleepCovered needs to be inductive is the goroutine between its look *)
(* for open handles and the end it puts to the prevention: a handle opened *)
(* in between has left one that enables.                                   *)

EnablerWaits == disabler = "empty" /\ fhToStore # {} => enabling > 0

(* Without a handle, and without a goroutine that disables, it is off.     *)
OffWithoutHandles ==
  fhToStore = {} /\ disabling = 0 /\ disabler = "none" =>
    ~sleepRelease \/ overtaken

SleepInv ==
  /\ SleepTypeOK /\ IsFiniteSet(fhToStore)
  /\ EnablerWaits /\ SleepCovered /\ OffWithoutHandles

(* No handle is open and no goroutine waits.                               *)
LEMMA SleepInitial == SleepInit => SleepInv
<1> SUFFICES ASSUME SleepInit PROVE SleepInv
  OBVIOUS
<1>1. SleepTypeOK
  <2>1. 0 \in 0..MaxTasks
    BY SleepAssumption
  <2> QED
    BY <2>1 DEF SleepInit, SleepTypeOK
<1>2. IsFiniteSet(fhToStore)
  BY FS_EmptySet DEF SleepInit
<1>3. EnablerWaits /\ SleepCovered /\ OffWithoutHandles
  BY DEF SleepInit, EnablerWaits, SleepCovered, OffWithoutHandles
<1> QED
  BY <1>1, <1>2, <1>3 DEF SleepInv

(* Open starts a goroutine exactly if its handle is the only one.          *)
LEMMA FirstHandle ==
  ASSUME SleepInv, NEW fh \in Handles, SlOpen(fh)
  PROVE  /\ IsFiniteSet(fhToStore')
         /\ enabling' \in 0..MaxTasks
         /\ fhToStore = {} => enabling' = enabling + 1
         /\ fhToStore # {} => enabling' = enabling
<1> USE SleepAssumption
<1>1. IsFiniteSet(fhToStore')
  BY FS_AddElement DEF SleepInv, SlOpen
<1>2. Cardinality(fhToStore') = Cardinality(fhToStore) + 1
  BY FS_AddElement DEF SleepInv, SlOpen
<1>3. Cardinality(fhToStore) \in Nat /\ (Cardinality(fhToStore) = 0 <=> fhToStore = {})
  BY FS_CardinalityType, FS_EmptySet DEF SleepInv
<1> QED
  BY <1>1, <1>2, <1>3 DEF SlOpen, SleepInv, SleepTypeOK

(* Every step keeps the invariant.                                         *)
LEMMA SleepStep == SleepInv /\ [SleepNext]_sleepVars => SleepInv'
<1> SUFFICES ASSUME SleepInv, [SleepNext]_sleepVars PROVE SleepInv'
  OBVIOUS
<1> USE SleepAssumption
<1>1. CASE UNCHANGED sleepVars
  BY <1>1 DEF SleepInv, SleepTypeOK, EnablerWaits, SleepCovered,
              OffWithoutHandles, sleepVars
<1>2. ASSUME NEW fh \in Handles, SlOpen(fh) PROVE SleepInv'
  <2>1. fhToStore' # {} /\ fhToStore' \subseteq Handles
    BY <1>2 DEF SlOpen, SleepInv, SleepTypeOK
  <2>2. SleepTypeOK' /\ IsFiniteSet(fhToStore)'
    BY <1>2, <2>1, FirstHandle DEF SlOpen, SleepInv, SleepTypeOK
  <2>3. /\ fhToStore = {} => enabling' = enabling + 1
        /\ fhToStore # {} => enabling' = enabling
    BY <1>2, FirstHandle
  <2>4. EnablerWaits' /\ SleepCovered' /\ OffWithoutHandles'
    BY <1>2, <2>1, <2>3
       DEF SlOpen, SleepInv, SleepTypeOK, EnablerWaits, SleepCovered,
           OffWithoutHandles
  <2> QED
    BY <2>2, <2>4 DEF SleepInv
<1>3. ASSUME NEW fh \in Handles, SlRelease(fh) PROVE SleepInv'
  <2>1. IsFiniteSet(fhToStore')
    BY <1>3, FS_RemoveElement DEF SlRelease, SleepInv
  <2> QED
    BY <1>3, <2>1
       DEF SlRelease, SleepInv, SleepTypeOK, EnablerWaits, SleepCovered,
           OffWithoutHandles
<1>4. CASE SlEnable
  <2>1. enabling' \in 0..MaxTasks
    BY <1>4 DEF SlEnable, Enable, PreventSleep, SleepInv, SleepTypeOK
  <2>2. /\ sleepRelease' \in BOOLEAN /\ refused' \in BOOLEAN
        /\ overtaken' \in BOOLEAN
    BY <1>4 DEF SlEnable, Enable, PreventSleep, SleepInv, SleepTypeOK
  <2>3. SleepTypeOK'
    BY <1>4, <2>1, <2>2 DEF SlEnable, Enable, PreventSleep, SleepInv, SleepTypeOK
  <2>4. IsFiniteSet(fhToStore)' /\ EnablerWaits'
    BY <1>4 DEF SlEnable, Enable, PreventSleep, SleepInv, EnablerWaits
  <2>5. sleepRelease' \/ refused'
    <3>1. CASE sleepRelease /\ UNCHANGED sleepRelease
      BY <3>1
    <3>2. CASE PreventSleep(TRUE)
      BY <3>2 DEF PreventSleep
    <3>3. CASE PreventSleep(FALSE)
      BY <3>3 DEF PreventSleep
    <3> QED
      BY <1>4, <3>1, <3>2, <3>3, Zenon DEF SlEnable, Enable
  <2>6. OffWithoutHandles'
    <3>1. CASE sleepRelease \/ ~sleepRelease'
      <4>1. ~sleepRelease' \/ UNCHANGED <<sleepRelease, overtaken>>
        BY <1>4, <3>1 DEF SlEnable, Enable, PreventSleep
      <4>2. UNCHANGED <<fhToStore, disabling, disabler>>
        BY <1>4 DEF SlEnable, Enable, PreventSleep
      <4> QED
        BY <4>1, <4>2 DEF SleepInv, OffWithoutHandles
    <3>2. CASE ~sleepRelease /\ sleepRelease'
      <4>1. overtaken' = (fhToStore = {} /\ disabling = 0)
        BY <1>4, <3>2, Zenon DEF SlEnable, Enable, PreventSleep
      <4> QED
        BY <1>4, <4>1 DEF SlEnable, Enable, PreventSleep, OffWithoutHandles
    <3> QED
      BY <3>1, <3>2
  <2> QED
    BY <2>3, <2>4, <2>5, <2>6 DEF SleepInv, SleepCovered
<1>5. CASE SlDisableCheck
  BY <1>5 DEF SlDisableCheck, SleepInv, SleepTypeOK, EnablerWaits,
              SleepCovered, OffWithoutHandles
<1>6. CASE SlDisable
  <2>1. SleepTypeOK' /\ IsFiniteSet(fhToStore)'
    BY <1>6 DEF SlDisable, ReleaseSleep, SleepInv, SleepTypeOK
  <2>2. fhToStore' # {} => enabling' > 0
    BY <1>6 DEF SlDisable, ReleaseSleep, SleepInv, EnablerWaits
  <2>3. SleepCovered' /\ EnablerWaits' /\ OffWithoutHandles'
    BY <1>6, <2>2 DEF SlDisable, ReleaseSleep, SleepInv, EnablerWaits, SleepCovered,
                      SleepTypeOK, OffWithoutHandles
  <2> QED
    BY <2>1, <2>3 DEF SleepInv
<1>7. CASE SlStop
  BY <1>7 DEF SlStop, ReleaseSleep, SleepInv, SleepTypeOK, EnablerWaits, SleepCovered,
              OffWithoutHandles
<1> QED
  BY <1>1, <1>2, <1>3, <1>4, <1>5, <1>6, <1>7 DEF SleepNext

(* The handles and the goroutines go together in every state.              *)
THEOREM SleepInvariant == SleepSpec => []SleepInv
BY SleepInitial, SleepStep, PTL DEF SleepSpec

(* Once the goroutines that enable have run, an open handle keeps the      *)
(* system awake, in whatever order Open's and Release's goroutines run.    *)
THEOREM HandlesKeepAwake == SleepSpec => []SleepCovered
BY SleepInvariant, PTL DEF SleepInv

(* And once all have run, without a handle the system may sleep, but for   *)
(* an Open's goroutine that comes after its handle was released.           *)
THEOREM NoStraySleepPrevention == SleepSpec => []NoStrayPrevention
<1>1. SleepInv => NoStrayPrevention
  BY DEF SleepInv, SleepTypeOK, OffWithoutHandles, NoStrayPrevention
<1> QED
  BY <1>1, SleepInvariant, PTL

-----------------------------------------------------------------------------
(* The watchdog, for any number of operations and of goroutines that start *)
(* and stop it.  Until it is started after a stop, each channel has one    *)
(* goroutine that is still to close it, or has been closed by that one.    *)

OneShot ==
  /\ enabled => ~halted
  /\ ~halted => ~stopCh /\ \A u \in Users : upc[u] \notin {"close", "wait"}
  /\ ~enabled /\ ~halted =>
       monitors = 0 /\ ~stopped /\ \A u \in Users : upc[u] # "go"
  /\ \A u, v \in Users : upc[u] = "go" /\ upc[v] = "go" => u = v
  /\ \A u, v \in Users : upc[u] = "close" /\ upc[v] = "close" => u = v
  /\ \A u \in Users : upc[u] = "close" => ~stopCh
  /\ \A u \in Users : upc[u] = "go" => monitors = 0 /\ ~stopped
  /\ monitors <= 1 /\ (monitors = 1 => ~stopped)

WatchdogInv ==
  /\ WatchdogTypeOK /\ IsFiniteSet(inflight)
  /\ ~restarted => OneShot
  /\ WatchdogPanics

(* WatchdogTypeOK in parts: the operations, and starting and stopping.     *)
OpTypes ==
  /\ inflight = {o \in Ops : opc[o] = "in"}
  /\ opCounts = Cardinality(inflight) /\ IsFiniteSet(inflight)
  /\ opc \in [Ops -> {"out", "seen", "in", "uncounted"}]

UserTypes ==
  /\ monitors \in Nat
  /\ upc \in [Users -> {"idle", "go", "close", "wait"}]
  /\ starts \in 0..MaxStarts

WdFlagTypes ==
  /\ enabled \in BOOLEAN /\ stopCh \in BOOLEAN /\ stopped \in BOOLEAN
  /\ halted \in BOOLEAN /\ restarted \in BOOLEAN /\ wdPanicked \in BOOLEAN

LEMMA WatchdogTypeParts ==
  WatchdogTypeOK /\ IsFiniteSet(inflight) <=> OpTypes /\ UserTypes /\ WdFlagTypes
BY Zenon DEF WatchdogTypeOK, OpTypes, UserTypes, WdFlagTypes

LEMMA WatchdogInitial == WatchdogInit => WatchdogInv
<1> SUFFICES ASSUME WatchdogInit PROVE WatchdogInv
  OBVIOUS
<1> USE DEF WatchdogInit
<1>1. OpTypes
  BY FS_EmptySet DEF OpTypes
<1>2. UserTypes
  BY WatchdogAssumption DEF UserTypes, WatchdogAssumption
<1>3. WdFlagTypes
  BY DEF WdFlagTypes
<1>4. OneShot /\ WatchdogPanics
  BY DEF OneShot, WatchdogPanics
<1> QED
  BY <1>1, <1>2, <1>3, <1>4, WatchdogTypeParts DEF WatchdogInv

LEMMA OpTypesStep == WatchdogInv /\ [WatchdogNext]_watchdogVars => OpTypes'
<1> SUFFICES ASSUME WatchdogInv, [WatchdogNext]_watchdogVars PROVE OpTypes'
  OBVIOUS
<1>1. OpTypes
  BY WatchdogTypeParts DEF WatchdogInv
<1>2. CASE UNCHANGED opVars
  BY <1>1, <1>2 DEF OpTypes, opVars
<1>3. ASSUME NEW o \in Ops, WdEnter(o) PROVE OpTypes'
  <2>1. inflight' = {p \in Ops : opc'[p] = "in"}
    BY <1>1, <1>3 DEF OpTypes, WdEnter, OpGoto
  <2> QED
    BY <1>1, <1>3, <2>1 DEF OpTypes, WdEnter, OpGoto
<1>4. ASSUME NEW o \in Ops, WdCount(o) PROVE OpTypes'
  <2>1. o \notin inflight /\ inflight' = inflight \cup {o} /\ opCounts' = opCounts + 1
    BY <1>1, <1>4 DEF OpTypes, WdCount, OpGoto
  <2>2. inflight' = {p \in Ops : opc'[p] = "in"}
    BY <1>1, <1>4 DEF OpTypes, WdCount, OpGoto
  <2>3. IsFiniteSet(inflight)
    BY <1>1 DEF OpTypes
  <2>4. /\ IsFiniteSet(inflight \cup {o})
        /\ Cardinality(inflight \cup {o}) = Cardinality(inflight) + 1
    BY <2>1, <2>3, FS_AddElement
  <2> QED
    BY <1>1, <1>4, <2>1, <2>2, <2>4 DEF OpTypes, WdCount, OpGoto
<1>5. ASSUME NEW o \in Ops, WdLeave(o) PROVE OpTypes'
  <2>1. o \in inflight /\ inflight' = inflight \ {o} /\ opCounts' = opCounts - 1
    BY <1>1, <1>5 DEF OpTypes, WdLeave, OpGoto
  <2>2. inflight' = {p \in Ops : opc'[p] = "in"}
    BY <1>1, <1>5 DEF OpTypes, WdLeave, OpGoto
  <2>3. IsFiniteSet(inflight)
    BY <1>1 DEF OpTypes
  <2>4. /\ IsFiniteSet(inflight \ {o})
        /\ Cardinality(inflight \ {o}) = Cardinality(inflight) - 1
    BY <2>1, <2>3, FS_RemoveElement
  <2> QED
    BY <1>1, <1>5, <2>1, <2>2, <2>4 DEF OpTypes, WdLeave, OpGoto
<1>6. ASSUME NEW u \in Users,
             \/ WdStart(u) \/ WdGo(u) \/ WdStop(u) \/ WdClose(u) \/ WdStopped(u)
      PROVE  UNCHANGED opVars
  BY <1>6 DEF WdStart, WdGo, WdStop, WdClose, WdStopped
<1>7. MonitorEnd \/ UNCHANGED watchdogVars => UNCHANGED opVars
  BY DEF MonitorEnd, watchdogVars
<1> QED
  BY <1>2, <1>3, <1>4, <1>5, <1>6, <1>7 DEF WatchdogNext, WatchdogStep

LEMMA UserTypesStep ==
  WatchdogInv /\ [WatchdogNext]_watchdogVars => UserTypes' /\ WdFlagTypes'
<1> SUFFICES ASSUME WatchdogInv, [WatchdogNext]_watchdogVars
             PROVE  UserTypes' /\ WdFlagTypes'
  OBVIOUS
<1>1. UserTypes /\ WdFlagTypes /\ MaxStarts \in Nat
  BY WatchdogTypeParts, WatchdogAssumption DEF WatchdogInv, WatchdogAssumption
<1> USE <1>1 DEF UserTypes, WdFlagTypes, UsGoto, channelVars, wdHistory
<1>2. ASSUME NEW u \in Users, WdStart(u) PROVE UserTypes' /\ WdFlagTypes'
  <2>1. UserTypes'
    BY <1>2 DEF WdStart
  <2>2. WdFlagTypes'
    BY <1>2 DEF WdStart
  <2> QED
    BY <2>1, <2>2
<1>3. ASSUME NEW u \in Users, WdGo(u) \/ WdStop(u)
      PROVE  UserTypes' /\ WdFlagTypes'
  <2>1. monitors' \in Nat /\ starts' \in 0..MaxStarts
    BY <1>3 DEF WdGo, WdStop
  <2>2. upc' \in [Users -> {"idle", "go", "close", "wait"}]
    BY <1>3 DEF WdGo, WdStop
  <2>3. WdFlagTypes'
    BY <1>3 DEF WdGo, WdStop
  <2> QED
    BY <2>1, <2>2, <2>3
<1>4. ASSUME NEW u \in Users, WdClose(u) \/ WdStopped(u)
      PROVE  UserTypes' /\ WdFlagTypes'
  BY <1>4 DEF WdClose, WdStopped
<1>5. CASE MonitorEnd
  <2>1. UserTypes'
    BY <1>5 DEF MonitorEnd
  <2>2. WdFlagTypes'
    BY <1>5 DEF MonitorEnd
  <2> QED
    BY <2>1, <2>2
<1>6. ASSUME NEW o \in Ops, WdEnter(o) \/ WdCount(o) \/ WdLeave(o)
      PROVE  UserTypes' /\ WdFlagTypes'
  BY <1>6 DEF WdEnter, WdCount, WdLeave
<1>7. CASE UNCHANGED watchdogVars
  BY <1>7 DEF watchdogVars
<1> QED
  BY <1>2, <1>3, <1>4, <1>5, <1>6, <1>7 DEF WatchdogNext, WatchdogStep

(* As long as it was not started again: each channel is closed by one.     *)
LEMMA OneShotStep ==
  ASSUME WatchdogInv, [WatchdogNext]_watchdogVars, ~restarted'
  PROVE  OneShot' /\ ~wdPanicked'
<1>1. UserTypes /\ WatchdogPanics /\ (~restarted => OneShot)
  BY WatchdogTypeParts DEF WatchdogInv
<1>2. ~restarted
  BY DEF WatchdogNext, WatchdogStep, WdStart, WdGo, WdStop, WdClose, WdStopped,
     MonitorEnd, WdEnter, WdCount, WdLeave, watchdogVars, wdHistory
<1>3. OneShot /\ ~wdPanicked
  BY <1>1, <1>2 DEF WatchdogPanics
<1> USE <1>1, <1>3 DEF OneShot, UserTypes, UsGoto, channelVars, wdHistory
<1>4. ASSUME NEW u \in Users, WdStart(u) PROVE OneShot' /\ ~wdPanicked'
  BY <1>4 DEF WdStart
<1>5. ASSUME NEW u \in Users, WdGo(u) PROVE OneShot' /\ ~wdPanicked'
  BY <1>5 DEF WdGo
<1>6. ASSUME NEW u \in Users, WdStop(u) PROVE OneShot' /\ ~wdPanicked'
  BY <1>6 DEF WdStop
<1>7. ASSUME NEW u \in Users, WdClose(u) PROVE OneShot' /\ ~wdPanicked'
  BY <1>7 DEF WdClose
<1>8. ASSUME NEW u \in Users, WdStopped(u) PROVE OneShot' /\ ~wdPanicked'
  BY <1>8 DEF WdStopped
<1>9. CASE MonitorEnd
  <2>1. monitors = 1 /\ ~stopped /\ halted /\ ~enabled
    BY <1>9 DEF MonitorEnd
  <2>2. monitors' = 0 /\ stopped' = TRUE
    BY <1>9, <2>1 DEF MonitorEnd
  <2>3. UNCHANGED <<enabled, stopCh, upc, halted>>
    BY <1>9 DEF MonitorEnd
  <2>4. \A u \in Users : upc[u] # "go"
    BY <2>1
  <2>5. ~wdPanicked'
    BY <1>3, <1>9, <2>1, Zenon DEF MonitorEnd
  <2> QED
    BY <2>1, <2>2, <2>3, <2>4, <2>5
<1>10. ASSUME NEW o \in Ops, WdEnter(o) \/ WdCount(o) \/ WdLeave(o)
       PROVE  OneShot' /\ ~wdPanicked'
  BY <1>10 DEF WdEnter, WdCount, WdLeave
<1>11. CASE UNCHANGED watchdogVars
  BY <1>11 DEF watchdogVars
<1> QED
  BY <1>4, <1>5, <1>6, <1>7, <1>8, <1>9, <1>10, <1>11
  DEF WatchdogNext, WatchdogStep

LEMMA WatchdogInvStep ==
  WatchdogInv /\ [WatchdogNext]_watchdogVars => WatchdogInv'
<1> SUFFICES ASSUME WatchdogInv, [WatchdogNext]_watchdogVars PROVE WatchdogInv'
  OBVIOUS
<1>1. OpTypes' /\ UserTypes' /\ WdFlagTypes'
  BY OpTypesStep, UserTypesStep
<1>2. WatchdogTypeOK' /\ IsFiniteSet(inflight')
  BY <1>1, Zenon DEF WatchdogTypeOK, OpTypes, UserTypes, WdFlagTypes
<1>3. (~restarted' => OneShot') /\ WatchdogPanics'
  BY OneShotStep DEF WatchdogPanics
<1> QED
  BY <1>2, <1>3 DEF WatchdogInv

(* WatchdogInv holds in every state of the watchdog.                       *)
THEOREM WatchdogInvariant == WatchdogSpec => []WatchdogInv
BY WatchdogInitial, WatchdogInvStep, PTL DEF WatchdogSpec

(* However many goroutines start and stop it, no channel is closed twice,  *)
(* unless it is started after a stop.                                      *)
THEOREM PanicsByRestart == WatchdogSpec => []WatchdogPanics
<1>1. WatchdogInv => WatchdogPanics
  BY DEF WatchdogInv
<1> QED
  BY <1>1, WatchdogInvariant, PTL

-----------------------------------------------------------------------------
(* All components, of which a behaviour of the services moves one.         *)

ServicesInv ==
  /\ LoggerInv /\ TokenInv /\ SleepInv
  /\ WatchdogInv /\ FetcherInv /\ LifecycleInv

LEMMA ServicesInvStep ==
  ServicesInv /\ [ServicesNext]_ServicesVars => ServicesInv'
<1> SUFFICES ASSUME ServicesInv, [ServicesNext]_ServicesVars PROVE ServicesInv'
  OBVIOUS
<1>1. /\ [LoggerNext]_loggerVars /\ [TokenNext]_tokenVars
      /\ [SleepNext]_sleepVars /\ [WatchdogNext]_watchdogVars
      /\ [FetcherNext]_fetcherVars /\ [LifecycleNext]_lifecycleVars
  BY DEF ServicesNext, ServicesVars
<1>2. LoggerInv' /\ TokenInv' /\ SleepInv'
  BY <1>1, LoggerStep, TokenStep, SleepStep DEF ServicesInv
<1>3. WatchdogInv' /\ FetcherInv' /\ LifecycleInv'
  BY <1>1, WatchdogInvStep, FetcherStep, LifecycleStep DEF ServicesInv
<1> QED
  BY <1>2, <1>3 DEF ServicesInv

(* Every component's variables keep their types, the fetcher's order of    *)
(* use has its cache's chunks and the watchdog's count its operations.     *)
THEOREM ServicesTypesCorrect == ServicesSpec => []ServicesTypeOK
<1>1. ServicesInit => ServicesInv
  BY LoggerInitial, TokenInitial, SleepInitial, WatchdogInitial, FetcherInitial,
     LifecycleInitial
  DEF ServicesInit, ServicesInv
<1>2. ServicesInv => ServicesTypeOK
  BY DEF ServicesInv, ServicesTypeOK, LoggerInv, TokenInv, SleepInv, WatchdogInv,
     FetcherInv, LifecycleInv
<1> QED
  BY <1>1, <1>2, ServicesInvStep, PTL DEF ServicesSpec
=============================================================================
