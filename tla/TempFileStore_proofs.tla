------------------------ MODULE TempFileStore_proofs ------------------------
(***************************************************************************)
(* Proofs about TempFileStore for every number of readers and closers,     *)
(* every size and every schedule: type correctness, and that the shared    *)
(* file handle is gated as ReadersGate demands.                            *)
(*                                                                         *)
(* The flags and the other values are typed separately: the former are     *)
(* Zenon's work, the latter the SMT solver's.                              *)
(***************************************************************************)
EXTENDS TempFileStore, TLAPS

-----------------------------------------------------------------------------
(* The pieces of a step.                                                   *)

RdAny(r) == RdCall(r) \/ ReaderStep(r) \/ RdContextDone(r)

ClAny(c) == \/ ClCall(c) \/ CloserStep(c)
            \/ ClDownloaderTimeout(c) \/ ClReadersTimeout(c)

(* Every step of the specification is one of six kinds.                    *)
LEMMA NextCases ==
  ASSUME [Next]_vars
  PROVE  \/ Downloader
         \/ \E r \in Readers : RdAny(r)
         \/ \E c \in Closers : ClAny(c)
         \/ WaiterStep
         \/ EvictEntry \/ EvictFile
         \/ UNCHANGED vars
  BY DEF Next, RdAny, ClAny, Dead

-----------------------------------------------------------------------------
(* Type correctness.                                                       *)

(* A ReadAt delivers a natural number of blocks, with or without EOF, and  *)
(* before an error of the system too.                                      *)
LEMMA ReadOutcomeType ==
  ASSUME NEW q \in Requests, ValuesOK
  PROVE  /\ ReadOutcome(q) \in Results
         /\ \A n \in 0..BlocksRead(q) : [n |-> n, err |-> "io"] \in Results
<1> USE ConstantsAssumption
<1>1. q.off \in Nat /\ q.len \in Nat
  OBVIOUS
<1>2. HandleLength \in Nat
  BY DEF HandleLength, ValuesOK
<1>3. WantEnd(q) \in Nat
  BY <1>1 DEF WantEnd, Lesser
<1>4. BlocksRead(q) \in Nat
  BY <1>1, <1>2, <1>3 DEF BlocksRead, Lesser
<1>5. QED
  BY <1>4 DEF ReadOutcome, Results

(* So does one that fails.                                                 *)
LEMMA FailsType ==
  ASSUME NEW e \in {"closed", "EOF", "download", "context"}
  PROVE  Fails(e) \in Results
  BY DEF Fails, Results

LEMMA NoRequestType == NoRequest \in Requests
  BY ConstantsAssumption DEF NoRequest

(* The initial state is well typed.                                        *)
LEMMA InitType == Init => TypeOK
<1>1. Init => FlagsOK
  BY Zenon DEF Init, FlagsOK
<1>2. Init => ValuesOK
  BY ConstantsAssumption, NoRequestType
     DEF Init, ValuesOK, DlStates, RdStates, ClStates, WtStates, Results,
         NoResult
<1>3. QED
  BY <1>1, <1>2 DEF TypeOK

(* Steps of the downloader.                                                *)
LEMMA DownloaderFlags ==
  ASSUME FlagsOK, Downloader
  PROVE  FlagsOK'
<1> USE DEF FlagsOK, DlGoto, closeVars, readVars, gateVars, fileVars
<1>1. CASE DlOpen
  BY <1>1, Zenon DEF DlOpen
<1>2. CASE DlRequest
  BY <1>2, Zenon DEF DlRequest
<1>3. CASE DlCheckContext
  BY <1>3, Zenon DEF DlCheckContext
<1>4. CASE DlRead
  BY <1>4, Zenon DEF DlRead
<1>5. CASE DlPublish
  BY <1>5, Zenon DEF DlPublish
<1>6. CASE DlSignal
  BY <1>6, Zenon DEF DlSignal
<1>7. CASE DlVerdict
  BY <1>7, Zenon DEF DlVerdict
<1>8. CASE DlReturn
  BY <1>8, Zenon DEF DlReturn
<1>9. QED
  BY <1>1, <1>2, <1>3, <1>4, <1>5, <1>6, <1>7, <1>8 DEF Downloader

LEMMA DownloaderValues ==
  ASSUME ValuesOK, Downloader
  PROVE  ValuesOK'
<1> USE ConstantsAssumption DEF ValuesOK, DlStates, DlGoto, Lesser,
    fileVars, closeVars, readVars, gateVars
<1>1. CASE DlOpen
  BY <1>1 DEF DlOpen
<1>2. CASE DlRequest
  BY <1>2 DEF DlRequest
<1>3. CASE DlCheckContext
  BY <1>3 DEF DlCheckContext
<1>4. CASE DlRead
  BY <1>4 DEF DlRead
<1>5. CASE DlPublish
  BY <1>5 DEF DlPublish
<1>6. CASE DlSignal
  BY <1>6 DEF DlSignal
<1>7. CASE DlVerdict
  BY <1>7 DEF DlVerdict
<1>8. CASE DlReturn
  BY <1>8 DEF DlReturn
<1>9. QED
  BY <1>1, <1>2, <1>3, <1>4, <1>5, <1>6, <1>7, <1>8 DEF Downloader

(* Steps of a ReadAt call.                                                 *)
LEMMA ReaderFlags ==
  ASSUME NEW r \in Readers, FlagsOK, RdAny(r)
  PROVE  FlagsOK'
<1> USE DEF FlagsOK, dlVars, fileVars, closeVars, gateVars
<1>1. CASE RdCall(r)
  BY <1>1, Zenon DEF RdCall
<1>2. CASE RdGate(r)
  BY <1>2, Zenon DEF RdGate
<1>3. CASE RdEnter(r)
  BY <1>3, Zenon DEF RdEnter
<1>4. CASE RdRecheck(r)
  BY <1>4, Zenon DEF RdRecheck
<1>5. CASE RdLoopClosing(r)
  BY <1>5, Zenon DEF RdLoopClosing
<1>6. CASE RdLoopProgress(r)
  BY <1>6, Zenon DEF RdLoopProgress
<1>7. CASE RdLoopError(r)
  BY <1>7, Zenon DEF RdLoopError
<1>8. CASE RdWake(r)
  BY <1>8, Zenon DEF RdWake
<1>9. CASE RdContextDone(r)
  BY <1>9, Zenon DEF RdContextDone
<1>10. CASE RdHandle(r)
  BY <1>10, Zenon DEF RdHandle
<1>11. CASE RdPread(r)
  BY <1>11, Zenon DEF RdPread
<1>12. CASE RdLeave(r)
  BY <1>12, Zenon DEF RdLeave
<1>13. QED
  BY <1>1, <1>2, <1>3, <1>4, <1>5, <1>6, <1>7, <1>8, <1>9, <1>10, <1>11,
     <1>12 DEF RdAny, ReaderStep

LEMMA ReaderValues ==
  ASSUME NEW r \in Readers, ValuesOK, RdAny(r)
  PROVE  ValuesOK'
<1> USE ConstantsAssumption, FailsType DEF ValuesOK, RdStates, RdGoto, Outcome,
    dlVars, fileVars, closeVars, gateVars
<1>1. CASE RdCall(r)
  BY <1>1 DEF RdCall
<1>2. CASE RdGate(r)
  BY <1>2, NoRequestType DEF RdGate
<1>3. CASE RdEnter(r)
  BY <1>3 DEF RdEnter
<1>4. CASE RdRecheck(r)
  BY <1>4 DEF RdRecheck
<1>5. CASE RdLoopClosing(r)
  BY <1>5 DEF RdLoopClosing
<1>6. CASE RdLoopProgress(r)
  BY <1>6 DEF RdLoopProgress
<1>7. CASE RdLoopError(r)
  BY <1>7 DEF RdLoopError
<1>8. CASE RdWake(r)
  BY <1>8 DEF RdWake
<1>9. CASE RdContextDone(r)
  BY <1>9 DEF RdContextDone
<1>10. CASE RdHandle(r)
  BY <1>10 DEF RdHandle
<1>11. CASE RdPread(r)
  <2>1. req[r] \in Requests
    OBVIOUS
  <2>2. \/ Outcome(r, ReadOutcome(req[r]))
        \/ \E n \in 0..BlocksRead(req[r]) : Outcome(r, [n |-> n, err |-> "io"])
    BY <1>11 DEF RdPread
  <2>3. ret' \in [Readers -> Results]
    BY <2>1, <2>2, ReadOutcomeType
  <2>4. QED
    BY <1>11, <2>3 DEF RdPread
<1>12. CASE RdLeave(r)
  BY <1>12, NoRequestType DEF RdLeave, NoResult, Results, WtStates
<1>13. QED
  BY <1>1, <1>2, <1>3, <1>4, <1>5, <1>6, <1>7, <1>8, <1>9, <1>10, <1>11,
     <1>12 DEF RdAny, ReaderStep

(* Steps of a CloseWithContext call.                                       *)
LEMMA CloserFlags ==
  ASSUME NEW c \in Closers, FlagsOK, ClAny(c)
  PROVE  FlagsOK'
<1> USE DEF FlagsOK, dlVars, fileVars, readVars, gateVars
<1>1. CASE ClCall(c)
  BY <1>1, Zenon DEF ClCall
<1>2. CASE ClFlag(c)
  BY <1>2, Zenon DEF ClFlag
<1>3. CASE ClCancel(c)
  BY <1>3, Zenon DEF ClCancel
<1>4. CASE ClDownloaderDone(c)
  BY <1>4, Zenon DEF ClDownloaderDone
<1>5. CASE ClDownloaderTimeout(c)
  BY <1>5, Zenon DEF ClDownloaderTimeout
<1>6. CASE ClReadersDone(c)
  BY <1>6, Zenon DEF ClReadersDone
<1>7. CASE ClReadersTimeout(c)
  BY <1>7, Zenon DEF ClReadersTimeout
<1>8. CASE ClHandle(c)
  BY <1>8, Zenon DEF ClHandle
<1>9. CASE ClUnregister(c)
  BY <1>9, Zenon DEF ClUnregister
<1>10. CASE ClRemove(c)
  BY <1>10, Zenon DEF ClRemove
<1>11. QED
  BY <1>1, <1>2, <1>3, <1>4, <1>5, <1>6, <1>7, <1>8, <1>9, <1>10 DEF ClAny, CloserStep

LEMMA CloserValues ==
  ASSUME NEW c \in Closers, ValuesOK, ClAny(c)
  PROVE  ValuesOK'
<1> USE DEF ValuesOK, ClStates, ClGoto, WtStates, dlVars, fileVars, readVars,
    gateVars
<1>1. CASE ClCall(c)
  BY <1>1 DEF ClCall
<1>2. CASE ClFlag(c)
  BY <1>2 DEF ClFlag
<1>3. CASE ClCancel(c)
  BY <1>3 DEF ClCancel
<1>4. CASE ClDownloaderDone(c)
  BY <1>4 DEF ClDownloaderDone
<1>5. CASE ClDownloaderTimeout(c)
  BY <1>5 DEF ClDownloaderTimeout
<1>6. CASE ClReadersDone(c)
  BY <1>6 DEF ClReadersDone
<1>7. CASE ClReadersTimeout(c)
  BY <1>7 DEF ClReadersTimeout
<1>8. CASE ClHandle(c)
  BY <1>8 DEF ClHandle
<1>9. CASE ClUnregister(c)
  BY <1>9 DEF ClUnregister
<1>10. CASE ClRemove(c)
  BY <1>10 DEF ClRemove
<1>11. QED
  BY <1>1, <1>2, <1>3, <1>4, <1>5, <1>6, <1>7, <1>8, <1>9, <1>10 DEF ClAny, CloserStep

(* No step leaves the types.                                               *)
LEMMA NextType == TypeOK /\ [Next]_vars => TypeOK'
<1> SUFFICES ASSUME TypeOK, [Next]_vars PROVE TypeOK'
  OBVIOUS
<1> USE DEF TypeOK
<1>1. CASE Downloader
  BY <1>1, DownloaderFlags, DownloaderValues
<1>2. CASE \E r \in Readers : RdAny(r)
  BY <1>2, ReaderFlags, ReaderValues
<1>3. CASE \E c \in Closers : ClAny(c)
  BY <1>3, CloserFlags, CloserValues
<1>4. CASE WaiterStep \/ EvictEntry \/ EvictFile \/ UNCHANGED vars
  <2> USE DEF WaiterStep, EvictEntry, EvictFile, vars, dlVars, fileVars,
              closeVars, readVars, gateVars
  <2>1. FlagsOK'
    BY <1>4, Zenon DEF FlagsOK
  <2>2. ValuesOK'
    BY <1>4 DEF ValuesOK, WtStates
  <2>3. QED
    BY <2>1, <2>2
<1>5. QED
  BY <1>1, <1>2, <1>3, <1>4, NextCases

(* Every variable holds a value of its type in every reachable state.      *)
THEOREM TypeCorrect == Spec => []TypeOK
<1>1. QED
  BY InitType, NextType, PTL DEF Spec

-----------------------------------------------------------------------------
(* The gate.                                                               *)

(* What the gate's invariant speaks of.                                    *)
gateView == <<rpc, cpc, waiter, inFlight, closed, closing, fileOpen>>

(* A step that leaves all that alone keeps the invariant.                  *)
LEMMA GateUnchanged == GateInv /\ UNCHANGED gateView => GateInv'
  BY DEF GateInv, gateView

(* No reader is counted and nobody closes in the initial state.            *)
LEMMA InitGate == Init => GateInv
  BY DEF Init, GateInv, Won, ClStates, Counted, RdStates, Committed, Flagging,
         Shutting

(* A reader joins the WaitGroup with Add and leaves it with Done, and it   *)
(* gets past the second look only while the flag is clear.                 *)
LEMMA ReaderGate ==
  ASSUME NEW r \in Readers, TypeOK, GateInv, RdAny(r)
  PROVE  GateInv'
<1> USE DEF TypeOK, ValuesOK, GateInv, Counted, Committed, RdStates, RdGoto,
            Outcome, dlVars, fileVars, closeVars, gateVars
<1>1. CASE RdCall(r)
  BY <1>1 DEF RdCall
<1>2. CASE RdGate(r)
  BY <1>2 DEF RdGate
<1>3. CASE RdEnter(r)
  BY <1>3 DEF RdEnter
<1>4. CASE RdRecheck(r)
  BY <1>4 DEF RdRecheck
<1>5. CASE RdLoopClosing(r)
  BY <1>5 DEF RdLoopClosing
<1>6. CASE RdLoopProgress(r)
  BY <1>6 DEF RdLoopProgress
<1>7. CASE RdLoopError(r)
  BY <1>7 DEF RdLoopError
<1>8. CASE RdWake(r)
  BY <1>8 DEF RdWake
<1>9. CASE RdContextDone(r)
  BY <1>9 DEF RdContextDone
<1>10. CASE RdHandle(r)
  BY <1>10 DEF RdHandle
<1>11. CASE RdPread(r)
  BY <1>11 DEF RdPread
<1>12. CASE RdLeave(r)
  BY <1>12 DEF RdLeave
<1>13. QED
  BY <1>1, <1>2, <1>3, <1>4, <1>5, <1>6, <1>7, <1>8, <1>9, <1>10, <1>11,
     <1>12 DEF RdAny, ReaderStep

(* The winner of the compare-and-swap is alone from then on.               *)
LEMMA CloserGate ==
  ASSUME NEW c \in Closers, TypeOK, GateInv, ClAny(c)
  PROVE  GateInv'
<1> USE DEF TypeOK, ValuesOK, GateInv, Won, Flagging, Shutting, ClStates,
            ClGoto, dlVars, fileVars, readVars, gateVars
<1>1. CASE ClCall(c)
  BY <1>1 DEF ClCall
<1>2. CASE ClFlag(c)
  BY <1>2 DEF ClFlag
<1>3. CASE ClCancel(c)
  BY <1>3 DEF ClCancel
<1>4. CASE ClDownloaderDone(c)
  BY <1>4 DEF ClDownloaderDone
<1>5. CASE ClDownloaderTimeout(c)
  BY <1>5 DEF ClDownloaderTimeout
<1>6. CASE ClReadersDone(c)
  BY <1>6 DEF ClReadersDone
<1>7. CASE ClReadersTimeout(c)
  BY <1>7 DEF ClReadersTimeout
<1>8. CASE ClHandle(c)
  BY <1>8 DEF ClHandle
<1>9. CASE ClUnregister(c)
  BY <1>9 DEF ClUnregister
<1>10. CASE ClRemove(c)
  BY <1>10 DEF ClRemove
<1>11. QED
  BY <1>1, <1>2, <1>3, <1>4, <1>5, <1>6, <1>7, <1>8, <1>9, <1>10 DEF ClAny, CloserStep

(* No step breaks the invariant.                                           *)
LEMMA NextGate == TypeOK /\ GateInv /\ [Next]_vars => GateInv'
<1> SUFFICES ASSUME TypeOK, GateInv, [Next]_vars PROVE GateInv'
  OBVIOUS
<1>1. CASE Downloader
  <2>1. UNCHANGED gateView
    BY <1>1 DEF Downloader, DlOpen, DlRequest, DlCheckContext, DlRead,
       DlPublish, DlSignal, DlVerdict, DlReturn, gateView, fileVars,
       closeVars, readVars, gateVars
  <2>2. QED
    BY <2>1, GateUnchanged
<1>2. CASE \E r \in Readers : RdAny(r)
  BY <1>2, ReaderGate
<1>3. CASE \E c \in Closers : ClAny(c)
  BY <1>3, CloserGate
<1>4. CASE WaiterStep
  BY <1>4 DEF WaiterStep, GateInv, Flagging, Shutting, Counted, Committed,
     RdStates, TypeOK, ValuesOK, dlVars, fileVars, closeVars, readVars
<1>5. CASE EvictEntry \/ EvictFile \/ UNCHANGED vars
  <2>1. UNCHANGED gateView
    BY <1>5 DEF EvictEntry, EvictFile, gateView, vars, closeVars, readVars,
       gateVars
  <2>2. QED
    BY <2>1, GateUnchanged
<1>6. QED
  BY <1>1, <1>2, <1>3, <1>4, <1>5, NextCases

(* The invariant behind the gate holds in every reachable state.           *)
THEOREM GateInvariant == Spec => []GateInv
<1>1. QED
  BY InitGate, NextGate, TypeCorrect, PTL DEF Spec

-----------------------------------------------------------------------------
(* The store implements ReadersGate.                                       *)

using == {r \in Readers : rpc[r] = "pread"}

(* Steps that leave the handle alone and every reader where it is, in the  *)
(* system call or outside, are stuttering steps of the gate.               *)
LEMMA GateStutter ==
  ASSUME UNCHANGED <<fileOpen, using>>
  PROVE  [Gate!Next]_(Gate!vars)
  BY DEF Gate!vars, using

(* A reader that takes the handle acquires the gate, one that returns from *)
(* the system call releases it.                                            *)
LEMMA ReaderRefines ==
  ASSUME NEW r \in Readers, TypeOK, RdAny(r)
  PROVE  [Gate!Next]_(Gate!vars)
<1> USE DEF TypeOK, ValuesOK, RdGoto, closeVars
<1>1. CASE RdHandle(r) /\ fileOpen
  <2>1. Gate!Acquire(r)
    BY <1>1 DEF RdHandle, Gate!Acquire
  <2>2. QED
    BY <2>1 DEF Gate!Next
<1>2. CASE RdPread(r)
  <2>1. Gate!Release(r)
    BY <1>2 DEF RdPread, Gate!Release
  <2>2. QED
    BY <2>1 DEF Gate!Next
<1>3. CASE ~RdPread(r) /\ ~(RdHandle(r) /\ fileOpen)
  <2>1. UNCHANGED fileOpen
    BY <1>3 DEF RdAny, ReaderStep, RdCall, RdGate, RdEnter, RdRecheck,
       RdLoopClosing, RdLoopProgress, RdLoopError, RdWake, RdContextDone,
       RdHandle, RdLeave
  <2>2. \E to \in RdStates \ {"pread"} :
          rpc[r] # "pread" /\ rpc' = [rpc EXCEPT ![r] = to]
    BY <1>3 DEF RdStates, RdAny, ReaderStep, RdCall, RdGate, RdEnter, RdRecheck,
       RdLoopClosing, RdLoopProgress, RdLoopError, RdWake, RdContextDone,
       RdHandle, RdLeave
  <2>3. UNCHANGED using
    BY <2>2 DEF using
  <2>4. QED
    BY <2>1, <2>3, GateStutter
<1>4. QED
  BY <1>1, <1>2, <1>3

(* The winning closer shuts the gate, after the waiter has come through.   *)
LEMMA CloserRefines ==
  ASSUME NEW c \in Closers, TypeOK, GateInv, ClAny(c)
  PROVE  [Gate!Next]_(Gate!vars)
<1>1. UNCHANGED rpc
  BY DEF ClAny, CloserStep, ClCall, ClFlag, ClCancel, ClDownloaderDone,
     ClDownloaderTimeout, ClReadersDone, ClReadersTimeout, ClHandle,
     ClUnregister, ClRemove, readVars
<1>2. UNCHANGED using
  BY <1>1 DEF using
<1>3. CASE ClHandle(c)
  <2>1. ClGoto(c, "handle", "unregister") /\ fileOpen' = FALSE
    BY <1>3 DEF ClHandle
  <2>2. cpc[c] \in Won \ {"flag"} /\ waiter # "none"
    BY <2>1 DEF ClGoto, Won, ClStates, Shutting, GateInv
  <2>3. using = {}
    BY <2>1 DEF ClGoto, GateInv, Shutting, Committed, using
  <2>4. CASE fileOpen
    BY <1>2, <2>1, <2>3, <2>4 DEF using, Gate!Shut, Gate!Next
  <2>5. CASE ~fileOpen
    <3>1. fileOpen' = fileOpen
      BY <2>1, <2>5, Zenon DEF TypeOK, FlagsOK
    <3>2. QED
      BY <1>2, <3>1, GateStutter
  <2>6. QED
    BY <2>4, <2>5
<1>4. CASE ~ClHandle(c)
  <2>1. UNCHANGED fileOpen
    BY <1>4 DEF ClAny, CloserStep, ClCall, ClFlag, ClCancel, ClDownloaderDone,
       ClDownloaderTimeout, ClReadersDone, ClReadersTimeout, ClUnregister,
       ClRemove, closeVars
  <2>2. QED
    BY <1>2, <2>1, GateStutter
<1>5. QED
  BY <1>3, <1>4

(* Every other step stutters.                                              *)
LEMMA NextRefines ==
  TypeOK /\ GateInv /\ [Next]_vars => [Gate!Next]_(Gate!vars)
<1> SUFFICES ASSUME TypeOK, GateInv, [Next]_vars
             PROVE  [Gate!Next]_(Gate!vars)
  OBVIOUS
<1>1. CASE \E r \in Readers : RdAny(r)
  BY <1>1, ReaderRefines
<1>2. CASE \E c \in Closers : ClAny(c)
  BY <1>2, CloserRefines
<1>3. CASE Downloader \/ WaiterStep \/ EvictEntry \/ EvictFile
           \/ UNCHANGED vars
  <2>1. UNCHANGED <<fileOpen, rpc>>
    BY <1>3 DEF Downloader, DlOpen, DlRequest, DlCheckContext, DlRead,
       DlPublish, DlSignal, DlVerdict, DlReturn, WaiterStep, EvictEntry,
       EvictFile, vars, closeVars, readVars
  <2>2. QED
    BY <2>1, GateStutter DEF using
<1>4. QED
  BY <1>1, <1>2, <1>3, NextCases

(* The shared handle is closed only while no ReadAt is in the system call, *)
(* and none enters it afterwards: the store implements ReadersGate.        *)
THEOREM GateRefinement == Spec => GateSpec
<1>1. Init => Gate!Init
  BY DEF Init, Gate!Init
<1>2. QED
  BY <1>1, NextRefines, TypeCorrect, GateInvariant, PTL
     DEF Spec, GateSpec, Gate!Spec

-----------------------------------------------------------------------------
(* Complete reads.  What is published is what was written, but for the end *)
(* of a body, which stands for the whole file: nothing is written after    *)
(* that, nor is the file opened once more, so that what excuses a read     *)
(* goes on excusing it.                                                    *)

Writing == {"request", "loop", "read", "publish", "signal", "verdict"}

Published ==
  /\ dlpc = "open" => target = "none"
  /\ target = "none" => downloaded = 0
  /\ dlpc \in Writing => target # "none" /\ downloaded <= total
  /\ dlpc \in {"open", "request", "loop", "read"} => readErr = "nil"
  /\ downloaded > total => readErr = "EOF" /\ downloaded = Size

(* A reader that goes for the handle has seen its blocks published, and    *)
(* progress falls back at most to the size.                                *)
Awaited ==
  \A r \in Readers :
    /\ rpc[r] \in Committed => req[r].off < Size
    /\ rpc[r] \in {"handle", "pread"} => WantEnd(req[r]) <= downloaded

ReadInv == Published /\ Awaited /\ ReadComplete

LEMMA InitRead == Init => ReadInv
<1>1. Init => Published
  BY ConstantsAssumption DEF Init, Published, Writing
<1>2. Init => Awaited /\ ReadComplete
  BY DEF Init, Awaited, ReadComplete, Committed
<1>3. QED
  BY <1>1, <1>2 DEF ReadInv

(* Where a request ends, in the file.                                      *)
LEMMA WantEndIn ==
  ASSUME NEW q \in Requests
  PROVE  /\ q.off \in Nat /\ WantEnd(q) \in Nat /\ WantEnd(q) <= Size
         /\ q.off < Size => q.off < WantEnd(q)
<1>1. q.off \in Nat /\ q.len \in Nat \ {0} /\ Size \in Nat
  BY ConstantsAssumption
<1>2. QED
  BY <1>1 DEF WantEnd, Lesser

(* A read of published blocks gets them all, or is excused.                *)
LEMMA PublishedIsRead ==
  ASSUME TypeOK, Published, NEW q \in Requests,
         q.off < Size, WantEnd(q) <= downloaded
  PROVE  ReadOutcome(q).n = FullLength(q) \/ Shortened
<1>1. /\ total \in Nat /\ downloaded \in Nat /\ Size \in Nat
      /\ target \in {"orig", "fresh", "none"}
  BY ConstantsAssumption DEF TypeOK, ValuesOK
<1>2. /\ q.off \in Nat /\ WantEnd(q) \in Nat /\ WantEnd(q) <= Size
      /\ q.off < WantEnd(q)
  BY WantEndIn
<1>3. target # "none"
  BY <1>1, <1>2 DEF Published
<1>4. CASE target = "fresh"
  BY <1>4 DEF Shortened
<1>5. CASE target = "orig" /\ total < WantEnd(q)
  BY <1>1, <1>2, <1>5 DEF Published, Shortened
<1>6. CASE target = "orig" /\ WantEnd(q) <= total
  <2>1. Lesser(WantEnd(q), HandleLength) = WantEnd(q)
    BY <1>1, <1>2, <1>6 DEF Lesser, HandleLength
  <2>2. BlocksRead(q) = WantEnd(q) - q.off
    BY <1>2, <2>1 DEF BlocksRead
  <2>3. FullLength(q) = WantEnd(q) - q.off
    BY <1>1, <1>2 DEF FullLength
  <2>4. QED
    BY <2>2, <2>3 DEF ReadOutcome
<1>7. QED
  BY <1>1, <1>2, <1>3, <1>4, <1>5, <1>6

(* The downloader publishes no more than it wrote until the body ends, and *)
(* takes no excuse back.                                                   *)
LEMMA DownloaderPublishes ==
  ASSUME TypeOK, Published, Downloader
  PROVE  /\ Published'
         /\ Shortened => Shortened'
         /\ downloaded <= downloaded' \/ Size <= downloaded'
<1>1. /\ total \in Nat /\ downloaded \in Nat /\ Size \in Nat /\ MaxBody \in Nat
      /\ path \in {"orig", "fresh", "none"} /\ dlpc \in DlStates
      /\ total \in 0..MaxBody
  BY ConstantsAssumption DEF TypeOK, ValuesOK
<1> USE <1>1 DEF Published, Writing, Shortened, DlGoto, DlStates
<1>2. CASE DlOpen
  BY <1>2 DEF DlOpen
<1>3. CASE DlRequest
  BY <1>3 DEF DlRequest, fileVars
<1>4. CASE DlCheckContext
  BY <1>4 DEF DlCheckContext, fileVars
<1>5. CASE DlRead
  BY <1>5 DEF DlRead, fileVars
<1>6. CASE DlPublish
  BY <1>6 DEF DlPublish, fileVars
<1>7. CASE DlSignal
  BY <1>7 DEF DlSignal, fileVars
<1>8. CASE DlVerdict
  BY <1>8 DEF DlVerdict, fileVars
<1>9. CASE DlReturn
  BY <1>9 DEF DlReturn, fileVars
<1>10. QED
  BY <1>2, <1>3, <1>4, <1>5, <1>6, <1>7, <1>8, <1>9 DEF Downloader

(* A reader moves nothing of the downloader's.                             *)
LEMMA ReaderPublishes ==
  ASSUME NEW r \in Readers, RdAny(r)
  PROVE  UNCHANGED <<dlpc, total, readErr, downloaded, target>>
  BY DEF RdAny, ReaderStep, RdCall, RdGate, RdEnter, RdRecheck, RdLoopClosing,
     RdLoopProgress, RdLoopError, RdWake, RdContextDone, RdHandle, RdPread,
     RdLeave, dlVars, fileVars

(* It goes for the handle when its blocks are published, and ends with     *)
(* them, or with an error.                                                 *)
LEMMA ReaderAwaits ==
  ASSUME NEW r \in Readers, TypeOK, ReadInv, RdAny(r)
  PROVE  Awaited' /\ ReadComplete'
<1>1. UNCHANGED <<dlpc, total, readErr, downloaded, target>>
  BY ReaderPublishes
<1>2. /\ rpc \in [Readers -> RdStates] /\ req \in [Readers -> Requests]
      /\ ret \in [Readers -> Results] /\ downloaded \in Nat /\ Size \in Nat
  BY ConstantsAssumption DEF TypeOK, ValuesOK
<1>3. Awaited /\ ReadComplete /\ (Shortened <=> Shortened')
  BY <1>1 DEF ReadInv, Shortened
<1> USE <1>1, <1>2, <1>3 DEF Awaited, ReadComplete, Committed, RdGoto, Outcome,
        Fails
<1>4. CASE RdCall(r)
  BY <1>4 DEF RdCall
<1>5. CASE RdGate(r)
  BY <1>5 DEF RdGate
<1>6. CASE RdEnter(r)
  BY <1>6 DEF RdEnter
<1>7. CASE RdRecheck(r)
  <2>1. req[r].off \in Nat
    BY WantEndIn
  <2>2. QED
    BY <1>7, <2>1 DEF RdRecheck, FullLength
<1>8. CASE RdLoopClosing(r)
  BY <1>8 DEF RdLoopClosing
<1>9. CASE RdLoopProgress(r)
  <2>1. WantEnd(req[r]) \in Nat
    BY WantEndIn
  <2>2. QED
    BY <1>9, <2>1 DEF RdLoopProgress
<1>10. CASE RdLoopError(r)
  BY <1>10 DEF RdLoopError
<1>11. CASE RdWake(r)
  BY <1>11 DEF RdWake
<1>12. CASE RdContextDone(r)
  BY <1>12 DEF RdContextDone
<1>13. CASE RdHandle(r)
  BY <1>13 DEF RdHandle
<1>14. CASE RdPread(r)
  <2>1. ReadOutcome(req[r]).n = FullLength(req[r]) \/ Shortened
    <3>1. /\ req[r] \in Requests /\ req[r].off < Size
          /\ WantEnd(req[r]) <= downloaded
      BY <1>14 DEF RdPread
    <3>2. Published
      BY DEF ReadInv
    <3>3. QED
      BY <3>1, <3>2, PublishedIsRead
  <2>2. \/ Outcome(r, ReadOutcome(req[r]))
        \/ \E n \in 0..BlocksRead(req[r]) : Outcome(r, [n |-> n, err |-> "io"])
    BY <1>14 DEF RdPread
  <2>3. \/ ret'[r].n = FullLength(req[r]) \/ Shortened
        \/ ret'[r].err = "io"
    BY <2>1, <2>2
  <2>4. QED
    BY <1>14, <2>2, <2>3 DEF RdPread
<1>15. CASE RdLeave(r)
  BY <1>15 DEF RdLeave
<1>16. QED
  BY <1>4, <1>5, <1>6, <1>7, <1>8, <1>9, <1>10, <1>11, <1>12, <1>13, <1>14,
     <1>15 DEF RdAny, ReaderStep

LEMMA NextRead == TypeOK /\ ReadInv /\ [Next]_vars => ReadInv'
<1> SUFFICES ASSUME TypeOK, ReadInv, [Next]_vars PROVE ReadInv'
  OBVIOUS
<1>1. CASE Downloader
  <2>1. /\ Published' /\ (Shortened => Shortened')
        /\ downloaded <= downloaded' \/ Size <= downloaded'
    BY <1>1, DownloaderPublishes DEF ReadInv
  <2>2. UNCHANGED readVars
    BY <1>1 DEF Downloader, DlOpen, DlRequest, DlCheckContext, DlRead,
       DlPublish, DlSignal, DlVerdict, DlReturn
  <2>3. Awaited'
    <3> SUFFICES ASSUME NEW r \in Readers
                 PROVE  /\ rpc[r] \in Committed => req[r].off < Size
                        /\ rpc[r] \in {"handle", "pread"}
                             => WantEnd(req[r]) <= downloaded'
      BY <2>2 DEF Awaited, readVars, WantEnd, Lesser
    <3>1. req[r] \in Requests /\ downloaded \in Nat /\ Size \in Nat
      BY ConstantsAssumption DEF TypeOK, ValuesOK
    <3>2. WantEnd(req[r]) \in Nat /\ WantEnd(req[r]) <= Size
      BY <3>1, WantEndIn
    <3>3. downloaded' \in Nat
      BY <3>1, NextType, ConstantsAssumption DEF TypeOK, ValuesOK
    <3>4. QED
      BY <2>1, <3>1, <3>2, <3>3 DEF ReadInv, Awaited
  <2>4. ReadComplete'
    BY <2>1, <2>2 DEF ReadInv, ReadComplete, readVars, FullLength, WantEnd,
       Lesser
  <2>5. QED
    BY <2>1, <2>3, <2>4 DEF ReadInv
<1>2. CASE \E r \in Readers : RdAny(r)
  <2> PICK r \in Readers : RdAny(r)
    BY <1>2
  <2>1. Published'
    BY ReaderPublishes DEF ReadInv, Published
  <2>2. QED
    BY <2>1, ReaderAwaits DEF ReadInv
<1>3. CASE (\E c \in Closers : ClAny(c)) \/ WaiterStep \/ EvictEntry
           \/ EvictFile \/ UNCHANGED vars
  <2>1. UNCHANGED <<dlVars, target, readVars>>
    BY <1>3 DEF ClAny, CloserStep, ClCall, ClFlag, ClCancel, ClDownloaderDone,
       ClDownloaderTimeout, ClReadersDone, ClReadersTimeout, ClHandle,
       ClUnregister, ClRemove, WaiterStep, EvictEntry, EvictFile, vars, fileVars
  <2>2. QED
    BY <2>1 DEF ReadInv, Published, Awaited, ReadComplete, Shortened, dlVars,
       readVars, FullLength, WantEnd, Lesser
<1>4. QED
  BY <1>1, <1>2, <1>3, NextCases

(* For any readers, requests and sizes: a read that succeeds or reports    *)
(* the end of the file delivers all it was asked for up to the size,       *)
(* unless the body was too short or the file evicted before the download.  *)
THEOREM ReadsComplete == Spec => []ReadComplete
<1>1. ReadInv => ReadComplete
  BY DEF ReadInv
<1>2. QED
  BY <1>1, InitRead, NextRead, TypeCorrect, PTL DEF Spec

-----------------------------------------------------------------------------
(* Release.  A Close without a deadline goes on only when the downloader   *)
(* has gone, and nobody else puts back what it takes away.                 *)

ReleaseInv ==
  \A c \in Closers \ TimedClosers :
    /\ cpc[c] \in Shutting \cup {"readers"} => dlpc = "exited"
    /\ cpc[c] \in {"unregister", "remove", "released"} => ~fileOpen
    /\ cpc[c] \in {"remove", "released"} => ~registered
    /\ cpc[c] = "released" => path = "none"

LEMMA InitRelease == Init => ReleaseInv
  BY DEF Init, ReleaseInv, Shutting

(* Handle, entry and file go away for good once the downloader has.        *)
LEMMA GoneForGood ==
  ASSUME TypeOK, [Next]_vars
  PROVE  /\ dlpc = "exited" => dlpc' = "exited"
         /\ ~fileOpen => ~fileOpen'
         /\ ~registered => ~registered'
         /\ dlpc = "exited" /\ path = "none" => path' = "none"
<1>1. CASE Downloader
  BY <1>1 DEF Downloader, DlOpen, DlRequest, DlCheckContext, DlRead, DlPublish,
     DlSignal, DlVerdict, DlReturn, DlGoto, fileVars, closeVars
<1>2. CASE \E r \in Readers : RdAny(r)
  BY <1>2 DEF RdAny, ReaderStep, RdCall, RdGate, RdEnter, RdRecheck,
     RdLoopClosing, RdLoopProgress, RdLoopError, RdWake, RdContextDone, RdHandle,
     RdPread, RdLeave, dlVars, fileVars, closeVars
<1>3. CASE \E c \in Closers : ClAny(c)
  BY <1>3 DEF ClAny, CloserStep, ClCall, ClFlag, ClCancel, ClDownloaderDone,
     ClDownloaderTimeout, ClReadersDone, ClReadersTimeout, ClHandle,
     ClUnregister, ClRemove, dlVars, fileVars
<1>4. CASE WaiterStep \/ EvictEntry \/ EvictFile \/ UNCHANGED vars
  BY <1>4 DEF WaiterStep, EvictEntry, EvictFile, vars, dlVars, fileVars,
     closeVars
<1>5. QED
  BY <1>1, <1>2, <1>3, <1>4, NextCases

(* Another closer's step leaves this one where it is.                      *)
LEMMA OthersWait ==
  ASSUME TypeOK, NEW c \in Closers, NEW d \in Closers \ {c}, ClAny(d)
  PROVE  cpc'[c] = cpc[c]
  BY DEF TypeOK, ValuesOK, ClAny, CloserStep, ClCall, ClFlag, ClCancel,
     ClDownloaderDone, ClDownloaderTimeout, ClReadersDone, ClReadersTimeout,
     ClHandle, ClUnregister, ClRemove, ClGoto

LEMMA NextRelease == TypeOK /\ ReleaseInv /\ [Next]_vars => ReleaseInv'
<1> SUFFICES ASSUME TypeOK, ReleaseInv, [Next]_vars,
                    NEW c \in Closers \ TimedClosers
             PROVE  /\ cpc'[c] \in Shutting \cup {"readers"} => dlpc' = "exited"
                    /\ cpc'[c] \in {"unregister", "remove", "released"}
                         => ~fileOpen'
                    /\ cpc'[c] \in {"remove", "released"} => ~registered'
                    /\ cpc'[c] = "released" => path' = "none"
  BY DEF ReleaseInv
<1>1. /\ dlpc = "exited" => dlpc' = "exited"
      /\ ~fileOpen => ~fileOpen'
      /\ ~registered => ~registered'
      /\ dlpc = "exited" /\ path = "none" => path' = "none"
  BY GoneForGood
<1>2. CASE cpc'[c] = cpc[c]
  BY <1>1, <1>2 DEF ReleaseInv, Shutting
<1>3. CASE ClAny(c)
  <2> USE <1>1 DEF ReleaseInv, Shutting, ClGoto, TypeOK, ValuesOK
  <2>1. CASE ClCall(c) \/ ClFlag(c) \/ ClCancel(c)
    BY <2>1 DEF ClCall, ClFlag, ClCancel
  <2>2. CASE ClDownloaderDone(c) \/ ClDownloaderTimeout(c)
    BY <2>2 DEF ClDownloaderDone, ClDownloaderTimeout, dlVars
  <2>3. CASE ClReadersDone(c) \/ ClReadersTimeout(c)
    BY <2>3 DEF ClReadersDone, ClReadersTimeout, ClStates
  <2>4. CASE ClHandle(c)
    BY <2>4 DEF ClHandle, ClStates
  <2>5. CASE ClUnregister(c)
    BY <2>5 DEF ClUnregister, ClStates
  <2>6. CASE ClRemove(c)
    BY <2>6 DEF ClRemove, ClStates
  <2>7. QED
    BY <1>3, <2>1, <2>2, <2>3, <2>4, <2>5, <2>6 DEF ClAny, CloserStep
<1>4. CASE \E d \in Closers : ClAny(d)
  BY <1>2, <1>3, <1>4, OthersWait
<1>5. CASE \/ Downloader \/ \E r \in Readers : RdAny(r)
           \/ WaiterStep \/ EvictEntry \/ EvictFile \/ UNCHANGED vars
  <2>1. UNCHANGED cpc
    BY <1>5 DEF Downloader, DlOpen, DlRequest, DlCheckContext, DlRead, DlPublish,
       DlSignal, DlVerdict, DlReturn, RdAny, ReaderStep, RdCall, RdGate, RdEnter,
       RdRecheck, RdLoopClosing, RdLoopProgress, RdLoopError, RdWake,
       RdContextDone, RdHandle, RdPread, RdLeave, WaiterStep, EvictEntry,
       EvictFile, vars, closeVars
  <2>2. QED
    BY <1>2, <2>1
<1>6. QED
  BY <1>4, <1>5, NextCases

(* For any readers and closers, whatever the manager evicts meanwhile: a   *)
(* Close without a deadline that has returned without an error leaves      *)
(* neither the handle nor the entry nor the file, for good.                *)
THEOREM CloseReleases == Spec => []Releases
<1>1. ReleaseInv => Releases
  BY DEF ReleaseInv, Releases
<1>2. QED
  BY <1>1, InitRelease, NextRelease, TypeCorrect, PTL DEF Spec
=============================================================================
