------------------------ MODULE RangeLRUStore_proofs ------------------------
(***************************************************************************)
(* The properties of the range-request store for any number of readers, any *)
(* file, chunk and cache size and any requests.  The inductive invariant   *)
(* says, beyond the types: who fetches is alone with its chunk and in      *)
(* activeReads, who waits waits for somebody; who is counted in refs; that *)
(* a call is at a place of the file that it still wants; and what is known *)
(* of the chunks as long as the server sends the bodies asked for.         *)
(***************************************************************************)
EXTENDS RangeLRUStore, UseOrder_proofs

(* The calls whose place is inside the file and the request.               *)
Placed == {"cache", "active", "wait", "recheck", "copy"} \cup Fetching

InFile ==
  \A r \in Readers : pc[r] \in Placed => Remaining(r) > 0 /\ Current(r) < Size

(* A call begins from nothing, and what it returns is set as it returns.   *)
Fresh ==
  \A r \in Readers :
    /\ pc[r] \in {"shut", "idle", "clear"} => got[r] = 0
    /\ pc[r] # "return" => ret[r] = NoResult

(* refCount counts the open handles.                                       *)
Opened == {r \in Readers : pc[r] \notin {"shut", "clear"}}
Counted == refs = Cardinality(Opened)

(* Who is between the entry into activeReads and the signal.               *)
InFlight == {r \in Readers : pc[r] \in Fetching}

FlightInv ==
  /\ active = {ChunkOf(r) : r \in InFlight}
  /\ \A r, q \in InFlight : ChunkOf(r) = ChunkOf(q) => r = q
  /\ \A r \in Readers : pc[r] = "wait" => ChunkOf(r) \in active

(* The semaphore is held through requests and pauses, by no more than may. *)
Semaphore ==
  /\ slots = {r \in Readers : pc[r] \in {"request", "backoff"}}
  /\ Cardinality(slots) <= MaxConcurrent

(* The cache and its order of use; only Close takes the cache away.        *)
OrderInv ==
  /\ NoRepeats(lru) /\ ToSet(lru) = DOMAIN cache /\ Len(lru) <= CacheCapacity
  /\ ~hasCache => lru = <<>> /\ closer = "done"

(* A chunk of the right length, or an error.                               *)
Fits(c, o) == c.err = "nil" => c.len = Asked(o)

(* The cache holds data and failures; a call that looks at its chunk has   *)
(* one of these in hand or has lost it; and what was stored stays until    *)
(* some chunk is thrown out.                                               *)
Stored == {"nil", "failed", "context"}

Kept ==
  /\ \A o \in DOMAIN cache : cache[o].err \in Stored
  /\ \A r \in Readers :
       /\ pc[r] \in {"store", "signal"} => chunk[r].err \in Stored
       /\ pc[r] = "copy" /\ ~panicked =>
            chunk[r].err \in Stored \/ (chunk[r].err = "lost" /\ thrown)
       /\ pc[r] \in {"signal", "recheck"} =>
            ChunkOf(r) \in DOMAIN cache \/ thrown

(* A read goes on at the beginning of a chunk.                             *)
AtChunk ==
  ~misled =>
    \A r \in Readers : \/ got[r] = 0 \/ Current(r) = ChunkOf(r)
                       \/ Remaining(r) = 0 \/ Current(r) >= Size

(* As long as bodies fit their requests, so do the chunks, in the cache or *)
(* in hand, and no read runs over the end of the file.                     *)
Fitting ==
  ~misled =>
    /\ \A o \in DOMAIN cache : Fits(cache[o], o)
    /\ \A r \in Readers :
         /\ pc[r] \in {"store", "signal", "copy"} =>
              Fits(chunk[r], ChunkOf(r))
         /\ got[r] <= FullLength(req[r])

StoreInv ==
  /\ TypeOK /\ InFile /\ Fresh /\ Counted /\ FlightInv /\ Semaphore /\ OrderInv
  /\ Kept /\ AtChunk /\ Fitting /\ ReadExact /\ PanicsOnlyClosed

-----------------------------------------------------------------------------
(* The types, one step at a time.                                          *)

(* Where a chunk begins, and that a place in the file is in one.           *)
LEMMA PlaceInChunk ==
  ASSUME TypeOK, NEW r \in Readers
  PROVE  /\ req[r].off \in Nat /\ req[r].len \in Nat \ {0} /\ got[r] \in Nat
         /\ got[r] <= req[r].len /\ Current(r) \in Nat /\ Remaining(r) \in Nat
         /\ ChunkOf(r) \in Nat /\ ChunkOf(r) <= Current(r)
         /\ Current(r) < ChunkOf(r) + ChunkSize
         /\ Current(r) < Size => ChunkOf(r) \in Offsets
<1> USE ConstantsAssumption
<1>1. /\ req[r].off \in Nat /\ req[r].len \in Nat \ {0} /\ got[r] \in Nat
      /\ got[r] <= req[r].len /\ Current(r) \in Nat /\ Remaining(r) \in Nat
  BY DEF TypeOK, Current, Remaining
<1>2. ASSUME NEW c \in Nat \ {0}, NEW x \in Nat
      PROVE  /\ (x \div c) * c \in Nat /\ (x \div c) * c <= x
             /\ x < (x \div c) * c + c /\ ((x \div c) * c) % c = 0
  <2>1. /\ x \div c \in Nat /\ x = (x \div c) * c + (x % c)
        /\ x % c \in 0..(c - 1)
    OBVIOUS
  <2>2. \A k \in Nat : (k * c) % c = 0 /\ k * c \in Nat
    OBVIOUS
  <2> QED
    BY <2>1, <2>2
<1>3. ChunkSize \in Nat \ {0}
  BY DEF ConstantsAssumption
<1>4. /\ ChunkOf(r) \in Nat /\ ChunkOf(r) <= Current(r)
      /\ Current(r) < ChunkOf(r) + ChunkSize /\ ChunkOf(r) % ChunkSize = 0
  <2> HIDE ConstantsAssumption
  <2> QED
    BY <1>1, <1>2, <1>3 DEF ChunkOf
<1> QED
  BY <1>1, <1>4 DEF Offsets

(* TypeOK in parts: what is Boolean, the calls, what they share.           *)
FlagTypes ==
  /\ hasCache \in BOOLEAN /\ panicked \in BOOLEAN
  /\ misled \in BOOLEAN /\ thrown \in BOOLEAN
  /\ expired \in [Readers -> BOOLEAN]

CallTypes ==
  /\ pc \in [Readers -> Pcs]
  /\ req \in [Readers -> Requests]
  /\ got \in [Readers -> Nat]
  /\ chunk \in [Readers -> Chunks]
  /\ attempt \in [Readers -> 0..(MaxAttempts - 1)]

ReturnTypes ==
  /\ ret \in [Readers -> [n : Nat, err : Errors \cup {"EOF"}, why : Errors]]
  /\ \A r \in Readers : got[r] <= req[r].len /\ ret[r].n <= req[r].len

SharedTypes ==
  /\ DOMAIN cache \subseteq Offsets
  /\ \A o \in DOMAIN cache : cache[o] \in Chunks
  /\ lru \in Seq(Offsets)
  /\ active \subseteq Offsets /\ slots \subseteq Readers
  /\ refs \in 0..Cardinality(Readers)
  /\ closer \in {"idle", "done"}

LEMMA TypeParts ==
  TypeOK <=> FlagTypes /\ CallTypes /\ ReturnTypes /\ SharedTypes
BY Zenon DEF TypeOK, FlagTypes, CallTypes, ReturnTypes, SharedTypes

LEMMA StoreInitial == Init => StoreInv
<1> SUFFICES ASSUME Init PROVE StoreInv
  OBVIOUS
<1> USE ConstantsAssumption DEF Init
<1>1. NoRequest \in Requests /\ NoRequest.len \in Nat \ {0} /\ NoRequest.off \in Nat
  BY DEF NoRequest
<1>2. Cardinality(Readers) \in Nat
  BY FS_CardinalityType
<1>3. TypeOK
  <2>1. lru \in Seq(Offsets)
    OBVIOUS
  <2>2. chunk \in [Readers -> Chunks]
    BY DEF Err, Chunks, Errors
  <2>5. FlagTypes
    BY DEF FlagTypes
  <2>3. ReturnTypes
    BY <1>1 DEF ReturnTypes, NoResult, Errors
  <2>6. CallTypes
    BY <1>1, <2>2 DEF CallTypes, Pcs
  <2>7. SharedTypes
    BY <1>2, <2>1 DEF SharedTypes
  <2> QED
    BY <2>3, <2>5, <2>6, <2>7, TypeParts
<1>4. InFile /\ Fresh /\ ReadExact /\ PanicsOnlyClosed
  BY DEF InFile, Fresh, Placed, Fetching, ReadExact, PanicsOnlyClosed
<1>5. Counted
  <2>1. Opened = {}
    BY DEF Opened
  <2> QED
    BY <2>1, FS_EmptySet DEF Counted
<1>6. FlightInv
  <2>1. InFlight = {}
    BY DEF InFlight, Fetching
  <2> QED
    BY <2>1 DEF FlightInv
<1>7. Semaphore
  BY FS_EmptySet DEF Semaphore
<1>8. OrderInv
  BY DEF OrderInv, NoRepeats, ToSet
<1>9. Fitting /\ AtChunk
  BY <1>1 DEF Fitting, AtChunk, FullLength, Lesser
<1>10. Kept
  BY DEF Kept
<1> QED
  BY <1>3, <1>4, <1>5, <1>6, <1>7, <1>8, <1>9, <1>10 DEF StoreInv

(* Which steps change what.                                                *)
Frame ==
  /\ \/ UNCHANGED cacheVars
     \/ Close
     \/ \E r \in Readers : DecRefClear(r) \/ GcStore(r)
  /\ \/ UNCHANGED active
     \/ \E r \in Readers : GcActive(r) \/ GcSignal(r)
  /\ \/ UNCHANGED slots
     \/ \E r \in Readers : GcSlot(r) \/ GcRequest(r) \/ GcBackoff(r)
  /\ UNCHANGED refs \/ \E r \in Readers : OpenHandle(r) \/ DecRef(r)
  /\ UNCHANGED closer \/ Close
  /\ UNCHANGED misled \/ \E r \in Readers : GcRequest(r)
  /\ \/ UNCHANGED thrown
     \/ Close
     \/ \E r \in Readers : DecRefClear(r) \/ GcStore(r)
  /\ UNCHANGED panicked \/ \E r \in Readers : GcStore(r) \/ RdCopy(r)
  /\ UNCHANGED expired \/ \E r \in Readers : RdExpire(r) \/ RdReturn(r)
  /\ UNCHANGED attempt
       \/ \E r \in Readers : GcRequest(r) \/ GcBackoff(r)
  /\ UNCHANGED req \/ \E r \in Readers : RdCall(r) \/ RdReturn(r)
  /\ UNCHANGED got \/ \E r \in Readers : RdCopy(r) \/ RdReturn(r)
  /\ \/ UNCHANGED chunk
     \/ \E r \in Readers : \/ GcCache(r) \/ GcWaitExpired(r) \/ GcRecheck(r)
                           \/ GcSlot(r) \/ GcRequest(r) \/ GcBackoff(r)
                           \/ RdCopy(r)
  /\ \/ UNCHANGED ret
     \/ \E r \in Readers : RdLoop(r) \/ RdCopy(r) \/ RdReturn(r)

LEMMA WhoChanges == [Next]_vars => Frame
<1> SUFFICES ASSUME [Next]_vars PROVE Frame
  OBVIOUS
<1> USE DEF Frame
<1>1. CASE Close \/ Dead \/ UNCHANGED vars
  BY <1>1 DEF Close, Dead, vars, callVars, cacheVars, fetchVars,
               histVars
<1>2. ASSUME NEW r \in Readers, OpenHandle(r) PROVE Frame
  BY <1>2 DEF OpenHandle, callVars, fetchVars, histVars
<1>3. ASSUME NEW r \in Readers, DecRef(r) PROVE Frame
  BY <1>3 DEF DecRef, callVars, fetchVars, histVars
<1>4. ASSUME NEW r \in Readers, DecRefClear(r) PROVE Frame
  BY <1>4 DEF DecRefClear, callVars, fetchVars, histVars
<1>5. ASSUME NEW r \in Readers, RdCall(r) PROVE Frame
  BY <1>5 DEF RdCall, callVars, fetchVars, histVars
<1>6. ASSUME NEW r \in Readers, RdExpire(r) PROVE Frame
  BY <1>6 DEF RdExpire, callVars, fetchVars, histVars
<1>7. ASSUME NEW r \in Readers, GcSlot(r) PROVE Frame
  BY <1>7 DEF GcSlot, callVars, fetchVars, histVars
<1>8. ASSUME NEW r \in Readers, RdLoop(r) PROVE Frame
  BY <1>8 DEF RdLoop, callVars, fetchVars, histVars
<1>9. ASSUME NEW r \in Readers, GcCache(r) PROVE Frame
  BY <1>9 DEF GcCache, callVars, fetchVars, histVars
<1>10. ASSUME NEW r \in Readers, GcActive(r) PROVE Frame
  BY <1>10 DEF GcActive, callVars, fetchVars, histVars
<1>11. ASSUME NEW r \in Readers, GcWaitExpired(r) PROVE Frame
  BY <1>11 DEF GcWaitExpired, callVars, fetchVars, histVars
<1>12. ASSUME NEW r \in Readers, GcRecheck(r) PROVE Frame
  BY <1>12 DEF GcRecheck, callVars, fetchVars, histVars
<1>13. ASSUME NEW r \in Readers, GcRequest(r) PROVE Frame
  BY <1>13 DEF GcRequest, callVars, fetchVars, histVars
<1>14. ASSUME NEW r \in Readers, GcBackoff(r) PROVE Frame
  BY <1>14 DEF GcBackoff, callVars, fetchVars, histVars
<1>15. ASSUME NEW r \in Readers, GcStore(r) PROVE Frame
  BY <1>15 DEF GcStore, callVars, fetchVars, histVars
<1>16. ASSUME NEW r \in Readers, GcSignal(r) PROVE Frame
  BY <1>16 DEF GcSignal, callVars, fetchVars, histVars
<1>17. ASSUME NEW r \in Readers, RdCopy(r) PROVE Frame
  BY <1>17 DEF RdCopy, callVars, fetchVars, histVars
<1>18. ASSUME NEW r \in Readers, RdReturn(r) PROVE Frame
  BY <1>18 DEF RdReturn, callVars, fetchVars, histVars
<1> QED
  BY <1>1, <1>2, <1>3, <1>4, <1>5, <1>6, <1>7, <1>8, <1>9, <1>10, <1>11, <1>12, <1>13, <1>14, <1>15, <1>16, <1>17, <1>18
     DEF Next, ReaderStep

(* Every step keeps the types.                                             *)
LEMMA FlagStep == StoreInv /\ [Next]_vars => FlagTypes'
<1> SUFFICES ASSUME StoreInv, [Next]_vars, Frame PROVE FlagTypes'
  BY WhoChanges
<1>1. FlagTypes
  BY TypeParts DEF StoreInv
<1>2. hasCache' \in BOOLEAN
  BY <1>1 DEF FlagTypes, Frame, cacheVars, Close, DecRefClear, GcStore
<1>3. panicked' \in BOOLEAN
  BY <1>1 DEF FlagTypes, Frame, RdCopy, GcStore
<1>4. misled' \in BOOLEAN
  BY <1>1 DEF FlagTypes, Frame, GcRequest
<1>5. expired' \in [Readers -> BOOLEAN]
  BY <1>1 DEF FlagTypes, Frame, RdExpire, RdReturn
<1>6. thrown' \in BOOLEAN
  BY <1>1 DEF FlagTypes, Frame, Close, DecRefClear, GcStore
<1> QED
  BY <1>2, <1>3, <1>4, <1>5, <1>6 DEF FlagTypes

LEMMA ChunksTyped ==
  /\ \A e \in Errors : Err(e) \in Chunks
  /\ \A o \in Offsets : Bodies(o) \subseteq Chunks /\ Asked(o) \in Nat \ {0}
BY ConstantsAssumption
   DEF Err, Errors, Chunks, Bodies, Data, Asked, Offsets, Lesser

(* A call gets a request, and loses it, with nothing read and no result.   *)
LEMMA NewRequest ==
  ASSUME StoreInv, [Next]_vars, NEW q \in Readers
  PROVE  req'[q] = req[q] \/ (got'[q] = 0 /\ ret'[q] = NoResult)
<1>1. /\ req \in [Readers -> Requests] /\ DOMAIN got = Readers
      /\ DOMAIN ret = Readers /\ Fresh
  BY TypeParts DEF StoreInv, CallTypes, ReturnTypes
<1>2. ASSUME NEW r \in Readers, RdCall(r)
      PROVE  req'[q] = req[q] \/ (got'[q] = 0 /\ ret'[q] = NoResult)
  <2>1. pc[r] = "idle" /\ UNCHANGED <<got, ret>>
    BY <1>2 DEF RdCall, Goto
  <2>2. req'[q] = req[q] \/ q = r
    BY <1>1, <1>2 DEF RdCall
  <2> QED
    BY <1>1, <2>1, <2>2 DEF Fresh
<1>3. ASSUME NEW r \in Readers, RdReturn(r)
      PROVE  req'[q] = req[q] \/ (got'[q] = 0 /\ ret'[q] = NoResult)
  BY <1>1, <1>3 DEF RdReturn
<1> QED
  BY <1>2, <1>3, WhoChanges DEF Frame

LEMMA CallStep == StoreInv /\ [Next]_vars => CallTypes' /\ ReturnTypes'
<1> SUFFICES ASSUME StoreInv, [Next]_vars, Frame
             PROVE  CallTypes' /\ ReturnTypes'
  BY WhoChanges
<1> USE ConstantsAssumption
<1>1. CallTypes /\ ReturnTypes /\ SharedTypes /\ Fresh /\ InFile
  BY TypeParts DEF StoreInv
<1>2. pc' \in [Readers -> Pcs]
  <2>1. ASSUME NEW r \in Readers, ReaderStep(r) PROVE pc' \in [Readers -> Pcs]
    BY <1>1, <2>1
       DEF CallTypes, Pcs, Goto, Gets, Fetched, Returns, ReaderStep, RdLoop,
           GcCache, GcActive, GcWaitExpired, GcRecheck, GcRequest, GcBackoff,
           GcStore, GcSignal, RdCopy, RdReturn
  <2>2. ASSUME NEW r \in Readers,
               OpenHandle(r) \/ DecRef(r) \/ DecRefClear(r) \/ RdCall(r)
                 \/ RdExpire(r) \/ GcSlot(r)
        PROVE  pc' \in [Readers -> Pcs]
    BY <1>1, <2>2
       DEF CallTypes, Pcs, Goto, Fetched, OpenHandle, DecRef, DecRefClear,
           RdCall, RdExpire, GcSlot
  <2>3. CASE Close \/ Dead \/ UNCHANGED vars
    BY <1>1, <2>3 DEF CallTypes, Close, Dead, vars
  <2> QED
    BY <2>1, <2>2, <2>3 DEF Next
<1>3. req' \in [Readers -> Requests]
  <2>1. NoRequest \in Requests
    BY DEF NoRequest
  <2> QED
    BY <1>1, <2>1 DEF CallTypes, Frame, RdCall, RdCopy, RdReturn
<1>4. attempt' \in [Readers -> 0..(MaxAttempts - 1)]
  BY <1>1 DEF CallTypes, Frame, GcRequest, GcBackoff
<1>5. got' \in [Readers -> Nat] /\ \A q \in Readers : got'[q] <= req'[q].len
  <2>1. \A q \in Readers :
          /\ req'[q].len \in Nat /\ req[q].len \in Nat /\ got[q] \in Nat
          /\ got[q] <= req[q].len
    BY <1>1, <1>3 DEF CallTypes, ReturnTypes
  <2>2. CASE UNCHANGED got
    BY <1>1, <2>1, <2>2, NewRequest DEF CallTypes
  <2>3. ASSUME NEW r \in Readers, RdReturn(r)
        PROVE  /\ got' \in [Readers -> Nat]
               /\ \A q \in Readers : got'[q] <= req'[q].len
    <3>1. got' = [got EXCEPT ![r] = 0] /\ req' = [req EXCEPT ![r] = NoRequest]
      BY <2>3 DEF RdReturn
    <3> QED
      BY <1>1, <2>1, <3>1 DEF CallTypes
  <2>4. ASSUME NEW r \in Readers, RdCopy(r)
        PROVE  /\ got' \in [Readers -> Nat]
               /\ \A q \in Readers : got'[q] <= req'[q].len
    <3>1. /\ Remaining(r) \in Nat /\ Current(r) \in Nat /\ ChunkOf(r) \in Nat
          /\ chunk[r].len \in Int /\ got[r] \in Nat
          /\ Remaining(r) = req[r].len - got[r] /\ UNCHANGED req
      BY <1>1, <2>4, PlaceInChunk
         DEF CallTypes, Chunks, StoreInv, Remaining, RdCopy
    <3>2. CASE UNCHANGED got
      BY <1>1, <2>1, <3>1, <3>2 DEF CallTypes
    <3>3. CASE /\ chunk[r].len - (Current(r) - ChunkOf(r)) >= 0
               /\ got' = [got EXCEPT ![r] = @ + Lesser(Remaining(r),
                               chunk[r].len - (Current(r) - ChunkOf(r)))]
      <4>1. Lesser(Remaining(r), chunk[r].len - (Current(r) - ChunkOf(r)))
              \in 0..Remaining(r)
        BY <3>1, <3>3 DEF Lesser
      <4> QED
        BY <1>1, <2>1, <3>1, <3>3, <4>1 DEF CallTypes
    <3> QED
      BY <2>4, <3>2, <3>3 DEF RdCopy
  <2> QED
    BY <2>2, <2>3, <2>4 DEF Frame
<1>6. chunk' \in [Readers -> Chunks]
  <2>1. ASSUME NEW r \in Readers, GcRequest(r)
        PROVE  chunk' \in [Readers -> Chunks]
    <3>1. ChunkOf(r) \in Offsets
      BY <1>1, <2>1, PlaceInChunk
         DEF InFile, Placed, Fetching, GcRequest, StoreInv
    <3> QED
      BY <1>1, <2>1, <3>1, ChunksTyped
         DEF CallTypes, Errors, GcRequest, Fetched
  <2>2. ASSUME NEW r \in Readers,
               \/ GcCache(r) \/ GcWaitExpired(r) \/ GcRecheck(r)
               \/ GcSlot(r) \/ GcBackoff(r) \/ RdCopy(r)
        PROVE  chunk' \in [Readers -> Chunks]
    BY <1>1, <2>2, ChunksTyped
       DEF CallTypes, SharedTypes, Errors, GcCache, GcWaitExpired, GcRecheck,
           GcSlot, GcBackoff, RdCopy, Gets, Fetched
  <2> QED
    BY <1>1, <2>1, <2>2 DEF Frame, CallTypes
<1>7. ReturnTypes'
  <2> DEFINE Results == [n : Nat, err : Errors \cup {"EOF"}, why : Errors]
  <2>1. /\ \A q \in Readers : /\ req'[q].len \in Nat /\ got[q] \in Nat
                            /\ chunk[q].err \in Errors
      /\ ret \in [Readers -> Results] /\ NoResult \in Results
    BY <1>1, <1>3 DEF CallTypes, ReturnTypes, Chunks, NoResult, Errors
  <2>2. NoResult.n = 0
    BY DEF NoResult
  <2>3. CASE UNCHANGED ret
    <3>1. \A q \in Readers : ret'[q].n <= req'[q].len
      BY <1>1, <2>1, <2>2, <2>3, NewRequest DEF ReturnTypes
    <3> QED
      BY <1>5, <2>1, <2>3, <3>1 DEF ReturnTypes
  <2>4. ASSUME NEW r \in Readers, RdReturn(r) PROVE ReturnTypes'
    <3>1. ret' = [ret EXCEPT ![r] = NoResult]
      BY <2>4 DEF RdReturn
    <3>2. \A q \in Readers : ret'[q].n <= req'[q].len
      BY <1>1, <2>1, <2>2, <3>1, NewRequest DEF ReturnTypes
    <3> QED
      BY <1>5, <2>1, <3>1, <3>2 DEF ReturnTypes
  <2>5. ASSUME NEW r \in Readers, RdLoop(r) \/ RdCopy(r) PROVE ReturnTypes'
    <3>1. req' = req
      BY <2>5 DEF RdLoop, RdCopy
    <3>2. UNCHANGED ret
          \/ \E e \in Errors \cup {"EOF"}, w \in Errors :
               ret' = [ret EXCEPT ![r] = [n |-> got[r], err |-> e, why |-> w]]
      <4>1. CASE RdLoop(r)
        BY <4>1 DEF RdLoop, Returns, Errors
      <4>2. CASE RdCopy(r)
        BY <2>1, <4>2 DEF RdCopy, Returns, Errors
      <4> QED
        BY <2>5, <4>1, <4>2
    <3>3. ASSUME NEW e \in Errors \cup {"EOF"}, NEW w \in Errors,
                 ret' = [ret EXCEPT ![r] = [n |-> got[r], err |-> e, why |-> w]]
          PROVE  ReturnTypes'
      <4>1. [n |-> got[r], err |-> e, why |-> w] \in Results
        BY <2>1
      <4>2. ret' \in [Readers -> Results]
        BY <2>1, <3>3, <4>1
      <4>3. \A q \in Readers : ret'[q].n <= req'[q].len
        BY <1>1, <2>1, <3>1, <3>3 DEF ReturnTypes
      <4> QED
        BY <1>5, <4>2, <4>3 DEF ReturnTypes
    <3> QED
      BY <2>3, <3>2, <3>3
  <2> QED
    BY <2>3, <2>4, <2>5 DEF Frame
<1> QED
  BY <1>2, <1>3, <1>4, <1>5, <1>6, <1>7 DEF CallTypes

-----------------------------------------------------------------------------
(* The other parts of the invariant.                                       *)

(* refCount follows Open and Release.                                      *)
LEMMA CountedStep == StoreInv /\ [Next]_vars => Counted'
<1> SUFFICES ASSUME StoreInv, [Next]_vars, Frame PROVE Counted'
  BY WhoChanges
<1>1. /\ pc \in [Readers -> Pcs] /\ Counted
      /\ IsFiniteSet(Opened) /\ Cardinality(Opened) \in Nat
  <2>1. Opened \in SUBSET Readers /\ IsFiniteSet(Readers)
    BY ConstantsAssumption DEF Opened
  <2> QED
    BY <2>1, FS_Subset, FS_CardinalityType, TypeParts DEF StoreInv, CallTypes
<1>2. ASSUME NEW r \in Readers, OpenHandle(r) PROVE Counted'
  <2>1. Opened' = Opened \cup {r} /\ r \notin Opened
    BY <1>1, <1>2 DEF OpenHandle, Goto, Opened
  <2> QED
    BY <1>1, <1>2, <2>1, FS_AddElement DEF OpenHandle, Counted
<1>3. ASSUME NEW r \in Readers, DecRef(r) PROVE Counted'
  <2>1. Opened' = Opened \ {r} /\ r \in Opened
    BY <1>1, <1>3 DEF DecRef, Goto, Opened
  <2> QED
    BY <1>1, <1>3, <2>1, FS_RemoveElement DEF DecRef, Counted
<1>4. ASSUME NEW r \in Readers, ReaderStep(r) PROVE Opened' = Opened
  BY <1>1, <1>4
     DEF Opened, Goto, Gets, Fetched, Returns, ReaderStep, RdLoop, GcCache,
         GcActive, GcWaitExpired, GcRecheck, GcRequest, GcBackoff, GcStore,
         GcSignal, RdCopy, RdReturn
<1>5. ASSUME NEW r \in Readers,
             DecRefClear(r) \/ RdCall(r) \/ RdExpire(r) \/ GcSlot(r)
      PROVE  Opened' = Opened
  BY <1>1, <1>5
     DEF Opened, Goto, Fetched, DecRefClear, RdCall, RdExpire, GcSlot
<1>6. CASE Close \/ Dead \/ UNCHANGED vars
  BY <1>1, <1>6 DEF Opened, Close, Dead, vars, Counted
<1>7. ASSUME UNCHANGED refs, Opened' = Opened PROVE Counted'
  BY <1>1, <1>7 DEF Counted
<1>8. ASSUME NEW r \in Readers,
             \/ ReaderStep(r) \/ DecRefClear(r) \/ RdCall(r) \/ RdExpire(r)
             \/ GcSlot(r)
      PROVE  UNCHANGED refs
  BY <1>8
     DEF ReaderStep, RdLoop, GcCache, GcActive, GcWaitExpired, GcRecheck,
         GcRequest, GcBackoff, GcStore, GcSignal, RdCopy, RdReturn,
         DecRefClear, RdCall, RdExpire, GcSlot
<1> QED
  BY <1>2, <1>3, <1>4, <1>5, <1>6, <1>7, <1>8 DEF Next

(* The order of use after a chunk was stored.                              *)
LEMMA StoredOrder ==
  ASSUME StoreInv, NEW r \in Readers, pc[r] = "store"
  PROVE  LET o     == ChunkOf(r)
             order == Newest(Used(lru, o), CacheCapacity)
         IN  /\ o \in Offsets
             /\ order \in Seq(Offsets) /\ NoRepeats(order)
             /\ Len(order) <= CacheCapacity
             /\ ToSet(order) \subseteq DOMAIN cache \cup {o}
             /\ o \in ToSet(order)
<1> DEFINE o == ChunkOf(r)
           used == Used(lru, o)
<1>1. o \in Offsets /\ lru \in Seq(Offsets) /\ NoRepeats(lru)
      /\ ToSet(lru) = DOMAIN cache
  BY PlaceInChunk, TypeParts
     DEF StoreInv, InFile, Placed, Fetching, SharedTypes, OrderInv
<1> HIDE DEF o
<1>2. /\ used \in Seq(Offsets) /\ ToSet(used) = ToSet(lru) \cup {o}
      /\ NoRepeats(used) /\ Len(used) \in Nat \ {0} /\ used[Len(used)] = o
  <2>1. lru \in Seq(Offsets) /\ NoRepeats(lru) /\ o \in Offsets
    BY <1>1
  <2> QED
    BY <2>1, UsedProperties
<1> HIDE DEF used
<1>3. used # <<>> /\ CacheCapacity \in Nat \ {0}
  BY <1>2, ConstantsAssumption
<1>4. /\ Newest(used, CacheCapacity) \in Seq(Offsets)
      /\ ToSet(Newest(used, CacheCapacity)) \subseteq ToSet(used)
      /\ used[Len(used)] \in ToSet(Newest(used, CacheCapacity))
      /\ NoRepeats(Newest(used, CacheCapacity))
      /\ Len(Newest(used, CacheCapacity)) <= CacheCapacity
  BY <1>2, <1>3, NewestProperties
<1> QED
  BY <1>1, <1>2, <1>4 DEF o, used

LEMMA OrderStep == StoreInv /\ [Next]_vars => OrderInv'
<1> SUFFICES ASSUME StoreInv, [Next]_vars, Frame PROVE OrderInv'
  BY WhoChanges
<1>1. OrderInv /\ CacheCapacity \in Nat \ {0}
  BY ConstantsAssumption DEF StoreInv
<1>2. NoRepeats(<<>>) /\ ToSet(<<>>) = {} /\ Len(<<>>) = 0
  BY DEF NoRepeats, ToSet
<1>3. CASE UNCHANGED cacheVars
  BY <1>1, <1>3 DEF OrderInv, cacheVars, NoRepeats, ToSet, Frame, Close
<1>4. CASE Close
  BY <1>1, <1>2, <1>4 DEF OrderInv, Close
<1>5. ASSUME NEW r \in Readers, DecRefClear(r) PROVE OrderInv'
  BY <1>1, <1>2, <1>5 DEF OrderInv, DecRefClear
<1>6. ASSUME NEW r \in Readers, GcStore(r) PROVE OrderInv'
  <2>1. CASE ~hasCache
    BY <1>1, <1>6, <2>1 DEF OrderInv, GcStore, NoRepeats, ToSet
  <2>2. CASE hasCache
    <3> DEFINE order == Newest(Used(lru, ChunkOf(r)), CacheCapacity)
    <3>1. pc[r] = "store" /\ hasCache' /\ lru' = order
          /\ DOMAIN cache' = ToSet(order)
      BY <1>6, <2>2 DEF GcStore
    <3>2. NoRepeats(order) /\ Len(order) <= CacheCapacity
      BY <3>1, StoredOrder
    <3> QED
      BY <3>1, <3>2 DEF OrderInv
  <2> QED
    BY <2>1, <2>2
<1> QED
  BY <1>3, <1>4, <1>5, <1>6 DEF Frame

LEMMA SharedStep == StoreInv /\ [Next]_vars => SharedTypes'
<1> SUFFICES ASSUME StoreInv, [Next]_vars, Frame PROVE SharedTypes'
  BY WhoChanges
<1>1. SharedTypes /\ CallTypes /\ InFile
  BY TypeParts DEF StoreInv
<1>2. refs' \in 0..Cardinality(Readers)
  <2>1. Opened' \in SUBSET Readers /\ IsFiniteSet(Readers)
    BY ConstantsAssumption DEF Opened
  <2> QED
    BY <2>1, CountedStep, FS_Subset, FS_CardinalityType DEF Counted
<1>3. /\ DOMAIN cache' \subseteq Offsets /\ lru' \in Seq(Offsets)
      /\ \A o \in DOMAIN cache' : cache'[o] \in Chunks
  <2>1. CASE UNCHANGED cacheVars
    BY <1>1, <2>1 DEF SharedTypes, cacheVars
  <2>2. CASE Close \/ \E r \in Readers : DecRefClear(r)
    <3>1. cache' = [o \in {} |-> Err("none")] /\ lru' = <<>>
      BY <2>2 DEF Close, DecRefClear
    <3>2. DOMAIN cache' = {} /\ <<>> \in Seq(Offsets)
      BY <3>1
    <3> QED
      BY <3>1, <3>2
  <2>3. ASSUME NEW r \in Readers, GcStore(r)
        PROVE  /\ DOMAIN cache' \subseteq Offsets /\ lru' \in Seq(Offsets)
               /\ \A o \in DOMAIN cache' : cache'[o] \in Chunks
    <3> DEFINE order == Newest(Used(lru, ChunkOf(r)), CacheCapacity)
    <3>1. pc[r] = "store" /\ chunk[r] \in Chunks
      BY <1>1, <2>3 DEF GcStore, CallTypes
    <3>2. /\ ChunkOf(r) \in Offsets /\ order \in Seq(Offsets)
          /\ ToSet(order) \subseteq DOMAIN cache \cup {ChunkOf(r)}
      BY <3>1, StoredOrder
    <3>3. CASE UNCHANGED <<lru, cache>>
      BY <1>1, <3>3 DEF SharedTypes
    <3>4. CASE /\ lru' = order
               /\ cache' = [i \in ToSet(order) |->
                             IF i = ChunkOf(r) THEN chunk[r] ELSE cache[i]]
      <4> HIDE DEF order
      <4> QED
        BY <1>1, <3>1, <3>2, <3>4 DEF SharedTypes
    <3> QED
      BY <2>3, <3>3, <3>4 DEF GcStore
  <2> QED
    BY <2>1, <2>2, <2>3 DEF Frame
<1>4. active' \subseteq Offsets
  <2>1. ASSUME NEW r \in Readers, GcActive(r) PROVE active' \subseteq Offsets
    <3>1. ChunkOf(r) \in Offsets
      BY <1>1, <2>1, PlaceInChunk DEF StoreInv, InFile, Placed, GcActive
    <3> QED
      BY <1>1, <2>1, <3>1 DEF SharedTypes, GcActive
  <2> QED
    BY <1>1, <2>1 DEF SharedTypes, Frame, GcSignal
<1>5. slots' \subseteq Readers
  BY <1>1 DEF SharedTypes, Frame, GcSlot, GcRequest, GcBackoff
<1>6. closer' \in {"idle", "done"}
  BY <1>1 DEF SharedTypes, Frame, Close
<1> QED
  BY <1>2, <1>3, <1>4, <1>5, <1>6 DEF SharedTypes

(* A call stays at its place, and got there by the test of ReadAt's loop.  *)
LEMMA PlaceKept ==
  ASSUME StoreInv, [Next]_vars, NEW q \in Readers, pc'[q] \in Placed
  PROVE  /\ req'[q] = req[q] /\ got'[q] = got[q]
         /\ Current(q)' = Current(q) /\ Remaining(q)' = Remaining(q)
         /\ ChunkOf(q)' = ChunkOf(q)
         /\ Remaining(q) > 0 /\ Current(q) < Size
<1>1. CallTypes /\ ReturnTypes /\ InFile /\ Frame
  BY TypeParts, WhoChanges DEF StoreInv
<1>2. req'[q] = req[q]
  <2>1. ASSUME NEW r \in Readers, RdCall(r) \/ RdReturn(r)
        PROVE  req'[q] = req[q]
    <3>1. pc'[r] \notin Placed
      BY <1>1, <2>1 DEF RdCall, RdReturn, Goto, CallTypes, Placed, Fetching
    <3>2. r # q
      BY <3>1
    <3> QED
      BY <1>1, <2>1, <3>2 DEF RdCall, RdReturn, CallTypes
  <2> QED
    BY <1>1, <2>1 DEF Frame
<1>3. got'[q] = got[q]
  <2>1. ASSUME NEW r \in Readers, RdCopy(r) \/ RdReturn(r)
        PROVE  got'[q] = got[q]
    <3>1. pc'[r] \notin Placed \/ UNCHANGED got
      BY <1>1, <2>1
         DEF RdCopy, RdReturn, Returns, Goto, CallTypes, Placed, Fetching
    <3>2. r # q \/ UNCHANGED got
      BY <3>1
    <3> QED
      BY <1>1, <2>1, <3>2 DEF RdCopy, RdReturn, CallTypes
  <2> QED
    BY <1>1, <2>1 DEF Frame
<1>4. Remaining(q) > 0 /\ Current(q) < Size
  <2>1. CASE pc[q] \in Placed
    BY <1>1, <2>1 DEF InFile
  <2>2. ASSUME NEW r \in Readers, RdLoop(r)
        PROVE  pc[q] \in Placed \/ (Remaining(q) > 0 /\ Current(q) < Size)
    BY <1>1, <2>2 DEF RdLoop, Returns, Goto, CallTypes, Placed, Fetching
  <2>3. ASSUME NEW r \in Readers,
               \/ GcCache(r) \/ GcActive(r) \/ GcWaitExpired(r) \/ GcRecheck(r)
               \/ GcRequest(r) \/ GcBackoff(r) \/ GcStore(r) \/ GcSignal(r)
               \/ RdCopy(r) \/ RdReturn(r)
        PROVE  pc[q] \in Placed
    BY <1>1, <2>3
       DEF GcCache, GcActive, GcWaitExpired, GcRecheck, GcRequest, GcBackoff,
           GcStore, GcSignal, RdCopy, RdReturn, Returns, Gets, Fetched, Goto,
           CallTypes, Placed, Fetching
  <2>4. ASSUME NEW r \in Readers,
               \/ OpenHandle(r) \/ DecRef(r) \/ DecRefClear(r) \/ RdCall(r)
               \/ RdExpire(r) \/ GcSlot(r)
        PROVE  pc[q] \in Placed
    BY <1>1, <2>4
       DEF OpenHandle, DecRef, DecRefClear, RdCall, RdExpire, GcSlot, Fetched,
           Goto, CallTypes, Placed, Fetching
  <2>5. CASE Close \/ Dead \/ UNCHANGED vars
    BY <2>1, <2>5 DEF Close, Dead, vars
  <2> QED
    BY <2>1, <2>2, <2>3, <2>4, <2>5 DEF Next, ReaderStep
<1>5. /\ Current(q)' = Current(q) /\ Remaining(q)' = Remaining(q)
      /\ ChunkOf(q)' = ChunkOf(q)
  BY <1>2, <1>3 DEF Current, Remaining, ChunkOf
<1> QED
  BY <1>2, <1>3, <1>4, <1>5

LEMMA InFileStep == StoreInv /\ [Next]_vars => InFile'
BY PlaceKept DEF InFile

(* Nothing read and no result before a call and after it.                  *)
LEMMA FreshStep == StoreInv /\ [Next]_vars => Fresh'
<1> SUFFICES ASSUME StoreInv, [Next]_vars, Frame, NEW q \in Readers
             PROVE  /\ pc'[q] \in {"shut", "idle", "clear"} => got'[q] = 0
                    /\ pc'[q] # "return" => ret'[q] = NoResult
  BY WhoChanges DEF Fresh
<1>1. CallTypes /\ ReturnTypes /\ Fresh
  BY TypeParts DEF StoreInv
<1>2. ASSUME NEW r \in Readers, RdReturn(r)
      PROVE  /\ pc'[q] \in {"shut", "idle", "clear"} => got'[q] = 0
             /\ pc'[q] # "return" => ret'[q] = NoResult
  BY <1>1, <1>2 DEF RdReturn, Goto, CallTypes, ReturnTypes, Fresh
<1>3. ASSUME NEW r \in Readers, RdCopy(r) \/ RdLoop(r)
      PROVE  /\ pc'[q] \in {"shut", "idle", "clear"} => got'[q] = 0
             /\ pc'[q] # "return" => ret'[q] = NoResult
  BY <1>1, <1>3
     DEF RdCopy, RdLoop, Returns, Goto, CallTypes, ReturnTypes, Fresh
<1>4. ASSUME NEW r \in Readers,
             \/ GcCache(r) \/ GcActive(r) \/ GcWaitExpired(r) \/ GcRecheck(r)
             \/ GcRequest(r) \/ GcBackoff(r) \/ GcStore(r) \/ GcSignal(r)
      PROVE  /\ UNCHANGED <<got, ret>>
             /\ pc'[q] \in {"shut", "idle", "clear"} => pc'[q] = pc[q]
             /\ pc[q] = "return" => pc'[q] = "return"
  BY <1>1, <1>4
     DEF GcCache, GcActive, GcWaitExpired, GcRecheck, GcRequest, GcBackoff,
         GcStore, GcSignal, Gets, Fetched, Goto, CallTypes, callVars
<1>5. ASSUME NEW r \in Readers,
             \/ OpenHandle(r) \/ DecRef(r) \/ DecRefClear(r) \/ RdCall(r)
             \/ RdExpire(r) \/ GcSlot(r)
      PROVE  /\ UNCHANGED <<got, ret>>
             /\ pc'[q] \in {"shut", "idle", "clear"} =>
                  pc[q] \in {"shut", "idle", "clear"}
             /\ pc[q] = "return" => pc'[q] = "return"
  BY <1>1, <1>5
     DEF OpenHandle, DecRef, DecRefClear, RdCall, RdExpire, GcSlot, Fetched,
         Goto, CallTypes, callVars
<1>6. CASE Close \/ Dead \/ UNCHANGED vars
  BY <1>1, <1>6 DEF Close, Dead, vars, callVars, Fresh
<1> QED
  BY <1>1, <1>2, <1>3, <1>4, <1>5, <1>6 DEF Next, ReaderStep, Fresh

(* The semaphore is taken with a place free, and given back in the end.    *)
LEMMA SemaphoreStep == StoreInv /\ [Next]_vars => Semaphore'
<1> SUFFICES ASSUME StoreInv, [Next]_vars, Frame PROVE Semaphore'
  BY WhoChanges
<1> DEFINE holds(r) == pc[r] \in {"request", "backoff"}
           held == {r \in Readers : holds(r)}
<1>1. /\ CallTypes /\ slots = held /\ Cardinality(slots) <= MaxConcurrent
      /\ IsFiniteSet(slots) /\ Cardinality(slots) \in Nat
      /\ MaxConcurrent \in Nat \ {0}
  <2>1. slots \in SUBSET Readers /\ IsFiniteSet(Readers)
    BY ConstantsAssumption DEF StoreInv, Semaphore
  <2> QED
    BY <2>1, ConstantsAssumption, FS_Subset, FS_CardinalityType, TypeParts
       DEF StoreInv, Semaphore
<1>2. ASSUME NEW r \in Readers, GcSlot(r) PROVE Semaphore'
  <2>1. CASE slots' = slots
    <3>1. held' = held
      BY <1>1, <1>2, <2>1 DEF GcSlot, Goto, Fetched, CallTypes
    <3> QED
      BY <1>1, <2>1, <3>1 DEF Semaphore
  <2>2. CASE /\ Cardinality(slots) < MaxConcurrent /\ slots' = slots \cup {r}
             /\ Goto(r, "slot", "request")
    <3>1. held' = held \cup {r}
      BY <1>1, <2>2 DEF Goto, CallTypes
    <3>2. Cardinality(slots') <= Cardinality(slots) + 1
          /\ Cardinality(slots') \in Nat
      <4>1. Cardinality(slots \cup {r}) =
              IF r \in slots THEN Cardinality(slots) ELSE Cardinality(slots) + 1
        BY <1>1, FS_AddElement
      <4> QED
        BY <1>1, <2>2, <4>1
    <3> QED
      BY <1>1, <2>2, <3>1, <3>2 DEF Semaphore
  <2> QED
    BY <1>2, <2>1, <2>2 DEF GcSlot
<1>3. ASSUME NEW r \in Readers, GcRequest(r) \/ GcBackoff(r) PROVE Semaphore'
  <2>1. CASE slots' = slots
    <3>1. held' = held
      BY <1>1, <1>3, <2>1 DEF GcRequest, GcBackoff, Goto, Fetched, CallTypes
    <3> QED
      BY <1>1, <2>1, <3>1 DEF Semaphore
  <2>2. CASE slots' = slots \ {r}
    <3>1. held' = held \ {r} \/ slots' = slots
      BY <1>1, <1>3, <2>2 DEF GcRequest, GcBackoff, Goto, Fetched, CallTypes
    <3>2. Cardinality(slots') <= MaxConcurrent
      <4>1. Cardinality(slots \ {r}) =
              IF r \in slots THEN Cardinality(slots) - 1 ELSE Cardinality(slots)
        BY <1>1, FS_RemoveElement
      <4> QED
        BY <1>1, <2>2, <4>1
    <3> QED
      BY <1>1, <2>1, <2>2, <3>1, <3>2 DEF Semaphore
  <2> QED
    BY <1>3, <2>1, <2>2 DEF GcRequest, GcBackoff
<1>4. ASSUME NEW r \in Readers,
             \/ RdLoop(r) \/ GcCache(r) \/ GcActive(r) \/ GcWaitExpired(r)
             \/ GcRecheck(r) \/ GcStore(r) \/ GcSignal(r) \/ RdCopy(r)
             \/ RdReturn(r)
      PROVE  held' = held /\ slots' = slots
  BY <1>1, <1>4
     DEF RdLoop, GcCache, GcActive, GcWaitExpired, GcRecheck, GcStore, GcSignal,
         RdCopy, RdReturn, Returns, Gets, Goto, CallTypes, fetchVars
<1>5. ASSUME NEW r \in Readers,
             \/ OpenHandle(r) \/ DecRef(r) \/ DecRefClear(r) \/ RdCall(r)
             \/ RdExpire(r)
      PROVE  held' = held /\ slots' = slots
  BY <1>1, <1>5
     DEF OpenHandle, DecRef, DecRefClear, RdCall, RdExpire, Goto, CallTypes,
         fetchVars
<1>6. CASE Close \/ Dead \/ UNCHANGED vars
  BY <1>1, <1>6 DEF Close, Dead, vars, fetchVars, Semaphore
<1>7. ASSUME held' = held, slots' = slots PROVE Semaphore'
  BY <1>1, <1>7 DEF Semaphore
<1> QED
  BY <1>2, <1>3, <1>4, <1>5, <1>6, <1>7 DEF Next, ReaderStep

(* A step that leaves activeReads alone, lets nobody begin to fetch, end   *)
(* fetching or begin to wait, and moves nobody who does.                   *)
LEMMA FlightKept ==
  ASSUME FlightInv, UNCHANGED active,
         \A q \in Readers :
           /\ pc'[q] \in Fetching <=> pc[q] \in Fetching
           /\ pc'[q] = "wait" => pc[q] = "wait"
           /\ pc'[q] \in Fetching \cup {"wait"} => ChunkOf(q)' = ChunkOf(q)
  PROVE  FlightInv'
<1>1. InFlight' = InFlight /\ InFlight \subseteq Readers
  BY DEF InFlight
<1>2. \A q \in InFlight : ChunkOf(q)' = ChunkOf(q)
  BY DEF InFlight
<1>3. active' = {ChunkOf(r)' : r \in InFlight'}
  BY <1>1, <1>2 DEF FlightInv
<1>4. \A r, q \in InFlight' : ChunkOf(r)' = ChunkOf(q)' => r = q
  BY <1>1, <1>2 DEF FlightInv
<1>5. \A r \in Readers : pc'[r] = "wait" => ChunkOf(r)' \in active'
  BY DEF FlightInv
<1> QED
  BY <1>3, <1>4, <1>5 DEF FlightInv

LEMMA FlightStep == StoreInv /\ [Next]_vars => FlightInv'
<1> SUFFICES ASSUME StoreInv, [Next]_vars, Frame PROVE FlightInv'
  BY WhoChanges
<1>1. CallTypes /\ FlightInv
  BY TypeParts DEF StoreInv
<1>2. \A q \in Readers : pc'[q] \in Placed => ChunkOf(q)' = ChunkOf(q)
  BY PlaceKept
<1>3. \A q \in Readers :
        pc'[q] \in Fetching \cup {"wait"} => ChunkOf(q)' = ChunkOf(q)
  BY <1>2 DEF Placed
<1>4. ASSUME NEW r \in Readers, GcActive(r) PROVE FlightInv'
  <2>1. CASE ChunkOf(r) \in active
    <3>1. pc' = [pc EXCEPT ![r] = "wait"] /\ active' = active /\ pc[r] = "active"
      BY <1>4, <2>1 DEF GcActive, Goto
    <3>2. InFlight' = InFlight
      BY <1>1, <3>1 DEF InFlight, Fetching, CallTypes
    <3>3. \A q \in InFlight : ChunkOf(q)' = ChunkOf(q)
      BY <1>3, <3>2 DEF InFlight
    <3>4. \A q \in Readers : pc'[q] = "wait" => pc[q] = "wait" \/ q = r
      BY <1>1, <3>1 DEF CallTypes
    <3> QED
      BY <1>1, <1>3, <2>1, <3>1, <3>2, <3>3, <3>4 DEF FlightInv
  <2>2. CASE ChunkOf(r) \notin active
    <3>1. /\ pc' = [pc EXCEPT ![r] = "slot"] /\ pc[r] = "active"
          /\ active' = active \cup {ChunkOf(r)}
      BY <1>4, <2>2 DEF GcActive, Goto
    <3>2. InFlight' = InFlight \cup {r} /\ r \notin InFlight
      BY <1>1, <3>1 DEF InFlight, Fetching, CallTypes
    <3>3. \A q \in InFlight' : ChunkOf(q)' = ChunkOf(q)
      BY <1>3 DEF InFlight
    <3>4. active' = {ChunkOf(q)' : q \in InFlight'}
      BY <1>1, <3>1, <3>2, <3>3 DEF FlightInv
    <3>5. \A q \in InFlight : ChunkOf(q) \in active
      BY <1>1 DEF FlightInv
    <3>6. \A p, q \in InFlight' : ChunkOf(p)' = ChunkOf(q)' => p = q
      BY <1>1, <2>2, <3>2, <3>3, <3>5 DEF FlightInv
    <3>7. \A q \in Readers : pc'[q] = "wait" => pc[q] = "wait"
      BY <1>1, <3>1 DEF CallTypes
    <3>8. \A q \in Readers : pc'[q] = "wait" => ChunkOf(q)' \in active'
      BY <1>1, <1>3, <3>1, <3>7 DEF FlightInv
    <3> QED
      BY <3>4, <3>6, <3>8 DEF FlightInv
  <2> QED
    BY <2>1, <2>2
<1>5. ASSUME NEW r \in Readers, GcSignal(r) PROVE FlightInv'
  <2>1. /\ active' = active \ {ChunkOf(r)} /\ pc[r] = "signal"
        /\ \A q \in Readers :
             pc'[q] = IF q = r THEN "copy"
                      ELSE IF pc[q] = "wait" /\ ChunkOf(q) = ChunkOf(r)
                        THEN "recheck" ELSE pc[q]
    BY <1>5 DEF GcSignal
  <2>2. InFlight' = InFlight \ {r} /\ r \in InFlight
    BY <1>1, <2>1 DEF InFlight, Fetching
  <2>3. \A q \in InFlight' : ChunkOf(q)' = ChunkOf(q)
    BY <1>3 DEF InFlight
  <2>4. active' = {ChunkOf(q)' : q \in InFlight'}
    BY <1>1, <2>1, <2>2, <2>3 DEF FlightInv
  <2>5. \A p, q \in InFlight' : ChunkOf(p)' = ChunkOf(q)' => p = q
    BY <1>1, <2>2, <2>3 DEF FlightInv
  <2>6. \A q \in Readers :
          pc'[q] = "wait" => pc[q] = "wait" /\ ChunkOf(q) # ChunkOf(r)
    BY <2>1
  <2>7. \A q \in Readers : pc'[q] = "wait" => ChunkOf(q)' \in active'
    BY <1>1, <1>3, <2>1, <2>6 DEF FlightInv
  <2> QED
    BY <2>4, <2>5, <2>7 DEF FlightInv
<1>6. CASE UNCHANGED active /\ ~\E r \in Readers : GcActive(r) \/ GcSignal(r)
  <2>1. ASSUME NEW q \in Readers
        PROVE  /\ pc'[q] \in Fetching <=> pc[q] \in Fetching
               /\ pc'[q] = "wait" => pc[q] = "wait"
    <3>1. ASSUME NEW r \in Readers,
                 \/ RdLoop(r) \/ GcCache(r) \/ GcWaitExpired(r) \/ GcRecheck(r)
                 \/ GcRequest(r) \/ GcBackoff(r) \/ GcStore(r) \/ RdCopy(r)
                 \/ RdReturn(r)
          PROVE  /\ pc'[q] \in Fetching <=> pc[q] \in Fetching
                 /\ pc'[q] = "wait" => pc[q] = "wait"
      BY <1>1, <3>1
         DEF RdLoop, GcCache, GcWaitExpired, GcRecheck, GcRequest, GcBackoff,
             GcStore, RdCopy, RdReturn, Returns, Gets, Fetched, Goto, CallTypes,
             Fetching
    <3>2. ASSUME NEW r \in Readers,
                 \/ OpenHandle(r) \/ DecRef(r) \/ DecRefClear(r) \/ RdCall(r)
                 \/ RdExpire(r) \/ GcSlot(r)
          PROVE  /\ pc'[q] \in Fetching <=> pc[q] \in Fetching
                 /\ pc'[q] = "wait" => pc[q] = "wait"
      BY <1>1, <3>2
         DEF OpenHandle, DecRef, DecRefClear, RdCall, RdExpire, GcSlot, Fetched,
             Goto, CallTypes, Fetching
    <3>3. CASE Close \/ Dead \/ UNCHANGED vars
      BY <3>3 DEF Close, Dead, vars
    <3> QED
      BY <1>6, <3>1, <3>2, <3>3 DEF Next, ReaderStep
  <2> QED
    BY <1>1, <1>3, <1>6, <2>1, FlightKept
<1> QED
  BY <1>4, <1>5, <1>6 DEF Frame

-----------------------------------------------------------------------------
(* What is known while the bodies fit their requests.                      *)

(* While bodies fit, what there is of a chunk beyond the place is all the  *)
(* file has there, and not nothing.                                        *)
LEMMA FittingRest ==
  ASSUME StoreInv, ~misled, NEW r \in Readers, pc[r] = "copy",
         chunk[r].err = "nil"
  PROVE  LET rest == chunk[r].len - (Current(r) - ChunkOf(r)) IN
           rest > 0 /\ rest <= Size - Current(r)
<1>1. /\ Remaining(r) > 0 /\ Current(r) < Size
      /\ chunk[r].len = Asked(ChunkOf(r))
  BY DEF StoreInv, InFile, Placed, Fitting, Fits
<1>2. /\ Current(r) \in Nat /\ ChunkOf(r) \in Nat /\ ChunkOf(r) <= Current(r)
      /\ Current(r) < ChunkOf(r) + ChunkSize
  BY PlaceInChunk DEF StoreInv
<1>3. Size \in Nat /\ ChunkSize \in Nat
  BY ConstantsAssumption
<1> QED
  BY <1>1, <1>2, <1>3 DEF Asked, Lesser

LEMMA FullLengthBounds ==
  ASSUME NEW q \in [off : Nat, len : Nat \ {0}]
  PROVE  /\ FullLength(q) \in Nat /\ FullLength(q) <= q.len
         /\ q.off < Size => FullLength(q) <= Size - q.off
         /\ FullLength(q) = q.len \/ q.off + FullLength(q) >= Size
BY ConstantsAssumption DEF FullLength, Lesser

LEMMA FittingStep == StoreInv /\ [Next]_vars => Fitting'
<1> SUFFICES ASSUME StoreInv, [Next]_vars, Frame, ~misled' PROVE Fitting'
  BY WhoChanges DEF Fitting
<1>1. /\ CallTypes /\ ReturnTypes /\ SharedTypes
      /\ req' \in [Readers -> Requests]
      /\ Requests \subseteq [off : Nat, len : Nat \ {0}]
  BY TypeParts, CallStep, ConstantsAssumption DEF StoreInv, CallTypes
<1>2. ~misled
  BY DEF Frame, GcRequest
<1>3. /\ \A o \in DOMAIN cache : Fits(cache[o], o)
      /\ \A r \in Readers : pc[r] \in {"store", "signal", "copy"} =>
                            Fits(chunk[r], ChunkOf(r))
      /\ \A r \in Readers : got[r] <= FullLength(req[r])
  BY <1>2 DEF StoreInv, Fitting
<1>4. \A o \in DOMAIN cache' : Fits(cache'[o], o)
  <2>1. CASE UNCHANGED cacheVars
    BY <1>3, <2>1 DEF cacheVars
  <2>2. CASE Close \/ \E r \in Readers : DecRefClear(r)
    <3>1. DOMAIN cache' = {}
      BY <2>2 DEF Close, DecRefClear
    <3> QED
      BY <3>1
  <2>3. ASSUME NEW r \in Readers, GcStore(r)
        PROVE  \A o \in DOMAIN cache' : Fits(cache'[o], o)
    <3> DEFINE order == Newest(Used(lru, ChunkOf(r)), CacheCapacity)
    <3>1. pc[r] = "store" /\ Fits(chunk[r], ChunkOf(r))
      BY <1>3, <2>3 DEF GcStore
    <3>2. ToSet(order) \subseteq DOMAIN cache \cup {ChunkOf(r)}
      BY <3>1, StoredOrder
    <3>3. CASE UNCHANGED cache
      BY <1>3, <3>3
    <3>4. CASE cache' = [i \in ToSet(order) |->
                         IF i = ChunkOf(r) THEN chunk[r] ELSE cache[i]]
      <4> HIDE DEF order
      <4> QED
        BY <1>3, <3>1, <3>2, <3>4
    <3> QED
      BY <2>3, <3>3, <3>4 DEF GcStore
  <2> QED
    BY <2>1, <2>2, <2>3 DEF Frame
<1>5. ASSUME NEW q \in Readers, pc'[q] \in {"store", "signal", "copy"}
      PROVE  Fits(chunk'[q], ChunkOf(q)')
  <2>1. ChunkOf(q)' = ChunkOf(q)
    BY <1>5, PlaceKept DEF Placed, Fetching
  <2>2. \A e \in Errors : e # "nil" => Fits(Err(e), ChunkOf(q))
    BY DEF Fits, Err
  <2>3. CASE pc[q] = pc'[q] /\ chunk'[q] = chunk[q]
    BY <1>3, <1>5, <2>1, <2>3
  <2>4. ASSUME NEW r \in Readers, GcRequest(r)
        PROVE  Fits(chunk'[q], ChunkOf(q))
    <3>1. \A c \in Bodies(ChunkOf(r)) :
            misled' = (misled \/ c # Data(Asked(ChunkOf(r)))) =>
              Fits(c, ChunkOf(r))
      <4>1. Fits(Data(Asked(ChunkOf(r))), ChunkOf(r))
        BY DEF Fits, Data
      <4> QED
        BY <4>1, Zenon
    <3> QED
      BY <1>1, <1>3, <1>5, <2>2, <2>4, <3>1
         DEF GcRequest, Fetched, Goto, CallTypes, Errors
  <2>5. ASSUME NEW r \in Readers, GcCache(r) \/ GcRecheck(r)
        PROVE  Fits(chunk'[q], ChunkOf(q))
    BY <1>1, <1>3, <1>5, <2>2, <2>5
       DEF GcCache, GcRecheck, Gets, Goto, CallTypes, Errors
  <2>6. ASSUME NEW r \in Readers, GcWaitExpired(r) \/ GcSlot(r) \/ GcBackoff(r)
        PROVE  Fits(chunk'[q], ChunkOf(q))
    BY <1>1, <1>3, <1>5, <2>2, <2>6
       DEF GcWaitExpired, GcSlot, GcBackoff, Gets, Fetched, Goto, CallTypes,
           Errors
  <2>7. ASSUME NEW r \in Readers, RdCopy(r)
        PROVE  Fits(chunk'[q], ChunkOf(q))
    <3>1. /\ chunk' = [chunk EXCEPT ![r] = Err("none")]
          /\ q = r \/ pc'[q] = pc[q]
      BY <1>1, <2>7 DEF RdCopy, Returns, Goto, CallTypes
    <3> QED
      BY <1>1, <1>3, <1>5, <2>2, <3>1 DEF CallTypes, Errors
  <2>8. ASSUME NEW r \in Readers, GcStore(r) \/ GcSignal(r) \/ GcActive(r)
        PROVE  Fits(chunk'[q], ChunkOf(q))
    BY <1>1, <1>3, <1>5, <2>8
       DEF GcStore, GcSignal, GcActive, Goto, CallTypes, callVars
  <2>9. ASSUME NEW r \in Readers,
               \/ OpenHandle(r) \/ DecRef(r) \/ DecRefClear(r) \/ RdCall(r)
               \/ RdExpire(r) \/ RdLoop(r) \/ RdReturn(r)
        PROVE  pc[q] = pc'[q] /\ chunk'[q] = chunk[q]
    BY <1>1, <1>5, <2>9
       DEF OpenHandle, DecRef, DecRefClear, RdCall, RdExpire, RdLoop, RdReturn,
           Returns, Goto, CallTypes, callVars
  <2>10. CASE Close \/ Dead \/ UNCHANGED vars
    BY <2>3, <2>10 DEF Close, Dead, vars, callVars
  <2> QED
    BY <2>1, <2>3, <2>4, <2>5, <2>6, <2>7, <2>8, <2>9, <2>10 DEF Next, ReaderStep
<1>6. ASSUME NEW q \in Readers PROVE got'[q] <= FullLength(req'[q])
  <2>1. /\ FullLength(req'[q]) \in Nat /\ got[q] \in Nat
        /\ FullLength(req[q]) \in Nat /\ got[q] <= FullLength(req[q])
    BY <1>1, <1>3, FullLengthBounds DEF CallTypes
  <2>2. CASE req'[q] # req[q]
    BY <2>1, <2>2, NewRequest
  <2>3. CASE req'[q] = req[q] /\ UNCHANGED got
    BY <2>1, <2>3
  <2>4. ASSUME NEW r \in Readers, RdReturn(r)
        PROVE  got'[q] = 0 \/ got'[q] = got[q]
    BY <1>1, <2>4 DEF RdReturn, CallTypes
  <2>5. ASSUME NEW r \in Readers, RdCopy(r)
        PROVE  got'[q] <= FullLength(req[q])
    <3> DEFINE rest == chunk[r].len - (Current(r) - ChunkOf(r))
    <3>1. CASE UNCHANGED got
      BY <2>1, <3>1
    <3>2. CASE /\ pc[r] = "copy" /\ chunk[r].err = "nil"
               /\ got' = [got EXCEPT ![r] = @ + Lesser(Remaining(r), rest)]
      <4>1. rest > 0 /\ rest <= Size - Current(r)
        BY <1>2, <3>2, FittingRest
      <4>2. /\ Remaining(r) \in Nat /\ Current(r) \in Nat /\ ChunkOf(r) \in Nat
            /\ Remaining(r) = req[r].len - got[r] /\ Current(r) = req[r].off + got[r]
            /\ got[r] \in Nat /\ req[r].off \in Nat /\ req[r].len \in Nat
            /\ rest \in Int /\ Size \in Nat
        BY <1>1, ConstantsAssumption, PlaceInChunk
           DEF StoreInv, Remaining, Current, CallTypes, Chunks
      <4> HIDE DEF rest
      <4>3. got[r] + Lesser(Remaining(r), rest) <= FullLength(req[r])
        BY <4>1, <4>2 DEF Lesser, FullLength
      <4> QED
        BY <1>1, <2>1, <3>2, <4>3 DEF CallTypes
    <3> QED
      BY <2>5, <3>1, <3>2 DEF RdCopy
  <2> QED
    BY <2>1, <2>2, <2>3, <2>4, <2>5 DEF Frame
<1> QED
  BY <1>4, <1>5, <1>6 DEF Fitting

(* A multiple of the size of a chunk is where a chunk begins.              *)
LEMMA ChunkStart ==
  ASSUME NEW c \in Nat \ {0}, NEW x \in Nat
  PROVE  LET y == (x \div c) * c + c IN y \in Nat /\ (y \div c) * c = y
<1>1. x \div c \in Nat
  OBVIOUS
<1>2. ASSUME NEW k \in Nat PROVE k * c \in Nat /\ (k * c) \div c = k
  OBVIOUS
<1>3. (x \div c) * c + c = (x \div c + 1) * c /\ x \div c + 1 \in Nat
  BY <1>1
<1> QED
  BY <1>2, <1>3

(* A copy takes all there is of the chunk, or all that is wanted.          *)
LEMMA AtChunkStep == StoreInv /\ [Next]_vars => AtChunk'
<1> SUFFICES ASSUME StoreInv, [Next]_vars, Frame, ~misled', NEW q \in Readers
             PROVE  \/ got'[q] = 0 \/ Current(q)' = ChunkOf(q)'
                    \/ Remaining(q)' = 0 \/ Current(q)' >= Size
  BY WhoChanges DEF AtChunk
<1>1. CallTypes /\ DOMAIN got = Readers /\ ~misled
  <2>1. CallTypes
    BY TypeParts DEF StoreInv
  <2>2. misled => misled'
    BY DEF Frame, GcRequest
  <2> QED
    BY <2>1, <2>2 DEF CallTypes
<1>2. CASE req'[q] = req[q] /\ got'[q] = got[q]
  BY <1>1, <1>2 DEF StoreInv, AtChunk, Current, ChunkOf, Remaining
<1>3. CASE req'[q] # req[q] \/ got'[q] = 0
  BY <1>3, NewRequest
<1>4. ASSUME NEW r \in Readers, RdReturn(r)
      PROVE  got'[q] = got[q] \/ got'[q] = 0
  BY <1>1, <1>4 DEF RdReturn
<1>5. ASSUME RdCopy(q), got'[q] # got[q]
      PROVE  \/ Current(q)' = ChunkOf(q)'
             \/ Remaining(q)' = 0 \/ Current(q)' >= Size
  <2> DEFINE o == ChunkOf(q)
             rest == chunk[q].len - (Current(q) - o)
  <2>1. /\ pc[q] = "copy" /\ chunk[q].err = "nil" /\ req' = req
        /\ got'[q] = got[q] + Lesser(Remaining(q), rest)
    BY <1>1, <1>5 DEF RdCopy
  <2>2. /\ o \in Nat /\ Current(q) \in Nat /\ Remaining(q) \in Nat
        /\ Current(q) = req[q].off + got[q] /\ Remaining(q) = req[q].len - got[q]
        /\ got[q] \in Nat /\ req[q].off \in Nat /\ req[q].len \in Nat
        /\ Size \in Nat /\ ChunkSize \in Nat \ {0}
    BY PlaceInChunk, ConstantsAssumption DEF StoreInv, Current, Remaining
  <2>3. chunk[q].len = Lesser(ChunkSize, Size - o)
    BY <1>1, <2>1 DEF StoreInv, Fitting, Fits, Asked
  <2>4. /\ Current(q)' = Current(q) + Lesser(Remaining(q), rest)
        /\ Remaining(q)' = Remaining(q) - Lesser(Remaining(q), rest)
    <3>1. Lesser(Remaining(q), rest) \in Int
      BY <2>2, <2>3 DEF Lesser
    <3>2. /\ Current(q)' = req[q].off + got'[q]
          /\ Remaining(q)' = req[q].len - got'[q]
      BY <2>1 DEF Current, Remaining
    <3> HIDE DEF o, rest
    <3> QED
      BY <2>1, <2>2, <3>1, <3>2
  <2>5. ChunkOf(q)' = (Current(q)' \div ChunkSize) * ChunkSize
    BY DEF ChunkOf
  <2>6. ((o + ChunkSize) \div ChunkSize) * ChunkSize = o + ChunkSize
    BY <2>2, ChunkStart DEF ChunkOf
  <2>7. \/ Remaining(q)' = 0
        \/ Current(q)' = o + ChunkSize
        \/ Current(q)' = Size
    <3> HIDE DEF o
    <3> QED
      BY <2>2, <2>3, <2>4 DEF Lesser
  <2> HIDE DEF o, rest
  <2> QED
    BY <2>2, <2>5, <2>6, <2>7
<1>6. ASSUME NEW r \in Readers, RdCopy(r), r # q PROVE got'[q] = got[q]
  BY <1>1, <1>6 DEF RdCopy
<1> QED
  BY <1>2, <1>3, <1>4, <1>5, <1>6 DEF Frame

(* What is in the cache is data or a failure, put there by a fetch.        *)
LEMMA CacheKept ==
  ASSUME StoreInv, [Next]_vars
  PROVE  /\ \A o \in DOMAIN cache' : cache'[o].err \in Stored
         /\ \A o \in DOMAIN cache : o \in DOMAIN cache' \/ thrown'
         /\ thrown => thrown'
<1>1. Frame /\ Kept
  BY WhoChanges DEF StoreInv
<1>2. CASE UNCHANGED <<cacheVars, thrown>>
  BY <1>1, <1>2 DEF Kept, cacheVars
<1>3. CASE Close \/ \E r \in Readers : DecRefClear(r)
  <2>1. DOMAIN cache' = {} /\ thrown' = (thrown \/ DOMAIN cache # {})
    BY <1>3 DEF Close, DecRefClear
  <2> QED
    BY <2>1
<1>4. ASSUME NEW r \in Readers, GcStore(r)
      PROVE  /\ \A o \in DOMAIN cache' : cache'[o].err \in Stored
             /\ \A o \in DOMAIN cache : o \in DOMAIN cache' \/ thrown'
             /\ thrown => thrown'
  <2> DEFINE order == Newest(Used(lru, ChunkOf(r)), CacheCapacity)
  <2>1. pc[r] = "store" /\ chunk[r].err \in Stored
    BY <1>1, <1>4 DEF GcStore, Kept
  <2>2. ToSet(order) \subseteq DOMAIN cache \cup {ChunkOf(r)}
    BY <2>1, StoredOrder
  <2>3. CASE UNCHANGED <<cache, thrown>>
    BY <1>1, <2>3 DEF Kept
  <2>4. CASE /\ cache' = [i \in ToSet(order) |->
                           IF i = ChunkOf(r) THEN chunk[r] ELSE cache[i]]
             /\ thrown' = (thrown \/ ~(DOMAIN cache \subseteq ToSet(order)))
    <3> HIDE DEF order
    <3>1. DOMAIN cache' = ToSet(order)
      BY <2>4
    <3>2. \A o \in DOMAIN cache' : cache'[o].err \in Stored
      BY <1>1, <2>1, <2>2, <2>4 DEF Kept
    <3>3. \A o \in DOMAIN cache : o \in DOMAIN cache' \/ thrown'
      BY <2>4, <3>1, Zenon
    <3>4. thrown => thrown'
      BY <2>4, Zenon
    <3> QED
      BY <3>2, <3>3, <3>4
  <2> QED
    BY <1>4, <2>3, <2>4 DEF GcStore
<1> QED
  BY <1>1, <1>2, <1>3, <1>4 DEF Frame

LEMMA KeptStep == StoreInv /\ [Next]_vars => Kept'
<1> DEFINE Hand(q) ==
      /\ pc[q] \in {"store", "signal"} => chunk[q].err \in Stored
      /\ pc[q] = "copy" /\ ~panicked =>
           chunk[q].err \in Stored \/ (chunk[q].err = "lost" /\ thrown)
      /\ pc[q] \in {"signal", "recheck"} =>
           ChunkOf(q) \in DOMAIN cache \/ thrown
<1> SUFFICES ASSUME StoreInv, [Next]_vars, Frame, NEW q \in Readers
             PROVE  Hand(q)'
  BY WhoChanges, CacheKept DEF Kept
<1>1. CallTypes /\ Kept /\ Hand(q)
  BY TypeParts DEF StoreInv, Kept
<1>2. /\ \A o \in DOMAIN cache : o \in DOMAIN cache' \/ thrown'
      /\ thrown => thrown'
      /\ panicked => panicked'
  <2>1. ASSUME NEW r \in Readers, GcStore(r) PROVE panicked => panicked'
    BY <2>1 DEF GcStore, Goto
  <2>2. ASSUME NEW r \in Readers, RdCopy(r) PROVE panicked => panicked'
    BY <2>2 DEF RdCopy, Goto, Returns
  <2>3. panicked => panicked'
    BY <2>1, <2>2 DEF Frame
  <2> QED
    BY <2>3, CacheKept
<1>3. pc'[q] \in {"signal", "recheck"} => ChunkOf(q)' = ChunkOf(q)
  BY PlaceKept DEF Placed, Fetching
<1>4. CASE pc'[q] = pc[q] /\ chunk'[q] = chunk[q]
  BY <1>1, <1>2, <1>3, <1>4
<1>5. CASE pc'[q] \notin {"store", "signal", "copy", "recheck"}
  BY <1>5
<1>6. CASE GcCache(q) \/ GcWaitExpired(q) \/ GcRecheck(q)
  BY <1>1, <1>2, <1>6
     DEF Kept, GcCache, GcWaitExpired, GcRecheck, Gets, Goto, CallTypes, Err,
         Stored
<1>7. CASE GcSlot(q) \/ GcBackoff(q)
  BY <1>1, <1>7
     DEF GcSlot, GcBackoff, Fetched, Goto, CallTypes, Err, Stored
<1>8. CASE GcRequest(q)
  BY <1>1, <1>8
     DEF GcRequest, Fetched, Goto, CallTypes, Err, Data, Bodies, Stored
<1>9. CASE GcStore(q)
  <2>1. /\ pc[q] = "store" /\ chunk' = chunk
        /\ pc' = [pc EXCEPT ![q] = "signal"] \/ pc' = [pc EXCEPT ![q] = "store"]
    BY <1>9 DEF GcStore, Goto, callVars
  <2>2. CASE pc'[q] = "store"
    BY <1>4, <2>1, <2>2
  <2>3. CASE pc'[q] = "signal"
    <3>1. ChunkOf(q) \in ToSet(Newest(Used(lru, ChunkOf(q)), CacheCapacity))
      BY <2>1, StoredOrder
    <3>2. DOMAIN cache' = ToSet(Newest(Used(lru, ChunkOf(q)), CacheCapacity))
      BY <1>1, <1>9, <2>3 DEF GcStore, Goto, CallTypes
    <3> QED
      BY <1>1, <1>3, <2>1, <2>3, <3>1, <3>2
  <2> QED
    BY <1>1, <2>1, <2>2, <2>3 DEF CallTypes
<1>10. ASSUME NEW r \in Readers, GcSignal(r) PROVE Hand(q)'
  <2>1. /\ pc[r] = "signal" /\ UNCHANGED <<cache, thrown, chunk>>
        /\ pc'[q] = IF q = r THEN "copy"
                    ELSE IF pc[q] = "wait" /\ ChunkOf(q) = ChunkOf(r)
                      THEN "recheck" ELSE pc[q]
    BY <1>10 DEF GcSignal, cacheVars, callVars, histVars
  <2>2. CASE q = r
    BY <1>1, <2>1, <2>2
  <2>3. CASE pc'[q] = "recheck" /\ ChunkOf(q) = ChunkOf(r)
    BY <1>1, <1>3, <2>1, <2>3 DEF Kept
  <2> QED
    BY <1>4, <2>1, <2>2, <2>3
<1>11. CASE GcActive(q) \/ RdLoop(q) \/ RdReturn(q) \/ OpenHandle(q) \/ DecRef(q)
            \/ DecRefClear(q) \/ RdCall(q)
  <2>1. pc'[q] \notin {"store", "signal", "copy", "recheck"}
    BY <1>1, <1>11
       DEF GcActive, RdLoop, RdReturn, OpenHandle, DecRef, DecRefClear, RdCall,
           Returns, Goto, CallTypes
  <2> QED
    BY <1>5, <2>1
<1>12. CASE RdCopy(q)
  <2>1. CASE pc'[q] # "copy"
    BY <1>1, <1>5, <1>12, <2>1 DEF RdCopy, Returns, Goto, CallTypes
  <2>2. CASE pc'[q] = "copy"
    <3>1. panicked'
      BY <1>1, <1>12, <2>2 DEF RdCopy, Returns, Goto, CallTypes
    <3> QED
      BY <2>2, <3>1
  <2> QED
    BY <2>1, <2>2
<1>13. ASSUME NEW r \in Readers, r # q,
              \/ OpenHandle(r) \/ DecRef(r) \/ DecRefClear(r) \/ RdCall(r)
              \/ RdLoop(r) \/ RdCopy(r) \/ RdReturn(r) \/ GcSlot(r)
              \/ GcCache(r) \/ GcActive(r) \/ GcWaitExpired(r) \/ GcRecheck(r)
              \/ GcRequest(r) \/ GcBackoff(r) \/ GcStore(r)
       PROVE  pc'[q] = pc[q] /\ chunk'[q] = chunk[q]
  BY <1>1, <1>13
     DEF OpenHandle, DecRef, DecRefClear, RdCall, RdLoop, RdCopy, RdReturn,
         GcSlot, GcCache, GcActive, GcWaitExpired, GcRecheck, GcRequest,
         GcBackoff, GcStore, Returns, Gets, Fetched, Goto, CallTypes, callVars
<1>14. ASSUME NEW r \in Readers, RdExpire(r)
       PROVE  pc'[q] = pc[q] /\ chunk'[q] = chunk[q]
  BY <1>14 DEF RdExpire
<1>15. CASE Close \/ Dead \/ UNCHANGED vars
  BY <1>4, <1>15 DEF Close, Dead, vars, callVars
<1> QED
  BY <1>4, <1>6, <1>7, <1>8, <1>9, <1>10, <1>11, <1>12, <1>13, <1>14, <1>15
     DEF Next, ReaderStep

(* ReadExact of one call.                                                  *)
Whole(r) ==
  /\ ret[r].why = "nil" /\ ret[r].n = FullLength(req[r])
  /\ ret[r].err = "EOF" => req[r].off >= Size

Cut(r) ==
  /\ ret[r].n < FullLength(req[r])
  /\ ret[r].why \in {"failed", "context", "lost"}
  /\ ret[r].why = "lost" => thrown
  /\ IF ret[r].n = 0 THEN ret[r].err = ret[r].why
       ELSE req[r].off + ret[r].n = ChunkOf(r) /\ ret[r].err = "nil"

LEMMA ExactStep == StoreInv /\ [Next]_vars => ReadExact'
<1> SUFFICES ASSUME StoreInv, [Next]_vars, Frame, NEW q \in Readers,
                    pc'[q] = "return"
             PROVE  Whole(q)' \/ Cut(q)' \/ misled'
  BY WhoChanges DEF ReadExact, Whole, Cut
<1>1. CallTypes /\ ReturnTypes /\ ReadExact /\ Fresh
  BY TypeParts DEF StoreInv
<1>2. misled => misled'
  BY DEF Frame, GcRequest
<1> DEFINE Stays == pc[q] = "return" /\ ret'[q] = ret[q] /\ req'[q] = req[q]
                    /\ got'[q] = got[q]
<1>3. CASE Stays
  <2>1. Whole(q) \/ Cut(q) \/ misled
    BY <1>1, <1>3 DEF ReadExact, Whole, Cut
  <2>2. ChunkOf(q)' = ChunkOf(q)
    BY <1>3 DEF ChunkOf, Current
  <2>3. thrown => thrown'
    BY CacheKept
  <2> QED
    BY <1>2, <1>3, <2>1, <2>2, <2>3 DEF Whole, Cut
<1>4. /\ req[q].off \in Nat /\ req[q].len \in Nat \ {0} /\ got[q] \in Nat
      /\ Current(q) = req[q].off + got[q] /\ Remaining(q) = req[q].len - got[q]
      /\ got[q] <= req[q].len /\ Size \in Nat
  BY PlaceInChunk, ConstantsAssumption DEF StoreInv, Current, Remaining
<1>5. ~misled => got[q] <= FullLength(req[q])
  BY DEF StoreInv, Fitting
<1>6. CASE RdLoop(q)
  <2>1. /\ req' = req /\ got' = got
        /\ Remaining(q) = 0 \/ Current(q) >= Size
        /\ ret'[q] = [n |-> got[q], why |-> "nil",
                      err |-> IF got[q] = 0 THEN "EOF" ELSE "nil"]
    BY <1>1, <1>6 DEF RdLoop, Returns, Goto, CallTypes, ReturnTypes
  <2>2. ~misled => got[q] = FullLength(req[q])
    BY <1>4, <1>5, <2>1 DEF FullLength, Lesser
  <2>3. got[q] = 0 => req[q].off >= Size
    BY <1>4, <2>1
  <2> QED
    BY <1>2, <2>1, <2>2, <2>3 DEF Whole
<1>7. CASE RdCopy(q)
  <2>1. /\ req' = req /\ got' = got /\ pc[q] = "copy" /\ chunk[q].err # "nil"
        /\ ~panicked
        /\ ret'[q] = [n |-> got[q], why |-> chunk[q].err,
                      err |-> IF got[q] > 0 THEN "nil" ELSE chunk[q].err]
    BY <1>1, <1>7 DEF RdCopy, Returns, Goto, CallTypes, ReturnTypes
  <2>2. Remaining(q) > 0 /\ Current(q) < Size
    BY <2>1 DEF StoreInv, InFile, Placed
  <2>3. got[q] < FullLength(req[q])
    BY <1>4, <2>2 DEF FullLength, Lesser
  <2>4. /\ chunk[q].err \in {"failed", "context", "lost"}
        /\ chunk[q].err = "lost" => thrown'
    BY <2>1, CacheKept DEF StoreInv, Kept, Stored
  <2>5. misled \/ got[q] = 0 \/ Current(q) = ChunkOf(q)
    BY <1>4, <2>2 DEF StoreInv, AtChunk
  <2>6. ChunkOf(q)' = ChunkOf(q)
    BY <2>1 DEF ChunkOf, Current
  <2> QED
    BY <1>2, <1>4, <2>1, <2>3, <2>4, <2>5, <2>6 DEF Cut
<1>8. ASSUME NEW r \in Readers, RdLoop(r) \/ RdCopy(r), r # q
      PROVE  Stays
  BY <1>1, <1>8 DEF RdLoop, RdCopy, Returns, Goto, CallTypes, ReturnTypes
<1>9. ASSUME NEW r \in Readers, RdReturn(r)
      PROVE  Stays
  BY <1>1, <1>9 DEF RdReturn, Goto, CallTypes, ReturnTypes
<1>10. ASSUME NEW r \in Readers,
              \/ GcCache(r) \/ GcActive(r) \/ GcWaitExpired(r) \/ GcRecheck(r)
              \/ GcRequest(r) \/ GcBackoff(r) \/ GcStore(r) \/ GcSignal(r)
       PROVE  Stays
  BY <1>1, <1>10
     DEF GcCache, GcActive, GcWaitExpired, GcRecheck, GcRequest, GcBackoff,
         GcStore, GcSignal, Gets, Fetched, Goto, CallTypes, callVars
<1>11. ASSUME NEW r \in Readers,
              \/ OpenHandle(r) \/ DecRef(r) \/ DecRefClear(r) \/ RdCall(r)
              \/ RdExpire(r) \/ GcSlot(r)
       PROVE  Stays
  BY <1>1, <1>11
     DEF OpenHandle, DecRef, DecRefClear, RdCall, RdExpire, GcSlot, Fetched,
         Goto, CallTypes, callVars
<1>12. CASE Close \/ Dead \/ UNCHANGED vars
  BY <1>3, <1>12 DEF Close, Dead, vars, callVars
<1> QED
  BY <1>3, <1>6, <1>7, <1>8, <1>9, <1>10, <1>11, <1>12 DEF Next, ReaderStep

LEMMA PanicStep == StoreInv /\ [Next]_vars => PanicsOnlyClosed'
<1> SUFFICES ASSUME StoreInv, [Next]_vars, Frame, panicked'
             PROVE  closer' = "done" \/ misled'
  BY WhoChanges DEF PanicsOnlyClosed
<1>1. closer = "done" => closer' = "done"
  BY DEF Frame, Close
<1>2. misled => misled'
  BY DEF Frame, GcRequest
<1>3. CASE panicked
  BY <1>1, <1>2, <1>3 DEF StoreInv, PanicsOnlyClosed
<1>4. ASSUME NEW r \in Readers, GcStore(r) PROVE panicked \/ closer = "done"
  BY <1>4 DEF StoreInv, OrderInv, GcStore
<1>5. ASSUME NEW r \in Readers, RdCopy(r) PROVE panicked \/ misled
  <2>1. ASSUME ~misled, pc[r] = "copy", chunk[r].err = "nil"
        PROVE  ~(chunk[r].len - (Current(r) - ChunkOf(r)) < 0)
    <3> DEFINE rest == chunk[r].len - (Current(r) - ChunkOf(r))
    <3>1. rest > 0 /\ rest \in Int
      BY <2>1, FittingRest, PlaceInChunk, TypeParts
         DEF StoreInv, CallTypes, Chunks
    <3> QED
      BY <3>1
  <2> QED
    BY <1>5, <2>1 DEF RdCopy
<1> QED
  BY <1>1, <1>2, <1>3, <1>4, <1>5 DEF Frame

-----------------------------------------------------------------------------
(* The theorems.                                                           *)

(* The inductive invariant: requests are bounded by the semaphore, the     *)
(* count of handles is right, one call fetches a chunk.                    *)
THEOREM StoreInvariant == Spec => []StoreInv
<1>1. StoreInv /\ [Next]_vars => StoreInv'
  <2> SUFFICES ASSUME StoreInv, [Next]_vars PROVE StoreInv'
    OBVIOUS
  <2>1. FlagTypes' /\ CallTypes' /\ ReturnTypes' /\ SharedTypes'
    BY FlagStep, CallStep, SharedStep
  <2>2. TypeOK'
    BY <2>1, Zenon DEF TypeOK, FlagTypes, CallTypes, ReturnTypes, SharedTypes
  <2> QED
    BY <2>2, InFileStep, FreshStep, CountedStep, FlightStep, SemaphoreStep,
       OrderStep, KeptStep, AtChunkStep, FittingStep, ExactStep, PanicStep
       DEF StoreInv
<1> QED
  BY <1>1, StoreInitial, PTL DEF Spec

(* Every variable holds a value the code can give it.                      *)
THEOREM RangeTypeCorrect == Spec => []TypeOK
<1>1. StoreInv => TypeOK
  BY DEF StoreInv
<1> QED
  BY <1>1, StoreInvariant, PTL

(* The cache and its order of use hold the same chunks, each once, and no  *)
(* more than the capacity, whatever Close and DecRef throw away.           *)
THEOREM RangeCacheConsistent == Spec => []CacheConsistent
<1>1. StoreInv => CacheConsistent
  <2> SUFFICES ASSUME StoreInv PROVE CacheConsistent
    OBVIOUS
  <2>1. lru \in Seq(Offsets) /\ NoRepeats(lru)
    BY DEF StoreInv, TypeOK, OrderInv
  <2>2. Cardinality(ToSet(lru)) = Len(lru)
    BY <2>1, LengthIsCardinality
  <2> QED
    BY <2>2 DEF StoreInv, OrderInv, CacheConsistent
<1> QED
  BY <1>1, StoreInvariant, PTL

(* A read delivers the whole length, or stops where a chunk begins that it *)
(* cannot have, for the error of that chunk and no other reason, unless    *)
(* the server sent a body of another length than asked for.                *)
THEOREM ReadsAreExact == Spec => []ReadExact
<1>1. StoreInv => ReadExact
  BY DEF StoreInv
<1> QED
  BY <1>1, StoreInvariant, PTL

(* A read panics in a closed store, or on a misfit body, only.             *)
THEOREM PanicsAfterClose == Spec => []PanicsOnlyClosed
<1>1. StoreInv => PanicsOnlyClosed
  BY DEF StoreInv
<1> QED
  BY <1>1, StoreInvariant, PTL

(* No more requests are under way than the semaphore allows.               *)
THEOREM RequestsBounded ==
  Spec => [](Cardinality({r \in Readers : pc[r] \in {"request", "backoff"}})
               <= MaxConcurrent)
<1>1. StoreInv =>
        Cardinality({r \in Readers : pc[r] \in {"request", "backoff"}})
          <= MaxConcurrent
  BY DEF StoreInv, Semaphore
<1> QED
  BY <1>1, StoreInvariant, PTL

-----------------------------------------------------------------------------
(* Getting chunks is SingleFlight.                                         *)

Fetches == [r \in Readers |-> IF pc[r] \in Fetching THEN ChunkOf(r) ELSE -1]
Awaits == [r \in Readers |-> IF pc[r] = "wait" THEN ChunkOf(r) ELSE -1]

(* activeReads holds the chunks in flight.                                 *)
LEMMA ActiveIsFlying ==
  ASSUME StoreInv
  PROVE  active = {Fetches[r] : r \in Readers} \ {-1}
<1>1. \A r \in Readers : ChunkOf(r) \in Nat
  BY PlaceInChunk DEF StoreInv
<1>2. active = {ChunkOf(r) : r \in InFlight}
  BY DEF StoreInv, FlightInv
<1>3. ASSUME NEW c
      PROVE  c \in active <=> c \in {Fetches[r] : r \in Readers} \ {-1}
  BY <1>1, <1>2 DEF Fetches, InFlight
<1> QED
  BY <1>3

(* The entry into activeReads begins a fetch, or a wait for it.            *)
LEMMA ActiveRefines ==
  ASSUME StoreInv, [Next]_vars, NEW r \in Readers, GcActive(r),
         NEW c, c = ChunkOf(r)
  PROVE  Flight!Begin(r, c) \/ Flight!Await(r, c)
<1>1. CallTypes /\ pc[r] = "active" /\ ChunkOf(r) # -1
  BY TypeParts, PlaceInChunk DEF StoreInv, GcActive
<1>2. \A q \in Readers :
        pc'[q] \in Fetching \cup {"wait"} => ChunkOf(q)' = ChunkOf(q)
  BY PlaceKept DEF Placed
<1>3. Flight!Free(r)
  BY <1>1 DEF Flight!Free, Fetching
<1>4. Flight!Flying = active
  BY ActiveIsFlying DEF Flight!Flying, Fetches
<1>5. CASE ChunkOf(r) \in active
  <2>1. pc' = [pc EXCEPT ![r] = "wait"]
    BY <1>5 DEF GcActive, Goto
  <2>2. Fetches' = Fetches
    BY <1>1, <1>2, <2>1 DEF Fetches, Fetching, CallTypes
  <2>3. Awaits' = [Awaits EXCEPT ![r] = ChunkOf(r)]
    BY <1>1, <1>2, <2>1 DEF Awaits, CallTypes
  <2> QED
    BY <1>3, <1>4, <1>5, <2>2, <2>3 DEF Flight!Await, Fetches, Awaits
<1>6. CASE ChunkOf(r) \notin active
  <2>1. pc' = [pc EXCEPT ![r] = "slot"]
    BY <1>6 DEF GcActive, Goto
  <2>2. Fetches' = [Fetches EXCEPT ![r] = ChunkOf(r)]
    BY <1>1, <1>2, <2>1 DEF Fetches, Fetching, CallTypes
  <2>3. Awaits' = Awaits
    BY <1>1, <1>2, <2>1 DEF Awaits, CallTypes
  <2> QED
    BY <1>3, <1>4, <1>6, <2>2, <2>3 DEF Flight!Begin, Fetches, Awaits
<1> QED
  BY <1>5, <1>6

(* The signal ends the fetch, and with it all waits for it.                *)
LEMMA SignalRefines ==
  ASSUME StoreInv, [Next]_vars, NEW r \in Readers, GcSignal(r)
  PROVE  Flight!End(r)
<1>1. CallTypes /\ pc[r] = "signal" /\ ChunkOf(r) # -1
      /\ \A q \in Readers : ChunkOf(q) # -1
  BY TypeParts, PlaceInChunk DEF StoreInv, GcSignal
<1>2. \A q \in Readers : ChunkOf(q)' = ChunkOf(q)
  BY DEF GcSignal, callVars, ChunkOf, Current
<1>3. pc' = [q \in Readers |->
               IF q = r THEN "copy"
               ELSE IF pc[q] = "wait" /\ ChunkOf(q) = ChunkOf(r) THEN "recheck"
               ELSE pc[q]]
  BY DEF GcSignal
<1>4. Fetches[r] = ChunkOf(r) /\ Fetches[r] # -1
  BY <1>1 DEF Fetches, Fetching
<1>5. Fetches' = [Fetches EXCEPT ![r] = -1]
  BY <1>1, <1>2, <1>3 DEF Fetches, Fetching
<1>6. Awaits' = [q \in Readers |->
                   IF Awaits[q] = Fetches[r] THEN -1 ELSE Awaits[q]]
  BY <1>1, <1>2, <1>3, <1>4 DEF Awaits
<1> QED
  BY <1>4, <1>5, <1>6 DEF Flight!End, Fetches, Awaits

(* A waiter whose context is done gives up.                                *)
LEMMA ExpiredRefines ==
  ASSUME StoreInv, [Next]_vars, NEW r \in Readers, GcWaitExpired(r)
  PROVE  Flight!GiveUp(r)
<1>1. CallTypes /\ pc[r] = "wait" /\ ChunkOf(r) # -1
      /\ pc' = [pc EXCEPT ![r] = "copy"]
  BY TypeParts, PlaceInChunk DEF StoreInv, GcWaitExpired, Gets, Goto
<1>2. \A q \in Readers : ChunkOf(q)' = ChunkOf(q)
  BY DEF GcWaitExpired, ChunkOf, Current
<1>3. Fetches' = Fetches
  BY <1>1, <1>2 DEF Fetches, Fetching, CallTypes
<1>4. Awaits[r] # -1 /\ Awaits' = [Awaits EXCEPT ![r] = -1]
  BY <1>1, <1>2 DEF Awaits, CallTypes
<1> QED
  BY <1>3, <1>4 DEF Flight!GiveUp, Fetches, Awaits

(* Every other step is a stutter.                                          *)
LEMMA OthersStutter ==
  ASSUME StoreInv, [Next]_vars,
         ~\E r \in Readers : GcActive(r) \/ GcSignal(r) \/ GcWaitExpired(r)
  PROVE  Fetches' = Fetches /\ Awaits' = Awaits
<1>1. CallTypes
  BY TypeParts DEF StoreInv
<1>2. \A q \in Readers :
        pc'[q] \in Fetching \cup {"wait"} => ChunkOf(q)' = ChunkOf(q)
  BY PlaceKept DEF Placed
<1>3. ASSUME NEW q \in Readers
      PROVE  /\ pc'[q] \in Fetching <=> pc[q] \in Fetching
             /\ pc'[q] = "wait" <=> pc[q] = "wait"
  <2>1. ASSUME NEW r \in Readers,
               \/ RdLoop(r) \/ GcCache(r) \/ GcRecheck(r) \/ GcRequest(r)
               \/ GcBackoff(r) \/ GcStore(r) \/ RdCopy(r) \/ RdReturn(r)
        PROVE  /\ pc'[q] \in Fetching <=> pc[q] \in Fetching
               /\ pc'[q] = "wait" <=> pc[q] = "wait"
    BY <1>1, <2>1
       DEF RdLoop, GcCache, GcRecheck, GcRequest, GcBackoff, GcStore, RdCopy,
           RdReturn, Returns, Gets, Fetched, Goto, CallTypes, Fetching
  <2>2. ASSUME NEW r \in Readers,
               \/ OpenHandle(r) \/ DecRef(r) \/ DecRefClear(r) \/ RdCall(r)
               \/ RdExpire(r) \/ GcSlot(r)
        PROVE  /\ pc'[q] \in Fetching <=> pc[q] \in Fetching
               /\ pc'[q] = "wait" <=> pc[q] = "wait"
    BY <1>1, <2>2
       DEF OpenHandle, DecRef, DecRefClear, RdCall, RdExpire, GcSlot, Fetched,
           Goto, CallTypes, Fetching
  <2>3. CASE Close \/ Dead \/ UNCHANGED vars
    BY <2>3 DEF Close, Dead, vars
  <2> QED
    BY <2>1, <2>2, <2>3 DEF Next, ReaderStep
<1> QED
  BY <1>2, <1>3 DEF Fetches, Awaits

(* One fetch for all that want a chunk, nobody waits for a fetch that has  *)
(* ended, and its end lets go of all that wait: for any number of readers. *)
THEOREM RangeSingleFlight == Spec => OneFetcher
<1>1. Init => Flight!Init
  BY DEF Init, Flight!Init, Fetching
<1>2. StoreInv /\ [Next]_vars =>
        [Flight!Next]_<<Fetches, Awaits>>
  <2> SUFFICES ASSUME StoreInv, [Next]_vars
               PROVE  \/ Flight!Next
                      \/ Fetches' = Fetches /\ Awaits' = Awaits
    BY Zenon
  <2>1. ASSUME NEW r \in Readers, GcActive(r) PROVE Flight!Next
    <3>1. ChunkOf(r) \in Offsets
      BY <2>1, PlaceInChunk DEF StoreInv, InFile, Placed, GcActive
    <3>2. PICK c \in Offsets : c = ChunkOf(r)
      BY <3>1
    <3>3. Flight!Begin(r, c) \/ Flight!Await(r, c)
      BY <2>1, <3>2, ActiveRefines
    <3> QED
      BY <3>3 DEF Flight!Next
  <2>2. ASSUME NEW r \in Readers, GcSignal(r) \/ GcWaitExpired(r)
        PROVE  Flight!Next
    BY <2>2, SignalRefines, ExpiredRefines DEF Flight!Next
  <2> QED
    BY <2>1, <2>2, OthersStutter
<1> QED
  BY <1>1, <1>2, StoreInvariant, PTL
     DEF Spec, OneFetcher, Flight!Spec, Fetches, Awaits
=============================================================================
