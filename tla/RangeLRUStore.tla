--------------------------- MODULE RangeLRUStore ---------------------------
(***************************************************************************)
(* internal/fetcher/store_rangelru.go: a remote file read in chunks by     *)
(* HTTP Range requests, each chunk fetched by one ReadAt call for all that *)
(* want it and kept in a cache of limited capacity.                        *)
(*                                                                         *)
(* A step is one hold of a lock, one channel operation or one request.     *)
(* Sizes and offsets count blocks.  Each reader has one file handle, and   *)
(* reads while it is open.                                                 *)
(***************************************************************************)
EXTENDS Integers, FiniteSets, UseOrder

CONSTANTS
  Readers,
  Size,           \* of the file
  ChunkSize,
  CacheCapacity,
  MaxConcurrent,  \* requests under way at a time
  MaxAttempts,    \* requests for a chunk, 3 in the code
  Requests        \* the (offset, length) pairs ReadAt is called with

ASSUME ConstantsAssumption ==
  /\ IsFiniteSet(Readers)
  /\ Size \in Nat \ {0} /\ ChunkSize \in Nat \ {0}
  /\ CacheCapacity \in Nat \ {0} /\ MaxConcurrent \in Nat \ {0}
  /\ MaxAttempts \in Nat \ {0}
  /\ Requests \subseteq [off : Nat, len : Nat \ {0}] /\ Requests # {}

VARIABLES
  hasCache,  \* cache # nil
  cache,     \* the chunks in it
  lru,       \* lruOrder
  active,    \* activeReads: offsets being fetched
  slots,     \* the readers that hold the semaphore
  refs,      \* refCount
  closer,    \* whether Close has run
  pc,        \* where each reader is
  req, got,  \* its request, and how much of it has been read
  chunk,     \* the chunk it has in hand
  attempt,   \* the requests it has made for the chunk
  expired,   \* whether its context is done
  ret,       \* what its call returns
  panicked,
  misled,    \* history: some body was not of the length asked for,
  thrown     \* history: some chunk has left the cache

cacheVars == <<hasCache, cache, lru>>
fetchVars == <<active, slots>>
callVars  == <<req, got, chunk, attempt, expired, ret>>
histVars  == <<misled, thrown>>
vars == <<cacheVars, fetchVars, refs, closer, pc, callVars, panicked, histVars>>

-----------------------------------------------------------------------------
(* Where a read has come to, and the chunk that holds the place.           *)

Lesser(a, b) == IF a < b THEN a ELSE b

Current(r)   == req[r].off + got[r]
Remaining(r) == req[r].len - got[r]
ChunkOf(r)   == (Current(r) \div ChunkSize) * ChunkSize
Offsets      == {o \in 0..(Size - 1) : o % ChunkSize = 0}

(* A chunk is data of some length or an error.                             *)
Data(n) == [len |-> n, err |-> "nil"]
Err(e)  == [len |-> 0, err |-> e]

(* doRangeRequest takes any body for what it asked for, an empty one or    *)
(* the whole file under status 200 included.                               *)
Asked(o)  == Lesser(ChunkSize, Size - o)
Bodies(o) == {Data(Asked(o)), Data(0), Data(Size)}

(* What a call returns, and the error in hand that made it return.         *)
NoResult  == [n |-> 0, err |-> "none", why |-> "none"]
NoRequest == CHOOSE q \in Requests : TRUE

Init ==
  /\ hasCache = TRUE /\ cache = [o \in {} |-> Err("none")] /\ lru = <<>>
  /\ active = {} /\ slots = {} /\ refs = 0 /\ closer = "idle"
  /\ pc = [r \in Readers |-> "shut"]
  /\ req = [r \in Readers |-> NoRequest] /\ got = [r \in Readers |-> 0]
  /\ chunk = [r \in Readers |-> Err("none")]
  /\ attempt = [r \in Readers |-> 0]
  /\ expired = [r \in Readers |-> FALSE]
  /\ ret = [r \in Readers |-> NoResult]
  /\ panicked = FALSE
  /\ misled = FALSE /\ thrown = FALSE

Goto(r, from, to) == ~panicked /\ pc[r] = from /\ pc' = [pc EXCEPT ![r] = to]

-----------------------------------------------------------------------------
(* The handle: IncRef on Open, DecRef on Release.                          *)

OpenHandle(r) ==
  /\ Goto(r, "shut", "idle")
  /\ refs' = refs + 1
  /\ UNCHANGED <<cacheVars, fetchVars, closer, callVars, panicked, histVars>>

DecRef(r) ==
  /\ Goto(r, "idle", IF refs = 1 THEN "clear" ELSE "shut")
  /\ refs' = refs - 1
  /\ UNCHANGED <<cacheVars, fetchVars, closer, callVars, panicked, histVars>>

(* Mutant: the cache is dropped, as by CloseWithContext, not made anew.    *)
DecRefClearToNil(r) ==
  /\ Goto(r, "clear", "shut")
  /\ hasCache' = FALSE /\ cache' = [o \in {} |-> Err("none")] /\ lru' = <<>>
  /\ UNCHANGED <<fetchVars, refs, closer, callVars, panicked, histVars>>

(* The last one out makes a new cache, a closed store's too.               *)
DecRefClear(r) ==
  /\ Goto(r, "clear", "shut")
  /\ hasCache' = TRUE /\ cache' = [o \in {} |-> Err("none")] /\ lru' = <<>>
  /\ thrown' = (thrown \/ DOMAIN cache # {})
  /\ UNCHANGED <<fetchVars, refs, closer, callVars, panicked, misled>>

(* CloseWithContext.                                                       *)
Close ==
  /\ ~panicked /\ closer = "idle" /\ closer' = "done"
  /\ hasCache' = FALSE /\ cache' = [o \in {} |-> Err("none")] /\ lru' = <<>>
  /\ thrown' = (thrown \/ DOMAIN cache # {})
  /\ UNCHANGED <<fetchVars, refs, pc, callVars, panicked, misled>>

-----------------------------------------------------------------------------
(* ReadAt.                                                                 *)

RdCall(r) ==
  /\ Goto(r, "idle", "loop")
  /\ \E q \in Requests : req' = [req EXCEPT ![r] = q]
  /\ UNCHANGED <<cacheVars, fetchVars, refs, closer, got, chunk, attempt,
                 expired, ret, panicked, histVars>>

(* The context of a Read expires after 15 seconds.                         *)
RdExpire(r) ==
  /\ ~panicked /\ pc[r] \notin {"shut", "idle", "clear", "return"}
  /\ ~expired[r] /\ expired' = [expired EXCEPT ![r] = TRUE]
  /\ UNCHANGED <<cacheVars, fetchVars, refs, closer, pc, req, got, chunk,
                 attempt, ret, panicked, histVars>>

Returns(r, from, res) ==
  Goto(r, from, "return") /\ ret' = [ret EXCEPT ![r] = res]

(* The offset may be past the end, and reading come to the end.            *)
RdLoop(r) ==
  /\ pc[r] = "loop"
  /\ \/ /\ Remaining(r) > 0 /\ Current(r) < Size
        /\ Goto(r, "loop", "cache") /\ UNCHANGED ret
     \/ /\ Remaining(r) = 0 \/ Current(r) >= Size
        /\ Returns(r, "loop",
             [n |-> got[r], why |-> "nil",
              err |-> IF got[r] = 0 THEN "EOF" ELSE "nil"])
  /\ UNCHANGED <<cacheVars, fetchVars, refs, closer, req, got, chunk, attempt,
                 expired, panicked, histVars>>

(* getChunk returns with a chunk or an error in hand.                      *)
Gets(r, from, c) == Goto(r, from, "copy") /\ chunk' = [chunk EXCEPT ![r] = c]

GcCache(r) ==
  /\ \/ /\ Goto(r, "cache", "active") /\ ChunkOf(r) \notin DOMAIN cache
        /\ UNCHANGED chunk
     \/ /\ pc[r] = "cache" /\ ChunkOf(r) \in DOMAIN cache
        /\ Gets(r, "cache", cache[ChunkOf(r)])
  /\ UNCHANGED <<cacheVars, fetchVars, refs, closer, req, got, attempt, expired,
                 ret, panicked, histVars>>

(* Mutant: looking into activeReads and entering it are two steps apart,   *)
(* so that a second call may come to fetch.                                *)
GcActiveAlone(r) ==
  /\ Goto(r, "active", "slot") /\ active' = active \cup {ChunkOf(r)}
  /\ UNCHANGED <<cacheVars, slots, refs, closer, callVars, panicked, histVars>>

GcActive(r) ==
  /\ pc[r] = "active"
  /\ IF ChunkOf(r) \in active
       THEN Goto(r, "active", "wait") /\ UNCHANGED active
       ELSE Goto(r, "active", "slot") /\ active' = active \cup {ChunkOf(r)}
  /\ UNCHANGED <<cacheVars, slots, refs, closer, callVars, panicked, histVars>>

(* The select of a waiter: its context, or the close of the fetcher's      *)
(* channel, which GcSignal moves it on by.                                 *)
GcWaitExpired(r) ==
  /\ expired[r] /\ Gets(r, "wait", Err("context"))
  /\ UNCHANGED <<cacheVars, fetchVars, refs, closer, req, got, attempt, expired,
                 ret, panicked, histVars>>

(* A chunk that has left the cache meanwhile is an error.                  *)
GcRecheck(r) ==
  /\ pc[r] = "recheck"
  /\ Gets(r, "recheck", IF ChunkOf(r) \in DOMAIN cache THEN cache[ChunkOf(r)]
                                                       ELSE Err("lost"))
  /\ UNCHANGED <<cacheVars, fetchVars, refs, closer, req, got, attempt, expired,
                 ret, panicked, histVars>>

-----------------------------------------------------------------------------
(* fetchChunk.                                                             *)

Fetched(r, from, c) ==
  Goto(r, from, "store") /\ chunk' = [chunk EXCEPT ![r] = c]

GcSlot(r) ==
  /\ \/ /\ Cardinality(slots) < MaxConcurrent
        /\ Goto(r, "slot", "request") /\ slots' = slots \cup {r}
        /\ UNCHANGED chunk
     \/ /\ expired[r] /\ Fetched(r, "slot", Err("context")) /\ UNCHANGED slots
  /\ UNCHANGED <<cacheVars, active, refs, closer, req, got, attempt, expired,
                 ret, panicked, histVars>>

(* Mutant: the attempts are counted from one but compared as from zero.    *)
GcRequestOnceMore(r) ==
  /\ pc[r] = "request"
  /\ \/ /\ ~expired[r] /\ Fetched(r, "request", Data(Asked(ChunkOf(r))))
        /\ slots' = slots \ {r} /\ attempt' = [attempt EXCEPT ![r] = 0]
     \/ /\ attempt[r] < MaxAttempts /\ Goto(r, "request", "backoff")
        /\ attempt' = [attempt EXCEPT ![r] = @ + 1]
        /\ UNCHANGED <<slots, chunk>>
     \/ /\ attempt[r] = MaxAttempts /\ Fetched(r, "request", Err("failed"))
        /\ slots' = slots \ {r} /\ attempt' = [attempt EXCEPT ![r] = 0]
  /\ UNCHANGED <<cacheVars, active, refs, closer, req, got, expired, ret,
                 panicked, histVars>>

(* A request brings a body, or fails: always once the context is done.     *)
GcRequest(r) ==
  /\ pc[r] = "request"
  /\ \/ /\ ~expired[r]
        /\ \E c \in Bodies(ChunkOf(r)) :
             /\ Fetched(r, "request", c)
             /\ misled' = (misled \/ c # Data(Asked(ChunkOf(r))))
        /\ slots' = slots \ {r} /\ attempt' = [attempt EXCEPT ![r] = 0]
     \/ /\ attempt[r] + 1 < MaxAttempts
        /\ Goto(r, "request", "backoff")
        /\ attempt' = [attempt EXCEPT ![r] = @ + 1]
        /\ UNCHANGED <<slots, chunk, misled>>
     \/ /\ attempt[r] + 1 = MaxAttempts
        /\ Fetched(r, "request",
                   Err(IF expired[r] THEN "context" ELSE "failed"))
        /\ slots' = slots \ {r} /\ attempt' = [attempt EXCEPT ![r] = 0]
        /\ UNCHANGED misled
  /\ UNCHANGED <<cacheVars, active, refs, closer, req, got, expired, ret,
                 panicked, thrown>>

(* Mutant: a context that is done in the pause keeps the semaphore.        *)
GcBackoffHolding(r) ==
  /\ \/ Goto(r, "backoff", "request") /\ UNCHANGED <<chunk, attempt>>
     \/ /\ expired[r] /\ Fetched(r, "backoff", Err("context"))
        /\ attempt' = [attempt EXCEPT ![r] = 0]
  /\ UNCHANGED <<cacheVars, fetchVars, refs, closer, req, got, expired, ret,
                 panicked, histVars>>

(* Half a second between attempts, with the semaphore held.                *)
GcBackoff(r) ==
  /\ \/ Goto(r, "backoff", "request") /\ UNCHANGED <<slots, chunk, attempt>>
     \/ /\ expired[r] /\ Fetched(r, "backoff", Err("context"))
        /\ slots' = slots \ {r} /\ attempt' = [attempt EXCEPT ![r] = 0]
  /\ UNCHANGED <<cacheVars, active, refs, closer, req, got, expired, ret,
                 panicked, histVars>>

-----------------------------------------------------------------------------
(* Back in getChunk.  An error is cached like data, and writing to the nil *)
(* map of a closed store panics.                                           *)

(* Mutant: a chunk out of the order of use stays in the cache.             *)
GcStoreKeeping(r) ==
  LET o == ChunkOf(r) IN
  /\ hasCache /\ Goto(r, "store", "signal")
  /\ lru' = Newest(Used(lru, o), CacheCapacity)
  /\ cache' = [i \in DOMAIN cache \cup {o} |->
                 IF i = o THEN chunk[r] ELSE cache[i]]
  /\ UNCHANGED <<hasCache, fetchVars, refs, closer, callVars, panicked, histVars>>

GcStore(r) ==
  LET o == ChunkOf(r)
      order == Newest(Used(lru, o), CacheCapacity) IN
  /\ pc[r] = "store"
  /\ \/ /\ hasCache /\ Goto(r, "store", "signal")
        /\ lru' = order
        /\ cache' = [i \in ToSet(order) |->
                       IF i = o THEN chunk[r] ELSE cache[i]]
        /\ thrown' = (thrown \/ ~(DOMAIN cache \subseteq ToSet(order)))
        /\ UNCHANGED panicked
     \/ /\ ~hasCache /\ Goto(r, "store", "store")
        /\ panicked' = TRUE /\ UNCHANGED <<lru, cache, thrown>>
  /\ UNCHANGED <<hasCache, fetchVars, refs, closer, callVars, misled>>

(* delete(activeReads, offset); close(done).                               *)
GcSignal(r) ==
  /\ ~panicked /\ pc[r] = "signal"
  /\ active' = active \ {ChunkOf(r)}
  /\ pc' = [q \in Readers |->
              IF q = r THEN "copy"
              ELSE IF pc[q] = "wait" /\ ChunkOf(q) = ChunkOf(r) THEN "recheck"
              ELSE pc[q]]
  /\ UNCHANGED <<cacheVars, slots, refs, closer, callVars, panicked, histVars>>

-----------------------------------------------------------------------------
(* Mutant: a read ends with the chunk it began in.                         *)
RdCopyOne(r) ==
  LET rest == chunk[r].len - (Current(r) - ChunkOf(r)) IN
  /\ Returns(r, "copy",
       [n |-> Lesser(Remaining(r), rest), why |-> "nil", err |-> "nil"])
  /\ chunk[r].err = "nil" /\ rest >= 0
  /\ chunk' = [chunk EXCEPT ![r] = Err("none")]
  /\ UNCHANGED <<cacheVars, fetchVars, refs, closer, req, got, attempt, expired,
                 panicked, histVars>>

(* Back in ReadAt: an error ends the call, with what has been read so far  *)
(* if that is anything.  A chunk that ends before the place is a panic, one *)
(* that ends at it gives nothing and is asked for again.                   *)
RdCopy(r) ==
  LET rest == chunk[r].len - (Current(r) - ChunkOf(r))
      n    == Lesser(Remaining(r), rest) IN
  /\ pc[r] = "copy"
  /\ \/ /\ chunk[r].err # "nil"
        /\ Returns(r, "copy",
             [n |-> got[r], why |-> chunk[r].err,
              err |-> IF got[r] > 0 THEN "nil" ELSE chunk[r].err])
        /\ UNCHANGED <<got, panicked>>
     \/ /\ chunk[r].err = "nil" /\ rest >= 0 /\ Goto(r, "copy", "loop")
        /\ got' = [got EXCEPT ![r] = @ + n] /\ UNCHANGED <<ret, panicked>>
     \/ /\ chunk[r].err = "nil" /\ rest < 0 /\ Goto(r, "copy", "copy")
        /\ panicked' = TRUE /\ UNCHANGED <<got, ret>>
  /\ chunk' = [chunk EXCEPT ![r] = Err("none")]
  /\ UNCHANGED <<cacheVars, fetchVars, refs, closer, req, attempt, expired,
                 histVars>>

RdReturn(r) ==
  /\ Goto(r, "return", "idle")
  /\ req' = [req EXCEPT ![r] = NoRequest] /\ got' = [got EXCEPT ![r] = 0]
  /\ expired' = [expired EXCEPT ![r] = FALSE]
  /\ ret' = [ret EXCEPT ![r] = NoResult]
  /\ UNCHANGED <<cacheVars, fetchVars, refs, closer, chunk, attempt, panicked,
                 histVars>>

(* The process is gone.                                                    *)
Dead == panicked /\ UNCHANGED vars

-----------------------------------------------------------------------------
(* What a call does by itself, the wait for the semaphore aside.           *)
ReaderStep(r) ==
  RdLoop(r) \/ GcCache(r) \/ GcActive(r) \/ GcWaitExpired(r) \/ GcRecheck(r)
  \/ GcRequest(r) \/ GcBackoff(r) \/ GcStore(r) \/ GcSignal(r) \/ RdCopy(r)
  \/ RdReturn(r)

Next ==
  \/ \E r \in Readers :
       \/ OpenHandle(r) \/ DecRef(r) \/ DecRefClear(r)
       \/ RdCall(r) \/ RdExpire(r) \/ ReaderStep(r) \/ GcSlot(r)
  \/ Close
  \/ Dead

Spec == Init /\ [][Next]_vars

(* Goroutines are scheduled, a request ends within the client's timeout,   *)
(* and those blocked sending on a channel are served in turn.              *)
FairSpec ==
  /\ Spec
  /\ \A r \in Readers : WF_vars(ReaderStep(r)) /\ SF_vars(GcSlot(r))

-----------------------------------------------------------------------------
(* Properties.                                                             *)

Pcs == {"shut", "idle", "clear", "loop", "cache", "active", "wait", "recheck",
        "slot", "request", "backoff", "store", "signal", "copy", "return"}
Errors == {"none", "nil", "context", "failed", "lost"}
Chunks == [len : 0..Size, err : Errors]

TypeOK ==
  /\ hasCache \in BOOLEAN
  /\ DOMAIN cache \subseteq Offsets
  /\ \A o \in DOMAIN cache : cache[o] \in Chunks
  /\ lru \in Seq(Offsets)
  /\ active \subseteq Offsets /\ slots \subseteq Readers
  /\ refs \in 0..Cardinality(Readers)
  /\ closer \in {"idle", "done"}
  /\ pc \in [Readers -> Pcs]
  /\ req \in [Readers -> Requests]
  /\ got \in [Readers -> Nat]
  /\ chunk \in [Readers -> Chunks]
  /\ attempt \in [Readers -> 0..(MaxAttempts - 1)]
  /\ expired \in [Readers -> BOOLEAN]
  /\ ret \in [Readers -> [n : Nat, err : Errors \cup {"EOF"}, why : Errors]]
  /\ \A r \in Readers : got[r] <= req[r].len /\ ret[r].n <= req[r].len
  /\ panicked \in BOOLEAN /\ misled \in BOOLEAN
  /\ thrown \in BOOLEAN

(* The order of use and the cache hold the same chunks, each once, and no  *)
(* more than the capacity, whatever Close and DecRef throw away.           *)
CacheConsistent ==
  /\ ToSet(lru) = DOMAIN cache
  /\ Len(lru) = Cardinality(DOMAIN cache)
  /\ Len(lru) <= CacheCapacity
  /\ ~hasCache => lru = <<>>

(* Getting chunks is SingleFlight: one fetch for all that want a chunk,    *)
(* nobody waits for a fetch that has ended, and its end lets go of all     *)
(* that wait, whatever Close, timeouts and failures come in between.       *)
Fetching == {"slot", "request", "backoff", "store", "signal"}

Flight ==
  INSTANCE SingleFlight WITH
    Callers <- Readers, Chunks <- Offsets, NoChunk <- -1,
    fetches <- [r \in Readers |-> IF pc[r] \in Fetching THEN ChunkOf(r) ELSE -1],
    awaits <- [r \in Readers |-> IF pc[r] = "wait" THEN ChunkOf(r) ELSE -1]

OneFetcher == Flight!Spec

FullLength(q) == IF q.off >= Size THEN 0 ELSE Lesser(q.len, Size - q.off)

(* A read delivers the length asked for up to the end of the file, and     *)
(* reports the end of the file only there.  One that delivers less stopped *)
(* where a chunk begins, for the error of that chunk: a fetch that failed, *)
(* a context, or a chunk the cache lost before the waiter looked.  Misfit  *)
(* bodies aside.  A read stopped after its first chunk returns no error,   *)
(* in the middle of the file, where store.go:15 has "(or fewer at EOF)".   *)
ReadExact ==
  \A r \in Readers :
    pc[r] = "return" =>
      \/ /\ ret[r].why = "nil" /\ ret[r].n = FullLength(req[r])
         /\ ret[r].err = "EOF" => req[r].off >= Size
      \/ /\ ret[r].n < FullLength(req[r])
         /\ ret[r].why \in {"failed", "context", "lost"}
         /\ ret[r].why = "lost" => thrown
         /\ IF ret[r].n = 0 THEN ret[r].err = ret[r].why
              ELSE /\ req[r].off + ret[r].n = ChunkOf(r)
                   /\ ret[r].err = "nil"
      \/ misled

(* A read panics in a store that was closed, or on a misfit chunk, and for *)
(* no other reason.                                                        *)
PanicsOnlyClosed == panicked => closer = "done" \/ misled

(* TIMEOUT_FIX.md: a call fails with a context error only when its own     *)
(* context is done.                                                        *)
OwnTimeoutOnly ==
  \A r \in Readers :
    pc[r] = "return" /\ ret[r].err = "context" => expired[r]

(* Every ReadAt call returns, unless the server sends misfit bodies, which *)
(* the loop of ReadAt may turn on without end.                             *)
ReadReturns ==
  \A r \in Readers :
    pc[r] \notin {"shut", "idle", "clear"}
      ~> pc[r] \in {"shut", "idle"} \/ panicked \/ misled
=============================================================================
