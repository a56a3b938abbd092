------------------------------ MODULE Fetcher -------------------------------
(***************************************************************************)
(* internal/fetcher/fetcher.go: a remote file read in chunks, as by        *)
(* RangeLRUStore, but with read-ahead: a ReadAt that filled its buffer     *)
(* starts goroutines that fetch the chunks to come, under its context.     *)
(*                                                                         *)
(* A request is the chunks it spans; bodies are of the length asked for,   *)
(* and a chunk is data or an error.  A step is one hold of a lock, one     *)
(* channel operation or one request.                                       *)
(***************************************************************************)
EXTENDS Integers, FiniteSets, UseOrder

CONSTANTS
  FReaders, Prefetchers,  \* goroutines in ReadAt; those that read ahead
  FChunks,                \* number of chunks of the file
  CacheSize, MaxConcurrency, MaxRetries,
  Readahead,              \* chunks read ahead
  MaxReads                \* bound: calls of ReadAt

Getters == FReaders \cup Prefetchers
FOffsets == 0..(FChunks - 1)
NoOffset == -1

ASSUME FetcherAssumption ==
  /\ FReaders \cap Prefetchers = {}
  /\ FChunks \in Nat \ {0} /\ CacheSize \in Nat \ {0}
  /\ MaxConcurrency \in Nat \ {0} /\ MaxRetries \in Nat \ {0}
  /\ Readahead \in Nat /\ MaxReads \in Nat

VARIABLES
  fcache,     \* what each cached chunk is, "data" or an error
  lruOrder,
  activeReads, semaphore,
  fpc,        \* getChunk, and the call around it, of each goroutine
  at, upto,   \* the chunk it is at; for a reader, the last one it wants
  tries, ctxDone,
  hand,       \* the chunk in hand
  ahead,      \* chunks that prefetch has still to ask for
  reads       \* history: calls of ReadAt

chunkVars == <<fcache, lruOrder>>
flightVars == <<activeReads, semaphore>>
getVars == <<at, upto, tries, ctxDone, hand>>
fetcherVars == <<chunkVars, flightVars, fpc, getVars, ahead, reads>>

FetcherInit ==
  /\ fcache = [o \in {} |-> "data"] /\ lruOrder = <<>>
  /\ activeReads = {} /\ semaphore = {}
  /\ fpc = [g \in Getters |-> "idle"]
  /\ at = [g \in Getters |-> NoOffset] /\ upto = [g \in Getters |-> NoOffset]
  /\ tries = [g \in Getters |-> 0]
  /\ ctxDone = [g \in Getters |-> FALSE]
  /\ hand = [g \in Getters |-> "none"]
  /\ ahead = {} /\ reads = 0

FGoto(g, from, to) == fpc[g] = from /\ fpc' = [fpc EXCEPT ![g] = to]

-----------------------------------------------------------------------------
(* ReadAt and prefetch.                                                    *)

FtRead(g) ==
  /\ reads < MaxReads /\ reads' = reads + 1
  /\ FGoto(g, "idle", "cache")
  /\ \E a, b \in FOffsets :
       /\ a <= b
       /\ at' = [at EXCEPT ![g] = a] /\ upto' = [upto EXCEPT ![g] = b]
  /\ UNCHANGED <<chunkVars, flightVars, tries, ctxDone, hand, ahead>>

(* The context of a read is done at any time; that of a read-ahead too,    *)
(* once the read it belongs to has returned.                               *)
FtExpire(g) ==
  /\ fpc[g] # "idle" /\ ~ctxDone[g]
  /\ ctxDone' = [ctxDone EXCEPT ![g] = TRUE]
  /\ UNCHANGED <<chunkVars, flightVars, fpc, at, upto, tries, hand, ahead,
                 reads>>

Finish(g) ==
  /\ FGoto(g, "got", "idle")
  /\ at' = [at EXCEPT ![g] = NoOffset] /\ upto' = [upto EXCEPT ![g] = NoOffset]
  /\ ctxDone' = [ctxDone EXCEPT ![g] = FALSE]

(* The chunks prefetch goes through after a read that ends in chunk o, or  *)
(* with its last byte: then the very next one is left out.                 *)
Following(o) ==
  {{i \in FOffsets : o + k < i /\ i <= o + k + Readahead} : k \in {0, 1}}

FtGot(g) ==
  /\ \/ /\ g \in FReaders /\ hand[g] = "data" /\ at[g] < upto[g]
        /\ FGoto(g, "got", "cache")
        /\ at' = [at EXCEPT ![g] = @ + 1]
        /\ UNCHANGED <<upto, ctxDone, ahead>>
     \/ /\ g \in FReaders /\ hand[g] = "data" /\ at[g] = upto[g]
        /\ Finish(g)
        /\ \E f \in Following(at[g]) : ahead' = ahead \cup f
     \/ /\ g \in Prefetchers \/ hand[g] # "data"
        /\ Finish(g) /\ UNCHANGED ahead
  /\ hand' = [hand EXCEPT ![g] = "none"]
  /\ UNCHANGED <<chunkVars, flightVars, tries, reads>>

FtPrefetch(g) ==
  /\ \E o \in ahead :
       /\ ahead' = ahead \ {o}
       /\ IF o \in DOMAIN fcache
            THEN UNCHANGED <<fpc, at>>
            ELSE FGoto(g, "idle", "cache") /\ at' = [at EXCEPT ![g] = o]
  /\ UNCHANGED <<chunkVars, flightVars, upto, tries, ctxDone, hand, reads>>

-----------------------------------------------------------------------------
(* getChunk.                                                               *)

FtCache(g) ==
  /\ \/ /\ at[g] \in DOMAIN fcache
        /\ FGoto(g, "cache", "got")
        /\ hand' = [hand EXCEPT ![g] = fcache[at[g]]]
        /\ lruOrder' = Used(lruOrder, at[g])
     \/ /\ at[g] \notin DOMAIN fcache
        /\ FGoto(g, "cache", "active")
        /\ UNCHANGED <<hand, lruOrder>>
  /\ UNCHANGED <<fcache, flightVars, at, upto, tries, ctxDone, ahead, reads>>

(* Mutant: looking into activeReads and entering it are two steps apart.   *)
FtActiveAlone(g) ==
  /\ FGoto(g, "active", "slot") /\ activeReads' = activeReads \cup {at[g]}
  /\ UNCHANGED <<chunkVars, semaphore, getVars, ahead, reads>>

FtActive(g) ==
  /\ IF at[g] \in activeReads
       THEN FGoto(g, "active", "wait") /\ UNCHANGED activeReads
       ELSE FGoto(g, "active", "slot") /\ activeReads' = activeReads \cup {at[g]}
  /\ UNCHANGED <<chunkVars, semaphore, getVars, ahead, reads>>

(* fetchChunk.                                                             *)
Leaves(g, from, c) ==
  /\ FGoto(g, from, "store")
  /\ hand' = [hand EXCEPT ![g] = c]
  /\ semaphore' = semaphore \ {g}
  /\ tries' = [tries EXCEPT ![g] = 0]

FtSlot(g) ==
  /\ \/ /\ Cardinality(semaphore) < MaxConcurrency
        /\ FGoto(g, "slot", "request")
        /\ semaphore' = semaphore \cup {g} /\ UNCHANGED <<hand, tries>>
     \/ ctxDone[g] /\ Leaves(g, "slot", "context")
  /\ UNCHANGED <<chunkVars, activeReads, at, upto, ctxDone, ahead, reads>>

(* A request fails, always once the context is done, or brings the chunk.  *)
FtRequest(g) ==
  /\ \/ ~ctxDone[g] /\ Leaves(g, "request", "data")
     \/ /\ tries[g] + 1 < MaxRetries
        /\ FGoto(g, "request", "backoff")
        /\ tries' = [tries EXCEPT ![g] = @ + 1]
        /\ UNCHANGED <<hand, semaphore>>
     \/ /\ tries[g] + 1 = MaxRetries
        /\ Leaves(g, "request", IF ctxDone[g] THEN "context" ELSE "failed")
  /\ UNCHANGED <<chunkVars, activeReads, at, upto, ctxDone, ahead, reads>>

FtBackoff(g) ==
  /\ \/ FGoto(g, "backoff", "request") /\ UNCHANGED <<hand, semaphore, tries>>
     \/ ctxDone[g] /\ Leaves(g, "backoff", "context")
  /\ UNCHANGED <<chunkVars, activeReads, at, upto, ctxDone, ahead, reads>>

(* The oldest chunk is taken out if there is one too many.                 *)
EvictOldChunks(order, cached) ==
  IF Cardinality(cached) > CacheSize THEN Tail(order) ELSE order

(* The chunk, or its error, goes into the cache.                           *)
FtStore(g) ==
  LET kept == EvictOldChunks(Used(lruOrder, at[g]),
                             DOMAIN fcache \cup {at[g]}) IN
  /\ FGoto(g, "store", "signal")
  /\ lruOrder' = kept
  /\ fcache' = [o \in ToSet(kept) |->
                  IF o = at[g] THEN hand[g] ELSE fcache[o]]
  /\ UNCHANGED <<flightVars, getVars, ahead, reads>>

(* Mutant: a fetch that failed returns before it lets its waiters go.      *)
FtSignalData(g) ==
  /\ fpc[g] = "signal"
  /\ activeReads' = activeReads \ {at[g]}
  /\ fpc' = [h \in Getters |->
               IF h = g THEN "got"
               ELSE IF fpc[h] = "wait" /\ at[h] = at[g] /\ hand[g] = "data"
                 THEN "cache" ELSE fpc[h]]
  /\ UNCHANGED <<chunkVars, semaphore, getVars, ahead, reads>>

(* close(doneCh) lets all waiters try once more from the cache, where the  *)
(* chunk may be gone again.  None of them looks at its own context.        *)
FtSignal(g) ==
  /\ fpc[g] = "signal"
  /\ activeReads' = activeReads \ {at[g]}
  /\ fpc' = [h \in Getters |->
               IF h = g THEN "got"
               ELSE IF fpc[h] = "wait" /\ at[h] = at[g] THEN "cache"
               ELSE fpc[h]]
  /\ UNCHANGED <<chunkVars, semaphore, getVars, ahead, reads>>

(* Close empties the cache; fetches under way go on and store in it.       *)
FtClose ==
  /\ fcache # [o \in {} |-> "data"]
  /\ fcache' = [o \in {} |-> "data"] /\ lruOrder' = <<>>
  /\ UNCHANGED <<flightVars, fpc, getVars, ahead, reads>>

-----------------------------------------------------------------------------
GetterStep(g) ==
  FtGot(g) \/ FtCache(g) \/ FtActive(g) \/ FtRequest(g) \/ FtBackoff(g)
  \/ FtStore(g) \/ FtSignal(g)

FetcherNext ==
  \/ FtClose
  \/ \E g \in FReaders : FtRead(g)
  \/ \E g \in Prefetchers : FtPrefetch(g)
  \/ \E g \in Getters : FtExpire(g) \/ GetterStep(g) \/ FtSlot(g)

(* Goroutines are scheduled, a request ends within the client's timeout,   *)
(* and those blocked sending on the semaphore are served in turn.          *)
FetcherFairness ==
  \A g \in Getters :
    WF_fetcherVars(GetterStep(g)) /\ SF_fetcherVars(FtSlot(g))

FetcherSpec == FetcherInit /\ [][FetcherNext]_fetcherVars

-----------------------------------------------------------------------------
FPcs == {"idle", "cache", "active", "wait", "slot", "request", "backoff",
         "store", "signal", "got"}

FetcherTypeOK ==
  /\ DOMAIN fcache \subseteq FOffsets
  /\ \A o \in DOMAIN fcache : fcache[o] \in {"data", "context", "failed"}
  /\ lruOrder \in Seq(FOffsets) /\ NoRepeats(lruOrder)
  /\ ToSet(lruOrder) = DOMAIN fcache /\ Len(lruOrder) <= CacheSize
  /\ activeReads \subseteq FOffsets /\ semaphore \subseteq Getters
  /\ fpc \in [Getters -> FPcs]
  /\ at \in [Getters -> FOffsets \cup {NoOffset}]
  /\ upto \in [Getters -> FOffsets \cup {NoOffset}]
  /\ tries \in [Getters -> 0..(MaxRetries - 1)]
  /\ ctxDone \in [Getters -> BOOLEAN]
  /\ hand \in [Getters -> {"none", "data", "context", "failed"}]
  /\ ahead \subseteq FOffsets /\ reads \in 0..MaxReads

(* One fetch for all that want a chunk, readers and read-aheads, and none  *)
(* left waiting for a fetch that has ended.                                *)
FFlight ==
  INSTANCE SingleFlight WITH
    Callers <- Getters, Chunks <- FOffsets, NoChunk <- NoOffset,
    fetches <- [g \in Getters |->
                  IF fpc[g] \in {"slot", "request", "backoff", "store", "signal"}
                    THEN at[g] ELSE NoOffset],
    awaits <- [g \in Getters |-> IF fpc[g] = "wait" THEN at[g] ELSE NoOffset]

FetcherSingleFlight == FFlight!Spec

(* A ReadAt returns, though a waiter does not look at its context and may  *)
(* have to wait again: as long as the others do not read for ever.         *)
FetcherReturns == \A g \in FReaders : fpc[g] # "idle" ~> fpc[g] = "idle"
=============================================================================
