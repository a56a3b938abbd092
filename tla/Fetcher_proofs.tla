--------------------------- MODULE Fetcher_proofs ---------------------------
(***************************************************************************)
(* The fetcher with read-ahead for any readers, read-aheads, chunks and    *)
(* limits.  The inductive invariant says which chunks are in flight and    *)
(* who fetches them, who holds the semaphore, and that who waits waits for *)
(* a chunk in flight.                                                      *)
(***************************************************************************)
EXTENDS Fetcher, UseOrder_proofs

FFetching == {"slot", "request", "backoff", "store", "signal"}

(* A call under way is at a chunk of the file.                             *)
FPlaced == \A g \in Getters : fpc[g] # "idle" => at[g] \in FOffsets

(* A fetch that has ended, and getChunk, leave a chunk or an error in hand. *)
FHanded ==
  \A g \in Getters : fpc[g] \in {"store", "signal", "got"} => hand[g] # "none"

(* Each chunk in activeReads has one goroutine that fetches it, and nobody *)
(* waits for another chunk.                                                *)
Fliers == {g \in Getters : fpc[g] \in FFetching}

FFlightInv ==
  /\ activeReads = {at[g] : g \in Fliers}
  /\ \A g, h \in Fliers : at[g] = at[h] => g = h
  /\ \A g \in Getters : fpc[g] = "wait" => at[g] \in activeReads

(* Who asks the server or pauses has a place, and there are as many.       *)
FSlots ==
  /\ semaphore = {g \in Getters : fpc[g] \in {"request", "backoff"}}
  /\ IsFiniteSet(semaphore) /\ Cardinality(semaphore) <= MaxConcurrency

FetcherInv ==
  FetcherTypeOK /\ FPlaced /\ FHanded /\ FFlightInv /\ FSlots

-----------------------------------------------------------------------------
(* The types.                                                              *)

(* FetcherTypeOK in parts: the cache, the calls, the rest.                 *)
FChunkTypes ==
  /\ DOMAIN fcache \subseteq FOffsets
  /\ \A o \in DOMAIN fcache : fcache[o] \in {"data", "context", "failed"}
  /\ lruOrder \in Seq(FOffsets) /\ NoRepeats(lruOrder)
  /\ ToSet(lruOrder) = DOMAIN fcache /\ Len(lruOrder) <= CacheSize

FCallTypes ==
  /\ fpc \in [Getters -> FPcs]
  /\ at \in [Getters -> FOffsets \cup {NoOffset}]
  /\ upto \in [Getters -> FOffsets \cup {NoOffset}]
  /\ tries \in [Getters -> 0..(MaxRetries - 1)]
  /\ hand \in [Getters -> {"none", "data", "context", "failed"}]

FFlagTypes == ctxDone \in [Getters -> BOOLEAN]

FRestTypes ==
  /\ activeReads \subseteq FOffsets /\ semaphore \subseteq Getters
  /\ ahead \subseteq FOffsets /\ reads \in 0..MaxReads

LEMMA FetcherTypeParts ==
  FetcherTypeOK <=> FChunkTypes /\ FCallTypes /\ FFlagTypes /\ FRestTypes
BY Zenon DEF FetcherTypeOK, FChunkTypes, FCallTypes, FFlagTypes, FRestTypes

LEMMA FetcherBounds ==
  /\ FChunks \in Nat \ {0} /\ CacheSize \in Nat \ {0}
  /\ MaxConcurrency \in Nat \ {0} /\ MaxRetries \in Nat \ {0}
  /\ Readahead \in Nat /\ MaxReads \in Nat
  /\ FOffsets \subseteq Nat /\ FOffsets \cup {NoOffset} \subseteq Int
BY FetcherAssumption DEF FetcherAssumption, FOffsets, NoOffset

LEMMA NoOrder ==
  <<>> \in Seq(FOffsets) /\ NoRepeats(<<>>) /\ ToSet(<<>>) = {} /\ Len(<<>>) = 0
BY DEF NoRepeats, ToSet

LEMMA FetcherInitial == FetcherInit => FetcherInv
<1> SUFFICES ASSUME FetcherInit PROVE FetcherInv
  OBVIOUS
<1> USE DEF FetcherInit
<1>1. FChunkTypes
  BY NoOrder, FetcherBounds DEF FChunkTypes
<1>2. FCallTypes
  BY FetcherBounds DEF FCallTypes, FPcs
<1>3. FFlagTypes
  BY DEF FFlagTypes
<1>4. FRestTypes
  BY FetcherBounds DEF FRestTypes
<1>5. FPlaced /\ FHanded
  BY DEF FPlaced, FHanded
<1>6. FFlightInv
  <2>1. Fliers = {}
    BY DEF Fliers, FFetching
  <2> QED
    BY <2>1 DEF FFlightInv
<1>7. FSlots
  <2>1. IsFiniteSet({}) /\ Cardinality({}) = 0
    BY FS_EmptySet
  <2> QED
    BY <2>1, FetcherBounds DEF FSlots
<1> QED
  BY <1>1, <1>2, <1>3, <1>4, <1>5, <1>6, <1>7, FetcherTypeParts DEF FetcherInv

(* Which steps change what.                                                *)
FetcherFrame ==
  /\ \/ UNCHANGED fcache
     \/ FtClose
     \/ \E g \in Getters : FtStore(g)
  /\ \/ UNCHANGED lruOrder
     \/ FtClose
     \/ \E g \in Getters : FtStore(g) \/ FtCache(g)
  /\ \/ UNCHANGED activeReads
     \/ \E g \in Getters : FtActive(g) \/ FtSignal(g)
  /\ \/ UNCHANGED semaphore
     \/ \E g \in Getters : FtSlot(g) \/ FtRequest(g) \/ FtBackoff(g)
  /\ \/ UNCHANGED at
     \/ \E g \in Getters : FtRead(g) \/ FtPrefetch(g) \/ FtGot(g)
  /\ \/ UNCHANGED upto
     \/ \E g \in Getters : FtRead(g) \/ FtGot(g)
  /\ \/ UNCHANGED tries
     \/ \E g \in Getters : FtSlot(g) \/ FtRequest(g) \/ FtBackoff(g)
  /\ \/ UNCHANGED ctxDone
     \/ \E g \in Getters : FtExpire(g) \/ FtGot(g)
  /\ \/ UNCHANGED hand
     \/ \E g \in Getters : \/ FtGot(g) \/ FtCache(g)
                           \/ FtSlot(g) \/ FtRequest(g) \/ FtBackoff(g)
  /\ \/ UNCHANGED ahead
     \/ \E g \in Getters : FtGot(g) \/ FtPrefetch(g)
  /\ \/ UNCHANGED reads
     \/ \E g \in Getters : FtRead(g)
  /\ \/ UNCHANGED fpc
     \/ \E g \in Getters : \/ FtRead(g) \/ FtPrefetch(g) \/ FtGot(g)
                           \/ FtCache(g) \/ FtActive(g) \/ FtSlot(g)
                           \/ FtRequest(g) \/ FtBackoff(g) \/ FtStore(g)
                           \/ FtSignal(g)

LEMMA FetcherChanges == [FetcherNext]_fetcherVars => FetcherFrame
<1> SUFFICES ASSUME [FetcherNext]_fetcherVars PROVE FetcherFrame
  OBVIOUS
<1> USE DEF FetcherFrame, chunkVars, flightVars, getVars
<1>1. CASE FtClose \/ UNCHANGED fetcherVars
  BY <1>1 DEF FtClose, fetcherVars
<1>2. ASSUME NEW g \in Getters, FtRead(g) PROVE FetcherFrame
  BY <1>2 DEF FtRead
<1>3. ASSUME NEW g \in Getters, FtPrefetch(g) PROVE FetcherFrame
  BY <1>3 DEF FtPrefetch
<1>4. ASSUME NEW g \in Getters, FtExpire(g) PROVE FetcherFrame
  BY <1>4 DEF FtExpire
<1>5. ASSUME NEW g \in Getters, FtGot(g) PROVE FetcherFrame
  BY <1>5 DEF FtGot
<1>6. ASSUME NEW g \in Getters, FtCache(g) PROVE FetcherFrame
  BY <1>6 DEF FtCache
<1>7. ASSUME NEW g \in Getters, FtActive(g) PROVE FetcherFrame
  BY <1>7 DEF FtActive
<1>8. ASSUME NEW g \in Getters, FtSlot(g) PROVE FetcherFrame
  BY <1>8 DEF FtSlot
<1>9. ASSUME NEW g \in Getters, FtRequest(g) PROVE FetcherFrame
  BY <1>9 DEF FtRequest
<1>10. ASSUME NEW g \in Getters, FtBackoff(g) PROVE FetcherFrame
  BY <1>10 DEF FtBackoff
<1>11. ASSUME NEW g \in Getters, FtStore(g) PROVE FetcherFrame
  BY <1>11 DEF FtStore
<1>12. ASSUME NEW g \in Getters, FtSignal(g) PROVE FetcherFrame
  BY <1>12 DEF FtSignal
<1>13. FReaders \subseteq Getters /\ Prefetchers \subseteq Getters
  BY DEF Getters
<1> HIDE DEF FetcherFrame
<1> QED
  BY <1>1, <1>2, <1>3, <1>4, <1>5, <1>6, <1>7, <1>8, <1>9, <1>10, <1>11, <1>12,
     <1>13 DEF FetcherNext, GetterStep

LEMMA FFlagStep == FetcherInv /\ [FetcherNext]_fetcherVars => FFlagTypes'
<1> SUFFICES ASSUME FetcherInv, [FetcherNext]_fetcherVars, FetcherFrame
             PROVE  FFlagTypes'
  BY FetcherChanges
<1>1. FFlagTypes
  BY FetcherTypeParts DEF FetcherInv
<1>2. CASE UNCHANGED ctxDone
  BY <1>1, <1>2 DEF FFlagTypes
<1>3. ASSUME NEW g \in Getters, FtExpire(g) PROVE FFlagTypes'
  BY <1>1, <1>3 DEF FFlagTypes, FtExpire
<1>4. ASSUME NEW g \in Getters, FtGot(g) PROVE FFlagTypes'
  BY <1>1, <1>4 DEF FFlagTypes, FtGot, Finish
<1> QED
  BY <1>2, <1>3, <1>4 DEF FetcherFrame

(* What goes into a cache that is full takes the place of the oldest.      *)
LEMMA KeptOrder ==
  ASSUME FetcherInv, NEW o \in FOffsets
  PROVE  LET kept == EvictOldChunks(Used(lruOrder, o), DOMAIN fcache \cup {o}) IN
         /\ kept \in Seq(FOffsets) /\ NoRepeats(kept)
         /\ ToSet(kept) \subseteq DOMAIN fcache \cup {o}
         /\ Len(kept) <= CacheSize
<1> DEFINE used == Used(lruOrder, o)
           cached == DOMAIN fcache \cup {o}
<1>1. /\ FChunkTypes /\ CacheSize \in Nat \ {0}
  BY FetcherTypeParts, FetcherBounds DEF FetcherInv
<1>2. lruOrder \in Seq(FOffsets) /\ NoRepeats(lruOrder)
  BY <1>1 DEF FChunkTypes
<1>3. /\ used \in Seq(FOffsets) /\ ToSet(used) = ToSet(lruOrder) \cup {o}
      /\ NoRepeats(used) /\ Len(used) \in Nat \ {0}
  BY <1>2, UsedProperties
<1>4. ToSet(used) = cached
  BY <1>1, <1>3 DEF FChunkTypes
<1> HIDE DEF used
<1>5. Cardinality(cached) = Len(used) /\ IsFiniteSet(cached)
  BY <1>3, <1>4, LengthIsCardinality
<1>6. CASE Cardinality(cached) <= CacheSize
  <2>1. EvictOldChunks(used, cached) = used
    BY <1>1, <1>3, <1>5, <1>6 DEF EvictOldChunks
  <2> QED
    BY <1>3, <1>4, <1>5, <1>6, <2>1 DEF used
<1>7. CASE Cardinality(cached) > CacheSize
  <2>1. EvictOldChunks(used, cached) = Tail(used)
    BY <1>7 DEF EvictOldChunks
  <2>2. used # <<>>
    BY <1>3, NoOrder
  <2>3. /\ Tail(used) \in Seq(FOffsets) /\ NoRepeats(Tail(used))
        /\ ToSet(Tail(used)) = ToSet(used) \ {Head(used)}
    BY <1>3, <2>2, TailOrderProperties
  <2>4. Len(Tail(used)) = Len(used) - 1
    BY <1>3, <2>2, HeadTailProperties
  <2>5. Len(used) <= CacheSize + 1
    <3>1. Cardinality(ToSet(lruOrder)) = Len(lruOrder) /\ IsFiniteSet(ToSet(lruOrder))
      BY <1>2, LengthIsCardinality
    <3>2. /\ o \in ToSet(lruOrder) =>
               Cardinality(ToSet(lruOrder) \cup {o}) = Cardinality(ToSet(lruOrder))
          /\ o \notin ToSet(lruOrder) =>
               Cardinality(ToSet(lruOrder) \cup {o}) = Cardinality(ToSet(lruOrder)) + 1
      BY <3>1, FS_AddElement
    <3>3. ToSet(lruOrder) \cup {o} = cached
      BY <1>1 DEF FChunkTypes
    <3>4. Len(lruOrder) \in Nat /\ Len(lruOrder) <= CacheSize
      BY <1>1, <1>2, LenProperties DEF FChunkTypes
    <3>5. Cardinality(ToSet(lruOrder) \cup {o}) <= Len(lruOrder) + 1
      BY <3>1, <3>2, <3>4
    <3>6. Len(used) <= Len(lruOrder) + 1
      BY <1>5, <3>3, <3>5
    <3> QED
      BY <1>1, <1>3, <3>4, <3>6
  <2>6. Len(Tail(used)) <= CacheSize
    BY <1>1, <1>3, <2>4, <2>5
  <2>7. ToSet(Tail(used)) \subseteq cached
    BY <1>4, <2>3
  <2> QED
    BY <2>1, <2>3, <2>6, <2>7 DEF used
<1>8. Cardinality(cached) <= CacheSize \/ Cardinality(cached) > CacheSize
  <2>1. Cardinality(cached) \in Nat
    BY <1>5, FS_CardinalityType
  <2> QED
    BY <1>1, <2>1
<1> QED
  BY <1>6, <1>7, <1>8, Zenon

(* A cached chunk that is used once more only moves in the order.          *)
LEMMA UsedAgain ==
  ASSUME FChunkTypes, NEW o \in DOMAIN fcache
  PROVE  /\ Used(lruOrder, o) \in Seq(FOffsets) /\ NoRepeats(Used(lruOrder, o))
         /\ ToSet(Used(lruOrder, o)) = DOMAIN fcache
         /\ Len(Used(lruOrder, o)) <= CacheSize
<1>1. /\ lruOrder \in Seq(FOffsets) /\ NoRepeats(lruOrder) /\ o \in FOffsets
      /\ ToSet(lruOrder) = DOMAIN fcache
  BY DEF FChunkTypes
<1>2. /\ Used(lruOrder, o) \in Seq(FOffsets) /\ NoRepeats(Used(lruOrder, o))
      /\ ToSet(Used(lruOrder, o)) = ToSet(lruOrder) \cup {o}
  <2>1. lruOrder \in Seq(FOffsets) /\ NoRepeats(lruOrder) /\ o \in FOffsets
    BY <1>1
  <2> QED
    BY <2>1, UsedProperties
<1>3. ToSet(Used(lruOrder, o)) = ToSet(lruOrder)
  BY <1>1, <1>2
<1>4. Len(Used(lruOrder, o)) = Cardinality(ToSet(Used(lruOrder, o)))
  BY <1>2, LengthIsCardinality
<1>5. Len(lruOrder) = Cardinality(ToSet(lruOrder))
  BY <1>1, LengthIsCardinality
<1>6. Len(Used(lruOrder, o)) = Len(lruOrder)
  BY <1>3, <1>4, <1>5
<1> QED
  BY <1>1, <1>2, <1>3, <1>6 DEF FChunkTypes

LEMMA FChunkStep == FetcherInv /\ [FetcherNext]_fetcherVars => FChunkTypes'
<1> SUFFICES ASSUME FetcherInv, [FetcherNext]_fetcherVars, FetcherFrame
             PROVE  FChunkTypes'
  BY FetcherChanges
<1>1. FChunkTypes /\ FCallTypes /\ FPlaced /\ FHanded
  BY FetcherTypeParts DEF FetcherInv
<1>2. CASE UNCHANGED <<fcache, lruOrder>>
  BY <1>1, <1>2 DEF FChunkTypes
<1>3. CASE FtClose
  <2>1. lruOrder' = <<>> /\ DOMAIN fcache' = {}
    BY <1>3 DEF FtClose
  <2> QED
    BY <2>1, NoOrder, FetcherBounds DEF FChunkTypes
<1>4. ASSUME NEW g \in Getters, FtCache(g), lruOrder' # lruOrder PROVE FChunkTypes'
  <2>1. /\ at[g] \in DOMAIN fcache /\ UNCHANGED fcache
        /\ lruOrder' = Used(lruOrder, at[g])
    BY <1>4 DEF FtCache
  <2>2. /\ lruOrder' \in Seq(FOffsets) /\ NoRepeats(lruOrder')
        /\ ToSet(lruOrder') = DOMAIN fcache /\ Len(lruOrder') <= CacheSize
    BY <1>1, <2>1, UsedAgain
  <2> QED
    BY <1>1, <2>1, <2>2 DEF FChunkTypes
<1>5. ASSUME NEW g \in Getters, FtStore(g) PROVE FChunkTypes'
  <2> DEFINE kept == EvictOldChunks(Used(lruOrder, at[g]), DOMAIN fcache \cup {at[g]})
  <2>1. /\ fpc[g] = "store" /\ lruOrder' = kept
        /\ fcache' = [o \in ToSet(kept) |->
                        IF o = at[g] THEN hand[g] ELSE fcache[o]]
    BY <1>5 DEF FtStore, FGoto
  <2>2. at[g] \in FOffsets /\ hand[g] \in {"data", "context", "failed"}
    BY <1>1, <2>1 DEF FPlaced, FHanded, FCallTypes
  <2>3. /\ kept \in Seq(FOffsets) /\ NoRepeats(kept)
        /\ ToSet(kept) \subseteq DOMAIN fcache \cup {at[g]}
        /\ Len(kept) <= CacheSize
    BY <2>2, KeptOrder
  <2> HIDE DEF kept
  <2>4. DOMAIN fcache' = ToSet(kept) /\ ToSet(kept) \subseteq FOffsets
    BY <1>1, <2>1, <2>2, <2>3 DEF FChunkTypes
  <2>5. \A o \in DOMAIN fcache' : fcache'[o] \in {"data", "context", "failed"}
    BY <1>1, <2>1, <2>2, <2>3 DEF FChunkTypes
  <2> QED
    BY <2>1, <2>3, <2>4, <2>5 DEF FChunkTypes
<1>6. ASSUME NEW g \in Getters, FtCache(g) PROVE UNCHANGED fcache
  BY <1>6 DEF FtCache
<1>7. CASE UNCHANGED fcache /\ ~UNCHANGED lruOrder
  BY <1>3, <1>4, <1>5, <1>7 DEF FetcherFrame
<1> QED
  BY <1>2, <1>3, <1>5, <1>7 DEF FetcherFrame

LEMMA FRestStep == FetcherInv /\ [FetcherNext]_fetcherVars => FRestTypes'
<1> SUFFICES ASSUME FetcherInv, [FetcherNext]_fetcherVars, FetcherFrame
             PROVE  FRestTypes'
  BY FetcherChanges
<1>1. FRestTypes /\ FPlaced
  BY FetcherTypeParts DEF FetcherInv
<1>2. activeReads' \subseteq FOffsets
  <2>1. ASSUME NEW g \in Getters, FtActive(g) PROVE activeReads' \subseteq FOffsets
    BY <1>1, <2>1 DEF FtActive, FGoto, FPlaced, FRestTypes
  <2>2. ASSUME NEW g \in Getters, FtSignal(g) PROVE activeReads' \subseteq FOffsets
    BY <1>1, <2>2 DEF FtSignal, FRestTypes
  <2> QED
    BY <1>1, <2>1, <2>2 DEF FetcherFrame, FRestTypes
<1>3. semaphore' \subseteq Getters
  BY <1>1 DEF FetcherFrame, FRestTypes, FtSlot, FtRequest, FtBackoff, Leaves
<1>4. ahead' \subseteq FOffsets
  <2>1. ASSUME NEW g \in Getters, FtGot(g) PROVE ahead' \subseteq FOffsets
    BY <1>1, <2>1 DEF FtGot, Following, FRestTypes
  <2> QED
    BY <1>1, <2>1 DEF FetcherFrame, FRestTypes, FtPrefetch
<1>5. reads' \in 0..MaxReads
  BY <1>1, FetcherBounds DEF FetcherFrame, FRestTypes, FtRead
<1> QED
  BY <1>2, <1>3, <1>4, <1>5 DEF FRestTypes

(* The calls keep their types, their chunks and what they have in hand.    *)
FCallInv == FCallTypes /\ FPlaced /\ FHanded

LEMMA FCallStep == FetcherInv /\ [FetcherNext]_fetcherVars => FCallInv'
<1> SUFFICES ASSUME FetcherInv, [FetcherNext]_fetcherVars PROVE FCallInv'
  OBVIOUS
<1>1. FCallInv /\ FRestTypes /\ FChunkTypes
  BY FetcherTypeParts DEF FetcherInv, FCallInv
<1>2. /\ FOffsets \subseteq Int /\ NoOffset = -1 /\ MaxRetries \in Nat \ {0}
      /\ FReaders \subseteq Getters /\ Prefetchers \subseteq Getters
      /\ FOffsets = 0..(FChunks - 1) /\ FChunks \in Nat
  BY FetcherBounds DEF FOffsets, NoOffset, Getters
<1> USE <1>1 DEF FCallInv, FCallTypes, FPlaced, FHanded, FPcs, FGoto, getVars
<1>3. CASE FtClose \/ UNCHANGED fetcherVars
  BY <1>3 DEF FtClose, fetcherVars
<1>4. ASSUME NEW g \in FReaders, FtRead(g) PROVE FCallInv'
  BY <1>2, <1>4 DEF FtRead
<1>5. ASSUME NEW g \in Prefetchers, FtPrefetch(g) PROVE FCallInv'
  <2>1. PICK o \in ahead : \/ UNCHANGED <<fpc, at>>
                           \/ FGoto(g, "idle", "cache") /\ at' = [at EXCEPT ![g] = o]
    BY <1>5 DEF FtPrefetch
  <2>2. o \in FOffsets
    BY DEF FRestTypes
  <2>3. UNCHANGED <<upto, tries, hand>>
    BY <1>5 DEF FtPrefetch
  <2>4. CASE UNCHANGED <<fpc, at>>
    BY <2>3, <2>4
  <2>5. CASE FGoto(g, "idle", "cache") /\ at' = [at EXCEPT ![g] = o]
    BY <1>2, <2>2, <2>3, <2>5
  <2> QED
    BY <2>1, <2>4, <2>5
<1>6. ASSUME NEW g \in Getters, FtExpire(g) PROVE FCallInv'
  BY <1>6 DEF FtExpire
<1>7. ASSUME NEW g \in Getters, FtGot(g) PROVE FCallInv'
  <2>1. CASE Finish(g)
    BY <1>7, <2>1 DEF FtGot, Finish
  <2>2. CASE /\ at[g] < upto[g] /\ FGoto(g, "got", "cache")
             /\ at' = [at EXCEPT ![g] = @ + 1] /\ UNCHANGED upto
    <3>1. at[g] \in FOffsets /\ upto[g] \in FOffsets \cup {NoOffset}
      BY <2>2
    <3>2. at[g] + 1 \in FOffsets
      BY <1>2, <2>2, <3>1
    <3> QED
      BY <1>7, <2>2, <3>2 DEF FtGot
  <2> QED
    BY <1>7, <2>1, <2>2 DEF FtGot
<1>8. ASSUME NEW g \in Getters, FtCache(g) PROVE FCallInv'
  BY <1>8 DEF FtCache, FChunkTypes
<1>9. ASSUME NEW g \in Getters, FtActive(g) PROVE FCallInv'
  BY <1>9 DEF FtActive
<1>10. ASSUME NEW g \in Getters, NEW from, NEW c \in {"data", "context", "failed"},
              Leaves(g, from, c), fpc[g] # "idle", UNCHANGED <<at, upto>>
       PROVE  FCallInv'
  BY <1>2, <1>10 DEF Leaves
<1>11. ASSUME NEW g \in Getters, FtSlot(g) PROVE FCallInv'
  <2>1. CASE Leaves(g, "slot", "context")
    BY <1>10, <1>11, <2>1 DEF FtSlot, Leaves
  <2>2. CASE ~Leaves(g, "slot", "context")
    BY <1>11, <2>2 DEF FtSlot
  <2> QED
    BY <2>1, <2>2
<1>12. ASSUME NEW g \in Getters, FtRequest(g) PROVE FCallInv'
  <2>1. UNCHANGED <<at, upto>> /\ fpc[g] = "request"
    BY <1>12 DEF FtRequest, Leaves
  <2>2. CASE \E c \in {"data", "context", "failed"} : Leaves(g, "request", c)
    BY <1>10, <2>1, <2>2
  <2>3. CASE /\ tries[g] + 1 < MaxRetries /\ FGoto(g, "request", "backoff")
             /\ tries' = [tries EXCEPT ![g] = @ + 1] /\ UNCHANGED hand
    BY <1>2, <2>1, <2>3
  <2> QED
    BY <1>12, <2>2, <2>3 DEF FtRequest
<1>13. ASSUME NEW g \in Getters, FtBackoff(g) PROVE FCallInv'
  <2>1. CASE Leaves(g, "backoff", "context")
    BY <1>10, <1>13, <2>1 DEF FtBackoff, Leaves
  <2>2. CASE ~Leaves(g, "backoff", "context")
    BY <1>13, <2>2 DEF FtBackoff
  <2> QED
    BY <2>1, <2>2
<1>14. ASSUME NEW g \in Getters, FtStore(g) PROVE FCallInv'
  BY <1>14 DEF FtStore
<1>15. ASSUME NEW g \in Getters, FtSignal(g) PROVE FCallInv'
  BY <1>15 DEF FtSignal
<1> HIDE DEF FCallInv
<1> QED
  BY <1>3, <1>4, <1>5, <1>6, <1>7, <1>8, <1>9, <1>11, <1>12, <1>13, <1>14, <1>15
     DEF FetcherNext, GetterStep

-----------------------------------------------------------------------------
(* The semaphore and the chunks in flight.                                 *)

LEMMA FSlotsStep == FetcherInv /\ [FetcherNext]_fetcherVars => FSlots'
<1> SUFFICES ASSUME FetcherInv, [FetcherNext]_fetcherVars, FetcherFrame
             PROVE  FSlots'
  BY FetcherChanges
<1>1. FCallTypes /\ FSlots /\ MaxConcurrency \in Nat /\ semaphore \subseteq Getters
  BY FetcherTypeParts, FetcherBounds DEF FetcherInv, FRestTypes
<1>2. Cardinality(semaphore) \in Nat
  BY <1>1, FS_CardinalityType DEF FSlots
<1> DEFINE In(g) == fpc[g] \in {"request", "backoff"}
           SameSlots == /\ UNCHANGED semaphore
                        /\ \A g \in Getters : In(g)' <=> In(g)
<1>3. CASE SameSlots
  BY <1>1, <1>3 DEF FSlots
<1>4. ASSUME NEW g \in Getters, fpc[g] \in FFetching,
             semaphore' = semaphore \ {g}, fpc' = [fpc EXCEPT ![g] = "store"]
      PROVE  FSlots'
  <2>1. IsFiniteSet(semaphore') /\ Cardinality(semaphore') <= Cardinality(semaphore)
    BY <1>1, <1>4, FS_Subset DEF FSlots
  <2>2. Cardinality(semaphore') \in Nat
    BY <2>1, FS_CardinalityType
  <2>3. semaphore' = {h \in Getters : fpc'[h] \in {"request", "backoff"}}
    BY <1>1, <1>4 DEF FSlots, FCallTypes
  <2> QED
    BY <1>1, <1>2, <2>1, <2>2, <2>3 DEF FSlots
<1>5. ASSUME NEW g \in Getters, FtSlot(g) PROVE FSlots'
  <2>1. CASE Leaves(g, "slot", "context")
    BY <1>4, <2>1 DEF Leaves, FGoto, FFetching
  <2>2. CASE /\ Cardinality(semaphore) < MaxConcurrency
             /\ fpc[g] = "slot" /\ fpc' = [fpc EXCEPT ![g] = "request"]
             /\ semaphore' = semaphore \cup {g}
    <3>1. g \notin semaphore
      BY <1>1, <2>2 DEF FSlots
    <3>2. IsFiniteSet(semaphore)
      BY <1>1 DEF FSlots
    <3>3. /\ IsFiniteSet(semaphore \cup {g})
          /\ Cardinality(semaphore \cup {g}) = Cardinality(semaphore) + 1
      BY <3>1, <3>2, FS_AddElement
    <3>4. semaphore' = {h \in Getters : fpc'[h] \in {"request", "backoff"}}
      BY <1>1, <2>2 DEF FSlots, FCallTypes
    <3>5. Cardinality(semaphore') <= MaxConcurrency
      BY <1>1, <1>2, <2>2, <3>3
    <3> QED
      BY <2>2, <3>3, <3>4, <3>5 DEF FSlots
  <2> QED
    BY <1>5, <2>1, <2>2 DEF FtSlot, FGoto
<1>6. ASSUME NEW g \in Getters, FtRequest(g) \/ FtBackoff(g) PROVE FSlots'
  <2>1. CASE \E from \in {"request", "backoff"},
                c \in {"data", "context", "failed"} : Leaves(g, from, c)
    BY <1>4, <2>1 DEF Leaves, FGoto, FFetching
  <2>2. CASE \/ FGoto(g, "request", "backoff") /\ UNCHANGED semaphore
             \/ FGoto(g, "backoff", "request") /\ UNCHANGED semaphore
    <3>1. SameSlots
      BY <1>1, <2>2 DEF FGoto, FCallTypes
    <3> QED
      BY <1>3, <3>1
  <2> QED
    BY <1>6, <2>1, <2>2 DEF FtRequest, FtBackoff
<1>7. ASSUME NEW g \in Getters,
             \/ FtRead(g) \/ FtPrefetch(g) \/ FtGot(g) \/ FtCache(g)
             \/ FtActive(g) \/ FtStore(g) \/ FtSignal(g)
      PROVE  FSlots'
  <2>1. UNCHANGED semaphore
    BY <1>7 DEF FtRead, FtPrefetch, FtGot, FtCache, FtActive, FtStore, FtSignal,
       flightVars
  <2>2. CASE FtSignal(g)
    <3>1. \A h \in Getters : In(h)' <=> In(h)
      BY <1>1, <2>2 DEF FtSignal, FCallTypes
    <3> QED
      BY <1>3, <2>1, <3>1
  <2>3. CASE ~FtSignal(g)
    <3>1. \A h \in Getters : In(h)' <=> In(h)
      BY <1>1, <1>7, <2>3
      DEF FtRead, FtPrefetch, FtGot, FtCache, FtActive, FtStore, Finish, FGoto,
          FCallTypes
    <3> QED
      BY <1>3, <2>1, <3>1
  <2> QED
    BY <2>2, <2>3
<1>8. CASE UNCHANGED <<fpc, semaphore>>
  <2>1. SameSlots
    BY <1>8
  <2> QED
    BY <1>3, <2>1
<1> HIDE DEF SameSlots
<1> QED
  BY <1>5, <1>6, <1>7, <1>8 DEF FetcherFrame

LEMMA FFlightStep == FetcherInv /\ [FetcherNext]_fetcherVars => FFlightInv'
<1> SUFFICES ASSUME FetcherInv, [FetcherNext]_fetcherVars, FetcherFrame
             PROVE  FFlightInv'
  BY FetcherChanges
<1>1. FCallTypes /\ FPlaced /\ FFlightInv
  BY FetcherTypeParts DEF FetcherInv
<1>2. \A g \in Getters :
        fpc[g] \in {"wait", "active"} \cup FFetching => at'[g] = at[g]
  <2>1. ASSUME NEW g \in Getters, FtRead(g) \/ FtPrefetch(g) \/ FtGot(g),
               NEW h \in Getters, fpc[h] \in {"wait", "active"} \cup FFetching
        PROVE  at'[h] = at[h]
    BY <1>1, <2>1 DEF FtRead, FtPrefetch, FtGot, Finish, FGoto, FFetching, FCallTypes
  <2> QED
    BY <2>1 DEF FetcherFrame
<1>3. ASSUME UNCHANGED activeReads, Fliers' = Fliers,
             \A g \in Getters : fpc'[g] = "wait" => fpc[g] = "wait"
      PROVE  FFlightInv'
  <2>1. \A g \in Fliers : at'[g] = at[g]
    BY <1>2 DEF Fliers
  <2>2. /\ activeReads' = {at'[g] : g \in Fliers'}
        /\ \A g, h \in Fliers' : at'[g] = at'[h] => g = h
    BY <1>1, <1>3, <2>1 DEF FFlightInv
  <2>3. \A g \in Getters : fpc'[g] = "wait" => at'[g] \in activeReads'
    BY <1>1, <1>2, <1>3 DEF FFlightInv
  <2> QED
    BY <2>2, <2>3 DEF FFlightInv
<1>4. ASSUME NEW g \in Getters, FtActive(g) PROVE FFlightInv'
  <2>1. fpc[g] = "active" /\ at' = at
    BY <1>4 DEF FtActive, FGoto, getVars
  <2>2. CASE at[g] \in activeReads
    <3>1. fpc' = [fpc EXCEPT ![g] = "wait"] /\ UNCHANGED activeReads
      BY <1>4, <2>2 DEF FtActive, FGoto
    <3>2. Fliers' = Fliers
      BY <1>1, <2>1, <3>1 DEF Fliers, FFetching, FCallTypes
    <3>3. \A h \in Getters : fpc'[h] = "wait" => fpc[h] = "wait" \/ h = g
      BY <1>1, <3>1 DEF FCallTypes
    <3> QED
      BY <1>1, <2>1, <2>2, <3>1, <3>2, <3>3 DEF FFlightInv
  <2>3. CASE at[g] \notin activeReads
    <3>1. /\ fpc' = [fpc EXCEPT ![g] = "slot"]
          /\ activeReads' = activeReads \cup {at[g]}
      BY <1>4, <2>3 DEF FtActive, FGoto
    <3>2. Fliers' = Fliers \cup {g}
      BY <1>1, <2>1, <3>1 DEF Fliers, FFetching, FCallTypes
    <3>3. \A h \in Getters : fpc'[h] = "wait" => fpc[h] = "wait"
      BY <1>1, <3>1 DEF FCallTypes
    <3>4. \A h \in Fliers : at[h] \in activeReads
      BY <1>1 DEF FFlightInv
    <3>5. activeReads' = {at'[h] : h \in Fliers'}
      BY <1>1, <2>1, <3>1, <3>2 DEF FFlightInv
    <3>6. \A h, k \in Fliers' : at'[h] = at'[k] => h = k
      BY <1>1, <2>1, <2>3, <3>2, <3>4 DEF FFlightInv
    <3>7. \A h \in Getters : fpc'[h] = "wait" => at'[h] \in activeReads'
      BY <1>1, <2>1, <3>1, <3>3 DEF FFlightInv
    <3> QED
      BY <3>5, <3>6, <3>7 DEF FFlightInv
  <2> QED
    BY <2>2, <2>3
<1>5. ASSUME NEW g \in Getters, FtSignal(g) PROVE FFlightInv'
  <2>1. /\ fpc[g] = "signal" /\ at' = at /\ activeReads' = activeReads \ {at[g]}
        /\ fpc' = [h \in Getters |->
                     IF h = g THEN "got"
                     ELSE IF fpc[h] = "wait" /\ at[h] = at[g] THEN "cache"
                     ELSE fpc[h]]
    BY <1>5 DEF FtSignal, getVars
  <2>2. g \in Fliers /\ Fliers' = Fliers \ {g}
    BY <2>1 DEF Fliers, FFetching
  <2>3. \A h \in Fliers \ {g} : at[h] # at[g]
    BY <1>1, <2>2 DEF FFlightInv
  <2>4. activeReads' = {at'[h] : h \in Fliers'}
    BY <1>1, <2>1, <2>2, <2>3 DEF FFlightInv
  <2>5. \A h, k \in Fliers' : at'[h] = at'[k] => h = k
    BY <1>1, <2>1, <2>2 DEF FFlightInv
  <2>6. \A h \in Getters : fpc'[h] = "wait" => at'[h] \in activeReads'
    BY <1>1, <2>1 DEF FFlightInv
  <2> QED
    BY <2>4, <2>5, <2>6 DEF FFlightInv
<1>6. ASSUME NEW g \in Getters,
             \/ FtRead(g) \/ FtPrefetch(g) \/ FtGot(g) \/ FtCache(g) \/ FtStore(g)
      PROVE  /\ Fliers' = Fliers
             /\ \A h \in Getters : fpc'[h] = "wait" => fpc[h] = "wait"
  BY <1>1, <1>6
  DEF FtRead, FtPrefetch, FtGot, FtCache, FtStore, Finish, FGoto, Fliers,
      FFetching, FCallTypes
<1>7. ASSUME NEW g \in Getters, FtSlot(g) \/ FtRequest(g) \/ FtBackoff(g)
      PROVE  /\ Fliers' = Fliers
             /\ \A h \in Getters : fpc'[h] = "wait" => fpc[h] = "wait"
  BY <1>1, <1>7
  DEF FtSlot, FtRequest, FtBackoff, Leaves, FGoto, Fliers, FFetching, FCallTypes
<1>8. CASE UNCHANGED activeReads
  <2>1. CASE UNCHANGED fpc
    <3>1. Fliers' = Fliers
      BY <2>1 DEF Fliers
    <3> QED
      BY <1>3, <1>8, <2>1, <3>1
  <2>2. CASE ~UNCHANGED fpc
    BY <1>3, <1>4, <1>5, <1>6, <1>7, <1>8, <2>2 DEF FetcherFrame
  <2> QED
    BY <2>1, <2>2
<1> QED
  BY <1>4, <1>5, <1>8 DEF FetcherFrame

-----------------------------------------------------------------------------
(* The theorems.                                                           *)

LEMMA FetcherStep == FetcherInv /\ [FetcherNext]_fetcherVars => FetcherInv'
<1> SUFFICES ASSUME FetcherInv, [FetcherNext]_fetcherVars PROVE FetcherInv'
  OBVIOUS
<1>1. FChunkTypes' /\ FFlagTypes' /\ FRestTypes' /\ FCallInv'
  BY FChunkStep, FFlagStep, FRestStep, FCallStep
<1>2. FCallTypes' /\ FPlaced' /\ FHanded'
  BY <1>1 DEF FCallInv
<1>3. FetcherTypeOK'
  BY <1>1, <1>2, Zenon
  DEF FetcherTypeOK, FChunkTypes, FCallTypes, FFlagTypes, FRestTypes
<1>4. FFlightInv' /\ FSlots'
  BY FFlightStep, FSlotsStep
<1> QED
  BY <1>2, <1>3, <1>4 DEF FetcherInv

(* FetcherInv holds in every state of the fetcher.                         *)
THEOREM FetcherInvariant == FetcherSpec => []FetcherInv
BY FetcherInitial, FetcherStep, PTL DEF FetcherSpec

(* The types, and the order of use has each cached chunk once and no other, *)
(* and no more than CacheSize of them.                                     *)
THEOREM FetcherTypeCorrect == FetcherSpec => []FetcherTypeOK
<1>1. FetcherInv => FetcherTypeOK
  BY DEF FetcherInv
<1> QED
  BY <1>1, FetcherInvariant, PTL

(* Never are there more requests under way, pauses between two included,   *)
(* than MaxConcurrency, and whoever waits waits for a chunk in activeReads. *)
THEOREM FetchesBounded ==
  FetcherSpec =>
    [](/\ Cardinality({g \in Getters : fpc[g] \in {"request", "backoff"}})
            <= MaxConcurrency
       /\ \A g \in Getters : fpc[g] = "wait" => at[g] \in activeReads)
<1>1. FetcherInv =>
        /\ Cardinality({g \in Getters : fpc[g] \in {"request", "backoff"}})
             <= MaxConcurrency
        /\ \A g \in Getters : fpc[g] = "wait" => at[g] \in activeReads
  BY DEF FetcherInv, FSlots, FFlightInv
<1> QED
  BY <1>1, FetcherInvariant, PTL

-----------------------------------------------------------------------------
(* Getting chunks is SingleFlight.                                         *)

FFetches == [g \in Getters |->
               IF fpc[g] \in {"slot", "request", "backoff", "store", "signal"}
                 THEN at[g] ELSE NoOffset]
FAwaits == [g \in Getters |-> IF fpc[g] = "wait" THEN at[g] ELSE NoOffset]

(* Where a call stands for SingleFlight it is at a chunk and stays there.  *)
LEMMA AtKept ==
  ASSUME FetcherInv, [FetcherNext]_fetcherVars, NEW g \in Getters,
         fpc[g] \in {"wait", "active"} \cup FFetching
  PROVE  at'[g] = at[g] /\ at[g] \in FOffsets /\ at[g] # NoOffset
<1>1. FCallTypes /\ FPlaced /\ FetcherFrame
  BY FetcherTypeParts, FetcherChanges DEF FetcherInv
<1>2. at[g] \in FOffsets /\ at[g] # NoOffset
  <2>1. fpc[g] # "idle"
    BY DEF FFetching
  <2>2. at[g] \in FOffsets
    BY <1>1, <2>1 DEF FPlaced
  <2> QED
    BY <2>2, FetcherBounds DEF NoOffset
<1>3. ASSUME NEW h \in Getters, FtRead(h) \/ FtPrefetch(h) \/ FtGot(h)
      PROVE  at'[g] = at[g]
  BY <1>1, <1>3 DEF FtRead, FtPrefetch, FtGot, Finish, FGoto, FFetching, FCallTypes
<1> QED
  BY <1>1, <1>2, <1>3 DEF FetcherFrame

(* activeReads holds the chunks in flight.                                 *)
LEMMA ActiveReadsFly ==
  ASSUME FetcherInv
  PROVE  activeReads = {FFetches[g] : g \in Getters} \ {NoOffset}
<1>1. activeReads = {at[g] : g \in Fliers} /\ \A g \in Fliers : at[g] \in FOffsets
  BY DEF FetcherInv, FFlightInv, FPlaced, Fliers, FFetching
<1>2. \A o \in FOffsets : o # NoOffset
  BY FetcherBounds DEF NoOffset
<1>3. ASSUME NEW c
      PROVE  c \in activeReads <=> c \in {FFetches[g] : g \in Getters} \ {NoOffset}
  BY <1>1, <1>2 DEF FFetches, Fliers, FFetching
<1> QED
  BY <1>3

(* The entry into activeReads begins a fetch, or a wait for it.            *)
LEMMA FtActiveRefines ==
  ASSUME FetcherInv, [FetcherNext]_fetcherVars, NEW g \in Getters, FtActive(g),
         NEW c, c = at[g]
  PROVE  FFlight!Begin(g, c) \/ FFlight!Await(g, c)
<1>1. FCallTypes /\ fpc[g] = "active" /\ at[g] # NoOffset /\ at' = at
  BY FetcherTypeParts, AtKept DEF FetcherInv, FtActive, FGoto, getVars
<1>2. FFlight!Free(g)
  BY <1>1 DEF FFlight!Free
<1>3. FFlight!Flying = activeReads
  BY ActiveReadsFly DEF FFlight!Flying, FFetches
<1>4. CASE at[g] \in activeReads
  <2>1. fpc' = [fpc EXCEPT ![g] = "wait"]
    BY <1>4 DEF FtActive, FGoto
  <2>2. FFetches' = FFetches
    BY <1>1, <2>1 DEF FFetches, FCallTypes
  <2>3. FAwaits' = [FAwaits EXCEPT ![g] = at[g]]
    BY <1>1, <2>1 DEF FAwaits, FCallTypes
  <2> QED
    BY <1>2, <1>3, <1>4, <2>2, <2>3 DEF FFlight!Await, FFetches, FAwaits
<1>5. CASE at[g] \notin activeReads
  <2>1. fpc' = [fpc EXCEPT ![g] = "slot"]
    BY <1>5 DEF FtActive, FGoto
  <2>2. FFetches' = [FFetches EXCEPT ![g] = at[g]]
    BY <1>1, <2>1 DEF FFetches, FCallTypes
  <2>3. FAwaits' = FAwaits
    BY <1>1, <2>1 DEF FAwaits, FCallTypes
  <2> QED
    BY <1>2, <1>3, <1>5, <2>2, <2>3 DEF FFlight!Begin, FFetches, FAwaits
<1> QED
  BY <1>4, <1>5

(* The signal ends the fetch, and with it all waits for it.                *)
LEMMA FtSignalRefines ==
  ASSUME FetcherInv, [FetcherNext]_fetcherVars, NEW g \in Getters, FtSignal(g)
  PROVE  FFlight!End(g)
<1>1. FCallTypes /\ fpc[g] = "signal" /\ at' = at
  BY FetcherTypeParts DEF FetcherInv, FtSignal, getVars
<1>2. at[g] # NoOffset
  BY <1>1, AtKept DEF FFetching
<1>3. fpc' = [h \in Getters |->
                IF h = g THEN "got"
                ELSE IF fpc[h] = "wait" /\ at[h] = at[g] THEN "cache"
                ELSE fpc[h]]
  BY DEF FtSignal
<1>4. FFetches[g] = at[g] /\ FFetches[g] # NoOffset
  BY <1>1, <1>2 DEF FFetches
<1>5. FFetches' = [FFetches EXCEPT ![g] = NoOffset]
  BY <1>1, <1>3 DEF FFetches
<1>6. FAwaits' = [h \in Getters |->
                    IF FAwaits[h] = FFetches[g] THEN NoOffset ELSE FAwaits[h]]
  BY <1>1, <1>2, <1>3, <1>4 DEF FAwaits
<1> QED
  BY <1>4, <1>5, <1>6 DEF FFlight!End, FFetches, FAwaits

(* Every other step is a stutter.                                          *)
LEMMA FtOthersStutter ==
  ASSUME FetcherInv, [FetcherNext]_fetcherVars,
         ~\E g \in Getters : FtActive(g) \/ FtSignal(g)
  PROVE  FFetches' = FFetches /\ FAwaits' = FAwaits
<1>1. FCallTypes /\ FetcherFrame
  BY FetcherTypeParts, FetcherChanges DEF FetcherInv
<1>2. ASSUME NEW h \in Getters
      PROVE  /\ fpc'[h] \in FFetching <=> fpc[h] \in FFetching
             /\ fpc'[h] = "wait" <=> fpc[h] = "wait"
  <2>1. ASSUME NEW g \in Getters,
               \/ FtRead(g) \/ FtPrefetch(g) \/ FtGot(g) \/ FtCache(g) \/ FtStore(g)
        PROVE  /\ fpc'[h] \in FFetching <=> fpc[h] \in FFetching
               /\ fpc'[h] = "wait" <=> fpc[h] = "wait"
    BY <1>1, <2>1
    DEF FtRead, FtPrefetch, FtGot, FtCache, FtStore, Finish, FGoto, FFetching,
        FCallTypes
  <2>2. ASSUME NEW g \in Getters, FtSlot(g) \/ FtRequest(g) \/ FtBackoff(g)
        PROVE  /\ fpc'[h] \in FFetching <=> fpc[h] \in FFetching
               /\ fpc'[h] = "wait" <=> fpc[h] = "wait"
    BY <1>1, <2>2
    DEF FtSlot, FtRequest, FtBackoff, Leaves, FGoto, FFetching, FCallTypes
  <2> QED
    BY <1>1, <2>1, <2>2 DEF FetcherFrame
<1>3. \A h \in Getters : fpc[h] \in FFetching \cup {"wait"} => at'[h] = at[h]
  BY AtKept
<1>4. FFetches' = FFetches
  BY <1>2, <1>3 DEF FFetches, FFetching
<1>5. FAwaits' = FAwaits
  BY <1>2, <1>3 DEF FAwaits
<1> QED
  BY <1>4, <1>5

(* For any number of readers and read-aheads: one fetch for all that want a *)
(* chunk, nobody waits for a fetch that has ended, and its end lets go of  *)
(* all that wait.                                                          *)
THEOREM FetcherIsSingleFlight == FetcherSpec => FetcherSingleFlight
<1>1. FetcherInit => FFlight!Init
  BY DEF FetcherInit, FFlight!Init
<1>2. FetcherInv /\ [FetcherNext]_fetcherVars =>
        [FFlight!Next]_<<FFetches, FAwaits>>
  <2> SUFFICES ASSUME FetcherInv, [FetcherNext]_fetcherVars
               PROVE  \/ FFlight!Next
                      \/ FFetches' = FFetches /\ FAwaits' = FAwaits
    BY Zenon
  <2>1. ASSUME NEW g \in Getters, FtActive(g) PROVE FFlight!Next
    <3>1. at[g] \in FOffsets
      BY <2>1, AtKept DEF FtActive, FGoto
    <3>2. PICK c \in FOffsets : c = at[g]
      BY <3>1
    <3>3. FFlight!Begin(g, c) \/ FFlight!Await(g, c)
      BY <2>1, <3>2, FtActiveRefines
    <3> QED
      BY <3>3 DEF FFlight!Next
  <2>2. ASSUME NEW g \in Getters, FtSignal(g) PROVE FFlight!Next
    BY <2>2, FtSignalRefines DEF FFlight!Next
  <2> QED
    BY <2>1, <2>2, FtOthersStutter
<1> QED
  BY <1>1, <1>2, FetcherInvariant, PTL
  DEF FetcherSpec, FetcherSingleFlight, FFlight!Spec, FFetches, FAwaits
=============================================================================
