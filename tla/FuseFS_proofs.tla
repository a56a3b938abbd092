---------------------------- MODULE FuseFS_proofs ----------------------------
(***************************************************************************)
(* The properties of the registry of staged files for any number of        *)
(* stagers, clients and ids, and any bounds on objects and stores.  The    *)
(* inductive invariant says who holds fs.mu and what its sweep has left,   *)
(* that an object never comes back under another id, which store a client  *)
(* has, what openRef counts, and who is on the way to evict an object that *)
(* has neither reference.                                                  *)
(***************************************************************************)
EXTENDS FuseFS, FiniteSetTheorems, TLAPS

Looked == {"store", "ref", "table", "open", "deref", "retile", "relock",
           "resweep"}

(* What each place of StageFile, Open and Release has in hand.             *)
Places ==
  /\ \A p \in Stagers :
       /\ spc[p] \notin {"idle", "evict"} => sid[p] \in Ids
       /\ spc[p] \in {"check", "tile", "retile"} => found[p] # None
       /\ spc[p] \in {"idle", "sweep", "lookup", "evict"} => found[p] = None
       /\ spc[p] = "publish" <=> made[p] # None
  /\ \A c \in Clients :
       /\ cpc[c] # "idle" => cid[c] \in Ids
       /\ cpc[c] \in Looked <=> cobj[c] # None
       /\ cpc[c] \in {"ref", "table", "open"} => cstore[c] # None

(* An object gets an id as it is made, and never another one.              *)
OneIdEach ==
  /\ \A i \in Ids : registry[i] <= nObjs
  /\ \A p \in Stagers : found[p] <= nObjs
  /\ \A c \in Clients : cobj[c] <= nObjs
  /\ \A o \in Objs :
       o > nObjs => store[o] = None /\ tileRef[o] = 0 /\ openRef[o] = 0
  /\ \A i, j \in Ids : registry[i] = registry[j] /\ registry[i] # None => i = j
  /\ \A i \in Ids, p \in Stagers :
       registry[i] = found[p] /\ registry[i] # None => sid[p] = i
  /\ \A i \in Ids, c \in Clients :
       registry[i] = cobj[c] /\ registry[i] # None => cid[c] = i

(* Who holds fs.mu, and its sweep: of registered objects, none twice.      *)
Locked ==
  /\ \A p \in Stagers : mu = p <=> spc[p] \in {"sweep", "evict"}
  /\ \A c \in Clients : mu = c <=> cpc[c] = "resweep"
  /\ todo \subseteq Registered
  /\ phase = "next" <=> current = None
  /\ current # None =>
       /\ mu # Nobody
       /\ \E i \in Registered \ todo : registry[i] = current
  /\ todo # {} => mu # Nobody

(* The stores with an owner, and where they come from.                     *)
Owned ==
  /\ StoreOwnership
  /\ \A p, q \in Stagers : made[p] = made[q] /\ made[p] # None => p = q

(* Clients that openRef of the object of id i counts.                      *)
Counted(i) ==
  {c \in Clients : /\ cid[c] = i
                   /\ cpc[c] \in {"table", "open", "relook", "deref"}}

CountInv ==
  \A i \in Ids \ stranded :
    /\ registry[i] = None => Counted(i) = {}
    /\ registry[i] # None =>
         /\ openRef[registry[i]] = Cardinality(Counted(i))
         /\ \A c \in Counted(i) : cpc[c] = "relook" \/ cobj[c] = registry[i]

(* Once the counts are looked at, who has the object is stranded.          *)
Condemned ==
  phase = "evict" =>
    \A i \in Ids : registry[i] = current =>
      /\ Counted(i) # {} => i \in stranded
      /\ \A c \in Clients :
           cpc[c] \in {"store", "ref"} /\ cobj[c] = current => i \in stranded

(* The store a client has.                                                 *)
StoreHeld ==
  \A c \in Clients :
    cpc[c] \in {"ref", "table", "open"} =>
      \/ cstore[c] = store[cobj[c]]
      \/ cstore[c] \in evicted
      \/ cid[c] \in stranded

(* NothingForgotten, by a client that looks at the very object.            *)
OnTheWay(i) ==
  \/ i \in todo
  \/ current = registry[i]
  \/ \E c \in Clients : /\ cid[c] = i
                        /\ \/ cpc[c] = "relock"
                           \/ cpc[c] = "retile" /\ cobj[c] = registry[i]

Remembered ==
  \A i \in Registered \ stranded :
    ~SkipEviction /\ tileRef[registry[i]] = 0 /\ Using(i) = {} => OnTheWay(i)

FuseInv ==
  /\ TypeOK /\ Places /\ OneIdEach /\ Locked /\ Owned /\ CountInv /\ Condemned
  /\ StoreHeld /\ Remembered

-----------------------------------------------------------------------------
(* The types.                                                              *)

(* TypeOK in parts: the objects and their stores, the sweep, the calls.    *)
ObjTypes ==
  /\ registry \in [Ids -> Objs \cup {None}]
  /\ store \in [Objs -> Stores \cup {None}]
  /\ tileRef \in [Objs -> {0, 1}]
  /\ openRef \in [Objs -> Int]
  /\ nObjs \in 0..MaxObjs
  /\ life \in [Stores -> {"unborn", "open", "closed"}]
  /\ evicted \subseteq Stores

SweepTypes ==
  /\ mu \in Stagers \cup Clients \cup {Nobody}
  /\ todo \subseteq Ids
  /\ current \in Objs \cup {None}
  /\ phase \in {"next", "tile", "open", "evict"}

StageTypes ==
  /\ spc \in [Stagers -> StPcs] /\ sid \in [Stagers -> Ids \cup {Nobody}]
  /\ found \in [Stagers -> Objs \cup {None}]
  /\ made \in [Stagers -> Stores \cup {None}]

ClientTypes ==
  /\ cpc \in [Clients -> ClPcs] /\ cid \in [Clients -> Ids \cup {Nobody}]
  /\ cobj \in [Clients -> Objs \cup {None}]
  /\ cstore \in [Clients -> Stores \cup {None}]
  /\ stranded \subseteq Ids

LEMMA TypeParts ==
  TypeOK <=> /\ ObjTypes /\ SweepTypes /\ StageTypes /\ ClientTypes
             /\ clearing \in BOOLEAN
BY Zenon DEF TypeOK, ObjTypes, SweepTypes, StageTypes, ClientTypes

(* What a number is, said once.                                            *)
LEMMA Bounds ==
  /\ MaxObjs \in Nat /\ MaxStores \in Nat /\ None \notin Objs
  /\ None \notin Stores /\ Objs \subseteq Nat /\ Stores \subseteq Nat
BY ConstantsAssumption DEF ConstantsAssumption, Objs, Stores, None

LEMMA FuseInitial == Init => FuseInv
<1> SUFFICES ASSUME Init PROVE FuseInv
  OBVIOUS
<1> USE Bounds DEF Init
<1>1. ObjTypes /\ SweepTypes /\ StageTypes /\ ClientTypes
  BY DEF ObjTypes, SweepTypes, StageTypes, ClientTypes, StPcs, ClPcs
<1>9. clearing \in BOOLEAN
  OBVIOUS
<1>2. TypeOK
  BY <1>1, <1>9, TypeParts
<1>3. Places
  BY DEF Places, Looked
<1>4. OneIdEach
  BY DEF OneIdEach, None
<1>5. Locked
  BY ConstantsAssumption DEF Locked, ConstantsAssumption
<1>6. Owned
  BY DEF Owned, StoreOwnership
<1>7. CountInv
  <2>1. \A i \in Ids : Counted(i) = {}
    BY DEF Counted
  <2> QED
    BY <2>1 DEF CountInv
<1>8. Condemned /\ StoreHeld /\ Remembered
  BY DEF Condemned, StoreHeld, Remembered, Registered
<1> QED
  BY <1>2, <1>3, <1>4, <1>5, <1>6, <1>7, <1>8 DEF FuseInv

(* Which steps change what the actions of others rely on.                  *)
Frame ==
  /\ UNCHANGED registry \/ SweepEvict \/ \E p \in Stagers : StPublish(p)
  /\ \/ UNCHANGED store
     \/ SweepEvict
     \/ \E p \in Stagers : StCheck(p) \/ StPublish(p)
  /\ \/ UNCHANGED tileRef
     \/ SweepNext
     \/ \E p \in Stagers : StTile(p) \/ StPublish(p)
  /\ UNCHANGED openRef \/ \E c \in Clients : OpRef(c) \/ ReDeref(c)
  /\ UNCHANGED nObjs \/ \E p \in Stagers : StPublish(p)
  /\ \/ UNCHANGED life
     \/ SweepEvict
     \/ \E p \in Stagers : StCheck(p) \/ StCreate(p) \/ StPublish(p)
  /\ \/ UNCHANGED evicted
     \/ \E p \in Stagers : StSpace(p) \/ StCreate(p)
  /\ evicted \subseteq evicted'
  /\ UNCHANGED <<current, phase>> \/ Sweep
  /\ stranded \subseteq stranded'
  /\ UNCHANGED stageVars \/ UNCHANGED clientVars

(* Who takes and gives fs.mu and its list, and who strands an id.          *)
LockFrame ==
  /\ \/ UNCHANGED <<mu, todo>>
     \/ SweepNext
     \/ \E p \in Stagers : StCall(p) \/ StSwept(p) \/ EvCall(p) \/ EvSwept(p)
     \/ \E c \in Clients : ReLock(c) \/ ReSwept(c)
  /\ \/ UNCHANGED stranded
     \/ SweepOpen
     \/ \E p \in Stagers : StPublish(p)
     \/ \E c \in Clients : OpRef(c)

LEMMA WhoChanges == [Next]_vars => Frame
<1> SUFFICES ASSUME [Next]_vars PROVE Frame
  OBVIOUS
<1> USE DEF Frame, objVars, storeVars, muVars, stageVars, clientVars
<1>1. CASE UNCHANGED vars
  BY <1>1 DEF vars
<1>2. CASE SweepNext
  BY <1>2 DEF Sweep, SweepNext, SweepGoto
<1>3. CASE SweepTile
  BY <1>3 DEF Sweep, SweepTile, SweepGoto
<1>4. CASE SweepOpen
  BY <1>4 DEF Sweep, SweepOpen, SweepGoto
<1>5. CASE SweepKeep
  BY <1>5 DEF Sweep, SweepKeep, SweepGoto
<1>6. CASE SweepEvict
  BY <1>6 DEF Sweep, SweepEvict, SweepGoto
<1>7. ASSUME NEW p \in Stagers, StCall(p) PROVE Frame
  BY <1>7 DEF StCall, LockAndSweep
<1>8. ASSUME NEW p \in Stagers, StSwept(p) PROVE Frame
  BY <1>8 DEF StSwept, Unlock
<1>9. ASSUME NEW p \in Stagers, StLookup(p) PROVE Frame
  BY <1>9 DEF StLookup
<1>10. ASSUME NEW p \in Stagers, StCheck(p) PROVE Frame
  BY <1>10 DEF StCheck
<1>11. ASSUME NEW p \in Stagers, StTile(p) PROVE Frame
  BY <1>11 DEF StTile
<1>12. ASSUME NEW p \in Stagers, StSpace(p) PROVE Frame
  BY <1>12 DEF StSpace, EvictSome
<1>13. ASSUME NEW p \in Stagers, StCreate(p) PROVE Frame
  BY <1>13 DEF StCreate, EvictSome
<1>14. ASSUME NEW p \in Stagers, StPublish(p) PROVE Frame
  BY <1>14 DEF StPublish
<1>15. ASSUME NEW p \in Stagers, EvCall(p) PROVE Frame
  BY <1>15 DEF EvCall, LockAndSweep
<1>16. ASSUME NEW p \in Stagers, EvSwept(p) PROVE Frame
  BY <1>16 DEF EvSwept, Unlock
<1>17. ASSUME NEW c \in Clients, OpLookup(c) PROVE Frame
  BY <1>17 DEF OpLookup
<1>18. ASSUME NEW c \in Clients, OpStore(c) PROVE Frame
  BY <1>18 DEF OpStore
<1>19. ASSUME NEW c \in Clients, OpRef(c) PROVE Frame
  BY <1>19 DEF OpRef
<1>20. ASSUME NEW c \in Clients, OpTable(c) PROVE Frame
  BY <1>20 DEF OpTable
<1>21. ASSUME NEW c \in Clients, ReTable(c) PROVE Frame
  BY <1>21 DEF ReTable
<1>22. ASSUME NEW c \in Clients, ReLookup(c) PROVE Frame
  BY <1>22 DEF ReLookup
<1>23. ASSUME NEW c \in Clients, ReDeref(c) PROVE Frame
  BY <1>23 DEF ReDeref
<1>24. ASSUME NEW c \in Clients, ReTile(c) PROVE Frame
  BY <1>24 DEF ReTile
<1>25. ASSUME NEW c \in Clients, ReLock(c) PROVE Frame
  BY <1>25 DEF ReLock, LockAndSweep
<1>26. ASSUME NEW c \in Clients, ReSwept(c) PROVE Frame
  BY <1>26 DEF ReSwept, Unlock
<1> QED
  BY <1>1, <1>2, <1>3, <1>4, <1>5, <1>6, <1>7, <1>8, <1>9, <1>10, <1>11,
     <1>12, <1>13, <1>14, <1>15, <1>16, <1>17, <1>18, <1>19, <1>20, <1>21,
     <1>22, <1>23, <1>24, <1>25, <1>26
  DEF Next, Sweep

LEMMA WhoLocks == [Next]_vars => LockFrame
<1> SUFFICES ASSUME [Next]_vars PROVE LockFrame
  OBVIOUS
<1> USE DEF LockFrame, objVars, storeVars, muVars, stageVars, clientVars
<1>1. CASE UNCHANGED vars
  BY <1>1 DEF vars
<1>2. CASE SweepNext
  <2>1. UNCHANGED stranded
    BY <1>2 DEF SweepNext, SweepGoto
  <2> QED
    BY <1>2, <2>1
<1>3. CASE SweepTile
  BY <1>3 DEF Sweep, SweepTile, SweepGoto
<1>4. CASE SweepOpen
  <2>1. UNCHANGED <<mu, todo>>
    BY <1>4 DEF SweepOpen, SweepGoto
  <2> QED
    BY <1>4, <2>1
<1>5. CASE SweepKeep
  BY <1>5 DEF Sweep, SweepKeep, SweepGoto
<1>6. CASE SweepEvict
  BY <1>6 DEF Sweep, SweepEvict, SweepGoto
<1>7. ASSUME NEW p \in Stagers, StCall(p) PROVE LockFrame
  <2>1. UNCHANGED stranded
    BY <1>7 DEF StCall
  <2> QED
    BY <1>7, <2>1
<1>8. ASSUME NEW p \in Stagers, StSwept(p) PROVE LockFrame
  <2>1. UNCHANGED stranded
    BY <1>8 DEF StSwept
  <2> QED
    BY <1>8, <2>1
<1>9. ASSUME NEW p \in Stagers, StLookup(p) PROVE LockFrame
  BY <1>9 DEF StLookup
<1>10. ASSUME NEW p \in Stagers, StCheck(p) PROVE LockFrame
  BY <1>10 DEF StCheck
<1>11. ASSUME NEW p \in Stagers, StTile(p) PROVE LockFrame
  BY <1>11 DEF StTile
<1>12. ASSUME NEW p \in Stagers, StSpace(p) PROVE LockFrame
  BY <1>12 DEF StSpace, EvictSome
<1>13. ASSUME NEW p \in Stagers, StCreate(p) PROVE LockFrame
  BY <1>13 DEF StCreate, EvictSome
<1>14. ASSUME NEW p \in Stagers, StPublish(p) PROVE LockFrame
  <2>1. UNCHANGED <<mu, todo>>
    BY <1>14 DEF StPublish
  <2> QED
    BY <1>14, <2>1
<1>15. ASSUME NEW p \in Stagers, EvCall(p) PROVE LockFrame
  <2>1. UNCHANGED stranded
    BY <1>15 DEF EvCall
  <2> QED
    BY <1>15, <2>1
<1>16. ASSUME NEW p \in Stagers, EvSwept(p) PROVE LockFrame
  <2>1. UNCHANGED stranded
    BY <1>16 DEF EvSwept
  <2> QED
    BY <1>16, <2>1
<1>17. ASSUME NEW c \in Clients, OpLookup(c) PROVE LockFrame
  BY <1>17 DEF OpLookup
<1>18. ASSUME NEW c \in Clients, OpStore(c) PROVE LockFrame
  BY <1>18 DEF OpStore
<1>19. ASSUME NEW c \in Clients, OpRef(c) PROVE LockFrame
  <2>1. UNCHANGED <<mu, todo>>
    BY <1>19 DEF OpRef
  <2> QED
    BY <1>19, <2>1
<1>20. ASSUME NEW c \in Clients, OpTable(c) PROVE LockFrame
  BY <1>20 DEF OpTable
<1>21. ASSUME NEW c \in Clients, ReTable(c) PROVE LockFrame
  BY <1>21 DEF ReTable
<1>22. ASSUME NEW c \in Clients, ReLookup(c) PROVE LockFrame
  BY <1>22 DEF ReLookup
<1>23. ASSUME NEW c \in Clients, ReDeref(c) PROVE LockFrame
  BY <1>23 DEF ReDeref
<1>24. ASSUME NEW c \in Clients, ReTile(c) PROVE LockFrame
  BY <1>24 DEF ReTile
<1>25. ASSUME NEW c \in Clients, ReLock(c) PROVE LockFrame
  <2>1. UNCHANGED stranded
    BY <1>25 DEF ReLock
  <2> QED
    BY <1>25, <2>1
<1>26. ASSUME NEW c \in Clients, ReSwept(c) PROVE LockFrame
  <2>1. UNCHANGED stranded
    BY <1>26 DEF ReSwept
  <2> QED
    BY <1>26, <2>1
<1> QED
  BY <1>1, <1>2, <1>3, <1>4, <1>5, <1>6, <1>7, <1>8, <1>9, <1>10, <1>11,
     <1>12, <1>13, <1>14, <1>15, <1>16, <1>17, <1>18, <1>19, <1>20, <1>21,
     <1>22, <1>23, <1>24, <1>25, <1>26
  DEF Next, Sweep

LEMMA ObjStep == FuseInv /\ [Next]_vars => ObjTypes'
<1> SUFFICES ASSUME FuseInv, [Next]_vars PROVE ObjTypes'
  OBVIOUS
<1>1. ObjTypes /\ SweepTypes /\ StageTypes /\ ClientTypes
  BY TypeParts DEF FuseInv
<1> USE <1>1, Bounds DEF ObjTypes
<1>2. CASE SweepNext
  BY <1>2 DEF SweepNext, SweepGoto, storeVars
<1>3. CASE SweepEvict
  BY <1>3 DEF SweepEvict, SweepGoto, CloseStore, None
<1>4. ASSUME NEW p \in Stagers, StCheck(p) PROVE ObjTypes'
  BY <1>4 DEF StCheck, CloseStore, None
<1>5. ASSUME NEW p \in Stagers, StTile(p) PROVE ObjTypes'
  BY <1>5 DEF StTile, storeVars
<1>6. ASSUME NEW p \in Stagers, StSpace(p) \/ StCreate(p) PROVE ObjTypes'
  BY <1>6 DEF StSpace, StCreate, EvictSome, objVars
<1>7. ASSUME NEW p \in Stagers, StPublish(p) PROVE ObjTypes'
  <2>1. nObjs' \in 0..MaxObjs /\ evicted' = evicted /\ openRef' = openRef
    BY <1>7 DEF StPublish, objVars
  <2>2. registry' \in [Ids -> Objs \cup {None}] /\ tileRef' \in [Objs -> {0, 1}]
    <3>1. nObjs < MaxObjs => nObjs + 1 \in Objs
      BY DEF Objs
    <3> QED
      BY <1>7, <3>1 DEF StPublish, objVars
  <2>3. store' \in [Objs -> Stores \cup {None}]
    BY <1>7 DEF StPublish, objVars, StageTypes
  <2>4. life' \in [Stores -> {"unborn", "open", "closed"}]
    BY <1>7 DEF StPublish, CloseStore
  <2> QED
    BY <2>1, <2>2, <2>3, <2>4
<1>8. ASSUME NEW c \in Clients, OpRef(c) \/ ReDeref(c) PROVE ObjTypes'
  <2>1. openRef' \in [Objs -> Int]
    <3>1. \A o \in Objs, k \in {1, -1} : openRef[o] + k \in Int
      OBVIOUS
    <3>2. \A o : \A k \in {1, -1} :
            [openRef EXCEPT ![o] = @ + k] \in [Objs -> Int]
      BY <3>1
    <3>3. \/ openRef' = [openRef EXCEPT ![cobj[c]] = @ + 1]
          \/ openRef' = [openRef EXCEPT ![cobj[c]] = @ + (-1)]
      BY <1>8 DEF OpRef, ReDeref
    <3> QED
      BY <3>2, <3>3
  <2> QED
    BY <1>8, <2>1 DEF OpRef, ReDeref, storeVars
<1>9. CASE UNCHANGED <<objVars, storeVars>>
  BY <1>9 DEF objVars, storeVars
<1> QED
  <2>1. Frame
    BY WhoChanges
  <2> HIDE DEF ObjTypes
  <2> QED
    BY <1>2, <1>3, <1>4, <1>5, <1>6, <1>7, <1>8, <1>9, <2>1, Zenon
    DEF Frame, objVars, storeVars

LEMMA SweepStep ==
  FuseInv /\ [Next]_vars => SweepTypes' /\ clearing' \in BOOLEAN
<1> SUFFICES ASSUME FuseInv, [Next]_vars
             PROVE  SweepTypes' /\ clearing' \in BOOLEAN
  OBVIOUS
<1>1. ObjTypes /\ SweepTypes /\ StageTypes /\ ClientTypes
  BY TypeParts DEF FuseInv
<1>2. clearing \in BOOLEAN
  BY TypeParts DEF FuseInv
<1> DEFINE Taken == \E p \in Stagers \cup Clients, b \in BOOLEAN :
                      \E ids \in SUBSET Ids : LockAndSweep(p, ids, b)
           Given == \E p \in Stagers \cup Clients : Unlock(p)
<1>3. \/ UNCHANGED muVars
      \/ Taken
      \/ Given
      \/ Sweep
  <2> USE DEF muVars
  <2>1. CASE UNCHANGED vars
    BY <2>1 DEF vars
  <2>2. ASSUME NEW p \in Stagers, StCall(p) \/ EvCall(p) PROVE Taken
    <3>1. Registered \in SUBSET Ids /\ \A i \in Registered : {i} \in SUBSET Ids
      BY DEF Registered
    <3>2. \E ids \in SUBSET Ids : LockAndSweep(p, ids, TRUE)
      BY <2>2, <3>1 DEF StCall, EvCall
    <3> QED
      BY <3>2, Zenon
  <2>3. ASSUME NEW p \in Stagers, StSwept(p) \/ EvSwept(p) PROVE Given
    BY <2>3 DEF StSwept, EvSwept
  <2>4. ASSUME NEW p \in Stagers,
               \/ StLookup(p) \/ StCheck(p) \/ StTile(p) \/ StSpace(p)
               \/ StCreate(p) \/ StPublish(p)
        PROVE  UNCHANGED muVars
    BY <2>4 DEF StLookup, StCheck, StTile, StSpace, StCreate, StPublish
  <2>5. ASSUME NEW c \in Clients, ReLock(c) PROVE Taken
    <3>1. {cid[c]} \cap Registered \in SUBSET Ids
      BY DEF Registered
    <3>2. \E ids \in SUBSET Ids : LockAndSweep(c, ids, FALSE)
      BY <2>5, <3>1 DEF ReLock
    <3> QED
      BY <3>2, Zenon
  <2>6. ASSUME NEW c \in Clients, ReSwept(c) PROVE Given
    BY <2>6 DEF ReSwept
  <2>7. ASSUME NEW c \in Clients,
               \/ OpLookup(c) \/ OpStore(c) \/ OpRef(c) \/ OpTable(c)
               \/ ReTable(c) \/ ReLookup(c) \/ ReDeref(c) \/ ReTile(c)
        PROVE  UNCHANGED muVars
    BY <2>7 DEF OpLookup, OpStore, OpRef, OpTable, ReTable, ReLookup, ReDeref,
                ReTile
  <2> HIDE DEF Taken, Given, muVars
  <2> QED
    BY <2>1, <2>2, <2>3, <2>4, <2>5, <2>6, <2>7 DEF Next
<1>4. CASE UNCHANGED muVars
  <2>1. UNCHANGED <<mu, todo, current, phase>> /\ UNCHANGED clearing
    BY <1>4 DEF muVars
  <2> QED
    BY <1>1, <1>2, <2>1 DEF SweepTypes
<1>5. CASE Taken
  <2>1. PICK p \in Stagers \cup Clients, b \in BOOLEAN :
          \E ids \in SUBSET Ids : LockAndSweep(p, ids, b)
    BY <1>5
  <2>2. clearing' \in BOOLEAN
    BY <2>1, Zenon DEF LockAndSweep
  <2>3. SweepTypes'
    BY <1>1, <2>1 DEF LockAndSweep, SweepTypes
  <2> QED
    BY <2>2, <2>3
<1>6. CASE Given
  BY <1>1, <1>6 DEF Unlock, SweepTypes
<1>7. CASE Sweep
  <2>1. UNCHANGED clearing
    BY <1>7 DEF Sweep, SweepNext, SweepTile, SweepOpen, SweepKeep, SweepEvict
  <2>2. SweepTypes'
    BY <1>1, <1>7 DEF Sweep, SweepNext, SweepTile, SweepOpen, SweepKeep,
       SweepEvict, SweepGoto, SweepTypes, ObjTypes
  <2> QED
    BY <1>2, <2>1, <2>2
<1> QED
  BY <1>3, <1>4, <1>5, <1>6, <1>7

LEMMA StageStep == FuseInv /\ [Next]_vars => StageTypes'
<1> SUFFICES ASSUME FuseInv, [Next]_vars PROVE StageTypes'
  OBVIOUS
<1>1. ObjTypes /\ StageTypes
  BY TypeParts DEF FuseInv
<1> USE <1>1 DEF StageTypes, StPcs, stageVars, StGoto
<1>2. CASE Sweep \/ UNCHANGED vars
  BY <1>2 DEF Sweep, SweepNext, SweepTile, SweepOpen, SweepKeep, SweepEvict, vars
<1>3. ASSUME NEW p \in Stagers,
             StCall(p) \/ StSwept(p) \/ EvCall(p) \/ EvSwept(p)
      PROVE  StageTypes'
  BY <1>3 DEF StCall, StSwept, EvCall, EvSwept
<1>4. ASSUME NEW p \in Stagers, StLookup(p) PROVE StageTypes'
  <2>1. registry[sid[p]] \in Objs \cup {None} \/ sid[p] \notin Ids
    BY DEF ObjTypes
  <2>2. sid[p] \in Ids
    BY <1>4 DEF StLookup, FuseInv, Places
  <2> QED
    BY <1>4, <2>1, <2>2 DEF StLookup
<1>5. ASSUME NEW p \in Stagers, StCheck(p) \/ StTile(p) \/ StSpace(p)
      PROVE  StageTypes'
  BY <1>5 DEF StCheck, StTile, StSpace, StReturn
<1>6. ASSUME NEW p \in Stagers, StCreate(p) PROVE StageTypes'
  BY <1>6 DEF StCreate, StReturn
<1>7. ASSUME NEW p \in Stagers, StPublish(p) PROVE StageTypes'
  BY <1>7 DEF StPublish, StReturn
<1>8. ASSUME NEW c \in Clients,
             \/ OpLookup(c) \/ OpStore(c) \/ OpRef(c) \/ OpTable(c)
             \/ ReTable(c) \/ ReLookup(c) \/ ReDeref(c) \/ ReTile(c)
             \/ ReLock(c) \/ ReSwept(c)
      PROVE  StageTypes'
  BY <1>8 DEF OpLookup, OpStore, OpRef, OpTable, ReTable, ReLookup, ReDeref,
              ReTile, ReLock, ReSwept
<1> HIDE DEF StageTypes
<1> QED
  BY <1>2, <1>3, <1>4, <1>5, <1>6, <1>7, <1>8 DEF Next

LEMMA ClientStep == FuseInv /\ [Next]_vars => ClientTypes'
<1> SUFFICES ASSUME FuseInv, [Next]_vars PROVE ClientTypes'
  OBVIOUS
<1>1. ObjTypes /\ StageTypes /\ ClientTypes
  BY TypeParts DEF FuseInv
<1> USE <1>1 DEF ClientTypes, ClPcs, clientVars, ClGoto
<1>2. CASE Sweep \/ UNCHANGED vars
  BY <1>2 DEF Sweep, SweepNext, SweepTile, SweepOpen, SweepKeep, SweepEvict, vars
<1>3. ASSUME NEW p \in Stagers,
             \/ StCall(p) \/ StSwept(p) \/ StLookup(p) \/ StCheck(p) \/ StTile(p)
             \/ StSpace(p) \/ StCreate(p) \/ EvCall(p) \/ EvSwept(p)
      PROVE  ClientTypes'
  BY <1>3 DEF StCall, StSwept, StLookup, StCheck, StTile, StSpace, StCreate,
              EvCall, EvSwept
<1>4. ASSUME NEW p \in Stagers, StPublish(p) PROVE ClientTypes'
  <2>1. sid[p] \in Ids
    BY <1>4 DEF StPublish, StReturn, StGoto, FuseInv, Places
  <2> QED
    BY <1>4, <2>1 DEF StPublish
<1>5. ASSUME NEW c \in Clients, OpLookup(c) \/ OpStore(c) PROVE ClientTypes'
  <2>1. cstore'[c] \in Stores \cup {None} /\ cstore' \in [Clients -> Stores \cup {None}]
    <3>1. cpc[c] = "store" => cobj[c] \in Objs
      BY DEF FuseInv, Places, Looked
    <3>2. cobj[c] \in Objs => store[cobj[c]] \in Stores \cup {None}
      BY DEF ObjTypes
    <3> QED
      BY <1>5, <3>1, <3>2 DEF OpLookup, OpStore
  <2>2. /\ cpc' \in [Clients -> ClPcs] /\ cid' \in [Clients -> Ids \cup {Nobody}]
        /\ cobj' \in [Clients -> Objs \cup {None}]
    BY <1>5 DEF OpLookup, OpStore, ClReturn, Registered, ObjTypes
  <2> QED
    BY <1>5, <2>1, <2>2 DEF OpLookup, OpStore
<1>6. ASSUME NEW c \in Clients, OpRef(c) \/ ReLookup(c) PROVE ClientTypes'
  <2>1. cpc[c] \in {"ref", "relook"} => cid[c] \in Ids
    BY DEF FuseInv, Places
  <2>2. cid[c] \in Ids => registry[cid[c]] \in Objs \cup {None}
    BY DEF ObjTypes
  <2> QED
    BY <1>6, <2>1, <2>2 DEF OpRef, ReLookup, ClReturn
<1>7. ASSUME NEW c \in Clients, OpTable(c) \/ ReTable(c) PROVE ClientTypes'
  BY <1>7 DEF OpTable, ReTable
<1>8. ASSUME NEW c \in Clients,
             ReDeref(c) \/ ReTile(c) \/ ReLock(c) \/ ReSwept(c)
      PROVE  ClientTypes'
  BY <1>8 DEF ReDeref, ReTile, ReLock, ReSwept, ClReturn
<1> HIDE DEF ClientTypes
<1> QED
  BY <1>2, <1>3, <1>4, <1>5, <1>6, <1>7, <1>8 DEF Next

LEMMA TypeStep == FuseInv /\ [Next]_vars => TypeOK'
<1> SUFFICES ASSUME FuseInv, [Next]_vars PROVE TypeOK'
  OBVIOUS
<1>1. ObjTypes' /\ SweepTypes' /\ StageTypes' /\ ClientTypes'
  BY ObjStep, SweepStep, StageStep, ClientStep
<1>2. clearing' \in BOOLEAN
  BY SweepStep
<1> QED
  BY <1>1, <1>2, Zenon
  DEF TypeOK, ObjTypes, SweepTypes, StageTypes, ClientTypes

-----------------------------------------------------------------------------
(* What each place has in hand, and the ids of the objects.                *)

(* A stager's step and a client's leave the calls of the others alone.     *)
LEMMA OneCall ==
  ASSUME FuseInv, [Next]_vars
  PROVE  /\ \A p \in Stagers :
              \/ UNCHANGED <<spc[p], sid[p], found[p], made[p]>>
              \/ StCall(p) \/ StSwept(p) \/ StLookup(p) \/ StCheck(p)
              \/ StTile(p) \/ StSpace(p) \/ StCreate(p) \/ StPublish(p)
              \/ EvCall(p) \/ EvSwept(p)
         /\ \A c \in Clients :
              \/ UNCHANGED <<cpc[c], cid[c], cobj[c], cstore[c]>>
              \/ OpLookup(c) \/ OpStore(c) \/ OpRef(c) \/ OpTable(c)
              \/ ReTable(c) \/ ReLookup(c) \/ ReDeref(c) \/ ReTile(c)
              \/ ReLock(c) \/ ReSwept(c)
<1> DEFINE Mine(p) == \/ StCall(p) \/ StSwept(p) \/ StLookup(p) \/ StCheck(p)
                      \/ StTile(p) \/ StSpace(p) \/ StCreate(p) \/ StPublish(p)
                      \/ EvCall(p) \/ EvSwept(p)
           Hers(c) == \/ OpLookup(c) \/ OpStore(c) \/ OpRef(c) \/ OpTable(c)
                      \/ ReTable(c) \/ ReLookup(c) \/ ReDeref(c) \/ ReTile(c)
                      \/ ReLock(c) \/ ReSwept(c)
<1>1. StageTypes /\ ClientTypes
  BY TypeParts DEF FuseInv
<1>2. CASE Sweep \/ UNCHANGED vars
  BY <1>2 DEF Sweep, SweepNext, SweepTile, SweepOpen, SweepKeep, SweepEvict, vars,
     stageVars, clientVars
<1>3. ASSUME NEW q \in Stagers, Mine(q)
      PROVE  /\ \A p \in Stagers :
                  p # q => UNCHANGED <<spc[p], sid[p], found[p], made[p]>>
             /\ UNCHANGED clientVars
  <2> USE <1>1 DEF stageVars, StageTypes, StGoto
  <2>1. CASE StCall(q) \/ StSwept(q) \/ EvCall(q) \/ EvSwept(q)
    BY <2>1 DEF StCall, StSwept, EvCall, EvSwept
  <2>2. CASE StLookup(q) \/ StCheck(q)
    BY <2>2 DEF StLookup, StCheck
  <2>3. CASE StTile(q) \/ StSpace(q)
    BY <2>3 DEF StTile, StSpace, StReturn
  <2>4. CASE StCreate(q)
    BY <2>4 DEF StCreate, StReturn
  <2>5. CASE StPublish(q)
    BY <2>5 DEF StPublish, StReturn
  <2> QED
    BY <1>3, <2>1, <2>2, <2>3, <2>4, <2>5
<1>4. ASSUME NEW d \in Clients, Hers(d)
      PROVE  /\ \A c \in Clients :
                  c # d => UNCHANGED <<cpc[c], cid[c], cobj[c], cstore[c]>>
             /\ UNCHANGED stageVars
  <2> USE <1>1 DEF clientVars, ClientTypes, ClGoto
  <2>1. CASE OpLookup(d) \/ OpStore(d)
    BY <2>1 DEF OpLookup, OpStore, ClReturn
  <2>2. CASE OpRef(d) \/ OpTable(d) \/ ReTable(d)
    BY <2>2 DEF OpRef, OpTable, ReTable
  <2>3. CASE ReLookup(d) \/ ReDeref(d) \/ ReTile(d)
    BY <2>3 DEF ReLookup, ReDeref, ReTile, ClReturn
  <2>4. CASE ReLock(d) \/ ReSwept(d)
    BY <2>4 DEF ReLock, ReSwept, ClReturn
  <2> QED
    BY <1>4, <2>1, <2>2, <2>3, <2>4
<1>5. \/ Sweep \/ UNCHANGED vars
      \/ \E q \in Stagers : Mine(q)
      \/ \E d \in Clients : Hers(d)
  BY DEF Next
<1>6. ASSUME \E q \in Stagers : Mine(q)
      PROVE  /\ \A p \in Stagers :
                  UNCHANGED <<spc[p], sid[p], found[p], made[p]>> \/ Mine(p)
             /\ UNCHANGED clientVars
  <2> HIDE DEF Mine
  <2> QED
    BY <1>3, <1>6
<1>7. ASSUME \E d \in Clients : Hers(d)
      PROVE  /\ \A c \in Clients :
                  UNCHANGED <<cpc[c], cid[c], cobj[c], cstore[c]>> \/ Hers(c)
             /\ UNCHANGED stageVars
  <2> HIDE DEF Hers
  <2> QED
    BY <1>4, <1>7
<1>8. CASE \E q \in Stagers : Mine(q)
  <2> HIDE DEF Mine
  <2>1. \A p \in Stagers :
          UNCHANGED <<spc[p], sid[p], found[p], made[p]>> \/ Mine(p)
    BY <1>6, <1>8
  <2>2. \A c \in Clients : UNCHANGED <<cpc[c], cid[c], cobj[c], cstore[c]>>
    BY <1>6, <1>8 DEF clientVars
  <2> USE DEF Mine
  <2> QED
    BY <2>1, <2>2, Zenon
<1>9. CASE \E d \in Clients : Hers(d)
  <2> HIDE DEF Hers
  <2>1. \A c \in Clients :
          UNCHANGED <<cpc[c], cid[c], cobj[c], cstore[c]>> \/ Hers(c)
    BY <1>7, <1>9
  <2>2. \A p \in Stagers : UNCHANGED <<spc[p], sid[p], found[p], made[p]>>
    BY <1>7, <1>9 DEF stageVars
  <2> USE DEF Hers
  <2> QED
    BY <2>1, <2>2, Zenon
<1> HIDE DEF Mine, Hers
<1> QED
  BY <1>2, <1>5, <1>8, <1>9

LEMMA PlacesStep == FuseInv /\ [Next]_vars => Places'
<1> SUFFICES ASSUME FuseInv, [Next]_vars PROVE Places'
  OBVIOUS
<1>1. ObjTypes /\ StageTypes /\ ClientTypes /\ Places
  BY TypeParts DEF FuseInv
<1> DEFINE InPlace(p) ==
             /\ spc[p] \notin {"idle", "evict"} => sid[p] \in Ids
             /\ spc[p] \in {"check", "tile", "retile"} => found[p] # None
             /\ spc[p] \in {"idle", "sweep", "lookup", "evict"} => found[p] = None
             /\ spc[p] = "publish" <=> made[p] # None
           AtPlace(c) ==
             /\ cpc[c] # "idle" => cid[c] \in Ids
             /\ cpc[c] \in Looked <=> cobj[c] # None
             /\ cpc[c] \in {"ref", "table", "open"} => cstore[c] # None
<1>2. ASSUME NEW p \in Stagers PROVE InPlace(p)'
  <2>0. InPlace(p)
    BY <1>1 DEF Places
  <2> USE <1>1, <2>0 DEF StGoto, StReturn, StageTypes, StPcs, None
  <2>1. CASE UNCHANGED <<spc[p], sid[p], found[p], made[p]>>
    BY <2>1
  <2>2. CASE StCall(p) \/ StSwept(p) \/ EvCall(p) \/ EvSwept(p)
    BY <2>2 DEF StCall, StSwept, EvCall, EvSwept
  <2>3. CASE StLookup(p)
    BY <2>3 DEF StLookup
  <2>4. CASE StCheck(p)
    BY <2>4 DEF StCheck
  <2>5. CASE StTile(p) \/ StSpace(p)
    BY <2>5 DEF StTile, StSpace
  <2>6. CASE StCreate(p)
    BY <2>6, Bounds DEF StCreate
  <2>7. CASE StPublish(p)
    BY <2>7 DEF StPublish
  <2> QED
    BY <2>1, <2>2, <2>3, <2>4, <2>5, <2>6, <2>7, OneCall
<1>3. ASSUME NEW c \in Clients PROVE AtPlace(c)'
  <2>0. AtPlace(c)
    BY <1>1 DEF Places
  <2> USE <1>1, <2>0 DEF ClGoto, ClReturn, ClientTypes, ClPcs, Looked
  <2>1. CASE UNCHANGED <<cpc[c], cid[c], cobj[c], cstore[c]>>
    BY <2>1
  <2>2. CASE OpLookup(c)
    BY <2>2 DEF OpLookup, Registered
  <2>3. CASE OpStore(c)
    BY <2>3 DEF OpStore
  <2>4. CASE OpRef(c) \/ OpTable(c) \/ ReTable(c)
    BY <2>4 DEF OpRef, OpTable, ReTable
  <2>5. CASE ReLookup(c)
    BY <2>5 DEF ReLookup
  <2>6. CASE ReDeref(c) \/ ReTile(c)
    BY <2>6 DEF ReDeref, ReTile
  <2>7. CASE ReLock(c) \/ ReSwept(c)
    BY <2>7 DEF ReLock, ReSwept
  <2> QED
    BY <2>1, <2>2, <2>3, <2>4, <2>5, <2>6, <2>7, OneCall
<1> QED
  BY <1>2, <1>3 DEF Places

(* What the registry becomes: an object leaves, or a new one comes.        *)
LEMMA RegistryStep ==
  ASSUME FuseInv, [Next]_vars
  PROVE  \/ UNCHANGED <<registry, nObjs>>
         \/ /\ SweepEvict /\ UNCHANGED nObjs
            /\ \E i \in Ids : /\ registry[i] = current /\ registry[i] # None
                              /\ registry' = [registry EXCEPT ![i] = None]
         \/ \E p \in Stagers :
              /\ StPublish(p) /\ nObjs < MaxObjs /\ found[p] = None
              /\ nObjs' = nObjs + 1
              /\ registry' = [registry EXCEPT ![sid[p]] = nObjs + 1]
<1>1. CASE UNCHANGED <<registry, nObjs>>
  BY <1>1
<1>2. CASE SweepEvict
  BY <1>2 DEF SweepEvict, Registered
<1>3. ASSUME NEW p \in Stagers, StPublish(p)
      PROVE  \/ UNCHANGED <<registry, nObjs>>
             \/ /\ nObjs < MaxObjs /\ found[p] = None
                /\ nObjs' = nObjs + 1
                /\ registry' = [registry EXCEPT ![sid[p]] = nObjs + 1]
  BY <1>3 DEF StPublish, objVars
<1> QED
  BY <1>1, <1>2, <1>3, WhoChanges DEF Frame

LEMMA OneIdStep == FuseInv /\ [Next]_vars => OneIdEach'
<1> SUFFICES ASSUME FuseInv, [Next]_vars PROVE OneIdEach'
  OBVIOUS
<1>1. ObjTypes /\ StageTypes /\ ClientTypes /\ Places /\ OneIdEach
  BY TypeParts DEF FuseInv
<1>2. /\ \A i \in Ids : registry[i] \in Nat
      /\ \A p \in Stagers : found[p] \in Nat
      /\ \A c \in Clients : cobj[c] \in Nat
      /\ nObjs \in Nat /\ nObjs <= MaxObjs
  <2>1. Objs \cup {None} \subseteq Nat
    BY Bounds DEF None
  <2>2. nObjs \in Nat /\ nObjs <= MaxObjs
    BY <1>1, Bounds DEF ObjTypes
  <2> QED
    BY <1>1, <2>1, <2>2 DEF ObjTypes, StageTypes, ClientTypes
<1>3. nObjs' \in Nat /\ nObjs <= nObjs'
  BY <1>2, RegistryStep
<1>4. /\ \A i \in Ids : \/ registry'[i] = registry[i]
                        \/ registry'[i] = None
                        \/ registry'[i] = nObjs + 1 /\ nObjs' = nObjs + 1
      /\ \A i, j \in Ids : registry'[i] # registry[i] /\ registry'[i] # None
                             /\ registry'[j] # registry[j] => i = j
  BY <1>1, RegistryStep DEF ObjTypes
<1>5. ASSUME NEW p \in Stagers
      PROVE  /\ found'[p] <= nObjs
             /\ \/ found'[p] = None
                \/ found'[p] = found[p] /\ sid'[p] = sid[p]
                \/ /\ found'[p] = registry[sid[p]] /\ sid'[p] = sid[p]
                   /\ sid[p] \in Ids /\ UNCHANGED registry
  <2> USE <1>1, <1>2 DEF StGoto, StReturn, StageTypes, OneIdEach
  <2>1. CASE UNCHANGED <<spc[p], sid[p], found[p], made[p]>>
    BY <2>1
  <2>2. CASE StCall(p) \/ StSwept(p) \/ EvCall(p) \/ EvSwept(p)
    <3>1. found'[p] = found[p]
      BY <2>2 DEF StCall, StSwept, EvCall, EvSwept
    <3>2. spc[p] \in {"idle", "sweep", "evict"}
      BY <2>2 DEF StCall, StSwept, EvCall, EvSwept
    <3>3. found[p] = None
      BY <1>1, <3>2 DEF Places
    <3> QED
      BY <3>1, <3>3
  <2>3. CASE StLookup(p)
    <3>1. sid[p] \in Ids
      BY <2>3 DEF StLookup, Places
    <3> QED
      BY <2>3, <3>1 DEF StLookup, objVars
  <2>4. CASE StCheck(p)
    BY <2>4 DEF StCheck
  <2>5. CASE StTile(p) \/ StSpace(p)
    BY <2>5 DEF StTile, StSpace, None
  <2>6. CASE StCreate(p)
    BY <2>6 DEF StCreate, None
  <2>7. CASE StPublish(p)
    BY <2>7 DEF StPublish, None
  <2> QED
    BY <2>1, <2>2, <2>3, <2>4, <2>5, <2>6, <2>7, OneCall
<1>6. ASSUME NEW c \in Clients
      PROVE  /\ cobj'[c] <= nObjs
             /\ \/ cobj'[c] = None
                \/ cobj'[c] = cobj[c] /\ cid'[c] = cid[c]
                \/ /\ cobj'[c] = registry[cid'[c]] /\ cid'[c] \in Ids
                   /\ UNCHANGED registry
  <2> USE <1>1, <1>2 DEF ClGoto, ClReturn, ClientTypes, OneIdEach
  <2>1. CASE UNCHANGED <<cpc[c], cid[c], cobj[c], cstore[c]>>
    BY <2>1
  <2>2. CASE OpLookup(c)
    BY <2>2 DEF OpLookup, Registered, objVars
  <2>3. CASE OpStore(c)
    BY <2>3 DEF OpStore, None
  <2>4. CASE OpRef(c) \/ OpTable(c) \/ ReTable(c)
    BY <2>4 DEF OpRef, OpTable, ReTable, None
  <2>5. CASE ReLookup(c)
    <3>1. cid[c] \in Ids
      BY <2>5 DEF ReLookup, Places
    <3> QED
      BY <2>5, <3>1 DEF ReLookup, objVars, None
  <2>6. CASE ReDeref(c) \/ ReTile(c)
    BY <2>6 DEF ReDeref, ReTile, None
  <2>7. CASE ReLock(c) \/ ReSwept(c)
    <3>1. CASE ReLock(c)
      BY <3>1 DEF ReLock
    <3>2. CASE ReSwept(c)
      BY <3>2 DEF ReSwept, None
    <3> QED
      BY <2>7, <3>1, <3>2
  <2> QED
    BY <2>1, <2>2, <2>3, <2>4, <2>5, <2>6, <2>7, OneCall
<1>7. /\ \A i \in Ids : registry'[i] <= nObjs'
      /\ \A p \in Stagers : found'[p] <= nObjs'
      /\ \A c \in Clients : cobj'[c] <= nObjs'
  <2>1. \A i \in Ids : registry'[i] <= nObjs'
    BY <1>1, <1>2, <1>3, <1>4 DEF OneIdEach, None
  <2>2. StageTypes' /\ ClientTypes'
    BY StageStep, ClientStep
  <2>3. /\ \A p \in Stagers : found'[p] \in Nat
        /\ \A c \in Clients : cobj'[c] \in Nat
    <3>1. Objs \cup {None} \subseteq Nat
      BY Bounds DEF None
    <3> QED
      BY <2>2, <3>1 DEF StageTypes, ClientTypes
  <2> QED
    BY <1>2, <1>3, <1>5, <1>6, <2>1, <2>3
<1>8. \A o \in Objs :
        o > nObjs' => store'[o] = None /\ tileRef'[o] = 0 /\ openRef'[o] = 0
  <2> SUFFICES ASSUME NEW o \in Objs, o > nObjs'
               PROVE  store'[o] = None /\ tileRef'[o] = 0 /\ openRef'[o] = 0
    OBVIOUS
  <2>1. o \in Nat /\ o > nObjs
    BY <1>2, <1>3, Bounds
  <2>2. store[o] = None /\ tileRef[o] = 0 /\ openRef[o] = 0
    BY <1>1, <2>1 DEF OneIdEach
  <2>3. store'[o] = None
    <3>1. CASE UNCHANGED store
      BY <2>2, <3>1
    <3>2. CASE SweepEvict
      BY <1>1, <2>2, <3>2 DEF SweepEvict, ObjTypes
    <3>3. ASSUME NEW p \in Stagers, StCheck(p) PROVE store'[o] = None
      BY <1>1, <2>2, <3>3 DEF StCheck, ObjTypes
    <3>4. ASSUME NEW p \in Stagers, StPublish(p) PROVE store'[o] = None
      <4>1. \/ UNCHANGED store
            \/ store' = [store EXCEPT ![found[p]] = made[p]]
            \/ nObjs' = nObjs + 1 /\ store' = [store EXCEPT ![nObjs'] = made[p]]
        BY <3>4 DEF StPublish, objVars
      <4>2. found[p] # o
        BY <1>1, <1>2, <2>1 DEF OneIdEach
      <4>3. nObjs' # o
        BY <1>3, <2>1
      <4> QED
        BY <1>1, <2>2, <4>1, <4>2, <4>3 DEF ObjTypes
    <3> QED
      BY <3>1, <3>2, <3>3, <3>4, WhoChanges DEF Frame
  <2>4. tileRef'[o] = 0
    <3>1. CASE UNCHANGED tileRef
      BY <2>2, <3>1
    <3>2. CASE SweepNext
      BY <1>1, <2>2, <3>2 DEF SweepNext, ObjTypes
    <3>3. ASSUME NEW p \in Stagers, StTile(p) PROVE tileRef'[o] = 0
      <4>1. found[p] # o
        BY <1>1, <1>2, <2>1 DEF OneIdEach
      <4> QED
        BY <1>1, <2>2, <3>3, <4>1 DEF StTile, ObjTypes
    <3>4. ASSUME NEW p \in Stagers, StPublish(p) PROVE tileRef'[o] = 0
      <4>1. \/ UNCHANGED tileRef
            \/ nObjs' = nObjs + 1 /\ tileRef' = [tileRef EXCEPT ![nObjs'] = 1]
        BY <3>4 DEF StPublish, objVars
      <4>2. nObjs' # o
        BY <1>3, <2>1
      <4> QED
        BY <1>1, <2>2, <4>1, <4>2 DEF ObjTypes
    <3> QED
      BY <3>1, <3>2, <3>3, <3>4, WhoChanges DEF Frame
  <2>5. openRef'[o] = 0
    <3>1. ASSUME NEW c \in Clients, OpRef(c) \/ ReDeref(c) PROVE openRef'[o] = 0
      <4>1. cobj[c] # o
        BY <1>1, <1>2, <2>1 DEF OneIdEach
      <4> QED
        BY <1>1, <2>2, <3>1, <4>1 DEF OpRef, ReDeref, ObjTypes
    <3> QED
      BY <2>2, <3>1, WhoChanges DEF Frame
  <2> QED
    BY <2>3, <2>4, <2>5
<1>9. \A i, j \in Ids : registry'[i] = registry'[j] /\ registry'[i] # None => i = j
  BY <1>1, <1>2, <1>4 DEF OneIdEach
<1>10. \A i \in Ids, p \in Stagers :
         registry'[i] = found'[p] /\ registry'[i] # None => sid'[p] = i
  <2> SUFFICES ASSUME NEW i \in Ids, NEW p \in Stagers,
                      registry'[i] = found'[p], registry'[i] # None
               PROVE  sid'[p] = i
    OBVIOUS
  <2>1. registry'[i] <= nObjs
    BY <1>5
  <2>2. registry'[i] = registry[i]
    BY <1>2, <1>4, <2>1
  <2>3. CASE found'[p] = found[p] /\ sid'[p] = sid[p]
    BY <1>1, <2>2, <2>3 DEF OneIdEach
  <2>4. CASE found'[p] = registry[sid[p]] /\ sid'[p] = sid[p] /\ sid[p] \in Ids
    BY <1>1, <2>2, <2>4 DEF OneIdEach
  <2> QED
    BY <1>5, <2>3, <2>4
<1>11. \A i \in Ids, c \in Clients :
         registry'[i] = cobj'[c] /\ registry'[i] # None => cid'[c] = i
  <2> SUFFICES ASSUME NEW i \in Ids, NEW c \in Clients,
                      registry'[i] = cobj'[c], registry'[i] # None
               PROVE  cid'[c] = i
    OBVIOUS
  <2>1. registry'[i] <= nObjs
    BY <1>6
  <2>2. registry'[i] = registry[i]
    BY <1>2, <1>4, <2>1
  <2>3. CASE cobj'[c] = cobj[c] /\ cid'[c] = cid[c]
    BY <1>1, <2>2, <2>3 DEF OneIdEach
  <2>4. CASE cobj'[c] = registry[cid'[c]] /\ cid'[c] \in Ids
    <3>1. registry[i] = registry[cid'[c]] /\ registry[i] # None
      BY <2>2, <2>4
    <3> QED
      BY <1>1, <2>4, <3>1 DEF OneIdEach
  <2> QED
    BY <1>6, <2>3, <2>4
<1> QED
  BY <1>7, <1>8, <1>9, <1>10, <1>11 DEF OneIdEach

-----------------------------------------------------------------------------
(* fs.mu and the sweep of its holder.                                      *)

HolderInv ==
  /\ \A p \in Stagers : mu = p <=> spc[p] \in {"sweep", "evict"}
  /\ \A c \in Clients : mu = c <=> cpc[c] = "resweep"

SweepInv ==
  /\ todo \subseteq Registered
  /\ phase = "next" <=> current = None
  /\ current # None =>
       /\ mu # Nobody
       /\ \E i \in Registered \ todo : registry[i] = current
  /\ todo # {} => mu # Nobody

LEMMA LockedParts == Locked <=> HolderInv /\ SweepInv
BY Zenon DEF Locked, HolderInv, SweepInv

LEMMA HolderStep == FuseInv /\ [Next]_vars => HolderInv'
<1> SUFFICES ASSUME FuseInv, [Next]_vars PROVE HolderInv'
  OBVIOUS
<1>1. StageTypes /\ ClientTypes /\ HolderInv /\ SweepTypes
  BY TypeParts, LockedParts DEF FuseInv
<1>2. /\ Nobody \notin Stagers /\ Nobody \notin Clients
      /\ \A p \in Stagers : p \notin Clients
  BY ConstantsAssumption DEF ConstantsAssumption
<1> USE <1>1, <1>2 DEF HolderInv, StGoto, StReturn, ClGoto, ClReturn, StageTypes,
        ClientTypes, stageVars, clientVars, muVars
<1>3. CASE Sweep \/ UNCHANGED vars
  BY <1>3 DEF Sweep, SweepNext, SweepTile, SweepOpen, SweepKeep, SweepEvict, vars
<1>4. ASSUME NEW p \in Stagers, StCall(p) \/ EvCall(p) PROVE HolderInv'
  BY <1>4 DEF StCall, EvCall, LockAndSweep
<1>5. ASSUME NEW p \in Stagers, StSwept(p) \/ EvSwept(p) PROVE HolderInv'
  BY <1>5 DEF StSwept, EvSwept, Unlock
<1>6. ASSUME NEW p \in Stagers, StLookup(p) \/ StCheck(p) PROVE HolderInv'
  BY <1>6 DEF StLookup, StCheck
<1>7. ASSUME NEW p \in Stagers, StTile(p) \/ StSpace(p) PROVE HolderInv'
  BY <1>7 DEF StTile, StSpace
<1>8. ASSUME NEW p \in Stagers, StCreate(p) \/ StPublish(p) PROVE HolderInv'
  BY <1>8 DEF StCreate, StPublish
<1>9. ASSUME NEW c \in Clients, ReLock(c) PROVE HolderInv'
  BY <1>9 DEF ReLock, LockAndSweep
<1>10. ASSUME NEW c \in Clients, ReSwept(c) PROVE HolderInv'
  BY <1>10 DEF ReSwept, Unlock
<1>11. ASSUME NEW c \in Clients,
              OpLookup(c) \/ OpStore(c) \/ OpRef(c) \/ OpTable(c)
       PROVE  HolderInv'
  BY <1>11 DEF OpLookup, OpStore, OpRef, OpTable
<1>12. ASSUME NEW c \in Clients,
              ReTable(c) \/ ReLookup(c) \/ ReDeref(c) \/ ReTile(c)
       PROVE  HolderInv'
  BY <1>12 DEF ReTable, ReLookup, ReDeref, ReTile
<1> HIDE DEF HolderInv
<1> QED
  BY <1>3, <1>4, <1>5, <1>6, <1>7, <1>8, <1>9, <1>10, <1>11, <1>12 DEF Next

(* With fs.mu free no sweep is going on.                                   *)
LEMMA NoSweep ==
  ASSUME FuseInv, mu = Nobody
  PROVE  todo = {} /\ current = None /\ phase = "next"
BY DEF FuseInv, Locked

LEMMA SweepInvStep == FuseInv /\ [Next]_vars => SweepInv'
<1> SUFFICES ASSUME FuseInv, [Next]_vars PROVE SweepInv'
  OBVIOUS
<1>1. ObjTypes /\ SweepTypes /\ StageTypes /\ ClientTypes /\ SweepInv
  BY TypeParts, LockedParts DEF FuseInv
<1>2. /\ Nobody \notin Stagers /\ Nobody \notin Clients
  BY ConstantsAssumption DEF ConstantsAssumption
<1>3. \A i, j \in Ids : registry[i] = registry[j] /\ registry[i] # None => i = j
  BY DEF FuseInv, OneIdEach
<1> USE <1>1 DEF SweepInv, SweepTypes
<1>4. CASE SweepNext
  BY <1>4 DEF SweepNext, SweepGoto, Registered
<1>5. CASE SweepTile \/ SweepOpen
  BY <1>5 DEF SweepTile, SweepOpen, SweepGoto, objVars, Registered
<1>6. CASE SweepKeep
  BY <1>6 DEF SweepKeep, SweepGoto, objVars, Registered
<1>7. CASE SweepEvict
  <2>1. PICK i \in Registered : /\ registry[i] = current
                                /\ registry' = [registry EXCEPT ![i] = None]
    BY <1>7 DEF SweepEvict
  <2>2. i \notin todo
    BY <1>3, <1>7, <2>1 DEF SweepEvict, SweepGoto, Registered
  <2>3. todo' = todo /\ current' = None /\ phase' = "next" /\ mu' = mu
    BY <1>7 DEF SweepEvict, SweepGoto
  <2>4. \A j \in todo : j \in Ids /\ registry'[j] = registry[j]
    BY <2>1, <2>2 DEF ObjTypes, Registered
  <2> QED
    BY <2>3, <2>4 DEF Registered
<1>8. ASSUME NEW p \in Stagers \cup Clients, NEW ids \in SUBSET Registered,
             NEW b \in BOOLEAN, LockAndSweep(p, ids, b), UNCHANGED registry
      PROVE  SweepInv'
  <2>1. todo = {} /\ current = None /\ phase = "next"
    BY <1>8, NoSweep DEF LockAndSweep
  <2>2. Registered' = Registered
    BY <1>8 DEF Registered
  <2> QED
    BY <1>2, <1>8, <2>1, <2>2 DEF LockAndSweep
<1>9. ASSUME NEW p \in Stagers, StCall(p) \/ EvCall(p) PROVE SweepInv'
  <2>1. \E ids \in SUBSET Registered : LockAndSweep(p, ids, TRUE)
    BY <1>9 DEF StCall, EvCall
  <2>2. UNCHANGED registry
    BY <1>9 DEF StCall, EvCall, objVars
  <2> HIDE DEF SweepInv
  <2> QED
    BY <1>8, <2>1, <2>2
<1>10. ASSUME NEW c \in Clients, ReLock(c) PROVE SweepInv'
  <2>1. \E ids \in SUBSET Registered : LockAndSweep(c, ids, FALSE)
    BY <1>10 DEF ReLock
  <2>2. UNCHANGED registry
    BY <1>10 DEF ReLock, objVars
  <2> HIDE DEF SweepInv
  <2> QED
    BY <1>8, <2>1, <2>2
<1>11. ASSUME NEW p, Unlock(p), UNCHANGED registry PROVE SweepInv'
  BY <1>11 DEF Unlock, Registered
<1>12. ASSUME NEW p \in Stagers, StSwept(p) \/ EvSwept(p) PROVE SweepInv'
  BY <1>11, <1>12 DEF StSwept, EvSwept, objVars
<1>13. ASSUME NEW c \in Clients, ReSwept(c) PROVE SweepInv'
  BY <1>11, <1>13 DEF ReSwept, objVars
<1>14. ASSUME NEW p \in Stagers, StPublish(p) PROVE SweepInv'
  <2>1. mu = Nobody /\ UNCHANGED muVars
    BY <1>14 DEF StPublish
  <2>2. todo = {} /\ current = None /\ phase = "next"
    BY <2>1, NoSweep
  <2> QED
    BY <2>1, <2>2 DEF muVars
<1>15. CASE UNCHANGED <<registry, mu, todo, current, phase>>
  BY <1>15 DEF Registered
<1> QED
  <2>1. Frame /\ LockFrame
    BY WhoChanges, WhoLocks
  <2> HIDE DEF SweepInv
  <2> QED
    BY <2>1, <1>4, <1>5, <1>6, <1>7, <1>9, <1>10, <1>12, <1>13, <1>14, <1>15
    DEF Frame, LockFrame, Sweep

LEMMA LockedStep == FuseInv /\ [Next]_vars => Locked'
<1> SUFFICES ASSUME FuseInv, [Next]_vars PROVE Locked'
  OBVIOUS
<1>1. HolderInv' /\ SweepInv'
  BY HolderStep, SweepInvStep
<1> QED
  BY <1>1, Zenon DEF Locked, HolderInv, SweepInv

-----------------------------------------------------------------------------
(* The stores and their owners.                                            *)

(* What becomes of the stores: one is closed and taken from its object,    *)
(* one is made, or one goes from a StageFile to an object or is closed.    *)
LEMMA StoresStep ==
  ASSUME FuseInv, [Next]_vars
  PROVE  \/ UNCHANGED <<store, life, made>>
         \/ \E o \in Objs :
              /\ store' = [store EXCEPT ![o] = None] /\ UNCHANGED made
              /\ IF store[o] = None THEN UNCHANGED life
                                    ELSE CloseStore(store[o])
         \/ \E p \in Stagers, s \in Stores :
              /\ life[s] = "unborn" /\ life' = [life EXCEPT ![s] = "open"]
              /\ made' = [made EXCEPT ![p] = s] /\ UNCHANGED store
         \/ \E p \in Stagers :
              /\ made[p] # None /\ made' = [made EXCEPT ![p] = None]
              /\ \/ CloseStore(made[p]) /\ UNCHANGED store
                 \/ /\ UNCHANGED life
                    /\ \E o \in Objs : /\ store[o] = None
                                       /\ store' = [store EXCEPT ![o] = made[p]]
<1>1. ObjTypes /\ SweepTypes /\ StageTypes /\ Places /\ Locked /\ OneIdEach
  BY TypeParts DEF FuseInv
<1> DEFINE Dropped == \E o \in Objs :
              /\ store' = [store EXCEPT ![o] = None] /\ UNCHANGED made
              /\ IF store[o] = None THEN UNCHANGED life
                                    ELSE CloseStore(store[o])
           Begun == \E p \in Stagers, s \in Stores :
              /\ life[s] = "unborn" /\ life' = [life EXCEPT ![s] = "open"]
              /\ made' = [made EXCEPT ![p] = s] /\ UNCHANGED store
           Given == \E p \in Stagers :
              /\ made[p] # None /\ made' = [made EXCEPT ![p] = None]
              /\ \/ CloseStore(made[p]) /\ UNCHANGED store
                 \/ /\ UNCHANGED life
                    /\ \E o \in Objs : /\ store[o] = None
                                       /\ store' = [store EXCEPT ![o] = made[p]]
           Same == UNCHANGED <<store, life, made>>
<1>2. CASE SweepEvict
  <2>1. current \in Objs
    BY <1>1, <1>2 DEF SweepEvict, SweepGoto, Locked, SweepTypes
  <2>2. Dropped
    BY <1>2, <2>1 DEF SweepEvict, stageVars
  <2> QED
    BY <2>2
<1>3. ASSUME NEW p \in Stagers, StCheck(p) PROVE Dropped \/ Same
  <2>1. found[p] \in Objs
    BY <1>1, <1>3 DEF StCheck, Places, StageTypes
  <2>2. CASE UNCHANGED <<store, life>>
    BY <1>3, <2>2 DEF StCheck
  <2>3. CASE /\ store[found[p]] # None
             /\ CloseStore(store[found[p]])
             /\ store' = [store EXCEPT ![found[p]] = None]
    BY <1>3, <2>1, <2>3 DEF StCheck
  <2> QED
    BY <1>3, <2>2, <2>3 DEF StCheck
<1>4. ASSUME NEW p \in Stagers, StCreate(p) PROVE Begun \/ Same
  <2>1. UNCHANGED store
    BY <1>4 DEF StCreate, objVars
  <2> QED
    BY <1>4, <2>1 DEF StCreate
<1>5. ASSUME NEW p \in Stagers, StPublish(p) PROVE Given
  <2>1. made[p] # None /\ made' = [made EXCEPT ![p] = None]
    BY <1>1, <1>5 DEF StPublish, StReturn, StGoto, Places
  <2>2. CASE CloseStore(made[p]) /\ UNCHANGED store
    BY <2>1, <2>2
  <2>3. CASE UNCHANGED life /\ \E o \in Objs :
               store[o] = None /\ store' = [store EXCEPT ![o] = made[p]]
    BY <2>1, <2>3
  <2>4. CASE /\ found[p] # None /\ store[found[p]] = None
             /\ store' = [store EXCEPT ![found[p]] = made[p]]
             /\ UNCHANGED life
    <3>1. found[p] \in Objs
      BY <1>1, <2>4 DEF StageTypes
    <3> QED
      BY <2>3, <2>4, <3>1
  <2>5. CASE /\ nObjs < MaxObjs /\ UNCHANGED life
             /\ store' = [store EXCEPT ![nObjs + 1] = made[p]]
    <3>1. nObjs + 1 \in Objs /\ nObjs + 1 > nObjs
      BY <1>1, <2>5, Bounds DEF ObjTypes, Objs
    <3>2. store[nObjs + 1] = None
      BY <1>1, <3>1 DEF OneIdEach
    <3> QED
      BY <2>3, <2>5, <3>1, <3>2
  <2>6. \/ CloseStore(made[p]) /\ UNCHANGED store
        \/ /\ found[p] # None /\ store[found[p]] = None
           /\ store' = [store EXCEPT ![found[p]] = made[p]]
           /\ UNCHANGED life
        \/ /\ nObjs < MaxObjs /\ UNCHANGED life
           /\ store' = [store EXCEPT ![nObjs + 1] = made[p]]
    BY <1>5 DEF StPublish, objVars
  <2> HIDE DEF Given
  <2> QED
    BY <2>2, <2>4, <2>5, <2>6
<1>6. CASE UNCHANGED vars
  BY <1>6 DEF vars, objVars, storeVars, stageVars
<1>7. CASE SweepNext \/ SweepTile \/ SweepOpen \/ SweepKeep
  BY <1>7 DEF SweepNext, SweepTile, SweepOpen, SweepKeep, objVars, storeVars,
     stageVars
<1>8. ASSUME NEW p \in Stagers,
             \/ StCall(p) \/ StSwept(p) \/ StLookup(p) \/ StTile(p) \/ StSpace(p)
             \/ EvCall(p) \/ EvSwept(p)
      PROVE  Same
  BY <1>8 DEF StCall, StSwept, StLookup, StTile, StSpace, EvCall, EvSwept,
     objVars, storeVars
<1>9. ASSUME NEW c \in Clients,
             \/ OpLookup(c) \/ OpStore(c) \/ OpRef(c) \/ OpTable(c)
             \/ ReTable(c) \/ ReLookup(c) \/ ReDeref(c) \/ ReTile(c)
             \/ ReLock(c) \/ ReSwept(c)
      PROVE  Same
  BY <1>9 DEF OpLookup, OpStore, OpRef, OpTable, ReTable, ReLookup, ReDeref,
     ReTile, ReLock, ReSwept, objVars, storeVars, stageVars
<1> QED
  <2>1. Dropped \/ Begun \/ Given \/ Same
    <3>1. CASE SweepEvict
      BY <1>2, <3>1
    <3>2. CASE Sweep /\ ~SweepEvict
      BY <1>7, <3>2 DEF Sweep
    <3>3. CASE UNCHANGED vars
      BY <1>6, <3>3
    <3> HIDE DEF Dropped, Begun, Given, Same
    <3> QED
      BY <3>1, <3>2, <3>3, <1>3, <1>4, <1>5, <1>8, <1>9 DEF Next
  <2> QED
    BY <2>1, Zenon

LEMMA OwnedStep == FuseInv /\ [Next]_vars => Owned'
<1> SUFFICES ASSUME FuseInv, [Next]_vars PROVE Owned'
  OBVIOUS
<1>1. ObjTypes /\ StageTypes /\ Owned
  BY TypeParts DEF FuseInv
<1> USE <1>1, Bounds DEF ObjTypes, StageTypes, Owned, StoreOwnership, CloseStore
<1>2. CASE UNCHANGED <<store, life, made>>
  BY <1>2
<1>3. ASSUME NEW o \in Objs,
             store' = [store EXCEPT ![o] = None], UNCHANGED made,
             IF store[o] = None THEN UNCHANGED life ELSE CloseStore(store[o])
      PROVE  Owned'
  <2>1. \A q \in Objs : store'[q] = IF q = o THEN None ELSE store[q]
    BY <1>3
  <2>2. \A s \in Stores : s # store[o] => life'[s] = life[s]
    BY <1>3
  <2>3. \A q \in Objs : store'[q] # None =>
          /\ store'[q] = store[q] /\ store[q] \in Stores
          /\ store[q] # store[o] /\ life'[store[q]] = "open"
    <3>1. \A q \in Objs : store[q] # None =>
            store[q] \in Stores /\ life[store[q]] = "open"
      OBVIOUS
    <3>2. \A q \in Objs : store[q] # None /\ q # o => store[q] # store[o]
      OBVIOUS
    <3> HIDE DEF ObjTypes, StageTypes, Owned, StoreOwnership, CloseStore
    <3> QED
      BY <2>1, <2>2, <3>1, <3>2
  <2>4. \A p \in Stagers : made'[p] # None =>
          /\ made'[p] = made[p] /\ made[p] \in Stores
          /\ made[p] # store[o] /\ life'[made[p]] = "open"
    BY <1>3, <2>2
  <2>5. \A p \in Stagers : made'[p] = made[p]
    BY <1>3
  <2>6. StoreOwnership'
    BY <2>1, <2>3, <2>4, <2>5
  <2> QED
    BY <1>3, <2>6
<1>4. ASSUME NEW p \in Stagers, NEW s \in Stores,
             life[s] = "unborn", life' = [life EXCEPT ![s] = "open"],
             made' = [made EXCEPT ![p] = s], UNCHANGED store
      PROVE  Owned'
  <2>1. \A q \in Stagers : made'[q] = IF q = p THEN s ELSE made[q]
    BY <1>4
  <2>2. \A t \in Stores : life'[t] = IF t = s THEN "open" ELSE life[t]
    BY <1>4
  <2>3. /\ \A q \in Stagers : made[q] # s
        /\ \A o \in Objs : store[o] # s
    BY <1>4
  <2> QED
    BY <1>4, <2>1, <2>2, <2>3
<1>5. ASSUME NEW p \in Stagers, made[p] # None,
             made' = [made EXCEPT ![p] = None],
             CloseStore(made[p]), UNCHANGED store
      PROVE  Owned'
  <2>1. \A q \in Stagers : made'[q] = IF q = p THEN None ELSE made[q]
    BY <1>5
  <2>2. \A s \in Stores : s # made[p] => life'[s] = life[s]
    BY <1>5
  <2> QED
    BY <1>5, <2>1, <2>2
<1>6. ASSUME NEW p \in Stagers, made[p] # None,
             made' = [made EXCEPT ![p] = None], UNCHANGED life,
             NEW o \in Objs, store[o] = None,
             store' = [store EXCEPT ![o] = made[p]]
      PROVE  Owned'
  <2>1. \A q \in Stagers : made'[q] = IF q = p THEN None ELSE made[q]
    BY <1>6
  <2>2. \A q \in Objs : store'[q] = IF q = o THEN made[p] ELSE store[q]
    BY <1>6
  <2> QED
    BY <1>6, <2>1, <2>2
<1> HIDE DEF ObjTypes, StageTypes, Owned, StoreOwnership, CloseStore
<1> QED
  BY <1>2, <1>3, <1>4, <1>5, <1>6, StoresStep

-----------------------------------------------------------------------------
(* openRef and the clients it counts.                                      *)

(* A client is counted from its reference on, until it gives it back or    *)
(* finds its id gone; what it has in hand stays the object it counted on.  *)
LEMMA CountedChanges ==
  ASSUME FuseInv, [Next]_vars, NEW i \in Ids
  PROVE  /\ \/ Counted(i)' = Counted(i)
            \/ \E c \in Clients :
                 /\ OpRef(c) /\ cid[c] = i /\ c \notin Counted(i)
                 /\ Counted(i)' = Counted(i) \cup {c}
            \/ \E c \in Clients :
                 /\ ReDeref(c) \/ (ReLookup(c) /\ registry[i] = None)
                 /\ cid[c] = i /\ c \in Counted(i)
                 /\ Counted(i)' = Counted(i) \ {c}
         /\ \A c \in Counted(i)' :
              \/ cpc'[c] = "relook"
              \/ c \in Counted(i) /\ cpc[c] # "relook" /\ cobj'[c] = cobj[c]
              \/ OpRef(c) /\ cid[c] = i /\ cobj'[c] = cobj[c]
              \/ ReLookup(c) /\ cid[c] = i /\ cobj'[c] = registry[i]
<1>1. ClientTypes /\ Places
  BY TypeParts DEF FuseInv
<1> DEFINE Place(c) == cpc[c] \in {"table", "open", "relook", "deref"}
           Goes(c) == /\ cid'[c] = cid[c]
                      /\ Place(c)' <=> Place(c)
                      /\ \/ cpc'[c] = "relook"
                         \/ (cpc[c] # "relook" /\ cobj'[c] = cobj[c])
           Quits(c) == /\ ~Place(c) /\ ~Place(c)'
           Starts(c) == /\ OpRef(c) /\ cid'[c] = cid[c] /\ ~Place(c) /\ Place(c)'
                        /\ cobj'[c] = cobj[c]
           Looks(c) == /\ ReLookup(c) /\ cid'[c] = cid[c] /\ Place(c) /\ Place(c)'
                       /\ cobj'[c] = registry[cid[c]]
           Leaves(c) == /\ ReDeref(c) \/ (ReLookup(c) /\ registry[cid[c]] = None)
                        /\ Place(c) /\ ~Place(c)'
<1>2. ASSUME NEW c \in Clients
      PROVE  Goes(c) \/ Quits(c) \/ Starts(c) \/ Looks(c) \/ Leaves(c)
  <2> USE <1>1 DEF ClGoto, ClReturn, ClientTypes
  <2>1. CASE UNCHANGED <<cpc[c], cid[c], cobj[c], cstore[c]>>
    BY <2>1
  <2>2. CASE OpLookup(c) \/ OpStore(c)
    <3>1. Quits(c)
      BY <2>2 DEF OpLookup, OpStore
    <3> QED
      BY <3>1
  <2>3. CASE OpRef(c)
    <3>1. Starts(c)
      <4>1. cid'[c] = cid[c] /\ ~Place(c) /\ Place(c)' /\ cobj'[c] = cobj[c]
        BY <2>3 DEF OpRef
      <4> QED
        BY <2>3, <4>1
    <3> QED
      BY <3>1
  <2>4. CASE OpTable(c) \/ ReTable(c)
    <3>1. Goes(c)
      BY <2>4 DEF OpTable, ReTable
    <3> QED
      BY <3>1
  <2>5. CASE ReLookup(c)
    <3>1. \/ /\ cid'[c] = cid[c] /\ Place(c) /\ Place(c)'
             /\ cobj'[c] = registry[cid[c]]
          \/ registry[cid[c]] = None /\ Place(c) /\ ~Place(c)'
      BY <2>5 DEF ReLookup
    <3> QED
      BY <2>5, <3>1
  <2>6. CASE ReDeref(c)
    <3>1. Place(c) /\ ~Place(c)'
      BY <2>6 DEF ReDeref
    <3> QED
      BY <2>6, <3>1
  <2>7. CASE ReTile(c) \/ ReLock(c) \/ ReSwept(c)
    <3>1. Quits(c)
      BY <2>7 DEF ReTile, ReLock, ReSwept
    <3> QED
      BY <3>1
  <2> QED
    BY <2>1, <2>2, <2>3, <2>4, <2>5, <2>6, <2>7, OneCall
<1>3. /\ \A c : c \in Counted(i) <=> c \in Clients /\ cid[c] = i /\ Place(c)
      /\ \A c : c \in Counted(i)' <=> c \in Clients /\ cid'[c] = i /\ Place(c)'
  BY DEF Counted
<1>4. ASSUME NEW c \in Counted(i)'
      PROVE  \/ cpc'[c] = "relook"
             \/ c \in Counted(i) /\ cpc[c] # "relook" /\ cobj'[c] = cobj[c]
             \/ OpRef(c) /\ cid[c] = i /\ cobj'[c] = cobj[c]
             \/ ReLookup(c) /\ cid[c] = i /\ cobj'[c] = registry[i]
  <2>1. c \in Clients /\ cid'[c] = i /\ Place(c)'
    BY <1>3
  <2> HIDE DEF Place
  <2> QED
    BY <1>2, <1>3, <2>1
<1>5. ASSUME NEW c \in Clients, Starts(c), cid[c] = i
      PROVE  /\ OpRef(c) /\ c \notin Counted(i)
             /\ Counted(i)' = Counted(i) \cup {c}
  <2>1. \A d \in Clients : d # c => cpc'[d] = cpc[d] /\ cid'[d] = cid[d]
    BY <1>1, <1>5 DEF OpRef, ClGoto, ClientTypes
  <2>2. OpRef(c) /\ cid'[c] = cid[c] /\ ~Place(c) /\ Place(c)'
    BY <1>5
  <2> QED
    BY <1>3, <1>5, <2>1, <2>2
<1>6. ASSUME NEW c \in Clients, Leaves(c), cid[c] = i
      PROVE  /\ ReDeref(c) \/ (ReLookup(c) /\ registry[i] = None)
             /\ c \in Counted(i) /\ Counted(i)' = Counted(i) \ {c}
  <2>1. \A d \in Clients : d # c => cpc'[d] = cpc[d] /\ cid'[d] = cid[d]
    BY <1>1, <1>6 DEF ReDeref, ReLookup, ClGoto, ClReturn, ClientTypes
  <2>2. Place(c) /\ ~Place(c)'
    BY <1>6
  <2>3. c \in Counted(i) /\ Counted(i)' = Counted(i) \ {c}
    BY <1>3, <1>6, <2>1, <2>2
  <2> QED
    BY <1>6, <2>3
<1>7. CASE \A c \in Clients : cid[c] = i => ~Starts(c) /\ ~Leaves(c)
  <2>1. ASSUME NEW c \in Clients
        PROVE  c \in Counted(i)' <=> c \in Counted(i)
    <3>1. \/ ~Place(c) /\ ~Place(c)'
          \/ cid'[c] = cid[c] /\ (Place(c)' <=> Place(c))
          \/ cid[c] # i
      BY <1>2, <1>7
    <3>2. cid[c] # i => cid'[c] # i \/ ~Place(c)'
      BY <1>2
    <3> QED
      BY <1>3, <3>1, <3>2
  <2> HIDE DEF Place
  <2>2. Counted(i)' = Counted(i)
    BY <1>3, <2>1
  <2> QED
    BY <1>4, <2>2
<1>8. ASSUME NEW c \in Clients, cid[c] = i, Starts(c) \/ Leaves(c)
      PROVE  \/ /\ OpRef(c) /\ cid[c] = i /\ c \notin Counted(i)
                /\ Counted(i)' = Counted(i) \cup {c}
             \/ /\ ReDeref(c) \/ (ReLookup(c) /\ registry[i] = None)
                /\ cid[c] = i /\ c \in Counted(i)
                /\ Counted(i)' = Counted(i) \ {c}
  <2> HIDE DEF Starts, Leaves
  <2> QED
    BY <1>5, <1>6, <1>8
<1> HIDE DEF Starts, Leaves
<1> QED
  BY <1>4, <1>7, <1>8

LEMMA CountedFinite ==
  ASSUME NEW i
  PROVE  /\ IsFiniteSet(Counted(i)) /\ Cardinality(Counted(i)) \in Nat
         /\ Cardinality(Counted(i)) = 0 <=> Counted(i) = {}
<1>1. IsFiniteSet(Clients) /\ Counted(i) \subseteq Clients
  BY ConstantsAssumption DEF ConstantsAssumption, Counted
<1>2. IsFiniteSet(Counted(i))
  BY <1>1, FS_Subset
<1> QED
  BY <1>2, FS_CardinalityType, FS_EmptySet

(* What the registry and openRef become for one id that is not stranded.   *)
LEMMA CountInvStep == FuseInv /\ [Next]_vars => CountInv'
<1> SUFFICES ASSUME FuseInv, [Next]_vars, NEW i \in Ids, i \notin stranded'
             PROVE  /\ registry'[i] = None => Counted(i)' = {}
                    /\ registry'[i] # None =>
                         /\ openRef'[registry'[i]] = Cardinality(Counted(i)')
                         /\ \A c \in Counted(i)' :
                              cpc'[c] = "relook" \/ cobj'[c] = registry'[i]
  BY DEF CountInv, Counted
<1>1. /\ ObjTypes /\ StageTypes /\ ClientTypes /\ Places /\ OneIdEach /\ Locked
      /\ CountInv /\ Condemned
  BY TypeParts DEF FuseInv
<1>2. i \notin stranded
  BY WhoLocks, WhoChanges DEF Frame
<1>3. /\ registry[i] = None => Counted(i) = {}
      /\ registry[i] # None =>
           /\ openRef[registry[i]] = Cardinality(Counted(i))
           /\ \A c \in Counted(i) : cpc[c] = "relook" \/ cobj[c] = registry[i]
  BY <1>1, <1>2 DEF CountInv
<1>4. /\ registry[i] \in Objs \cup {None}
      /\ \A o \in Objs : openRef[o] \in Int
      /\ \A c \in Clients : cobj[c] \in Objs \cup {None}
  BY <1>1 DEF ObjTypes, ClientTypes
(* What a counted client has in hand is the registered object.             *)
<1>5. ASSUME registry'[i] = registry[i], NEW c \in Counted(i)'
      PROVE  \/ cpc'[c] = "relook"
             \/ cobj'[c] = registry'[i]
             \/ OpRef(c) /\ cid[c] = i /\ cobj'[c] = cobj[c]
  BY <1>3, <1>5, CountedChanges
<1>6. ASSUME NEW c \in Clients, OpRef(c)
      PROVE  /\ cobj[c] # None /\ registry' = registry
             /\ openRef' = [openRef EXCEPT ![cobj[c]] = @ + 1]
             /\ cid[c] = i => registry[i] = cobj[c]
             /\ registry[i] = cobj[c] => cid[c] = i
  <2>1. cpc[c] = "ref" /\ registry' = registry
        /\ openRef' = [openRef EXCEPT ![cobj[c]] = @ + 1]
    BY <1>6 DEF OpRef, ClGoto
  <2>2. cobj[c] # None
    BY <1>1, <2>1 DEF Places, Looked
  <2>3. cid[c] = i => registry[i] = cobj[c]
    BY <1>6 DEF OpRef
  <2>4. registry[i] = cobj[c] => cid[c] = i
    BY <1>1, <2>2 DEF OneIdEach
  <2> QED
    BY <2>1, <2>2, <2>3, <2>4
<1>7. ASSUME NEW c \in Clients, OpRef(c), cid[c] = i
      PROVE  /\ openRef'[registry[i]] = openRef[registry[i]] + 1
             /\ Cardinality(Counted(i)') = Cardinality(Counted(i)) + 1
             /\ registry'[i] = registry[i] /\ registry[i] # None
  <2>1. openRef'[registry[i]] = openRef[registry[i]] + 1
    BY <1>1, <1>4, <1>6, <1>7 DEF ObjTypes
  <2>2. c \notin Counted(i) /\ Counted(i)' = Counted(i) \cup {c}
    <3>1. /\ c \notin Counted(i) /\ c \in Counted(i)'
          /\ \A d \in Clients : d # c => cpc'[d] = cpc[d] /\ cid'[d] = cid[d]
      BY <1>1, <1>7 DEF OpRef, ClGoto, Counted, ClientTypes
    <3> QED
      BY <3>1 DEF Counted
  <2>3. IsFiniteSet(Counted(i))
    BY CountedFinite
  <2>4. Cardinality(Counted(i) \cup {c}) = Cardinality(Counted(i)) + 1
    BY <2>2, <2>3, FS_AddElement
  <2> QED
    BY <1>6, <1>7, <2>1, <2>2, <2>4
<1>8. ASSUME NEW c \in Clients, ReDeref(c)
      PROVE  /\ registry' = registry
             /\ openRef' = [openRef EXCEPT ![cobj[c]] = @ - 1]
             /\ cobj[c] # None
             /\ registry[i] = cobj[c] => cid[c] = i
             /\ cid[c] = i => /\ registry[i] = cobj[c]
                              /\ c \in Counted(i)
                              /\ Counted(i)' = Counted(i) \ {c}
  <2>1. /\ cpc[c] = "deref" /\ registry' = registry
        /\ openRef' = [openRef EXCEPT ![cobj[c]] = @ - 1]
    BY <1>8 DEF ReDeref
  <2>2. cobj[c] # None
    BY <1>1, <2>1 DEF Places, Looked
  <2>3. registry[i] = cobj[c] => cid[c] = i
    BY <1>1, <2>2 DEF OneIdEach
  <2>4. ASSUME cid[c] = i
        PROVE  /\ c \in Counted(i) /\ registry[i] = cobj[c]
               /\ Counted(i)' = Counted(i) \ {c}
    <3>1. c \in Counted(i)
      BY <2>1, <2>4 DEF Counted
    <3>2. /\ c \notin Counted(i)'
          /\ \A d \in Clients : d # c => cpc'[d] = cpc[d] /\ cid'[d] = cid[d]
      BY <1>1, <1>8 DEF ReDeref, ClGoto, ClReturn, Counted, ClientTypes
    <3> QED
      BY <1>3, <2>1, <3>1, <3>2 DEF Counted
  <2> QED
    BY <2>1, <2>2, <2>3, <2>4
<1>9. ASSUME NEW c \in Clients, ReDeref(c), cid[c] = i
      PROVE  /\ openRef'[registry[i]] = openRef[registry[i]] - 1
             /\ Cardinality(Counted(i)') = Cardinality(Counted(i)) - 1
             /\ registry'[i] = registry[i] /\ registry[i] # None
  <2>1. openRef'[registry[i]] = openRef[registry[i]] - 1
    BY <1>1, <1>4, <1>8, <1>9 DEF ObjTypes
  <2>2. c \in Counted(i) /\ Counted(i)' = Counted(i) \ {c}
    BY <1>8, <1>9
  <2>3. IsFiniteSet(Counted(i))
    BY CountedFinite
  <2>4. Cardinality(Counted(i) \ {c}) = Cardinality(Counted(i)) - 1
    BY <2>2, <2>3, FS_RemoveElement
  <2> QED
    BY <1>8, <1>9, <2>1, <2>2, <2>4
(* The id whose registered object no step of Open or Release touches.      *)
<1>10. ASSUME registry'[i] = registry[i],
              registry[i] # None => openRef'[registry[i]] = openRef[registry[i]],
              \A c \in Clients : cid[c] = i => ~OpRef(c) /\ ~ReDeref(c)
       PROVE  /\ registry'[i] = None => Counted(i)' = {}
              /\ registry'[i] # None =>
                   /\ openRef'[registry'[i]] = Cardinality(Counted(i)')
                   /\ \A c \in Counted(i)' :
                        cpc'[c] = "relook" \/ cobj'[c] = registry'[i]
  <2>1. Counted(i)' = Counted(i)
    <3>1. ASSUME NEW c \in Clients, ReLookup(c) /\ registry[i] = None,
                 c \in Counted(i)
          PROVE  FALSE
      BY <1>3, <3>1
    <3> QED
      BY <1>10, <3>1, CountedChanges
  <2>2. \A c \in Counted(i)' :
          cpc'[c] = "relook" \/ cobj'[c] = registry'[i]
    <3>1. \A c \in Counted(i)' : c \in Clients
      BY DEF Counted
    <3> QED
      BY <1>5, <1>10, <3>1
  <2> QED
    BY <1>3, <1>10, <2>1, <2>2
<1>11. ASSUME NEW c \in Clients, OpRef(c) \/ ReDeref(c), cid[c] # i
       PROVE  /\ registry'[i] = registry[i]
              /\ registry[i] # None => openRef'[registry[i]] = openRef[registry[i]]
              /\ \A d \in Clients : cid[d] = i => ~OpRef(d) /\ ~ReDeref(d)
  <2>1. registry' = registry /\ registry[i] # cobj[c]
    BY <1>6, <1>8, <1>11
  <2>2. registry[i] # None => openRef'[registry[i]] = openRef[registry[i]]
    BY <1>1, <1>4, <1>6, <1>8, <1>11, <2>1 DEF ObjTypes
  <2>3. ASSUME NEW d \in Clients, d # c PROVE ~OpRef(d) /\ ~ReDeref(d)
    <3>1. cpc'[c] # cpc[c] /\ cpc'[d] = cpc[d]
      BY <1>1, <1>11, <2>3 DEF OpRef, ReDeref, ClGoto, ClReturn, ClientTypes
    <3> QED
      BY <1>1, <3>1 DEF OpRef, ReDeref, ClGoto, ClReturn, ClientTypes
  <2> QED
    BY <1>11, <2>1, <2>2, <2>3
<1>12. CASE \E c \in Clients : OpRef(c) \/ ReDeref(c)
  <2>1. PICK c \in Clients : OpRef(c) \/ ReDeref(c)
    BY <1>12
  <2>2. CASE cid[c] # i
    BY <1>10, <1>11, <2>1, <2>2
  <2>3. CASE cid[c] = i
    <3>1. registry'[i] = registry[i] /\ registry[i] # None
      BY <1>7, <1>9, <2>1, <2>3
    <3>2. openRef'[registry'[i]] = Cardinality(Counted(i)')
      BY <1>3, <1>7, <1>9, <2>1, <2>3
    <3>3. ASSUME NEW d \in Counted(i)'
          PROVE  cpc'[d] = "relook" \/ cobj'[d] = registry'[i]
      <4>1. d \in Clients
        BY DEF Counted
      <4>2. OpRef(d) /\ cid[d] = i => cobj[d] = registry[i]
        BY <1>6, <4>1
      <4> QED
        BY <1>5, <3>1, <4>2
    <3> QED
      BY <3>1, <3>2, <3>3
  <2> QED
    BY <2>2, <2>3
<1>13. CASE /\ \A c \in Clients : ~OpRef(c) /\ ~ReDeref(c)
            /\ registry'[i] = registry[i]
  <2>1. openRef' = openRef
    BY <1>13, WhoChanges DEF Frame
  <2> QED
    BY <1>10, <1>13, <2>1
<1>14. CASE /\ \A c \in Clients : ~OpRef(c) /\ ~ReDeref(c)
            /\ registry'[i] # registry[i]
  <2>1. openRef' = openRef
    BY <1>14, WhoChanges DEF Frame
  <2>2. CASE SweepEvict
    <3>1. /\ phase = "evict" /\ UNCHANGED clientVars
          /\ registry[i] = current /\ registry'[i] = None
      BY <1>1, <1>14, <2>2 DEF SweepEvict, SweepGoto, ObjTypes
    <3>2. Counted(i) = {}
      BY <1>1, <1>2, <3>1 DEF Condemned
    <3>3. Counted(i)' = Counted(i)
      BY <3>1 DEF Counted, clientVars
    <3> QED
      BY <3>1, <3>2, <3>3
  <2>3. ASSUME NEW p \in Stagers, StPublish(p), nObjs < MaxObjs,
               nObjs' = nObjs + 1,
               registry' = [registry EXCEPT ![sid[p]] = nObjs + 1]
        PROVE  /\ registry'[i] \in Objs /\ openRef'[registry'[i]] = 0
               /\ Counted(i)' = {}
    <3>1. sid[p] = i /\ registry'[i] = nObjs + 1
      BY <1>1, <1>14, <2>3 DEF ObjTypes
    <3>2. nObjs + 1 \in Objs /\ nObjs + 1 > nObjs
      BY <1>1, <2>3, Bounds DEF ObjTypes, Objs
    <3>3. openRef[nObjs + 1] = 0
      BY <1>1, <3>2 DEF OneIdEach
    <3>4. UNCHANGED clientVars
      BY <2>3 DEF StPublish
    <3>5. Counted(i)' = Counted(i)
      BY <3>4 DEF Counted, clientVars
    <3>6. registry[i] # None => Using(i) = {}
      <4>1. nObjs' # nObjs
        BY <1>1, <2>3, Bounds DEF ObjTypes
      <4>2. stranded' = IF registry[sid[p]] # None /\ Using(sid[p]) # {}
                          THEN stranded \cup {sid[p]} ELSE stranded
        BY <2>3, <4>1 DEF StPublish, objVars
      <4> QED
        BY <3>1, <4>2
    <3>7. Counted(i) \subseteq Using(i)
      BY DEF Counted, Using
    <3> QED
      BY <1>3, <2>1, <3>1, <3>2, <3>3, <3>5, <3>6, <3>7
  <2>4. ASSUME NEW p \in Stagers, StPublish(p), nObjs < MaxObjs,
               nObjs' = nObjs + 1,
               registry' = [registry EXCEPT ![sid[p]] = nObjs + 1]
        PROVE  /\ registry'[i] # None
               /\ openRef'[registry'[i]] = Cardinality(Counted(i)')
               /\ Counted(i)' = {}
    <3>1. registry'[i] # None /\ openRef'[registry'[i]] = 0 /\ Counted(i)' = {}
      BY <2>3, <2>4, Bounds
    <3>2. Cardinality({}) = 0
      BY FS_EmptySet
    <3> QED
      BY <3>1, <3>2
  <2> QED
    BY <1>14, <2>2, <2>4, RegistryStep
<1> QED
  BY <1>12, <1>13, <1>14

-----------------------------------------------------------------------------
(* Between the counts and the eviction.                                    *)

LEMMA CondemnedStep == FuseInv /\ [Next]_vars => Condemned'
<1> SUFFICES ASSUME FuseInv, [Next]_vars, phase' = "evict",
                    NEW i \in Ids, registry'[i] = current'
             PROVE  /\ Counted(i)' # {} => i \in stranded'
                    /\ \A c \in Clients :
                         cpc'[c] \in {"store", "ref"} /\ cobj'[c] = current'
                           => i \in stranded'
  BY DEF Condemned, Counted
<1>1. /\ ObjTypes /\ SweepTypes /\ ClientTypes /\ Places /\ Locked /\ CountInv
      /\ Condemned
  BY TypeParts DEF FuseInv
<1>2. CASE SweepOpen
  <2>1. /\ phase = "open" /\ openRef[current] = 0
        /\ UNCHANGED <<registry, current>> /\ UNCHANGED clientVars
        /\ Racing(current) # {} => i \in stranded'
        /\ stranded \subseteq stranded'
    BY <1>2 DEF SweepOpen, SweepGoto, objVars
  <2>2. current # None
    BY <1>1, <2>1 DEF Locked
  <2>3. i \notin stranded => Counted(i) = {}
    <3>1. i \notin stranded => openRef[registry[i]] = Cardinality(Counted(i))
      BY <1>1, <2>1, <2>2 DEF CountInv
    <3> QED
      BY <2>1, <3>1, CountedFinite
  <2>4. Counted(i)' = Counted(i)
    BY <2>1 DEF Counted, clientVars
  <2>5. ASSUME NEW c \in Clients,
               cpc'[c] \in {"store", "ref"}, cobj'[c] = current'
        PROVE  i \in stranded'
    BY <2>1, <2>5 DEF Racing, clientVars
  <2> QED
    BY <2>1, <2>3, <2>4, <2>5
<1>3. CASE ~SweepOpen
  <2>1. phase = "evict" /\ current' = current
    BY <1>1, <1>3, WhoChanges
    DEF Frame, Sweep, SweepNext, SweepTile, SweepKeep, SweepEvict, SweepGoto
  <2>2. mu # Nobody /\ current # None
    BY <1>1, <2>1 DEF Locked
  <2>3. ~SweepEvict /\ \A p \in Stagers : ~StPublish(p)
    BY <2>1, <2>2 DEF SweepEvict, SweepGoto, StPublish
  <2>4. registry' = registry /\ stranded \subseteq stranded'
    BY <2>3, WhoChanges DEF Frame
  <2>5. /\ Counted(i) # {} => i \in stranded
        /\ \A c \in Clients :
             cpc[c] \in {"store", "ref"} /\ cobj[c] = current => i \in stranded
    BY <1>1, <2>1, <2>4 DEF Condemned
  <2>6. ASSUME NEW c \in Clients, OpRef(c), cid[c] = i PROVE i \in stranded'
    <3>1. cpc[c] = "ref" /\ (registry[i] = cobj[c] \/ i \in stranded')
      BY <1>1, <2>6 DEF OpRef, ClGoto
    <3> QED
      BY <2>1, <2>4, <2>5, <3>1
  <2>7. Counted(i)' # {} => i \in stranded'
    BY <2>4, <2>5, <2>6, CountedChanges
  <2>8. ASSUME NEW c \in Clients,
               cpc'[c] \in {"store", "ref"}, cobj'[c] = current'
        PROVE  i \in stranded'
    <3> USE <1>1 DEF ClientTypes, ClGoto, ClReturn
    <3>1. CASE UNCHANGED <<cpc[c], cid[c], cobj[c], cstore[c]>>
      BY <2>1, <2>4, <2>5, <2>8, <3>1
    <3>2. CASE OpLookup(c)
      BY <2>2, <3>2 DEF OpLookup
    <3>3. CASE OpStore(c)
      <4>1. cpc[c] = "store" /\ cobj'[c] = cobj[c]
        BY <2>8, <3>3 DEF OpStore
      <4> QED
        BY <2>1, <2>4, <2>5, <2>8, <4>1
    <3>4. CASE OpRef(c) \/ OpTable(c) \/ ReTable(c)
      BY <2>8, <3>4 DEF OpRef, OpTable, ReTable
    <3>5. CASE ReLookup(c) \/ ReDeref(c) \/ ReTile(c)
      BY <2>8, <3>5 DEF ReLookup, ReDeref, ReTile
    <3>6. CASE ReLock(c) \/ ReSwept(c)
      BY <2>8, <3>6 DEF ReLock, ReSwept
    <3> QED
      BY <3>1, <3>2, <3>3, <3>4, <3>5, <3>6, OneCall
  <2> QED
    BY <2>7, <2>8
<1> QED
  BY <1>2, <1>3

(* A client keeps the store of its object, unless the store was evicted or *)
(* the object left the registry under it.                                  *)
LEMMA StoreHeldStep == FuseInv /\ [Next]_vars => StoreHeld'
<1> SUFFICES ASSUME FuseInv, [Next]_vars, NEW c \in Clients,
                    cpc'[c] \in {"ref", "table", "open"}
             PROVE  \/ cstore'[c] = store'[cobj'[c]]
                    \/ cstore'[c] \in evicted'
                    \/ cid'[c] \in stranded'
  BY DEF StoreHeld
<1>1. /\ ObjTypes /\ SweepTypes /\ StageTypes /\ ClientTypes /\ Places /\ Locked
      /\ OneIdEach /\ Condemned /\ StoreHeld
  BY TypeParts DEF FuseInv
<1>2. evicted \subseteq evicted' /\ stranded \subseteq stranded'
  BY WhoChanges DEF Frame
<1>3. CASE OpStore(c)
  <2>1. cstore'[c] = store[cobj[c]] /\ cobj'[c] = cobj[c] /\ store' = store
    BY <1>1, <1>3 DEF OpStore, ClGoto, ClReturn, ClientTypes, objVars
  <2> QED
    BY <2>1
<1>4. CASE ~OpStore(c)
  <2>1. /\ cpc[c] \in {"ref", "table", "open"} /\ cobj'[c] = cobj[c]
        /\ cstore'[c] = cstore[c] /\ cid'[c] = cid[c]
    <3> USE <1>1 DEF ClientTypes, ClGoto, ClReturn
    <3>1. CASE UNCHANGED <<cpc[c], cid[c], cobj[c], cstore[c]>>
      BY <3>1
    <3>2. CASE OpLookup(c) \/ OpRef(c) \/ OpTable(c) \/ ReTable(c)
      BY <3>2 DEF OpLookup, OpRef, OpTable, ReTable
    <3>3. CASE ReLookup(c) \/ ReDeref(c) \/ ReTile(c)
      BY <3>3 DEF ReLookup, ReDeref, ReTile
    <3>4. CASE ReLock(c) \/ ReSwept(c)
      BY <3>4 DEF ReLock, ReSwept
    <3> QED
      BY <1>4, <3>1, <3>2, <3>3, <3>4, OneCall
  <2>2. \/ cstore[c] = store[cobj[c]]
        \/ cstore[c] \in evicted
        \/ cid[c] \in stranded
    BY <1>1, <2>1 DEF StoreHeld
  <2>3. /\ cobj[c] \in Objs /\ cid[c] \in Ids /\ cstore[c] # None
        /\ cobj[c] <= nObjs
    BY <1>1, <2>1 DEF Places, Looked, ClientTypes, OneIdEach
  <2>4. CASE store' = store
    BY <1>2, <2>1, <2>2, <2>4
  <2>5. CASE SweepEvict
    <3>1. /\ phase = "evict" /\ store' = [store EXCEPT ![current] = None]
          /\ \E i \in Ids : registry[i] = current
      BY <2>5 DEF SweepEvict, SweepGoto, Registered
    <3>2. CASE cobj[c] = current
      <4>1. PICK i \in Ids : registry[i] = current
        BY <3>1
      <4>2. cid[c] = i
        BY <1>1, <2>3, <3>2, <4>1, Bounds DEF OneIdEach
      <4>3. i \in stranded
        <5>1. cpc[c] \in {"table", "open"} => c \in Counted(i)
          BY <4>2 DEF Counted
        <5> QED
          BY <1>1, <2>1, <3>1, <3>2, <4>1, <5>1 DEF Condemned
      <4> QED
        BY <1>2, <2>1, <4>2, <4>3
    <3>3. CASE cobj[c] # current
      BY <1>1, <1>2, <2>1, <2>2, <2>3, <3>1, <3>3 DEF ObjTypes
    <3> QED
      BY <3>2, <3>3
  <2>6. ASSUME NEW p \in Stagers, StCheck(p), store' # store
        PROVE  \/ cstore'[c] = store'[cobj'[c]]
               \/ cstore'[c] \in evicted'
               \/ cid'[c] \in stranded'
    <3>1. /\ store[found[p]] \in evicted
          /\ store' = [store EXCEPT ![found[p]] = None]
      BY <2>6 DEF StCheck
    <3> QED
      BY <1>1, <1>2, <2>1, <2>2, <2>3, <3>1 DEF ObjTypes
  <2>7. ASSUME NEW p \in Stagers, StPublish(p), store' # store
        PROVE  \/ cstore'[c] = store'[cobj'[c]]
               \/ cstore'[c] \in evicted'
               \/ cid'[c] \in stranded'
    <3>1. \/ /\ store[found[p]] = None
             /\ store' = [store EXCEPT ![found[p]] = made[p]]
          \/ store' = [store EXCEPT ![nObjs + 1] = made[p]]
      BY <2>7 DEF StPublish, objVars
    <3>2. cobj[c] # nObjs + 1
      <4>1. nObjs \in Nat /\ cobj[c] \in Nat
        <5>1. nObjs \in Nat
          BY <1>1, Bounds DEF ObjTypes
        <5>2. cobj[c] \in Nat
          BY <2>3, Bounds
        <5> QED
          BY <5>1, <5>2
      <4> QED
        BY <2>3, <4>1
    <3>3. store'[cobj[c]] = store[cobj[c]] \/ store[cobj[c]] = None
      BY <1>1, <2>3, <3>1, <3>2 DEF ObjTypes
    <3> QED
      BY <1>2, <2>1, <2>2, <2>3, <3>3
  <2> QED
    BY <2>4, <2>5, <2>6, <2>7, WhoChanges DEF Frame
<1> QED
  BY <1>3, <1>4

-----------------------------------------------------------------------------
(* No tile is forgotten.                                                   *)

(* A client that stops using an id gives its reference back: to the        *)
(* registered object, and on the way to evict it if that was the last.     *)
LEMMA LastOneOut ==
  ASSUME FuseInv, [Next]_vars, NEW i \in Registered, i \notin stranded',
         registry'[i] = registry[i], Using(i) # {}, Using(i)' = {}
  PROVE  OnTheWay(i)'
<1>1. /\ ObjTypes /\ ClientTypes /\ Places /\ CountInv /\ CountInv'
      /\ stranded \subseteq stranded'
  BY TypeParts, CountInvStep, WhoChanges DEF FuseInv, Frame
<1>2. i \in Ids /\ registry[i] # None /\ i \notin stranded
  BY <1>1 DEF Registered
<1>3. PICK c \in Clients : c \in Using(i) /\ c \notin Using(i)'
  BY DEF Using
<1>4. cid[c] = i /\ cpc[c] \in {"ref", "table", "open", "relook", "deref"}
  BY <1>3 DEF Using
<1>5. \/ cid'[c] # i
      \/ cpc'[c] \notin {"ref", "table", "open", "relook", "deref"}
  BY <1>3 DEF Using
<1>6. ReDeref(c)
  <2> USE <1>1, <1>4, <1>5 DEF ClientTypes, ClGoto, ClReturn
  <2>1. CASE UNCHANGED <<cpc[c], cid[c], cobj[c], cstore[c]>>
    BY <2>1
  <2>2. CASE OpLookup(c) \/ OpStore(c)
    BY <2>2 DEF OpLookup, OpStore
  <2>3. CASE OpRef(c) \/ OpTable(c) \/ ReTable(c)
    BY <2>3 DEF OpRef, OpTable, ReTable
  <2>4. CASE ReLookup(c)
    BY <1>2, <2>4 DEF ReLookup
  <2>5. CASE ReTile(c) \/ ReLock(c) \/ ReSwept(c)
    BY <2>5 DEF ReTile, ReLock, ReSwept
  <2> QED
    BY <2>1, <2>2, <2>3, <2>4, <2>5, OneCall
<1>7. cobj[c] = registry[i]
  <2>1. c \in Counted(i) /\ cpc[c] = "deref"
    BY <1>4, <1>6 DEF ReDeref, Counted
  <2> QED
    BY <1>1, <1>2, <2>1 DEF CountInv
<1>8. CASE openRef'[cobj[c]] = 0
  <2>1. cpc'[c] = "retile" /\ cid'[c] = cid[c] /\ cobj'[c] = cobj[c]
    BY <1>1, <1>6, <1>8 DEF ReDeref, ClGoto, ClientTypes
  <2>2. cid'[c] = i /\ cobj'[c] = registry'[i]
    BY <1>4, <1>7, <2>1
  <2> QED
    BY <2>1, <2>2 DEF OnTheWay
<1>9. CASE openRef'[cobj[c]] # 0
  <2>1. openRef'[registry'[i]] = Cardinality(Counted(i)')
    BY <1>1, <1>2 DEF CountInv, Counted
  <2>2. Cardinality({}) = 0
    BY FS_EmptySet
  <2>3. Counted(i)' # {}
    BY <1>7, <1>9, <2>1, <2>2
  <2>4. Counted(i)' \subseteq Using(i)'
    BY DEF Counted, Using
  <2> QED
    BY <2>3, <2>4
<1> QED
  BY <1>8, <1>9

(* Who is on the way stays there as long as the object has no reference.   *)
LEMMA StillOnTheWay ==
  ASSUME FuseInv, [Next]_vars, NEW i \in Registered, i \notin stranded',
         registry'[i] = registry[i], tileRef[registry[i]] = 0, ~SkipEviction,
         Using(i) = {}, OnTheWay(i)
  PROVE  OnTheWay(i)'
<1>1. /\ ObjTypes /\ SweepTypes /\ ClientTypes /\ Places /\ CountInv /\ Locked
      /\ OneIdEach /\ stranded \subseteq stranded'
  BY TypeParts, WhoChanges DEF FuseInv, Frame
<1>2. i \in Ids /\ registry[i] # None /\ i \notin stranded
  BY <1>1 DEF Registered
<1>3. CASE i \in todo
  <2>1. mu # Nobody
    BY <1>1, <1>3 DEF Locked
  <2>2. CASE UNCHANGED todo
    BY <1>3, <2>2 DEF OnTheWay
  <2>3. CASE SweepNext
    <3>1. PICK j \in todo : todo' = todo \ {j} /\ current' = registry[j]
      BY <2>3 DEF SweepNext
    <3>2. i \in todo' \/ current' = registry[i]
      BY <1>3, <3>1
    <3>3. i \in todo' \/ current' = registry'[i]
      BY <3>2
    <3> QED
      BY <3>3 DEF OnTheWay
  <2>4. ASSUME NEW p \in Stagers,
               StCall(p) \/ StSwept(p) \/ EvCall(p) \/ EvSwept(p)
        PROVE  FALSE
    BY <1>3, <2>1, <2>4 DEF StCall, StSwept, EvCall, EvSwept, LockAndSweep, Unlock
  <2>5. ASSUME NEW c \in Clients, ReLock(c) \/ ReSwept(c) PROVE FALSE
    BY <1>3, <2>1, <2>5 DEF ReLock, ReSwept, LockAndSweep, Unlock
  <2> QED
    BY <2>2, <2>3, <2>4, <2>5, WhoLocks DEF LockFrame
<1>4. CASE current = registry[i]
  <2>1. CASE UNCHANGED current
    <3>1. current' = registry'[i]
      BY <1>4, <2>1
    <3> QED
      BY <3>1 DEF OnTheWay
  <2>2. CASE SweepNext \/ SweepTile \/ SweepOpen
    BY <1>2, <1>4, <2>1, <2>2 DEF SweepNext, SweepTile, SweepOpen
  <2>3. CASE SweepKeep
    <3>1. openRef[registry[i]] # 0
      BY <1>4, <2>3 DEF SweepKeep
    <3>2. openRef[registry[i]] = Cardinality(Counted(i))
      BY <1>1, <1>2 DEF CountInv
    <3>3. Counted(i) # {}
      BY <3>1, <3>2, CountedFinite
    <3>4. Counted(i) \subseteq Using(i)
      BY DEF Counted, Using
    <3> QED
      BY <3>3, <3>4
  <2>4. CASE SweepEvict
    <3>1. PICK j \in Registered : /\ registry[j] = current
                                  /\ registry' = [registry EXCEPT ![j] = None]
      BY <2>4 DEF SweepEvict
    <3>2. j = i
      BY <1>1, <1>2, <1>4, <3>1 DEF OneIdEach, Registered
    <3>3. registry'[i] = None
      BY <1>1, <1>2, <3>1, <3>2 DEF ObjTypes
    <3> QED
      BY <1>2, <3>3
  <2> QED
    BY <2>1, <2>2, <2>3, <2>4, WhoChanges DEF Frame, Sweep
<1>5. ASSUME NEW c \in Clients, cid[c] = i,
             \/ cpc[c] = "relock"
             \/ cpc[c] = "retile" /\ cobj[c] = registry[i]
      PROVE  OnTheWay(i)'
  <2>1. CASE UNCHANGED <<cpc[c], cid[c], cobj[c], cstore[c]>>
    <3>1. /\ cid'[c] = i
          /\ \/ cpc'[c] = "relock"
             \/ cpc'[c] = "retile" /\ cobj'[c] = registry'[i]
      BY <1>5, <2>1
    <3> QED
      BY <3>1 DEF OnTheWay
  <2>2. CASE ReLock(c)
    <3>1. i \in todo'
      BY <1>5, <2>2 DEF ReLock, LockAndSweep
    <3> QED
      BY <3>1 DEF OnTheWay
  <2>3. CASE ReTile(c)
    <3>1. cpc[c] = "retile" /\ cobj[c] = registry[i]
      BY <1>5, <2>3 DEF ReTile
    <3>2. cpc'[c] = "relock" /\ cid'[c] = i
      BY <1>1, <1>5, <2>3, <3>1 DEF ReTile, ClGoto, ClientTypes
    <3> QED
      BY <3>2 DEF OnTheWay
  <2>4. CASE OpLookup(c) \/ OpStore(c) \/ OpRef(c) \/ OpTable(c) \/ ReTable(c)
    BY <1>5, <2>4 DEF OpLookup, OpStore, OpRef, OpTable, ReTable, ClGoto, ClReturn
  <2>5. CASE ReLookup(c) \/ ReDeref(c) \/ ReSwept(c)
    BY <1>5, <2>5 DEF ReLookup, ReDeref, ReSwept, ClGoto, ClReturn
  <2> QED
    BY <2>1, <2>2, <2>3, <2>4, <2>5, OneCall
<1> QED
  BY <1>3, <1>4, <1>5 DEF OnTheWay

LEMMA RememberedStep == FuseInv /\ [Next]_vars => Remembered'
<1> SUFFICES ASSUME FuseInv, [Next]_vars,
                    NEW i \in Registered', i \notin stranded', ~SkipEviction,
                    tileRef'[registry'[i]] = 0, Using(i)' = {}
             PROVE  OnTheWay(i)'
  BY DEF Remembered, Using, OnTheWay, Registered
<1>1. /\ ObjTypes /\ SweepTypes /\ StageTypes /\ OneIdEach /\ Locked /\ Remembered
      /\ stranded \subseteq stranded'
  BY TypeParts, WhoChanges DEF FuseInv, Frame
<1>2. i \in Ids /\ registry'[i] # None /\ i \notin stranded
  BY <1>1 DEF Registered
<1>3. registry'[i] = registry[i]
  <2>1. CASE SweepEvict
    <3>1. PICK j \in Ids : registry' = [registry EXCEPT ![j] = None]
      BY <2>1 DEF SweepEvict, Registered
    <3> QED
      BY <1>1, <1>2, <3>1 DEF ObjTypes
  <2>2. ASSUME NEW p \in Stagers, StPublish(p), nObjs < MaxObjs,
               nObjs' = nObjs + 1,
               registry' = [registry EXCEPT ![sid[p]] = nObjs + 1]
        PROVE  registry'[i] = registry[i]
    <3>1. nObjs + 1 \in Objs /\ nObjs' # nObjs
      BY <1>1, <2>2, Bounds DEF ObjTypes, Objs
    <3>2. tileRef' = [tileRef EXCEPT ![nObjs + 1] = 1]
      BY <2>2, <3>1 DEF StPublish, objVars
    <3>3. tileRef'[nObjs + 1] = 1
      BY <1>1, <3>1, <3>2 DEF ObjTypes
    <3>4. registry'[i] # nObjs + 1
      BY <3>3
    <3> QED
      BY <1>1, <1>2, <2>2, <3>4 DEF ObjTypes
  <2> QED
    BY <2>1, <2>2, RegistryStep
<1>4. i \in Registered /\ registry[i] \in Objs
  BY <1>1, <1>2, <1>3 DEF Registered, ObjTypes
<1>5. CASE tileRef[registry[i]] # 0
  <2>1. CASE SweepNext
    <3>1. PICK j \in todo : /\ current' = registry[j]
                            /\ tileRef' = IF clearing
                                            THEN [tileRef EXCEPT ![registry[j]] = 0]
                                            ELSE tileRef
      BY <2>1 DEF SweepNext
    <3>2. registry[j] = registry[i]
      BY <1>1, <1>3, <1>4, <1>5, <3>1 DEF ObjTypes
    <3>3. current' = registry'[i]
      BY <1>3, <3>1, <3>2
    <3> QED
      BY <3>3 DEF OnTheWay
  <2>2. ASSUME NEW p \in Stagers, StTile(p) PROVE FALSE
    BY <1>1, <1>3, <1>4, <1>5, <2>2 DEF StTile, ObjTypes
  <2>3. ASSUME NEW p \in Stagers, StPublish(p) PROVE FALSE
    BY <1>1, <1>3, <1>4, <1>5, <2>3 DEF StPublish, ObjTypes, objVars
  <2> QED
    BY <1>3, <1>5, <2>1, <2>2, <2>3, WhoChanges DEF Frame
<1>6. CASE tileRef[registry[i]] = 0 /\ Using(i) # {}
  BY <1>3, <1>4, <1>6, LastOneOut
<1>7. CASE tileRef[registry[i]] = 0 /\ Using(i) = {}
  <2>1. OnTheWay(i)
    BY <1>1, <1>2, <1>4, <1>7 DEF Remembered
  <2> QED
    BY <1>3, <1>4, <1>7, <2>1, StillOnTheWay
<1> QED
  BY <1>5, <1>6, <1>7

-----------------------------------------------------------------------------
(* The theorems.                                                           *)

(* The inductive invariant: of StageFile, the evictions, Open and Release  *)
(* together, each one step of a lock at a time.                            *)
THEOREM FuseInvariant == Spec => []FuseInv
<1>1. Init => FuseInv
  BY FuseInitial
<1>2. FuseInv /\ [Next]_vars => FuseInv'
  <2> SUFFICES ASSUME FuseInv, [Next]_vars PROVE FuseInv'
    OBVIOUS
  <2>1. TypeOK' /\ Places' /\ OneIdEach' /\ Locked' /\ Owned'
    BY TypeStep, PlacesStep, OneIdStep, LockedStep, OwnedStep
  <2>2. CountInv' /\ Condemned' /\ StoreHeld' /\ Remembered'
    BY CountInvStep, CondemnedStep, StoreHeldStep, RememberedStep
  <2> QED
    BY <2>1, <2>2, Zenon DEF FuseInv
<1> QED
  BY <1>1, <1>2, PTL DEF Spec

(* What the registry, the objects and the calls hold, of what kind.        *)
THEOREM FuseTypeCorrect == Spec => []TypeOK
<1>1. FuseInv => TypeOK
  BY DEF FuseInv
<1> QED
  BY <1>1, FuseInvariant, PTL

(* stagedFileFuse.store is open and nobody else's: no two objects share a  *)
(* backing store, and StageFile publishes one that only it had.            *)
THEOREM StoresHaveOneOwner == Spec => []StoreOwnership
<1>1. FuseInv => StoreOwnership
  BY DEF FuseInv, Owned
<1> QED
  BY <1>1, FuseInvariant, PTL

(* The Eviction Rule of README.md as far as the code keeps it: an open     *)
(* handle has an open store, unless the manager took the file or the       *)
(* object left the registry between the counts and the reference.          *)
THEOREM HandlesKeepTheirStore == Spec => []TwoRefRuleUnlessStranded
<1>1. FuseInv => TwoRefRuleUnlessStranded
  <2> SUFFICES ASSUME FuseInv, NEW c \in Clients, cpc[c] = "open"
               PROVE  \/ life[cstore[c]] = "open"
                      \/ cstore[c] \in evicted
                      \/ cid[c] \in stranded
    BY DEF TwoRefRuleUnlessStranded
  <2>1. ClientTypes /\ Places /\ StoreHeld /\ Owned
    BY TypeParts DEF FuseInv
  <2>2. cobj[c] \in Objs /\ cstore[c] # None
    BY <2>1 DEF Places, Looked, ClientTypes
  <2>3. cstore[c] = store[cobj[c]] => life[cstore[c]] = "open"
    BY <2>1, <2>2 DEF Owned, StoreOwnership
  <2> QED
    BY <2>1, <2>3 DEF StoreHeld
<1> QED
  BY <1>1, FuseInvariant, PTL

(* openRef is the number of clients between Open's reference and Release's. *)
THEOREM OpenRefsCounted == Spec => []OpenRefCounts
<1>1. FuseInv => OpenRefCounts
  BY DEF FuseInv, OpenRefCounts, CountInv, Counted, Registered
<1> QED
  BY <1>1, FuseInvariant, PTL

(* An object with neither reference is being evicted or about to be: no    *)
(* order of tile and handle operations leaves one behind.                  *)
THEOREM NoTileForgotten == Spec => []NothingForgotten
<1>1. FuseInv => NothingForgotten
  <2> SUFFICES ASSUME FuseInv, NEW i \in Registered \ stranded, ~SkipEviction,
                      tileRef[registry[i]] = 0, Using(i) = {}
               PROVE  \/ i \in todo
                      \/ current = registry[i]
                      \/ \E c \in Clients :
                           cid[c] = i /\ cpc[c] \in {"retile", "relock"}
    BY DEF NothingForgotten
  <2> QED
    BY DEF FuseInv, Remembered, OnTheWay
<1> QED
  BY <1>1, FuseInvariant, PTL

(* A backing store is left open with no owner only by a StageFile whose    *)
(* object was evicted, or whose id was published, while it made the store. *)
THEOREM LeaksOnlyByRace == Spec => LeakOnlyByRace
<1> DEFINE Raced(p) == /\ spc[p] = "publish" /\ spc'[p] = "idle"
                       /\ registry[sid[p]] # found[p]
           NoLeak == \A s \in Stores :
                       Leaked(s)' /\ ~Leaked(s) => \E p \in Stagers : Raced(p)
<1>1. FuseInv /\ [Next]_vars => NoLeak
  <2> SUFFICES ASSUME FuseInv, [Next]_vars,
                      NEW s \in Stores, Leaked(s)', ~Leaked(s)
               PROVE  \E p \in Stagers : Raced(p)
    OBVIOUS
  <2>1. /\ ObjTypes /\ SweepTypes /\ StageTypes /\ Places /\ OneIdEach /\ Owned
        /\ Locked
    BY TypeParts DEF FuseInv
  <2>2. /\ life'[s] = "open"
        /\ \A i \in Ids : registry'[i] # None => store'[registry'[i]] # s
        /\ \A p \in Stagers : made'[p] # s
    BY DEF Leaked, Registered
  <2>3. \/ life[s] # "open"
        \/ \E i \in Ids : registry[i] # None /\ store[registry[i]] = s
        \/ \E p \in Stagers : made[p] = s
    BY DEF Leaked, Registered
  <2>4. s # None /\ \A i \in Ids : registry[i] # None => registry[i] \in Objs
    BY <2>1, Bounds DEF ObjTypes
  <2>5. CASE SweepEvict
    <3>1. /\ store' = [store EXCEPT ![current] = None] /\ made' = made
          /\ current \in Objs
          /\ IF store[current] = None THEN life' = life
               ELSE life' = [life EXCEPT ![store[current]] = "closed"]
          /\ \E i \in Ids : /\ registry[i] = current
                            /\ registry' = [registry EXCEPT ![i] = None]
      BY <2>1, <2>5
      DEF SweepEvict, SweepGoto, CloseStore, stageVars, Registered, Locked,
          SweepTypes
    <3>2. PICK i \in Ids : /\ registry[i] = current
                           /\ registry' = [registry EXCEPT ![i] = None]
      BY <3>1
    <3>3. store[current] # s /\ life[s] = "open"
      BY <2>1, <2>2, <2>4, <3>1 DEF ObjTypes
    <3>4. ASSUME NEW j \in Ids, registry[j] # None, store[registry[j]] = s
          PROVE  FALSE
      <4>1. j # i /\ registry[j] # current /\ registry[j] \in Objs
        BY <2>4, <3>2, <3>3, <3>4
      <4>2. registry'[j] = registry[j] /\ store'[registry[j]] = s
        BY <2>1, <3>1, <3>2, <3>4, <4>1 DEF ObjTypes
      <4> QED
        BY <2>2, <3>4, <4>2
    <3> QED
      BY <2>2, <2>3, <3>1, <3>3, <3>4
  <2>6. ASSUME NEW p \in Stagers, StCheck(p) PROVE FALSE
    <3>1. /\ registry' = registry /\ made' = made
          /\ \/ UNCHANGED <<store, life>>
             \/ /\ store' = [store EXCEPT ![found[p]] = None]
                /\ store[found[p]] # None
                /\ life' = [life EXCEPT ![store[found[p]]] = "closed"]
      BY <2>6 DEF StCheck, CloseStore
    <3>2. found[p] \in Objs
      BY <2>1, <2>6 DEF StCheck, Places, StageTypes
    <3>3. CASE UNCHANGED <<store, life>>
      BY <2>2, <2>3, <3>1, <3>3
    <3>4. CASE /\ store' = [store EXCEPT ![found[p]] = None]
               /\ store[found[p]] # None
               /\ life' = [life EXCEPT ![store[found[p]]] = "closed"]
      <4>1. store[found[p]] # s /\ life[s] = "open"
        BY <2>1, <2>2, <3>2, <3>4 DEF ObjTypes
      <4>2. \A o \in Objs : store[o] = s => store'[o] = s
        BY <2>1, <3>4, <4>1 DEF ObjTypes
      <4> QED
        BY <2>2, <2>3, <2>4, <3>1, <4>1, <4>2
    <3> QED
      BY <3>1, <3>3, <3>4
  <2>7. ASSUME NEW p \in Stagers, StCreate(p) PROVE FALSE
    <3>1. made[p] = None
      BY <2>1, <2>7 DEF StCreate, StGoto, StReturn, Places
    <3>2. /\ registry' = registry /\ store' = store
          /\ \/ UNCHANGED <<life, made>>
             \/ \E t \in Stores : /\ life' = [life EXCEPT ![t] = "open"]
                                  /\ made' = [made EXCEPT ![p] = t]
      BY <2>7 DEF StCreate, objVars
    <3>3. CASE UNCHANGED <<life, made>>
      BY <2>2, <2>3, <3>2, <3>3
    <3>4. ASSUME NEW t \in Stores, life' = [life EXCEPT ![t] = "open"],
                 made' = [made EXCEPT ![p] = t]
          PROVE  FALSE
      <4>1. made'[p] = t /\ \A q \in Stagers : q # p => made'[q] = made[q]
        BY <2>1, <3>4 DEF StageTypes
      <4>2. t # s
        BY <2>2, <4>1
      <4>3. life[s] = "open"
        BY <2>1, <2>2, <3>4, <4>2 DEF ObjTypes
      <4> QED
        BY <2>2, <2>3, <2>4, <3>1, <3>2, <4>1, <4>3
    <3> QED
      BY <3>2, <3>3, <3>4
  <2>8. ASSUME NEW p \in Stagers, StPublish(p)
        PROVE  \E q \in Stagers : Raced(q)
    <3>1. /\ spc[p] = "publish" /\ spc'[p] = "idle"
          /\ made' = [made EXCEPT ![p] = None] /\ sid[p] \in Ids
      BY <2>1, <2>8 DEF StPublish, StReturn, StGoto, Places, StageTypes
    <3>2. SUFFICES ASSUME registry[sid[p]] = found[p] PROVE FALSE
      BY <3>1
    <3>3. \A q \in Stagers : q # p => made'[q] = made[q]
      BY <2>1, <3>1 DEF StageTypes
    <3>4. CASE /\ life' = [life EXCEPT ![made[p]] = "closed"]
               /\ UNCHANGED <<registry, store>>
      <4>1. made[p] # s /\ life[s] = "open"
        BY <2>1, <2>2, <3>4 DEF ObjTypes
      <4> QED
        BY <2>2, <2>3, <3>3, <3>4, <4>1
    <3>5. CASE /\ found[p] # None /\ store[found[p]] = None
               /\ store' = [store EXCEPT ![found[p]] = made[p]]
               /\ UNCHANGED <<registry, life>>
      <4>1. found[p] \in Objs
        BY <2>1, <3>5 DEF StageTypes
      <4>2. \A o \in Objs : store[o] = s => store'[o] = s
        BY <2>1, <2>4, <3>5 DEF ObjTypes
      <4>3. store'[registry[sid[p]]] = made[p]
        BY <2>1, <3>2, <3>5, <4>1 DEF ObjTypes
      <4>4. made[p] # s
        BY <2>2, <3>1, <3>2, <3>5, <4>3
      <4> QED
        BY <2>2, <2>3, <2>4, <3>3, <3>5, <4>2, <4>4
    <3>6. CASE /\ found[p] = None /\ nObjs < MaxObjs
               /\ registry' = [registry EXCEPT ![sid[p]] = nObjs + 1]
               /\ store' = [store EXCEPT ![nObjs + 1] = made[p]]
               /\ UNCHANGED life
      <4>1. nObjs + 1 \in Objs /\ nObjs + 1 > nObjs
        BY <2>1, <3>6, Bounds DEF ObjTypes, Objs
      <4>2. store[nObjs + 1] = None
        BY <2>1, <4>1 DEF OneIdEach
      <4>3. registry'[sid[p]] = nObjs + 1 /\ store'[nObjs + 1] = made[p]
        BY <2>1, <3>1, <3>6, <4>1 DEF ObjTypes
      <4>4. made[p] # s
        BY <2>2, <2>4, <3>1, <4>1, <4>3, Bounds
      <4>5. \A i \in Ids : registry[i] # None => i # sid[p]
        BY <3>2, <3>6
      <4>6. \A i \in Ids : registry[i] # None => registry'[i] = registry[i]
        BY <2>1, <3>6, <4>5 DEF ObjTypes
      <4>7. \A o \in Objs : store[o] = s => store'[o] = s
        BY <2>1, <2>4, <3>6, <4>2 DEF ObjTypes
      <4> QED
        BY <2>2, <2>3, <2>4, <3>3, <3>6, <4>4, <4>6, <4>7
    <3> QED
      BY <2>8, <3>4, <3>5, <3>6 DEF StPublish, CloseStore, objVars
  <2>9. CASE UNCHANGED <<registry, store, life, made>>
    BY <2>2, <2>3, <2>9
  <2>10. \/ UNCHANGED made
         \/ \E p \in Stagers : StCreate(p) \/ StPublish(p)
    <3>1. CASE \E p \in Stagers : StCreate(p) \/ StPublish(p)
      BY <3>1
    <3>2. CASE ~ \E p \in Stagers : StCreate(p) \/ StPublish(p)
      BY <3>2
      DEF Next, Sweep, SweepNext, SweepTile, SweepOpen, SweepKeep, SweepEvict,
          StCall, StSwept, StLookup, StCheck, StTile, StSpace, EvCall, EvSwept,
          OpLookup, OpStore, OpRef, OpTable, ReTable, ReLookup, ReDeref, ReTile,
          ReLock, ReSwept, stageVars, vars
    <3> QED
      BY <3>1, <3>2
  <2> HIDE DEF Raced
  <2> QED
    BY <2>5, <2>6, <2>7, <2>8, <2>9, <2>10, WhoChanges DEF Frame
<1>2. [NoLeak]_vars <=> [\A s \in Stores :
        Leaked(s)' /\ ~Leaked(s) =>
          \E p \in Stagers : /\ spc[p] = "publish" /\ spc'[p] = "idle"
                             /\ registry[sid[p]] # found[p]]_vars
  OBVIOUS
<1> HIDE DEF NoLeak
<1> QED
  BY <1>1, <1>2, FuseInvariant, PTL DEF Spec, LeakOnlyByRace
=============================================================================
