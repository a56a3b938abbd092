------------------------------- MODULE FuseFS -------------------------------
(***************************************************************************)
(* internal/fs/fs_fuse.go: the registry of staged files, the life of their *)
(* backing stores under two reference counts and the table of file handles. *)
(*                                                                         *)
(* Stagers run StageFile, EvictStagedFile and EvictAllStagedFiles on the   *)
(* UI's behalf; clients run Open and Release in FUSE worker threads, a     *)
(* handle each at a time.  A step is what happens under one hold of a lock *)
(* or between two.  A backing store is what TempFileStore describes, here  *)
(* open or closed, with or without its temporary file.                     *)
(***************************************************************************)
EXTENDS Integers, FiniteSets

CONSTANTS
  Stagers, Clients,
  Ids,           \* staged file ids
  Nobody,        \* no process
  SkipEviction,  \* config.DebugSkipEviction
  MaxObjs,       \* bound: stagedFileFuse objects created
  MaxStores      \* bound: backing stores created

Objs   == 1..MaxObjs
Stores == 1..MaxStores
None   == 0

ASSUME ConstantsAssumption ==
  /\ Stagers \cap Clients = {}
  /\ Nobody \notin Stagers \cup Clients
  /\ SkipEviction \in BOOLEAN
  /\ IsFiniteSet(Clients)
  /\ MaxStores \in Nat /\ MaxObjs \in Nat /\ MaxObjs >= MaxStores

VARIABLES
  registry,   \* fs.stagedFiles: the object of each id, or None
  store, tileRef, openRef,  \* the fields of each object
  nObjs,      \* objects created so far
  life,       \* what became of each store: "unborn", "open", "closed"
  evicted,    \* stores whose temporary file the manager evicted
  (* fs.mu held for writing, and the sweep its holder makes *)
  mu, todo, clearing, current, phase,
  (* StageFile and the evictions *)
  spc, sid, found, made,
  (* Open and Release *)
  cpc, cid, cobj, cstore,
  stranded    \* history: ids one of whose clients raced an eviction or
              \* a second staging for the object

objVars   == <<registry, store, tileRef, openRef, nObjs>>
storeVars == <<life, evicted>>
muVars    == <<mu, todo, clearing, current, phase>>
stageVars == <<spc, sid, found, made>>
clientVars == <<cpc, cid, cobj, cstore>>
vars == <<objVars, storeVars, muVars, stageVars, clientVars, stranded>>

Init ==
  /\ registry = [i \in Ids |-> None]
  /\ store = [o \in Objs |-> None]
  /\ tileRef = [o \in Objs |-> 0] /\ openRef = [o \in Objs |-> 0]
  /\ nObjs = 0
  /\ life = [s \in Stores |-> "unborn"] /\ evicted = {}
  /\ mu = Nobody /\ todo = {} /\ clearing = FALSE
  /\ current = None /\ phase = "next"
  /\ spc = [p \in Stagers |-> "idle"] /\ sid = [p \in Stagers |-> Nobody]
  /\ found = [p \in Stagers |-> None] /\ made = [p \in Stagers |-> None]
  /\ cpc = [c \in Clients |-> "idle"] /\ cid = [c \in Clients |-> Nobody]
  /\ cobj = [c \in Clients |-> None] /\ cstore = [c \in Clients |-> None]
  /\ stranded = {}

-----------------------------------------------------------------------------
(* tryEvictLocked and doEvictLocked, for each id of a list, under fs.mu.   *)

Registered == {i \in Ids : registry[i] # None}

(* Clients that have taken a store of id i and not yet given it back.      *)
Using(i) ==
  {c \in Clients :
    cid[c] = i /\ cpc[c] \in {"ref", "table", "open", "relook", "deref"}}

LockAndSweep(p, ids, clears) ==
  /\ mu = Nobody /\ mu' = p
  /\ todo' = ids /\ clearing' = clears /\ UNCHANGED <<current, phase>>

Unlock(p) ==
  /\ mu = p /\ todo = {} /\ current = None
  /\ mu' = Nobody /\ clearing' = FALSE
  /\ UNCHANGED <<todo, current, phase>>

SweepGoto(from, to) == phase = from /\ phase' = to

(* The tile reference is cleared, for all callers but Release.             *)
SweepNext ==
  /\ mu # Nobody /\ current = None
  /\ SweepGoto("next", "tile")
  /\ \E i \in todo :
       /\ todo' = todo \ {i}
       /\ current' = registry[i]
       /\ tileRef' = IF clearing THEN [tileRef EXCEPT ![registry[i]] = 0]
                                 ELSE tileRef
  /\ UNCHANGED <<registry, store, openRef, nObjs, storeVars, mu, clearing,
                 stageVars, clientVars, stranded>>

(* Both counts are loaded, one after the other.  A client that has looked  *)
(* the object up and is not counted yet may be stranded by what follows.   *)
SweepTile ==
  /\ SweepGoto("tile", "open")
  /\ tileRef[current] = 0
  /\ UNCHANGED <<objVars, storeVars, mu, todo, clearing, current, stageVars,
                 clientVars, stranded>>

Racing(o) == {c \in Clients : cobj[c] = o /\ cpc[c] \in {"store", "ref"}}

(* Mutant: openRef is not looked at.                                       *)
SweepOpenAny ==
  /\ SweepGoto("open", "evict")
  /\ stranded' = stranded \cup {i \in Ids : /\ registry[i] = current
                                           /\ Racing(current) # {}}
  /\ UNCHANGED <<objVars, storeVars, mu, todo, clearing, current, stageVars,
                 clientVars>>

SweepOpen ==
  /\ SweepGoto("open", "evict")
  /\ openRef[current] = 0
  /\ stranded' = stranded \cup {i \in Ids : /\ registry[i] = current
                                           /\ Racing(current) # {}}
  /\ UNCHANGED <<objVars, storeVars, mu, todo, clearing, current, stageVars,
                 clientVars>>

SweepKeep ==
  /\ \/ SweepGoto("tile", "next") /\ tileRef[current] # 0
     \/ SweepGoto("open", "next") /\ openRef[current] # 0
  /\ current' = None
  /\ UNCHANGED <<objVars, storeVars, mu, todo, clearing, stageVars, clientVars,
                 stranded>>

CloseStore(s) == life' = [life EXCEPT ![s] = "closed"]

(* Mutant: the store of the object that leaves is not closed.              *)
SweepEvictOnly ==
  /\ SweepGoto("evict", "next")
  /\ \E i \in Registered :
       /\ registry[i] = current
       /\ registry' = [registry EXCEPT ![i] = None]
  /\ current' = None
  /\ UNCHANGED <<store, tileRef, openRef, nObjs, storeVars, mu, todo, clearing,
                 stageVars, clientVars, stranded>>

(* The store is closed with both fs.mu and storeMu held, whatever the      *)
(* counts are by now, and the object leaves the registry.                  *)
SweepEvict ==
  /\ SweepGoto("evict", "next")
  /\ IF store[current] = None THEN UNCHANGED life
                              ELSE CloseStore(store[current])
  /\ store' = [store EXCEPT ![current] = None]
  /\ \E i \in Registered :
       /\ registry[i] = current
       /\ registry' = [registry EXCEPT ![i] = None]
  /\ current' = None
  /\ UNCHANGED <<tileRef, openRef, nObjs, evicted, mu, todo, clearing,
                 stageVars, clientVars, stranded>>

-----------------------------------------------------------------------------
(* StageFile.                                                              *)

StGoto(p, from, to) == spc[p] = from /\ spc' = [spc EXCEPT ![p] = to]

StReturn(p, from) ==
  /\ StGoto(p, from, "idle")
  /\ sid' = [sid EXCEPT ![p] = Nobody]
  /\ found' = [found EXCEPT ![p] = None]

(* First every other tile is given up.                                     *)
StCall(p) ==
  /\ StGoto(p, "idle", "sweep")
  /\ \E i \in Ids : sid' = [sid EXCEPT ![p] = i]
  /\ LockAndSweep(p, Registered, TRUE)
  /\ UNCHANGED <<objVars, storeVars, found, made, clientVars, stranded>>

(* Mutant: fs.mu stays locked.                                             *)
StSweptLocked(p) ==
  /\ mu = p /\ todo = {} /\ current = None
  /\ StGoto(p, "sweep", "lookup")
  /\ UNCHANGED <<objVars, storeVars, muVars, sid, found, made,
                 clientVars, stranded>>

StSwept(p) ==
  /\ Unlock(p)
  /\ StGoto(p, "sweep", "lookup")
  /\ UNCHANGED <<objVars, storeVars, sid, found, made, clientVars, stranded>>

StLookup(p) ==
  /\ spc[p] = "lookup" /\ mu = Nobody
  /\ found' = [found EXCEPT ![p] = registry[sid[p]]]
  /\ StGoto(p, "lookup", IF registry[sid[p]] = None THEN "space" ELSE "check")
  /\ UNCHANGED <<objVars, storeVars, muVars, sid, made, clientVars, stranded>>

(* Mutant: the closed store is left in the object.                         *)
StCheckKeeping(p) ==
  LET s == store[found[p]] IN
  /\ spc[p] = "check"
  /\ \/ s # None /\ s \notin evicted
        /\ StGoto(p, "check", "tile") /\ UNCHANGED life
     \/ s # None /\ s \in evicted
        /\ StGoto(p, "check", "retile") /\ CloseStore(s)
     \/ s = None
        /\ StGoto(p, "check", "retile") /\ UNCHANGED life
  /\ UNCHANGED <<objVars, evicted, muVars, sid, found, made, clientVars,
                 stranded>>

(* A store whose file was evicted is closed, open handles or not.          *)
StCheck(p) ==
  LET s == store[found[p]] IN
  /\ spc[p] = "check"
  /\ \/ /\ s # None /\ s \notin evicted
        /\ StGoto(p, "check", "tile") /\ UNCHANGED <<store, life>>
     \/ /\ s # None /\ s \in evicted
        /\ StGoto(p, "check", "retile")
        /\ CloseStore(s)
        /\ store' = [store EXCEPT ![found[p]] = None]
     \/ /\ s = None
        /\ StGoto(p, "check", "retile") /\ UNCHANGED <<store, life>>
  /\ UNCHANGED <<registry, tileRef, openRef, nObjs, evicted, muVars, sid,
                 found, made, clientVars, stranded>>

(* Mutant: a reference is added where one is set.                          *)
StTileAdd(p) ==
  /\ \/ StReturn(p, "tile")
     \/ StGoto(p, "retile", "space") /\ UNCHANGED <<sid, found>>
  /\ tileRef' = [tileRef EXCEPT ![found[p]] = @ + 1]
  /\ UNCHANGED <<registry, store, openRef, nObjs, storeVars, muVars, made,
                 clientVars, stranded>>

(* The tile reference is set without a lock, on the object found above.    *)
StTile(p) ==
  /\ \/ StReturn(p, "tile")
     \/ StGoto(p, "retile", "space") /\ UNCHANGED <<sid, found>>
  /\ tileRef' = [tileRef EXCEPT ![found[p]] = 1]
  /\ UNCHANGED <<registry, store, openRef, nObjs, storeVars, muVars, made,
                 clientVars, stranded>>

(* EnsureSpaceAvailable may evict the temporary file of any store, in use  *)
(* or not, and may fail.                                                   *)
EvictSome ==
  \E ss \in SUBSET {s \in Stores \ evicted : life[s] = "open"} :
    evicted' = evicted \cup ss

StSpace(p) ==
  /\ \/ StGoto(p, "space", "create") /\ UNCHANGED <<sid, found>>
     \/ StReturn(p, "space")
  /\ EvictSome
  /\ UNCHANGED <<objVars, life, muVars, made, clientVars, stranded>>

(* BuildTempURL and NewBackingStore, which ensures the space once more.    *)
StCreate(p) ==
  /\ \/ \E s \in Stores :
          /\ life[s] = "unborn" /\ \A t \in 1..(s - 1) : life[t] # "unborn"
          /\ life' = [life EXCEPT ![s] = "open"]
          /\ made' = [made EXCEPT ![p] = s]
          /\ StGoto(p, "create", "publish") /\ UNCHANGED <<sid, found>>
     \/ StReturn(p, "create") /\ UNCHANGED <<life, made>>
  /\ EvictSome
  /\ UNCHANGED <<objVars, muVars, clientVars, stranded>>

(* The object found at the start gets the store, in the registry or not;   *)
(* if none was found a new one takes the id, whoever has it by now.        *)
StPublish(p) ==
  /\ mu = Nobody
  /\ StReturn(p, "publish")
  /\ \/ /\ found[p] # None /\ store[found[p]] # None
        /\ CloseStore(made[p])
        /\ UNCHANGED <<objVars, stranded>>
     \/ /\ found[p] # None /\ store[found[p]] = None
        /\ store' = [store EXCEPT ![found[p]] = made[p]]
        /\ UNCHANGED <<registry, tileRef, openRef, nObjs, life, stranded>>
     \/ /\ found[p] = None /\ nObjs < MaxObjs
        /\ nObjs' = nObjs + 1
        /\ registry' = [registry EXCEPT ![sid[p]] = nObjs']
        /\ store' = [store EXCEPT ![nObjs'] = made[p]]
        /\ tileRef' = [tileRef EXCEPT ![nObjs'] = 1]
        /\ stranded' = IF registry[sid[p]] # None /\ Using(sid[p]) # {}
                         THEN stranded \cup {sid[p]} ELSE stranded
        /\ UNCHANGED <<openRef, life>>
  /\ made' = [made EXCEPT ![p] = None]
  /\ UNCHANGED <<evicted, muVars, clientVars>>

(* EvictStagedFile and EvictAllStagedFiles, which Stop calls.              *)
EvCall(p) ==
  /\ StGoto(p, "idle", "evict")
  /\ \E ids \in {{i} : i \in Registered} \cup {Registered} :
       LockAndSweep(p, ids, TRUE)
  /\ UNCHANGED <<objVars, storeVars, sid, found, made, clientVars, stranded>>

(* Mutant: fs.mu stays locked.                                             *)
EvSweptLocked(p) ==
  /\ mu = p /\ todo = {} /\ current = None
  /\ StGoto(p, "evict", "idle")
  /\ UNCHANGED <<objVars, storeVars, muVars, sid, found, made,
                 clientVars, stranded>>

EvSwept(p) ==
  /\ Unlock(p)
  /\ StGoto(p, "evict", "idle")
  /\ UNCHANGED <<objVars, storeVars, sid, found, made, clientVars, stranded>>

-----------------------------------------------------------------------------
(* Open.                                                                   *)

ClGoto(c, from, to) == cpc[c] = from /\ cpc' = [cpc EXCEPT ![c] = to]

ClReturn(c, from) ==
  /\ ClGoto(c, from, "idle")
  /\ cid' = [cid EXCEPT ![c] = Nobody]
  /\ cobj' = [cobj EXCEPT ![c] = None]

(* A path whose id is not registered is ENOENT and changes nothing.        *)
OpLookup(c) ==
  /\ mu = Nobody
  /\ ClGoto(c, "idle", "store")
  /\ \E i \in Registered :
       cid' = [cid EXCEPT ![c] = i] /\ cobj' = [cobj EXCEPT ![c] = registry[i]]
  /\ UNCHANGED <<objVars, storeVars, muVars, stageVars, cstore, stranded>>

(* No store, or one whose file is evicted, is EIO.                         *)
OpStore(c) ==
  LET s == store[cobj[c]] IN
  /\ cpc[c] = "store"
  /\ \/ /\ s # None /\ s \notin evicted
        /\ ClGoto(c, "store", "ref")
        /\ cstore' = [cstore EXCEPT ![c] = s]
        /\ UNCHANGED <<cid, cobj>>
     \/ /\ s = None \/ s \in evicted
        /\ ClReturn(c, "store")
        /\ UNCHANGED cstore
  /\ UNCHANGED <<objVars, storeVars, muVars, stageVars, stranded>>

(* The object is counted on, in the registry or not.                       *)
OpRef(c) ==
  /\ ClGoto(c, "ref", "table")
  /\ openRef' = [openRef EXCEPT ![cobj[c]] = @ + 1]
  /\ stranded' = IF registry[cid[c]] = cobj[c] THEN stranded
                                               ELSE stranded \cup {cid[c]}
  /\ UNCHANGED <<registry, store, tileRef, nObjs, storeVars, muVars, stageVars,
                 cid, cobj, cstore>>

(* fhToStore[fh] = store: the handle exists.                               *)
OpTable(c) ==
  /\ ClGoto(c, "table", "open")
  /\ UNCHANGED <<objVars, storeVars, muVars, stageVars, cid, cobj, cstore,
                 stranded>>

-----------------------------------------------------------------------------
(* Release.                                                                *)

(* The handle remembers its store and the id, not the object.              *)
ReTable(c) ==
  /\ ClGoto(c, "open", "relook")
  /\ cstore' = [cstore EXCEPT ![c] = None]
  /\ cobj' = [cobj EXCEPT ![c] = None]
  /\ UNCHANGED <<objVars, storeVars, muVars, stageVars, cid, stranded>>

ReLookup(c) ==
  /\ cpc[c] = "relook" /\ mu = Nobody
  /\ \/ /\ registry[cid[c]] # None
        /\ ClGoto(c, "relook", "deref")
        /\ cobj' = [cobj EXCEPT ![c] = registry[cid[c]]]
        /\ UNCHANGED cid
     \/ registry[cid[c]] = None /\ ClReturn(c, "relook")
  /\ UNCHANGED <<objVars, storeVars, muVars, stageVars, cstore, stranded>>

(* Mutant: the reference is dropped only if the tile is gone.              *)
ReDerefTileGone(c) ==
  /\ cpc[c] = "deref"
  /\ IF tileRef[cobj[c]] = 0
       THEN /\ openRef' = [openRef EXCEPT ![cobj[c]] = @ - 1]
            /\ ClGoto(c, "deref", "retile") /\ UNCHANGED <<cid, cobj>>
       ELSE ClReturn(c, "deref") /\ UNCHANGED openRef
  /\ UNCHANGED <<registry, store, tileRef, nObjs, storeVars, muVars, stageVars,
                 cstore, stranded>>

ReDeref(c) ==
  /\ cpc[c] = "deref"
  /\ openRef' = [openRef EXCEPT ![cobj[c]] = @ - 1]
  /\ IF openRef'[cobj[c]] = 0
       THEN ClGoto(c, "deref", "retile") /\ UNCHANGED <<cid, cobj>>
       ELSE ClReturn(c, "deref")
  /\ UNCHANGED <<registry, store, tileRef, nObjs, storeVars, muVars, stageVars,
                 cstore, stranded>>

(* Mutant: a Release that cannot have fs.mu at once does not evict.        *)
ReTileTryLock(c) ==
  /\ cpc[c] = "retile"
  /\ IF tileRef[cobj[c]] = 0 /\ ~SkipEviction /\ mu = Nobody
       THEN ClGoto(c, "retile", "relock") /\ UNCHANGED <<cid, cobj>>
       ELSE ClReturn(c, "retile")
  /\ UNCHANGED <<objVars, storeVars, muVars, stageVars, cstore, stranded>>

ReTile(c) ==
  /\ cpc[c] = "retile"
  /\ IF tileRef[cobj[c]] = 0 /\ ~SkipEviction
       THEN ClGoto(c, "retile", "relock") /\ UNCHANGED <<cid, cobj>>
       ELSE ClReturn(c, "retile")
  /\ UNCHANGED <<objVars, storeVars, muVars, stageVars, cstore, stranded>>

ReLock(c) ==
  /\ ClGoto(c, "relock", "resweep")
  /\ LockAndSweep(c, {cid[c]} \cap Registered, FALSE)
  /\ UNCHANGED <<objVars, storeVars, stageVars, cid, cobj, cstore, stranded>>

ReSwept(c) ==
  /\ Unlock(c)
  /\ ClReturn(c, "resweep")
  /\ UNCHANGED <<objVars, storeVars, stageVars, cstore, stranded>>

-----------------------------------------------------------------------------
Sweep == SweepNext \/ SweepTile \/ SweepOpen \/ SweepKeep \/ SweepEvict

Next ==
  \/ Sweep
  \/ \E p \in Stagers :
       \/ StCall(p) \/ StSwept(p) \/ StLookup(p) \/ StCheck(p) \/ StTile(p)
       \/ StSpace(p) \/ StCreate(p) \/ StPublish(p) \/ EvCall(p) \/ EvSwept(p)
  \/ \E c \in Clients :
       \/ OpLookup(c) \/ OpStore(c) \/ OpRef(c) \/ OpTable(c)
       \/ ReTable(c) \/ ReLookup(c) \/ ReDeref(c) \/ ReTile(c)
       \/ ReLock(c) \/ ReSwept(c)

Spec == Init /\ [][Next]_vars

(* A call that has begun goes on, and waits for fs.mu no longer than its   *)
(* holders keep it: Go's mutexes serve a waiter before its rivals, a       *)
(* waiting writer before new readers.  A holder's Close ends, as           *)
(* TempFileStore shows.  Nobody has to call, a handle may stay open.       *)
Fairness ==
  /\ WF_vars(Sweep)
  /\ \A p \in Stagers :
       /\ WF_vars(StSwept(p) \/ StCheck(p) \/ StTile(p) \/ StSpace(p)
                  \/ StCreate(p) \/ EvSwept(p))
       /\ SF_vars(StLookup(p) \/ StPublish(p))
  /\ \A c \in Clients :
       /\ WF_vars(OpStore(c) \/ OpRef(c) \/ OpTable(c) \/ ReDeref(c)
                  \/ ReTile(c) \/ ReSwept(c))
       /\ SF_vars(ReLookup(c) \/ ReLock(c))

FairSpec == Spec /\ Fairness

-----------------------------------------------------------------------------
(* Properties.                                                             *)

StPcs == {"idle", "sweep", "lookup", "check", "tile", "retile", "space",
          "create", "publish", "evict"}
ClPcs == {"idle", "store", "ref", "table", "open", "relook", "deref",
          "retile", "relock", "resweep"}

TypeOK ==
  /\ registry \in [Ids -> Objs \cup {None}]
  /\ store \in [Objs -> Stores \cup {None}]
  /\ tileRef \in [Objs -> {0, 1}]
  /\ openRef \in [Objs -> Int]
  /\ nObjs \in 0..MaxObjs
  /\ life \in [Stores -> {"unborn", "open", "closed"}]
  /\ evicted \subseteq Stores
  /\ mu \in Stagers \cup Clients \cup {Nobody}
  /\ todo \subseteq Ids /\ clearing \in BOOLEAN
  /\ current \in Objs \cup {None}
  /\ phase \in {"next", "tile", "open", "evict"}
  /\ spc \in [Stagers -> StPcs] /\ sid \in [Stagers -> Ids \cup {Nobody}]
  /\ found \in [Stagers -> Objs \cup {None}]
  /\ made \in [Stagers -> Stores \cup {None}]
  /\ cpc \in [Clients -> ClPcs] /\ cid \in [Clients -> Ids \cup {Nobody}]
  /\ cobj \in [Clients -> Objs \cup {None}]
  /\ cstore \in [Clients -> Stores \cup {None}]
  /\ stranded \subseteq Ids

(* An object offers only a store that is open, and no two objects, nor an  *)
(* object and a StageFile still to publish, have the same one.             *)
StoreOwnership ==
  /\ \A o \in Objs : store[o] # None => life[store[o]] = "open"
  /\ \A p \in Stagers : made[p] # None => life[made[p]] = "open"
  /\ \A o, q \in Objs : store[o] = store[q] /\ store[o] # None => o = q
  /\ \A o \in Objs, p \in Stagers : store[o] # None => made[p] # store[o]

(* README.md, Eviction Rule: a backing store is closed only when both      *)
(* references are 0, so an open handle never loses its store.              *)
TwoRefRule ==
  \A c \in Clients : cpc[c] = "open" => life[cstore[c]] = "open"

(* The rule as far as the code keeps it: a handle loses its store only     *)
(* when the manager evicted the file, which re-staging then closes, or     *)
(* when an object of the same id went while a client was using it.         *)
TwoRefRuleUnlessStranded ==
  \A c \in Clients :
    cpc[c] = "open" => \/ life[cstore[c]] = "open"
                      \/ cstore[c] \in evicted
                      \/ cid[c] \in stranded

(* No tile is forgotten: an object with neither reference is evicted, or   *)
(* somebody is on the way to evict it, although the two counts are changed *)
(* and looked at without a common lock.                                    *)
NothingForgotten ==
  \A i \in Registered \ stranded :
    ~SkipEviction /\ tileRef[registry[i]] = 0 /\ Using(i) = {} =>
      \/ i \in todo
      \/ current = registry[i]
      \/ \E c \in Clients : cid[c] = i /\ cpc[c] \in {"retile", "relock"}

(* Under the same condition openRef counts the handles, no more, no less.  *)
OpenRefCounts ==
  \A i \in Registered \ stranded :
    openRef[registry[i]] =
      Cardinality({c \in Clients :
        cid[c] = i /\ cpc[c] \in {"table", "open", "relook", "deref"}})

(* A store stays open for nobody, with its temporary file and its download *)
(* going on, only by a StageFile that ends after the object it found was   *)
(* evicted, or after another StageFile published the id it did not find.   *)
Leaked(s) ==
  /\ life[s] = "open"
  /\ \A i \in Registered : store[registry[i]] # s
  /\ \A p \in Stagers : made[p] # s

LeakOnlyByRace ==
  [][\A s \in Stores :
       Leaked(s)' /\ ~Leaked(s) =>
         \E p \in Stagers : /\ spc[p] = "publish" /\ spc'[p] = "idle"
                            /\ registry[sid[p]] # found[p]]_vars

(* StageFile and the evictions return, Open and Release too: whoever takes *)
(* fs.mu gives it back.                                                    *)
StageReturns == \A p \in Stagers : spc[p] # "idle" ~> spc[p] = "idle"

FuseReturns ==
  \A c \in Clients :
    cpc[c] \notin {"idle", "open"} ~> cpc[c] \in {"idle", "open"}
=============================================================================
