----------------------- MODULE TempFileManager_proofs -----------------------
(***************************************************************************)
(* The properties of the manager of temporary files for any number of      *)
(* stagers, any files and any limits.  The inductive invariant says that a *)
(* name in use is not in the table under another store, that who removes a *)
(* file has told its store, and that who passed the check of the limit is  *)
(* counted with the files of the table.                                    *)
(***************************************************************************)
EXTENDS TempFileManager, UseOrder_proofs

(* The name a call settled on is its own, and in no snapshot.              *)
Names ==
  /\ \A p \in Stagers :
       pc[p] # "idle" =>
         /\ want[p] \in Paths
         /\ life[want[p]] = IF pc[p] = "register" THEN "made" ELSE "none"
         /\ \A q \in Stagers : want[p] \notin ToSet(entries[q])
  /\ \A p, q \in Stagers :
       pc[p] # "idle" /\ pc[q] # "idle" /\ want[p] = want[q] => p = q
  /\ \A f \in Table : life[f] \in {"new", "live"}

(* Who deals with an entry has one, and tells its store before it removes. *)
Dealing ==
  \A p \in Stagers :
    /\ pc[p] \in {"space", "count", "take", "notify", "remove"} =>
         entries[p] # <<>>
    /\ pc[p] = "remove" =>
         LET f == Head(entries[p]) IN life[f] \in {"new", "live"} => f \in evicted

(* No store outlives the process.                                          *)
Down == ~up => \A f \in Paths : life[f] = "none"

(* The calls that found fewer files than MaxTempFiles and have still to    *)
(* add one.                                                                *)
Passed ==
  {p \in Stagers : \/ pc[p] \in {"granted", "register"}
                   \/ pc[p] = "firstSpace" /\ roomy[p]}

Overrun == Len(files) + Cardinality(Passed) <= MaxTempFiles + Cardinality(Stagers) - 1

ManagerInv ==
  /\ TypeOK /\ Names /\ Dealing /\ Down /\ Overrun
  /\ NoFileLost /\ EvictionKnown

-----------------------------------------------------------------------------
(* The types.                                                              *)

(* TypeOK in parts: what is Boolean, the sequences, the rest, and that who *)
(* deals with an entry has one.                                            *)
FlagTypes ==
  /\ roomy \in [Stagers -> BOOLEAN] /\ spaceOK \in [Stagers -> BOOLEAN]
  /\ up \in BOOLEAN /\ panicked \in BOOLEAN

ListTypes ==
  /\ files \in Seq(Paths) /\ NoRepeats(files)
  /\ entries \in [Stagers -> Seq(Paths)]
  /\ \A p \in Stagers : NoRepeats(entries[p])

PlaceTypes ==
  /\ disk \subseteq Paths
  /\ life \in [Paths -> {"none", "made", "new", "live", "closing"}]
  /\ evicted \subseteq Paths
  /\ pc \in [Stagers -> EnPcs]
  /\ want \in [Stagers -> Paths \cup {"none"}]
  /\ leftover \subseteq Paths /\ cleaned \subseteq Paths

LEMMA TypeParts ==
  TypeOK <=> FlagTypes /\ ListTypes /\ PlaceTypes /\ EntryInHand
BY Zenon DEF TypeOK, FlagTypes, ListTypes, PlaceTypes

(* The table is as long as it has files, and its oldest entry is one.      *)
LEMMA OrderOfFiles ==
  ASSUME NEW s \in Seq(Paths)
  PROVE  /\ Len(s) \in Nat /\ ToSet(s) \subseteq Paths
         /\ s # <<>> => Head(s) \in ToSet(s) /\ Head(s) \in Paths
         /\ \A f : Contains(s, f) <=> f \in ToSet(s)
<1>1. /\ Len(s) \in Nat /\ ToSet(s) \subseteq Paths
      /\ \A f : Contains(s, f) <=> f \in ToSet(s)
      /\ \A f : f \in ToSet(s) <=> \E i \in 1..Len(s) : s[i] = f
  BY ElementsByPosition
<1>2. ASSUME s # <<>> PROVE Head(s) \in ToSet(s) /\ Head(s) \in Paths
  <2>1. Len(s) # 0 /\ Head(s) = s[1]
    BY <1>2, EmptySeq, HeadTailProperties
  <2> QED
    BY <1>1, <2>1
<1> QED
  BY <1>1, <1>2

LEMMA EmptyOrder ==
  <<>> \in Seq(Paths) /\ NoRepeats(<<>>) /\ ToSet(<<>>) = {} /\ Len(<<>>) = 0
BY DEF NoRepeats, ToSet

LEMMA ManagerInitial == Init => ManagerInv
<1> SUFFICES ASSUME Init PROVE ManagerInv
  OBVIOUS
<1> USE EmptyOrder, ConstantsAssumption DEF Init
<1>1. FlagTypes
  BY DEF FlagTypes
<1>2. ListTypes
  BY DEF ListTypes
<1>3. PlaceTypes
  BY DEF PlaceTypes, EnPcs
<1>4. TypeOK
  <2>1. EntryInHand
    BY DEF EntryInHand
  <2> QED
    BY <1>1, <1>2, <1>3, <2>1, TypeParts
<1>5. Names /\ Dealing /\ Down
  BY DEF Names, Dealing, Down, Table
<1>6. Overrun
  <2>1. Passed = {}
    BY DEF Passed
  <2>2. Cardinality(Stagers) \in Nat /\ MaxTempFiles \in Nat \ {0}
    BY FS_CardinalityType DEF ConstantsAssumption
  <2>3. Cardinality(Passed) = 0
    BY <2>1, FS_EmptySet
  <2> QED
    BY <2>2, <2>3 DEF Overrun
<1>7. NoFileLost /\ EvictionKnown
  BY DEF NoFileLost, EvictionKnown
<1> QED
  BY <1>4, <1>5, <1>6, <1>7 DEF ManagerInv

LEMMA FlagStep == ManagerInv /\ [Next]_vars => FlagTypes'
<1> SUFFICES ASSUME ManagerInv, [Next]_vars PROVE FlagTypes'
  OBVIOUS
<1>1. FlagTypes
  BY TypeParts DEF ManagerInv
<1> USE <1>1 DEF FlagTypes, ensureVars
<1>2. CASE UNCHANGED <<roomy, spaceOK, up, panicked>>
  BY <1>2
<1>3. ASSUME NEW p \in Stagers,
             roomy' = [roomy EXCEPT ![p] = FALSE],
             spaceOK' = [spaceOK EXCEPT ![p] = FALSE],
             UNCHANGED <<up, panicked>>
      PROVE  FlagTypes'
  BY <1>3
<1>4. ASSUME NEW p \in Stagers, EnCall(p) PROVE FlagTypes'
  BY <1>4 DEF EnCall
<1>5. ASSUME NEW p \in Stagers, Checks(p), UNCHANGED <<roomy, up, panicked>>
      PROVE  FlagTypes'
  BY <1>5 DEF Checks
<1>6. ASSUME NEW p \in Stagers, EnTake(p) PROVE FlagTypes'
  BY <1>6 DEF EnTake
<1>7. CASE Crash \/ CleanupStaleFiles
  BY <1>7 DEF Crash, CleanupStaleFiles
<1>8. ASSUME NEW p \in Stagers,
             EnFirstSpace(p) \/ EnSpace(p) \/ EnLastSpace(p)
      PROVE  FlagTypes'
  BY <1>3, <1>5, <1>8 DEF EnFirstSpace, EnSpace, EnLastSpace, EnReturn
<1>9. ASSUME NEW p \in Stagers,
             EnLastCount(p) \/ TfGiveUp(p) \/ TfAbandon(p) \/ TfRegister(p)
      PROVE  FlagTypes'
  BY <1>2, <1>3, <1>9 DEF EnLastCount, TfGiveUp, TfAbandon, TfRegister, EnReturn
<1>10. ASSUME NEW p \in Stagers,
              EnSnapshot(p) \/ EnCount(p) \/ EnNotify(p) \/ EnRemove(p) \/ TfCreate(p)
       PROVE  FlagTypes'
  BY <1>2, <1>10 DEF EnSnapshot, EnCount, EnNotify, EnRemove, TfCreate
<1>11. ASSUME NEW f \in Paths,
              StOpen(f) \/ UpdateAccess(f) \/ Unregister(f) \/ StRemove(f)
       PROVE  FlagTypes'
  BY <1>2, <1>11 DEF StOpen, UpdateAccess, Unregister, StRemove
<1>12. CASE CleanupAllFiles \/ UNCHANGED vars
  BY <1>2, <1>12 DEF CleanupAllFiles, vars
<1> HIDE DEF FlagTypes
<1> QED
  BY <1>4, <1>6, <1>7, <1>8, <1>9, <1>10, <1>11, <1>12 DEF Next

LEMMA ListStep == ManagerInv /\ [Next]_vars => ListTypes'
<1> SUFFICES ASSUME ManagerInv, [Next]_vars PROVE ListTypes'
  OBVIOUS
<1>1. ListTypes /\ PlaceTypes /\ Names /\ Dealing
  BY TypeParts DEF ManagerInv
<1> USE <1>1, EmptyOrder DEF ListTypes, ensureVars
<1>2. CASE UNCHANGED <<files, entries>>
  BY <1>2
<1>3. ASSUME NEW p \in Stagers, NEW es \in Seq(Paths), NoRepeats(es),
             entries' = [entries EXCEPT ![p] = es], UNCHANGED files
      PROVE  ListTypes'
  BY <1>3
<1>4. ASSUME files' \in Seq(Paths), NoRepeats(files'), UNCHANGED entries
      PROVE  ListTypes'
  BY <1>4
<1>5. ASSUME NEW p \in Stagers, EnReturn(p, pc[p]), UNCHANGED files
      PROVE  ListTypes'
  BY <1>3, <1>5 DEF EnReturn
<1>6. ASSUME NEW p \in Stagers, EnCall(p) \/ EnCount(p) \/ EnNotify(p) \/ TfCreate(p)
      PROVE  ListTypes'
  BY <1>2, <1>6 DEF EnCall, EnCount, EnNotify, TfCreate
<1>7. ASSUME NEW p \in Stagers,
             \/ EnFirstSpace(p) \/ EnSpace(p) \/ EnLastSpace(p)
             \/ EnLastCount(p) \/ TfGiveUp(p) \/ TfAbandon(p)
      PROVE  ListTypes'
  <2>1. /\ UNCHANGED files
        /\ \/ UNCHANGED entries
           \/ entries' = [entries EXCEPT ![p] = <<>>]
    BY <1>7 DEF EnFirstSpace, EnSpace, EnLastSpace, EnLastCount, TfGiveUp,
       TfAbandon, EnReturn
  <2> QED
    BY <1>2, <1>3, <2>1
<1>8. ASSUME NEW p \in Stagers, EnSnapshot(p) PROVE ListTypes'
  BY <1>3, <1>8 DEF EnSnapshot
<1>9. ASSUME NEW f \in Paths, files' = Without(files, f),
             UNCHANGED entries
      PROVE  ListTypes'
  <2>1. Without(files, f) \in Seq(Paths) /\ NoRepeats(Without(files, f))
    BY WithoutProperties
  <2> QED
    BY <1>4, <1>9, <2>1
<1>10. ASSUME NEW p \in Stagers, EnTake(p) PROVE ListTypes'
  <2>1. /\ UNCHANGED entries
        /\ \/ UNCHANGED files
           \/ files' = Without(files, Head(entries[p]))
      /\ pc[p] = "take"
    BY <1>10 DEF EnTake, EnGoto
  <2>2. entries[p] # <<>> /\ entries[p] \in Seq(Paths)
    BY <2>1 DEF Dealing
  <2>3. Head(entries[p]) \in Paths
    BY <2>2, OrderOfFiles
  <2> QED
    BY <1>2, <1>9, <2>1, <2>3
<1>11. ASSUME NEW p \in Stagers, EnRemove(p) PROVE ListTypes'
  <2>1. /\ entries' = [entries EXCEPT ![p] = Tail(entries[p])]
        /\ UNCHANGED files /\ pc[p] = "remove"
    BY <1>11 DEF EnRemove, EnGoto
  <2>2. entries[p] # <<>> /\ entries[p] \in Seq(Paths) /\ NoRepeats(entries[p])
    BY <2>1 DEF Dealing
  <2>3. Tail(entries[p]) \in Seq(Paths) /\ NoRepeats(Tail(entries[p]))
    BY <2>2, TailOrderProperties
  <2> QED
    BY <1>3, <2>1, <2>3
<1>12. ASSUME NEW p \in Stagers, TfRegister(p) PROVE ListTypes'
  <2>1. /\ files' = Append(files, want[p]) /\ pc[p] = "register"
        /\ entries' = [entries EXCEPT ![p] = <<>>]
    BY <1>12 DEF TfRegister, EnReturn, EnGoto
  <2>2. want[p] \in Paths /\ want[p] \notin ToSet(files)
    BY <2>1 DEF Names, Table
  <2>3. files' \in Seq(Paths) /\ NoRepeats(files')
    <3>1. Append(files, want[p]) \in Seq(Paths) /\ NoRepeats(Append(files, want[p]))
      BY <2>2, AppendNewProperties
    <3> QED
      BY <2>1, <3>1
  <2> QED
    BY <2>1, <2>3
<1>13. ASSUME NEW f \in Paths, UpdateAccess(f) PROVE ListTypes'
  <2>1. Used(files, f) \in Seq(Paths) /\ NoRepeats(Used(files, f))
    BY UsedProperties
  <2> QED
    BY <1>4, <1>13, <2>1 DEF UpdateAccess
<1>14. ASSUME NEW f \in Paths, Unregister(f) PROVE ListTypes'
  <2>1. Without(files, f) \in Seq(Paths) /\ NoRepeats(Without(files, f))
    BY WithoutProperties
  <2> QED
    BY <1>4, <1>14, <2>1 DEF Unregister
<1>15. ASSUME NEW f \in Paths, StOpen(f) \/ StRemove(f) PROVE ListTypes'
  BY <1>2, <1>15 DEF StOpen, StRemove
<1>16. CASE CleanupAllFiles
  BY <1>4, <1>16 DEF CleanupAllFiles
<1>17. CASE Crash
  BY <1>17 DEF Crash
<1>18. CASE CleanupStaleFiles \/ UNCHANGED vars
  BY <1>2, <1>18 DEF CleanupStaleFiles, vars
<1> HIDE DEF ListTypes
<1> QED
  BY <1>6, <1>7, <1>8, <1>10, <1>11, <1>12, <1>13, <1>14, <1>15, <1>16, <1>17,
     <1>18 DEF Next

LEMMA PlaceStep == ManagerInv /\ [Next]_vars => PlaceTypes'
<1> SUFFICES ASSUME ManagerInv, [Next]_vars PROVE PlaceTypes'
  OBVIOUS
<1>1. ListTypes /\ PlaceTypes /\ Names /\ Dealing
  BY TypeParts DEF ManagerInv
<1>2. Table \subseteq Paths
  BY <1>1, OrderOfFiles DEF ListTypes, Table
<1>3. ASSUME NEW p \in Stagers, pc[p] \in {"take", "notify", "remove"}
      PROVE  Head(entries[p]) \in Paths
  <2>1. entries[p] # <<>> /\ entries[p] \in Seq(Paths)
    BY <1>1, <1>3 DEF Dealing, ListTypes
  <2> QED
    BY <2>1, OrderOfFiles
<1> USE <1>1 DEF PlaceTypes, EnPcs, EnGoto, EnReturn, storeVars, ensureVars
<1>4. ASSUME NEW p \in Stagers, EnCall(p) \/ EnSnapshot(p) \/ EnCount(p) \/ EnTake(p)
      PROVE  PlaceTypes'
  BY <1>4 DEF EnCall, EnSnapshot, EnCount, EnTake, NextEntry
<1>5. ASSUME NEW p \in Stagers, EnFirstSpace(p) \/ EnSpace(p) \/ EnLastSpace(p)
      PROVE  PlaceTypes'
  BY <1>5 DEF EnFirstSpace, EnSpace, EnLastSpace
<1>6. ASSUME NEW p \in Stagers, EnLastCount(p) \/ TfGiveUp(p) PROVE PlaceTypes'
  BY <1>6 DEF EnLastCount, TfGiveUp
<1>7. ASSUME NEW p \in Stagers, EnNotify(p) PROVE PlaceTypes'
  BY <1>3, <1>7 DEF EnNotify
<1>8. ASSUME NEW p \in Stagers, EnRemove(p) PROVE PlaceTypes'
  BY <1>3, <1>8 DEF EnRemove, RemoveFile, NextEntry
<1>9. ASSUME NEW p \in Stagers, TfCreate(p) PROVE PlaceTypes'
  <2>1. want[p] \in Paths
    BY <1>9 DEF TfCreate, Names
  <2> QED
    BY <1>9, <2>1 DEF TfCreate
<1>10. ASSUME NEW p \in Stagers, TfAbandon(p) \/ TfRegister(p) PROVE PlaceTypes'
  <2>1. want[p] \in Paths
    BY <1>10 DEF TfAbandon, TfRegister, Names
  <2> QED
    BY <1>10, <2>1 DEF TfAbandon, TfRegister, RemoveFile
<1>11. ASSUME NEW f \in Paths,
              StOpen(f) \/ UpdateAccess(f) \/ Unregister(f) \/ StRemove(f)
       PROVE  PlaceTypes'
  BY <1>11 DEF StOpen, UpdateAccess, Unregister, StRemove, StGoto, RemoveFile
<1>12. CASE CleanupAllFiles \/ CleanupStaleFiles
  BY <1>2, <1>12 DEF CleanupAllFiles, CleanupStaleFiles
<1>13. CASE Crash \/ UNCHANGED vars
  BY <1>13 DEF Crash, vars
<1> HIDE DEF PlaceTypes
<1> QED
  BY <1>4, <1>5, <1>6, <1>7, <1>8, <1>9, <1>10, <1>11, <1>12, <1>13 DEF Next

-----------------------------------------------------------------------------
(* The table, the calls and their names.                                   *)

(* What becomes of the table, and who does it.                             *)
LEMMA TableStep ==
  ASSUME ManagerInv, [Next]_vars
  PROVE  /\ Len(files) \in Nat /\ Len(files') \in Nat
         /\ \/ Table' = Table /\ Len(files') = Len(files)
            \/ \E p \in Stagers : /\ EnTake(p) /\ pc'[p] = "notify"
                                  /\ Table' = Table \ {Head(entries[p])}
                                  /\ Len(files') <= Len(files)
            \/ \E p \in Stagers : /\ TfRegister(p)
                                  /\ Table' = Table \cup {want[p]}
                                  /\ Len(files') = Len(files) + 1
            \/ \E f \in Paths : /\ Unregister(f) /\ Table' = Table \ {f}
                                /\ Len(files') <= Len(files)
            \/ /\ CleanupAllFiles \/ Crash
               /\ Table' = {} /\ Len(files') = 0
<1>1. ListTypes /\ PlaceTypes /\ Names /\ Dealing
  BY TypeParts DEF ManagerInv
<1>2. files \in Seq(Paths) /\ NoRepeats(files) /\ Len(files) \in Nat
  BY <1>1, OrderOfFiles DEF ListTypes
<1>3. CASE UNCHANGED files
  <2>1. Table' = Table
    BY <1>3 DEF Table
  <2> QED
    BY <1>2, <1>3, <2>1
<1>4. ASSUME NEW f, files' = Without(files, f)
      PROVE  Table' = Table \ {f} /\ Len(files') <= Len(files) /\ Len(files') \in Nat
  <2>1. /\ Without(files, f) \in Seq(Paths)
        /\ ToSet(Without(files, f)) = ToSet(files) \ {f}
        /\ Len(Without(files, f)) <= Len(files)
    BY <1>2, WithoutProperties
  <2>2. Len(Without(files, f)) \in Nat
    BY <2>1, OrderOfFiles
  <2> QED
    BY <1>4, <2>1, <2>2 DEF Table
<1>5. ASSUME NEW p \in Stagers, EnTake(p), files' # files
      PROVE  /\ EnTake(p) /\ pc'[p] = "notify"
             /\ Table' = Table \ {Head(entries[p])}
             /\ Len(files') <= Len(files) /\ Len(files') \in Nat
  <2>1. files' = Without(files, Head(entries[p])) /\ pc'[p] = "notify"
    BY <1>1, <1>5 DEF EnTake, EnGoto, PlaceTypes
  <2>2. /\ Table' = Table \ {Head(entries[p])}
        /\ Len(files') <= Len(files) /\ Len(files') \in Nat
    BY <1>4, <2>1
  <2> QED
    BY <1>5, <2>1, <2>2
<1>6. ASSUME NEW p \in Stagers, TfRegister(p)
      PROVE  /\ TfRegister(p) /\ Table' = Table \cup {want[p]}
             /\ Len(files') = Len(files) + 1 /\ Len(files') \in Nat
  <2>1. files' = Append(files, want[p]) /\ pc[p] = "register"
    BY <1>6 DEF TfRegister, EnReturn, EnGoto
  <2>2. want[p] \in Paths /\ want[p] \notin ToSet(files)
    BY <1>1, <2>1 DEF Names, Table
  <2>3. /\ ToSet(Append(files, want[p])) = ToSet(files) \cup {want[p]}
        /\ Len(Append(files, want[p])) = Len(files) + 1
    BY <1>2, <2>2, AppendNewProperties
  <2> QED
    BY <1>2, <1>6, <2>1, <2>3 DEF Table
<1>7. ASSUME NEW f \in Paths, UpdateAccess(f)
      PROVE  Table' = Table /\ Len(files') = Len(files)
  <2>1. files' = Used(files, f) /\ f \in ToSet(files)
    BY <1>7 DEF UpdateAccess, Table
  <2>2. /\ Used(files, f) \in Seq(Paths) /\ NoRepeats(Used(files, f))
        /\ ToSet(Used(files, f)) = ToSet(files) \cup {f}
    BY <1>2, UsedProperties
  <2>3. ToSet(files') = ToSet(files) /\ files' \in Seq(Paths) /\ NoRepeats(files')
    BY <2>1, <2>2
  <2>4. Len(files') = Cardinality(ToSet(files'))
    BY <2>3, LengthIsCardinality
  <2>5. Len(files) = Cardinality(ToSet(files))
    BY <1>2, LengthIsCardinality
  <2> QED
    BY <2>3, <2>4, <2>5 DEF Table
<1>8. ASSUME NEW f \in Paths, Unregister(f)
      PROVE  /\ Unregister(f) /\ Table' = Table \ {f}
             /\ Len(files') <= Len(files) /\ Len(files') \in Nat
  <2>1. files' = Without(files, f)
    BY <1>8 DEF Unregister
  <2> QED
    BY <1>4, <1>8, <2>1
<1>9. CASE CleanupAllFiles \/ Crash
  <2>1. files' = <<>>
    BY <1>9 DEF CleanupAllFiles, Crash
  <2>2. Table' = {} /\ Len(files') = 0
    BY <2>1, EmptyOrder DEF Table
  <2> QED
    BY <1>2, <1>9, <2>2
<1>10. \/ UNCHANGED files
       \/ \E p \in Stagers : EnTake(p) \/ TfRegister(p)
       \/ \E f \in Paths : UpdateAccess(f) \/ Unregister(f)
       \/ CleanupAllFiles \/ Crash
  <2>1. ASSUME NEW p \in Stagers,
               \/ EnCall(p) \/ EnFirstSpace(p) \/ EnSnapshot(p) \/ EnSpace(p)
               \/ EnCount(p) \/ EnNotify(p) \/ EnRemove(p) \/ EnLastSpace(p)
               \/ EnLastCount(p) \/ TfGiveUp(p) \/ TfCreate(p) \/ TfAbandon(p)
        PROVE  UNCHANGED files
    BY <2>1 DEF EnCall, EnFirstSpace, EnSnapshot, EnSpace, EnCount, EnNotify,
       EnRemove, EnLastSpace, EnLastCount, TfGiveUp, TfCreate, TfAbandon
  <2>2. ASSUME NEW f \in Paths, StOpen(f) \/ StRemove(f) PROVE UNCHANGED files
    BY <2>2 DEF StOpen, StRemove
  <2>3. CASE CleanupStaleFiles \/ UNCHANGED vars
    BY <2>3 DEF CleanupStaleFiles, vars
  <2> QED
    BY <2>1, <2>2, <2>3 DEF Next
<1>11. CASE \E p \in Stagers : EnTake(p) \/ TfRegister(p)
  BY <1>2, <1>3, <1>5, <1>6, <1>11
<1>12. CASE \E f \in Paths : UpdateAccess(f) \/ Unregister(f)
  BY <1>2, <1>7, <1>8, <1>12
<1> QED
  BY <1>3, <1>9, <1>10, <1>11, <1>12

(* Each store's life goes on by one of four kinds of step.                 *)
LEMMA LifeStep ==
  ASSUME ManagerInv, [Next]_vars
  PROVE  \/ UNCHANGED life
         \/ \E p \in Stagers :
              /\ pc[p] = "granted" /\ pc'[p] = "register" /\ want'[p] = want[p]
              /\ life' = [life EXCEPT ![want[p]] = "made"]
         \/ \E p \in Stagers :
              /\ pc[p] = "register" /\ pc'[p] = "idle"
              /\ \/ /\ life' = [life EXCEPT ![want[p]] = "none"] /\ Table' = Table
                 \/ /\ life' = [life EXCEPT ![want[p]] = "new"]
                    /\ TfRegister(p) /\ Table' = Table \cup {want[p]}
         \/ \E f \in Paths :
              \/ life[f] = "new" /\ life' = [life EXCEPT ![f] = "live"]
              \/ /\ life[f] = "live" /\ life' = [life EXCEPT ![f] = "closing"]
                 /\ f \notin Table'
              \/ life[f] = "closing" /\ life' = [life EXCEPT ![f] = "none"]
         \/ Crash /\ \A f \in Paths : life'[f] = "none"
<1>1. PlaceTypes /\ Names
  BY TypeParts DEF ManagerInv
<1>2. ASSUME NEW p \in Stagers,
             \/ EnCall(p) \/ EnFirstSpace(p) \/ EnSnapshot(p) \/ EnSpace(p)
             \/ EnCount(p) \/ EnTake(p) \/ EnNotify(p) \/ EnRemove(p)
             \/ EnLastSpace(p) \/ EnLastCount(p) \/ TfGiveUp(p)
      PROVE  UNCHANGED life
  BY <1>2 DEF EnCall, EnFirstSpace, EnSnapshot, EnSpace, EnCount, EnTake, EnNotify,
     EnRemove, EnLastSpace, EnLastCount, TfGiveUp, storeVars
<1>3. ASSUME NEW p \in Stagers, TfCreate(p)
      PROVE  /\ pc[p] = "granted" /\ pc'[p] = "register" /\ want'[p] = want[p]
             /\ life' = [life EXCEPT ![want[p]] = "made"]
  BY <1>1, <1>3 DEF TfCreate, EnGoto, PlaceTypes
<1>4. ASSUME NEW p \in Stagers, TfAbandon(p)
      PROVE  /\ pc[p] = "register" /\ pc'[p] = "idle" /\ Table' = Table
             /\ life' = [life EXCEPT ![want[p]] = "none"]
  BY <1>1, <1>4 DEF TfAbandon, EnReturn, EnGoto, PlaceTypes, Table
<1>5. ASSUME NEW p \in Stagers, TfRegister(p)
      PROVE  /\ pc[p] = "register" /\ pc'[p] = "idle"
             /\ life' = [life EXCEPT ![want[p]] = "new"]
             /\ TfRegister(p) /\ Table' = Table \cup {want[p]}
  <2>1. /\ pc[p] = "register" /\ pc'[p] = "idle"
        /\ life' = [life EXCEPT ![want[p]] = "new"]
        /\ files' = Append(files, want[p])
    BY <1>1, <1>5 DEF TfRegister, EnReturn, EnGoto, PlaceTypes
  <2>2. want[p] \in Paths /\ want[p] \notin ToSet(files)
    BY <1>1, <2>1 DEF Names, Table
  <2>3. files \in Seq(Paths) /\ NoRepeats(files)
    BY TypeParts DEF ManagerInv, ListTypes
  <2>4. ToSet(Append(files, want[p])) = ToSet(files) \cup {want[p]}
    BY <2>2, <2>3, AppendNewProperties
  <2> QED
    BY <1>5, <2>1, <2>4 DEF Table
<1>6. ASSUME NEW f \in Paths, StOpen(f) \/ UpdateAccess(f) \/ StRemove(f)
      PROVE  \/ UNCHANGED life
             \/ life[f] = "new" /\ life' = [life EXCEPT ![f] = "live"]
             \/ life[f] = "closing" /\ life' = [life EXCEPT ![f] = "none"]
  BY <1>6 DEF StOpen, UpdateAccess, StRemove, StGoto, storeVars
<1>7. ASSUME NEW f \in Paths, Unregister(f)
      PROVE  /\ life[f] = "live" /\ life' = [life EXCEPT ![f] = "closing"]
             /\ f \notin Table'
  <2>1. files \in Seq(Paths) /\ NoRepeats(files)
    BY TypeParts DEF ManagerInv, ListTypes
  <2>2. ToSet(Without(files, f)) = ToSet(files) \ {f}
    BY <2>1, WithoutProperties
  <2> QED
    BY <1>7, <2>2 DEF Unregister, StGoto, Table
<1>8. CASE Crash
  BY <1>8 DEF Crash
<1>9. CASE CleanupAllFiles \/ CleanupStaleFiles \/ UNCHANGED vars
  BY <1>9 DEF CleanupAllFiles, CleanupStaleFiles, vars, storeVars
<1>10. CASE \E p \in Stagers : TfCreate(p) \/ TfAbandon(p) \/ TfRegister(p)
  BY <1>3, <1>4, <1>5, <1>10
<1>11. CASE \E f \in Paths :
              StOpen(f) \/ UpdateAccess(f) \/ Unregister(f) \/ StRemove(f)
  BY <1>6, <1>7, <1>11
<1> QED
  <2>1. CASE UNCHANGED life
    BY <2>1
  <2> QED
    BY <2>1, <1>2, <1>8, <1>9, <1>10, <1>11 DEF Next

(* What a call does next: nothing, to end, to begin with a name of its     *)
(* own, or to go on, with the entries it has or those of the table.        *)
LEMMA CallStep ==
  ASSUME ManagerInv, [Next]_vars
  PROVE  /\ \A p \in Stagers :
              \/ UNCHANGED <<pc[p], want[p], entries[p], roomy[p]>>
              \/ pc'[p] = "idle" /\ ToSet(entries'[p]) = {}
              \/ EnCall(p)
              \/ /\ pc[p] # "idle" /\ pc'[p] # "idle" /\ want'[p] = want[p]
                 /\ roomy'[p] = roomy[p]
                 /\ pc'[p] = "register" => TfCreate(p) /\ pc[p] = "granted"
                 /\ pc[p] # "register" /\ pc'[p] # "firstSpace"
                 /\ pc'[p] = "granted" =>
                      \/ pc[p] = "firstSpace" /\ roomy[p]
                      \/ Len(files) < MaxTempFiles
                 /\ ToSet(entries'[p]) \subseteq ToSet(entries[p]) \cup Table
                 /\ pc'[p] = "notify" =>
                      entries'[p] = entries[p] /\ entries[p] # <<>>
                 /\ pc'[p] \in {"space", "count", "take"} => entries'[p] # <<>>
                 /\ pc'[p] = "remove" => EnNotify(p) /\ entries'[p] = entries[p]
         /\ \A p, q \in Stagers :
              p # q => \/ UNCHANGED <<pc[p], want[p], entries[p], roomy[p]>>
                       \/ UNCHANGED <<pc[q], want[q], entries[q], roomy[q]>>
                       \/ Crash
<1>1. /\ FlagTypes /\ ListTypes /\ PlaceTypes /\ Dealing
  BY TypeParts DEF ManagerInv
<1>2. Crash => \A p \in Stagers : pc'[p] = "idle" /\ ToSet(entries'[p]) = {}
  BY EmptyOrder DEF Crash
<1> DEFINE Same(p) == UNCHANGED <<pc[p], want[p], entries[p], roomy[p]>>
           Ends(p) == pc'[p] = "idle" /\ ToSet(entries'[p]) = {}
           GoesOn(p) ==
                 /\ pc[p] # "idle" /\ pc'[p] # "idle" /\ want'[p] = want[p]
                 /\ roomy'[p] = roomy[p]
                 /\ pc'[p] = "register" => TfCreate(p) /\ pc[p] = "granted"
                 /\ pc[p] # "register" /\ pc'[p] # "firstSpace"
                 /\ pc'[p] = "granted" =>
                      \/ pc[p] = "firstSpace" /\ roomy[p]
                      \/ Len(files) < MaxTempFiles
                 /\ ToSet(entries'[p]) \subseteq ToSet(entries[p]) \cup Table
                 /\ pc'[p] = "notify" =>
                      entries'[p] = entries[p] /\ entries[p] # <<>>
                 /\ pc'[p] \in {"space", "count", "take"} => entries'[p] # <<>>
                 /\ pc'[p] = "remove" => EnNotify(p) /\ entries'[p] = entries[p]
           Other(p) == \A q \in Stagers : q # p => Same(q)
<1>3. ASSUME NEW p \in Stagers, EnReturn(p, pc[p]) PROVE Ends(p) /\ Other(p)
  BY <1>1, <1>3, EmptyOrder
  DEF EnReturn, EnGoto, FlagTypes, ListTypes, PlaceTypes
<1>4. ASSUME NEW p \in Stagers, NEW to, EnGoto(p, pc[p], to),
             UNCHANGED <<want, roomy, entries>>
      PROVE  /\ pc'[p] = to /\ want'[p] = want[p] /\ entries'[p] = entries[p]
             /\ roomy'[p] = roomy[p] /\ Other(p)
  BY <1>1, <1>4 DEF EnGoto, PlaceTypes
<1>5. ASSUME NEW p \in Stagers, EnCall(p) PROVE Other(p)
  BY <1>1, <1>5 DEF EnCall, EnGoto, FlagTypes, PlaceTypes
<1>6. ASSUME NEW p \in Stagers, EnFirstSpace(p)
      PROVE  (GoesOn(p) \/ Ends(p)) /\ Other(p)
  <2>1. pc[p] = "firstSpace"
    BY <1>6 DEF EnFirstSpace
  <2>2. CASE EnReturn(p, "firstSpace")
    BY <1>3, <2>1, <2>2
  <2>3. ASSUME NEW to \in {"granted", "snapshot"},
               to = "granted" => roomy[p],
               EnGoto(p, "firstSpace", to), UNCHANGED <<want, roomy, entries>>
        PROVE  GoesOn(p) /\ Other(p)
    <3>1. /\ pc'[p] = to /\ want'[p] = want[p] /\ entries'[p] = entries[p]
          /\ roomy'[p] = roomy[p] /\ Other(p)
      BY <1>4, <2>1, <2>3
    <3> QED
      BY <2>1, <2>3, <3>1
  <2> DEFINE to == IF roomy[p] /\ spaceOK'[p] THEN "granted" ELSE "snapshot"
  <2>4. to \in {"granted", "snapshot"} /\ (to = "granted" => roomy[p])
    OBVIOUS
  <2>5. \/ EnReturn(p, "firstSpace")
        \/ EnGoto(p, "firstSpace", to) /\ UNCHANGED <<want, roomy, entries>>
    BY <1>6 DEF EnFirstSpace
  <2> HIDE DEF to, GoesOn, Other, Ends
  <2> QED
    BY <2>2, <2>3, <2>4, <2>5
<1>7. ASSUME NEW p \in Stagers, EnSnapshot(p) PROVE GoesOn(p) /\ Other(p)
  <2>1. /\ pc[p] = "snapshot" /\ pc'[p] = NextEntry(files)
        /\ entries' = [entries EXCEPT ![p] = files]
        /\ UNCHANGED <<want, roomy>> /\ pc' = [pc EXCEPT ![p] = NextEntry(files)]
    BY <1>1, <1>7 DEF EnSnapshot, EnGoto, PlaceTypes
  <2>2. entries'[p] = files /\ Other(p)
    BY <1>1, <2>1 DEF ListTypes, PlaceTypes
  <2>3. pc'[p] = "lastSpace" \/ (pc'[p] = "space" /\ files # <<>>)
    BY <2>1 DEF NextEntry
  <2> QED
    BY <2>1, <2>2, <2>3 DEF Table
<1>8. ASSUME NEW p \in Stagers, EnSpace(p) \/ EnCount(p)
      PROVE  (GoesOn(p) \/ Ends(p)) /\ Other(p)
  <2>1. entries[p] # <<>> /\ pc[p] \in {"space", "count"}
    BY <1>1, <1>8 DEF EnSpace, EnCount, EnReturn, EnGoto, Dealing
  <2>2. \/ EnReturn(p, pc[p])
        \/ \E to \in {"count", "lastSpace", "take"} :
             EnGoto(p, pc[p], to) /\ UNCHANGED <<want, roomy, entries>>
    BY <1>8 DEF EnSpace, EnCount, EnReturn, EnGoto, ensureVars
  <2>3. ASSUME NEW to \in {"count", "lastSpace", "take"},
               EnGoto(p, pc[p], to), UNCHANGED <<want, roomy, entries>>
        PROVE  GoesOn(p) /\ Other(p)
    BY <1>4, <2>1, <2>3
  <2> HIDE DEF GoesOn, Other, Ends
  <2> QED
    BY <1>3, <2>2, <2>3
<1>9. ASSUME NEW p \in Stagers, EnTake(p) PROVE (GoesOn(p) \/ Same(p)) /\ Other(p)
  <2>1. /\ pc[p] = "take" /\ UNCHANGED <<want, roomy, entries>>
        /\ \/ EnGoto(p, pc[p], "notify")
           \/ EnGoto(p, pc[p], "take")
    BY <1>9 DEF EnTake, EnGoto, ensureVars
  <2>2. entries[p] # <<>>
    BY <1>1, <2>1 DEF Dealing
  <2>3. CASE EnGoto(p, pc[p], "notify")
    <3>1. /\ pc'[p] = "notify" /\ want'[p] = want[p] /\ entries'[p] = entries[p]
          /\ roomy'[p] = roomy[p] /\ Other(p)
      BY <1>4, <2>1, <2>3
    <3> QED
      BY <3>1, <2>1, <2>2
  <2>4. CASE EnGoto(p, pc[p], "take")
    <3>1. /\ pc'[p] = "take" /\ want'[p] = want[p] /\ entries'[p] = entries[p]
          /\ roomy'[p] = roomy[p] /\ Other(p)
      BY <1>4, <2>1, <2>4
    <3> QED
      BY <3>1, <2>1, <2>2
  <2> QED
    BY <2>1, <2>3, <2>4
<1>10. ASSUME NEW p \in Stagers, EnNotify(p) PROVE GoesOn(p) /\ Other(p)
  <2>1. /\ pc[p] = "notify" /\ UNCHANGED <<want, roomy, entries>>
        /\ EnGoto(p, pc[p], "remove")
    BY <1>10 DEF EnNotify, EnGoto, ensureVars
  <2> QED
    <3>1. /\ pc'[p] = "remove" /\ want'[p] = want[p] /\ entries'[p] = entries[p]
          /\ roomy'[p] = roomy[p] /\ Other(p)
      BY <1>4, <2>1
    <3> QED
      BY <3>1, <1>10, <2>1
<1>11. ASSUME NEW p \in Stagers, EnRemove(p) PROVE GoesOn(p) /\ Other(p)
  <2>1. /\ pc[p] = "remove" /\ UNCHANGED <<want, roomy>>
        /\ entries' = [entries EXCEPT ![p] = Tail(entries[p])]
        /\ pc' = [pc EXCEPT ![p] = NextEntry(Tail(entries[p]))]
    BY <1>11 DEF EnRemove, EnGoto
  <2>2. /\ entries'[p] = Tail(entries[p]) /\ Other(p)
        /\ pc'[p] = NextEntry(Tail(entries[p]))
    BY <1>1, <2>1 DEF ListTypes, PlaceTypes
  <2>3. ToSet(Tail(entries[p])) \subseteq ToSet(entries[p])
    <3>1. entries[p] # <<>> /\ entries[p] \in Seq(Paths) /\ NoRepeats(entries[p])
      BY <1>1, <2>1 DEF Dealing, ListTypes
    <3>2. ToSet(Tail(entries[p])) = ToSet(entries[p]) \ {Head(entries[p])}
      BY <3>1, TailOrderProperties
    <3> QED
      BY <3>2
  <2>4. pc'[p] = "lastSpace" \/ (pc'[p] = "space" /\ entries'[p] # <<>>)
    BY <2>2 DEF NextEntry
  <2> QED
    BY <2>1, <2>2, <2>3, <2>4
<1>12. ASSUME NEW p \in Stagers, EnLastSpace(p)
       PROVE  (GoesOn(p) \/ Ends(p)) /\ Other(p)
  <2>1. /\ pc[p] = "lastSpace"
        /\ \/ EnReturn(p, pc[p])
           \/ EnGoto(p, pc[p], "lastCount") /\ UNCHANGED <<want, roomy, entries>>
    BY <1>12 DEF EnLastSpace, EnReturn, EnGoto
  <2>2. CASE EnReturn(p, pc[p])
    BY <1>3, <2>2
  <2>3. CASE EnGoto(p, pc[p], "lastCount") /\ UNCHANGED <<want, roomy, entries>>
    <3>1. /\ pc'[p] = "lastCount" /\ want'[p] = want[p] /\ entries'[p] = entries[p]
          /\ roomy'[p] = roomy[p] /\ Other(p)
      BY <1>4, <2>1, <2>3
    <3> QED
      BY <3>1, <2>1
  <2> HIDE DEF GoesOn, Other, Ends
  <2> QED
    BY <2>1, <2>2, <2>3
<1>13. ASSUME NEW p \in Stagers, EnLastCount(p)
       PROVE  (GoesOn(p) \/ Ends(p)) /\ Other(p)
  <2>1. \/ EnReturn(p, pc[p])
        \/ /\ EnGoto(p, "lastCount", "granted") /\ Len(files) < MaxTempFiles
           /\ entries' = [entries EXCEPT ![p] = <<>>] /\ UNCHANGED <<want, roomy>>
    BY <1>13 DEF EnLastCount, EnReturn, EnGoto
  <2>2. CASE EnReturn(p, pc[p])
    BY <1>3, <2>2
  <2>3. CASE /\ EnGoto(p, "lastCount", "granted") /\ Len(files) < MaxTempFiles
             /\ entries' = [entries EXCEPT ![p] = <<>>] /\ UNCHANGED <<want, roomy>>
    <3>1. /\ pc[p] = "lastCount" /\ pc'[p] = "granted" /\ entries'[p] = <<>>
          /\ Other(p)
      BY <1>1, <2>3 DEF EnGoto, ListTypes, PlaceTypes
    <3> QED
      BY <2>3, <3>1, EmptyOrder
  <2> HIDE DEF GoesOn, Other, Ends
  <2> QED
    BY <2>1, <2>2, <2>3
<1>14. ASSUME NEW p \in Stagers, TfGiveUp(p) \/ TfAbandon(p) \/ TfRegister(p)
       PROVE  Ends(p) /\ Other(p)
  <2>1. EnReturn(p, pc[p])
    BY <1>14 DEF TfGiveUp, TfAbandon, TfRegister, EnReturn, EnGoto
  <2> QED
    BY <1>3, <2>1
<1>15. ASSUME NEW p \in Stagers, TfCreate(p) PROVE GoesOn(p) /\ Other(p)
  <2>1. /\ pc[p] = "granted" /\ UNCHANGED <<want, roomy, entries>>
        /\ EnGoto(p, pc[p], "register")
    BY <1>15 DEF TfCreate, EnGoto, ensureVars
  <2> QED
    <3>1. /\ pc'[p] = "register" /\ want'[p] = want[p] /\ entries'[p] = entries[p]
          /\ roomy'[p] = roomy[p] /\ Other(p)
      BY <1>4, <2>1
    <3> QED
      BY <3>1, <1>15, <2>1
<1>16. ASSUME NEW f \in Paths,
              StOpen(f) \/ UpdateAccess(f) \/ Unregister(f) \/ StRemove(f)
       PROVE  \A p \in Stagers : Same(p)
  BY <1>16 DEF StOpen, UpdateAccess, Unregister, StRemove, ensureVars
<1>17. CASE CleanupAllFiles \/ CleanupStaleFiles \/ UNCHANGED vars
  <2>1. \A p \in Stagers : Same(p)
    BY <1>17 DEF CleanupAllFiles, CleanupStaleFiles, vars, ensureVars
  <2> HIDE DEF Same
  <2>2. \A p \in Stagers : Same(p) \/ Ends(p) \/ EnCall(p) \/ GoesOn(p)
    BY <2>1
  <2>3. \A p, q \in Stagers : p # q => Same(p) \/ Same(q) \/ Crash
    BY <2>1
  <2> USE DEF Same
  <2> QED
    BY <2>2, <2>3, Zenon
<1>18. ASSUME NEW r \in Stagers, Same(r) \/ Ends(r) \/ EnCall(r) \/ GoesOn(r), Other(r)
       PROVE  /\ \A p \in Stagers : Same(p) \/ Ends(p) \/ EnCall(p) \/ GoesOn(p)
              /\ \A p, q \in Stagers : p # q => Same(p) \/ Same(q) \/ Crash
  <2> HIDE DEF Same, Ends, GoesOn
  <2> QED
    BY <1>18
<1>19. CASE Crash
  <2>1. \A p \in Stagers : Ends(p)
    BY <1>2, <1>19
  <2> HIDE DEF Same, Ends, GoesOn
  <2>2. \A p \in Stagers : Same(p) \/ Ends(p) \/ EnCall(p) \/ GoesOn(p)
    BY <2>1
  <2>3. \A p, q \in Stagers : p # q => Same(p) \/ Same(q) \/ Crash
    BY <1>19
  <2> USE DEF Same, Ends, GoesOn
  <2> QED
    BY <2>2, <2>3, Zenon
<1>20. CASE \E r \in Stagers :
              (Same(r) \/ Ends(r) \/ EnCall(r) \/ GoesOn(r)) /\ Other(r)
  <2>1. /\ \A p \in Stagers : Same(p) \/ Ends(p) \/ EnCall(p) \/ GoesOn(p)
        /\ \A p, q \in Stagers : p # q => Same(p) \/ Same(q) \/ Crash
    <3> HIDE DEF Same, Ends, GoesOn, Other
    <3> QED
      BY <1>18, <1>20
  <2> QED
    BY <2>1, Zenon
<1>21. CASE \E f \in Paths :
              StOpen(f) \/ UpdateAccess(f) \/ Unregister(f) \/ StRemove(f)
  <2>1. \A p \in Stagers : Same(p)
    <3> HIDE DEF Same
    <3> QED
      BY <1>16, <1>21
  <2> HIDE DEF Same
  <2>2. \A p \in Stagers : Same(p) \/ Ends(p) \/ EnCall(p) \/ GoesOn(p)
    BY <2>1
  <2>3. \A p, q \in Stagers : p # q => Same(p) \/ Same(q) \/ Crash
    BY <2>1
  <2> USE DEF Same
  <2> QED
    BY <2>2, <2>3, Zenon
<1> HIDE DEF Same, Ends, GoesOn, Other
<1> QED
  BY <1>5, <1>6, <1>7, <1>8, <1>9, <1>10, <1>11, <1>12, <1>13, <1>14, <1>15,
     <1>17, <1>19, <1>20, <1>21 DEF Next

(* The life of a store whose name a call has changes by that call alone.   *)
LEMMA WantedLife ==
  ASSUME ManagerInv, [Next]_vars, NEW p \in Stagers,
         pc[p] # "idle", pc'[p] # "idle", want'[p] = want[p]
  PROVE  life'[want[p]] = IF pc'[p] = "register" THEN "made" ELSE "none"
<1>1. PlaceTypes /\ Names
  BY TypeParts DEF ManagerInv
<1>2. /\ want[p] \in Paths
      /\ life[want[p]] = IF pc[p] = "register" THEN "made" ELSE "none"
      /\ \A q \in Stagers : pc[q] # "idle" /\ want[q] = want[p] => q = p
      /\ \A q \in Stagers : pc[q] # "idle" => want[q] \in Paths
  BY <1>1 DEF Names
<1>3. ~Crash
  BY DEF Crash
<1>4. TfCreate(p) => life'[want[p]] = "made"
  BY <1>1, <1>2 DEF TfCreate, PlaceTypes
<1>5. CASE life'[want[p]] = life[want[p]]
  <2>1. pc'[p] = "register" => pc[p] = "register" \/ TfCreate(p)
    BY <1>1, CallStep DEF EnCall, EnGoto, PlaceTypes
  <2>2. pc[p] = "register" => pc'[p] = "register"
    BY CallStep DEF EnCall, EnGoto
  <2> QED
    BY <1>2, <1>4, <1>5, <2>1, <2>2
<1>6. ASSUME NEW r \in Stagers, pc[r] = "granted", pc'[r] = "register",
             life' = [life EXCEPT ![want[r]] = "made"]
      PROVE  life'[want[p]] = IF pc'[p] = "register" THEN "made" ELSE "none"
  <2>1. CASE r = p
    BY <1>1, <1>2, <1>6, <2>1 DEF PlaceTypes
  <2>2. CASE r # p
    BY <1>1, <1>2, <1>5, <1>6, <2>2 DEF PlaceTypes
  <2> QED
    BY <2>1, <2>2
<1>7. ASSUME NEW r \in Stagers, pc[r] = "register", pc'[r] = "idle",
             NEW v, life' = [life EXCEPT ![want[r]] = v]
      PROVE  life'[want[p]] = life[want[p]]
  BY <1>1, <1>2, <1>7 DEF PlaceTypes
<1>8. ASSUME NEW f \in Paths, life[f] \in {"new", "live", "closing"},
             NEW v, life' = [life EXCEPT ![f] = v]
      PROVE  life'[want[p]] = life[want[p]]
  BY <1>1, <1>2, <1>8 DEF PlaceTypes
<1> QED
  BY <1>3, <1>5, <1>6, <1>7, <1>8, LifeStep

LEMMA NamesStep == ManagerInv /\ [Next]_vars => Names'
<1> SUFFICES ASSUME ManagerInv, [Next]_vars PROVE Names'
  OBVIOUS
<1>1. ListTypes /\ PlaceTypes /\ Names
  BY TypeParts DEF ManagerInv
<1>2. ASSUME NEW p \in Stagers, EnCall(p)
      PROVE  /\ want'[p] \in Paths /\ pc'[p] = "firstSpace" /\ pc[p] = "idle"
             /\ life[want'[p]] = "none" /\ UNCHANGED <<entries, life>>
             /\ \A q \in Stagers : /\ want[q] # want'[p]
                                   /\ want'[p] \notin ToSet(entries[q])
  <2>1. PICK f \in Paths : Unused(f) /\ want' = [want EXCEPT ![p] = f]
    BY <1>2 DEF EnCall
  <2>2. want'[p] = f
    BY <1>1, <2>1 DEF PlaceTypes
  <2>3. \A q \in Stagers : Contains(entries[q], f) <=> f \in ToSet(entries[q])
    BY <1>1, OrderOfFiles DEF ListTypes
  <2>4. /\ pc'[p] = "firstSpace" /\ pc[p] = "idle" /\ UNCHANGED <<entries, life>>
    BY <1>1, <1>2 DEF EnCall, EnGoto, PlaceTypes, storeVars
  <2> QED
    BY <2>1, <2>2, <2>3, <2>4 DEF Unused
<1>3. ASSUME NEW p \in Stagers, pc'[p] # "idle", ~EnCall(p)
      PROVE  pc[p] # "idle" /\ want'[p] = want[p]
  BY <1>3, CallStep
<1>4. ASSUME NEW p \in Stagers, pc'[p] # "idle"
      PROVE  /\ want'[p] \in Paths
             /\ life'[want'[p]] = IF pc'[p] = "register" THEN "made" ELSE "none"
  <2>1. CASE EnCall(p)
    BY <1>2, <2>1
  <2>2. CASE ~EnCall(p)
    <3>1. pc[p] # "idle" /\ want'[p] = want[p]
      BY <1>3, <1>4, <2>2
    <3>2. life'[want[p]] = IF pc'[p] = "register" THEN "made" ELSE "none"
      BY <1>4, <3>1, WantedLife
    <3> QED
      BY <1>1, <3>1, <3>2 DEF Names
  <2> QED
    BY <2>1, <2>2
<1>5. ASSUME NEW p \in Stagers, pc'[p] # "idle", NEW q \in Stagers
      PROVE  want'[p] \notin ToSet(entries'[q])
  <2>1. CASE EnCall(p)
    BY <1>2, <2>1
  <2>2. CASE ~EnCall(p)
    <3>1. pc[p] # "idle" /\ want'[p] = want[p]
      BY <1>3, <1>5, <2>2
    <3>2. want[p] \notin ToSet(entries[q]) /\ want[p] \notin Table
      BY <1>1, <3>1 DEF Names
    <3>3. \/ entries'[q] = entries[q]
          \/ ToSet(entries'[q]) = {}
          \/ ToSet(entries'[q]) \subseteq ToSet(entries[q]) \cup Table
      BY <1>2, CallStep
    <3> QED
      BY <3>1, <3>2, <3>3
  <2> QED
    BY <2>1, <2>2
<1>6. ASSUME NEW p \in Stagers, NEW q \in Stagers,
             pc'[p] # "idle", pc'[q] # "idle", want'[p] = want'[q], p # q
      PROVE  FALSE
  <2>1. ~Crash
    BY <1>6 DEF Crash
  <2>2. ASSUME NEW r \in Stagers, NEW s \in Stagers, r # s, EnCall(r),
               want'[r] = want'[s]
        PROVE  FALSE
    <3>1. pc'[r] # pc[r] /\ \A t \in Stagers : want[t] # want'[r]
      BY <1>2, <2>2
    <3>2. want'[s] = want[s]
      BY <2>1, <2>2, <3>1, CallStep
    <3> QED
      BY <2>2, <3>1, <3>2
  <2>3. ~EnCall(p) /\ ~EnCall(q)
    BY <1>6, <2>2
  <2>4. /\ pc[p] # "idle" /\ want'[p] = want[p]
        /\ pc[q] # "idle" /\ want'[q] = want[q]
    BY <1>3, <1>6, <2>3
  <2> QED
    BY <1>1, <1>6, <2>4 DEF Names
<1>7. ASSUME NEW f \in Table' PROVE life'[f] \in {"new", "live"}
  <2>1. ASSUME NEW p \in Stagers, TfRegister(p), f = want[p]
        PROVE  life'[f] = "new"
    BY <1>1, <2>1 DEF TfRegister, EnReturn, EnGoto, Names, PlaceTypes
  <2>2. CASE f \in Table
    <3>1. life[f] \in {"new", "live"} /\ f \in Paths
      <4>1. Table \subseteq Paths
        BY <1>1, OrderOfFiles DEF ListTypes, Table
      <4> QED
        BY <1>1, <2>2, <4>1 DEF Names
    <3>2. ~Crash
      BY EmptyOrder DEF Crash, Table
    <3>3. ASSUME NEW p \in Stagers, pc[p] # "idle", NEW v,
                 life' = [life EXCEPT ![want[p]] = v]
          PROVE  life'[f] = life[f]
      BY <1>1, <3>1, <3>3 DEF Names, PlaceTypes
    <3>4. ASSUME NEW g \in Paths, NEW v, life' = [life EXCEPT ![g] = v], g # f
          PROVE  life'[f] = life[f]
      BY <1>1, <3>1, <3>4 DEF PlaceTypes
    <3>5. ASSUME life[f] = "new", life' = [life EXCEPT ![f] = "live"]
          PROVE  life'[f] = "live"
      BY <1>1, <3>1, <3>5 DEF PlaceTypes
    <3> QED
      BY <3>1, <3>2, <3>3, <3>4, <3>5, LifeStep
  <2>3. CASE f \notin Table
    BY <2>1, <2>3, TableStep
  <2> QED
    BY <2>2, <2>3
<1> QED
  BY <1>4, <1>5, <1>6, <1>7 DEF Names

-----------------------------------------------------------------------------
(* The entries dealt with.                                                 *)

(* A store that is there, or comes, and is not closed stays marked.        *)
LEMMA StaysMarked ==
  ASSUME ManagerInv, [Next]_vars, NEW f \in Paths,
         life'[f] \in {"new", "live"}, life[f] \in {"new", "live"}
  PROVE  /\ f \in evicted => f \in evicted'
         /\ f \in leftover => f \in leftover'
         /\ f \in cleaned => f \in cleaned'
<1>1. PlaceTypes /\ Names
  BY TypeParts DEF ManagerInv
<1>2. ~Crash /\ up /\ UNCHANGED up
  <2>1. up
    BY DEF ManagerInv, Down
  <2>2. ~Crash
    BY DEF Crash
  <2> QED
    BY <2>1, <2>2
    DEF Next, EnCall, EnFirstSpace, EnSnapshot, EnSpace, EnCount, EnTake, EnNotify,
        EnRemove, EnLastSpace, EnLastCount, TfGiveUp, TfCreate, TfAbandon,
        TfRegister, StOpen, UpdateAccess, Unregister, StRemove, CleanupAllFiles,
        CleanupStaleFiles, vars
<1>3. ASSUME NEW p \in Stagers, TfCreate(p) PROVE want[p] # f
  BY <1>1, <1>3 DEF TfCreate, EnGoto, Names
<1>4. ASSUME NEW g \in Paths, StRemove(g) PROVE g # f
  BY <1>1, <1>4 DEF StRemove, StGoto, PlaceTypes
<1>5. ASSUME NEW p \in Stagers, TfCreate(p)
      PROVE  /\ f \in evicted => f \in evicted'
             /\ f \in leftover => f \in leftover'
             /\ f \in cleaned => f \in cleaned'
  BY <1>3, <1>5 DEF TfCreate
<1>6. ASSUME NEW g \in Paths, StRemove(g)
      PROVE  /\ f \in evicted => f \in evicted'
             /\ f \in leftover => f \in leftover'
             /\ f \in cleaned => f \in cleaned'
  BY <1>4, <1>6 DEF StRemove, RemoveFile
<1>7. CASE /\ \A p \in Stagers : ~TfCreate(p)
           /\ \A g \in Paths : ~StRemove(g)
  BY <1>2, <1>7
  DEF Next, EnCall, EnFirstSpace, EnSnapshot, EnSpace, EnCount, EnTake, EnNotify,
      EnRemove, EnLastSpace, EnLastCount, TfGiveUp, TfAbandon, TfRegister, StOpen,
      UpdateAccess, Unregister, CleanupAllFiles, CleanupStaleFiles, vars,
      storeVars, RemoveFile
<1> QED
  BY <1>5, <1>6, <1>7

LEMMA DealingStep == ManagerInv /\ [Next]_vars => Dealing'
<1> SUFFICES ASSUME ManagerInv, [Next]_vars, NEW p \in Stagers
             PROVE  /\ pc'[p] \in {"space", "count", "take", "notify", "remove"} =>
                         entries'[p] # <<>>
                    /\ pc'[p] = "remove" /\ life'[Head(entries'[p])] \in {"new", "live"}
                         => Head(entries'[p]) \in evicted'
  BY DEF Dealing
<1>1. /\ ListTypes /\ PlaceTypes /\ Names /\ Dealing
  BY TypeParts DEF ManagerInv
<1>2. /\ pc[p] \in {"space", "count", "take", "notify", "remove"} =>
           entries[p] # <<>>
      /\ pc[p] = "remove" =>
           (life[Head(entries[p])] \in {"new", "live"} => Head(entries[p]) \in evicted)
  BY <1>1 DEF Dealing
<1>3. pc'[p] \in {"space", "count", "take", "notify", "remove"} =>
        entries'[p] # <<>>
  <2>1. EnCall(p) => pc'[p] = "firstSpace"
    BY <1>1 DEF EnCall, EnGoto, PlaceTypes
  <2>2. EnNotify(p) => pc[p] = "notify"
    BY DEF EnNotify, EnGoto
  <2> QED
    BY <1>2, <2>1, <2>2, CallStep
<1>4. ASSUME pc'[p] = "remove", life'[Head(entries'[p])] \in {"new", "live"}
      PROVE  Head(entries'[p]) \in evicted'
  <2>1. EnNotify(p) => pc[p] = "notify"
    BY DEF EnNotify, EnGoto
  <2>2. /\ entries'[p] = entries[p]
        /\ pc[p] = "remove" \/ EnNotify(p)
    BY <1>1, <1>4, CallStep DEF EnCall, EnGoto, PlaceTypes
  <2>3. entries[p] # <<>> /\ entries[p] \in Seq(Paths)
    BY <1>1, <1>2, <2>1, <2>2 DEF ListTypes
  <2> DEFINE f == Head(entries[p])
  <2>4. f \in Paths /\ f \in ToSet(entries[p])
    BY <2>3, OrderOfFiles
  <2>5. \A q \in Stagers : pc[q] # "idle" => want[q] # f
    BY <1>1, <2>4 DEF Names
  <2>6. life'[f] \in {"new", "live"}
    BY <1>4, <2>2
  <2> HIDE DEF f
  <2>7. life[f] \in {"new", "live"}
    <3>1. ASSUME NEW q \in Stagers, pc[q] # "idle", NEW v,
                 life' = [life EXCEPT ![want[q]] = v]
          PROVE  life'[f] = life[f]
      BY <1>1, <2>4, <2>5, <3>1 DEF PlaceTypes
    <3>2. ASSUME NEW g \in Paths, NEW v, life' = [life EXCEPT ![g] = v], g # f
          PROVE  life'[f] = life[f]
      BY <1>1, <2>4, <3>2 DEF PlaceTypes
    <3>3. ASSUME life[f] \in {"live", "closing"}, NEW v \in {"closing", "none"},
                 life' = [life EXCEPT ![f] = v]
          PROVE  FALSE
      BY <1>1, <2>4, <2>6, <3>3 DEF PlaceTypes
    <3>4. ~Crash
      BY <1>4 DEF Crash
    <3> QED
      BY <2>4, <2>6, <3>1, <3>2, <3>3, <3>4, LifeStep
  <2>8. CASE EnNotify(p)
    <3>1. f \in evicted'
      BY <2>7, <2>8 DEF EnNotify, f
    <3> QED
      BY <2>2, <3>1 DEF f
  <2>9. CASE pc[p] = "remove"
    <3>1. f \in evicted
      BY <1>2, <2>7, <2>9 DEF f
    <3>2. f \in evicted'
      BY <2>4, <2>6, <2>7, <3>1, StaysMarked
    <3> QED
      BY <2>2, <3>2 DEF f
  <2> QED
    BY <2>2, <2>8, <2>9
<1> QED
  BY <1>3, <1>4

LEMMA TypeStep == ManagerInv /\ [Next]_vars => TypeOK'
<1> SUFFICES ASSUME ManagerInv, [Next]_vars PROVE TypeOK'
  OBVIOUS
<1>1. FlagTypes' /\ ListTypes' /\ PlaceTypes'
  BY FlagStep, ListStep, PlaceStep
<1>2. Dealing'
  BY DealingStep
<1>3. EntryInHand'
  BY <1>2 DEF Dealing, EntryInHand
<1> QED
  BY <1>1, <1>3, Zenon DEF TypeOK, FlagTypes, ListTypes, PlaceTypes

LEMMA DownStep == ManagerInv /\ [Next]_vars => Down'
<1> SUFFICES ASSUME ManagerInv, [Next]_vars, ~up', NEW f \in Paths
             PROVE  life'[f] = "none"
  BY DEF Down
<1>1. CASE Crash
  BY <1>1 DEF Crash
<1>2. CASE ~Crash
  <2>1. ~CleanupStaleFiles
    BY DEF CleanupStaleFiles
  <2>2. CASE UNCHANGED vars
    BY <2>2 DEF ManagerInv, Down, vars, storeVars
  <2>3. ASSUME NEW p \in Stagers, NEW from, NEW to, EnGoto(p, from, to),
               UNCHANGED up
        PROVE  FALSE
    BY <2>3 DEF EnGoto, Alive
  <2>4. ASSUME NEW p \in Stagers,
               \/ EnCall(p) \/ EnFirstSpace(p) \/ EnSnapshot(p) \/ EnSpace(p)
               \/ EnCount(p) \/ EnTake(p) \/ EnNotify(p) \/ EnRemove(p)
               \/ EnLastSpace(p) \/ EnLastCount(p)
               \/ TfGiveUp(p) \/ TfCreate(p) \/ TfAbandon(p) \/ TfRegister(p)
        PROVE  FALSE
    BY <2>3, <2>4
    DEF EnCall, EnFirstSpace, EnSnapshot, EnSpace, EnCount, EnTake, EnNotify,
        EnRemove, EnLastSpace, EnLastCount, TfGiveUp, TfCreate, TfAbandon,
        TfRegister, EnReturn, ensureVars
  <2>5. ASSUME NEW g \in Paths,
               StOpen(g) \/ UpdateAccess(g) \/ Unregister(g) \/ StRemove(g)
        PROVE  FALSE
    BY <2>5 DEF StOpen, UpdateAccess, Unregister, StRemove, StGoto, Alive
  <2>6. ~CleanupAllFiles
    BY DEF CleanupAllFiles, Alive
  <2> QED
    BY <1>2, <2>1, <2>2, <2>4, <2>5, <2>6 DEF Next
<1> QED
  BY <1>1, <1>2

-----------------------------------------------------------------------------
(* The bound on the table.                                                 *)

LEMMA PassedFinite ==
  /\ IsFiniteSet(Stagers) /\ Cardinality(Stagers) \in Nat
  /\ \A S : S \subseteq Stagers =>
       /\ IsFiniteSet(S) /\ Cardinality(S) \in Nat
       /\ Cardinality(S) <= Cardinality(Stagers)
<1>1. IsFiniteSet(Stagers)
  BY ConstantsAssumption DEF ConstantsAssumption
<1> QED
  BY <1>1, FS_Subset, FS_CardinalityType

(* Whoever passes the check of the limit saw a table below it.             *)
LEMMA NewlyPassed ==
  ASSUME ManagerInv, [Next]_vars, NEW r \in Stagers, r \in Passed', r \notin Passed
  PROVE  Len(files) < MaxTempFiles
<1>1. FlagTypes /\ PlaceTypes
  BY TypeParts DEF ManagerInv
<1>2. \/ pc'[r] \in {"granted", "register"}
      \/ pc'[r] = "firstSpace" /\ roomy'[r]
  BY DEF Passed
<1>3. ~ (\/ pc[r] \in {"granted", "register"}
         \/ pc[r] = "firstSpace" /\ roomy[r])
  BY DEF Passed
<1>4. CASE EnCall(r)
  <2>1. /\ pc'[r] = "firstSpace"
        /\ roomy'[r] <=> Len(files) < MaxTempFiles
    BY <1>1, <1>4 DEF EnCall, EnGoto, FlagTypes, PlaceTypes
  <2> QED
    BY <1>2, <2>1
<1>5. CASE ~EnCall(r)
  <2>1. ~ UNCHANGED <<pc[r], want[r], entries[r], roomy[r]>>
    BY <1>2, <1>3
  <2>2. pc'[r] # "idle"
    BY <1>2
  <2> QED
    BY <1>2, <1>3, <1>5, <2>1, <2>2, CallStep
<1> QED
  BY <1>4, <1>5

LEMMA OverrunStep == ManagerInv /\ [Next]_vars => Overrun'
<1> SUFFICES ASSUME ManagerInv, [Next]_vars PROVE Overrun'
  OBVIOUS
<1>1. PlaceTypes /\ Overrun
  BY TypeParts DEF ManagerInv
<1>2. Passed \subseteq Stagers /\ Passed' \subseteq Stagers
  BY DEF Passed
<1>3. /\ Cardinality(Passed) \in Nat /\ Cardinality(Passed') \in Nat
      /\ Cardinality(Passed') <= Cardinality(Stagers)
      /\ IsFiniteSet(Passed) /\ Cardinality(Stagers) \in Nat
  BY <1>2, PassedFinite
<1>4. /\ Len(files) \in Nat /\ Len(files') \in Nat /\ MaxTempFiles \in Nat \ {0}
  BY TableStep, ConstantsAssumption DEF ConstantsAssumption
<1>5. ASSUME NEW p \in Stagers, TfRegister(p), Len(files') = Len(files) + 1
      PROVE  Overrun'
  <2>1. pc[p] = "register" /\ pc'[p] = "idle"
    BY <1>1, <1>5 DEF TfRegister, EnReturn, EnGoto, PlaceTypes
  <2>2. p \in Passed /\ p \notin Passed'
    BY <2>1 DEF Passed
  <2>3. Passed' \subseteq Passed \ {p}
    <3>1. ~Crash
      BY <1>5 DEF TfRegister, EnReturn, EnGoto, Alive, Crash
    <3>2. ASSUME NEW q \in Passed', q # p PROVE q \in Passed
      <4>1. UNCHANGED <<pc[q], want[q], entries[q], roomy[q]>>
        BY <1>2, <2>1, <3>1, <3>2, CallStep
      <4> QED
        BY <1>2, <3>2, <4>1 DEF Passed
    <3> QED
      BY <2>2, <3>2
  <2>4. IsFiniteSet(Passed \ {p})
    BY <1>3, FS_Subset
  <2>5. Cardinality(Passed') <= Cardinality(Passed \ {p})
    BY <2>3, <2>4, FS_Subset
  <2>6. Cardinality(Passed \ {p}) = Cardinality(Passed) - 1
    BY <1>3, <2>2, FS_RemoveElement
  <2> QED
    BY <1>1, <1>3, <1>4, <1>5, <2>5, <2>6 DEF Overrun
<1>6. CASE Len(files') <= Len(files)
  <2>1. CASE Passed' \subseteq Passed
    <3>1. Cardinality(Passed') <= Cardinality(Passed)
      BY <1>3, <2>1, FS_Subset
    <3> QED
      BY <1>1, <1>3, <1>4, <1>6, <3>1 DEF Overrun
  <2>2. ASSUME NEW r \in Passed', r \notin Passed PROVE Overrun'
    <3>1. Len(files) < MaxTempFiles
      BY <1>2, <2>2, NewlyPassed
    <3> QED
      BY <1>3, <1>4, <1>6, <3>1 DEF Overrun
  <2> QED
    BY <2>1, <2>2
<1> QED
  BY <1>4, <1>5, <1>6, TableStep

-----------------------------------------------------------------------------
(* The files on the disk and the stores without a file.                    *)

(* Who evicts a file does so until it has told the store and tried to      *)
(* remove the file.                                                        *)
LEMMA EvictingGoesOn ==
  ASSUME ManagerInv, [Next]_vars, Alive', up, NEW f \in Paths, Evicting(f)
  PROVE  \/ Evicting(f)'
         \/ /\ f \notin disk' \/ f \in leftover'
            /\ life'[f] \in {"new", "live"} => f \in evicted'
<1>1. /\ ListTypes /\ PlaceTypes /\ Names /\ Dealing
  BY TypeParts DEF ManagerInv
<1>2. PICK p \in Stagers : pc[p] \in {"notify", "remove"} /\ Head(entries[p]) = f
  BY DEF Evicting
<1>3. ~Crash
  BY DEF Crash, Alive
<1>4. CASE UNCHANGED <<pc[p], want[p], entries[p], roomy[p]>>
  <2>1. pc'[p] \in {"notify", "remove"} /\ Head(entries'[p]) = f
    BY <1>2, <1>4
  <2> QED
    BY <2>1 DEF Evicting
<1>5. CASE EnNotify(p)
  <2>1. pc'[p] = "remove" /\ entries'[p] = entries[p]
    BY <1>1, <1>5 DEF EnNotify, EnGoto, PlaceTypes, ensureVars
  <2> QED
    BY <1>2, <2>1 DEF Evicting
<1>6. CASE EnRemove(p)
  <2>1. f \notin disk' \/ f \in leftover'
    BY <1>2, <1>6 DEF EnRemove, RemoveFile
  <2>2. pc[p] = "remove" /\ UNCHANGED <<life, evicted>>
    BY <1>6 DEF EnRemove, EnGoto, storeVars
  <2>3. life'[f] \in {"new", "live"} => f \in evicted'
    BY <1>1, <1>2, <2>2 DEF Dealing
  <2> QED
    BY <2>1, <2>3
<1>7. \/ UNCHANGED <<pc[p], want[p], entries[p], roomy[p]>>
      \/ EnNotify(p)
      \/ EnRemove(p)
  <2>1. ASSUME NEW q \in Stagers,
               \/ EnCall(q) \/ EnFirstSpace(q) \/ EnSnapshot(q) \/ EnSpace(q)
               \/ EnCount(q) \/ EnTake(q) \/ EnNotify(q) \/ EnRemove(q)
               \/ EnLastSpace(q) \/ EnLastCount(q)
               \/ TfGiveUp(q) \/ TfCreate(q) \/ TfAbandon(q) \/ TfRegister(q)
        PROVE  \/ pc'[q] # pc[q]
               \/ UNCHANGED <<pc, want, entries, roomy>>
    <3> USE <1>1 DEF EnGoto, EnReturn, PlaceTypes, ensureVars
    <3>1. CASE EnCall(q) \/ EnFirstSpace(q) \/ EnSpace(q) \/ EnCount(q)
      BY <3>1 DEF EnCall, EnFirstSpace, EnSpace, EnCount
    <3>2. CASE EnTake(q)
      BY <3>2 DEF EnTake
    <3>3. CASE EnSnapshot(q) \/ EnNotify(q) \/ EnRemove(q) \/ EnLastSpace(q)
      BY <3>3 DEF EnSnapshot, EnNotify, EnRemove, EnLastSpace, NextEntry
    <3>4. CASE EnLastCount(q) \/ TfGiveUp(q) \/ TfCreate(q) \/ TfAbandon(q)
                 \/ TfRegister(q)
      BY <3>4 DEF EnLastCount, TfGiveUp, TfCreate, TfAbandon, TfRegister
    <3> QED
      BY <2>1, <3>1, <3>2, <3>3, <3>4
  <2>2. ASSUME NEW q \in Stagers, q # p, pc'[q] # pc[q]
        PROVE  UNCHANGED <<pc[p], want[p], entries[p], roomy[p]>>
    BY <1>3, <2>2, CallStep
  <2>3. ASSUME \/ EnCall(p) \/ EnFirstSpace(p) \/ EnSnapshot(p) \/ EnSpace(p)
               \/ EnCount(p) \/ EnTake(p)
               \/ EnLastSpace(p) \/ EnLastCount(p)
               \/ TfGiveUp(p) \/ TfCreate(p) \/ TfAbandon(p) \/ TfRegister(p)
        PROVE  FALSE
    BY <1>2, <2>3
    DEF EnCall, EnFirstSpace, EnSnapshot, EnSpace, EnCount, EnTake,
        EnLastSpace, EnLastCount, TfGiveUp, TfCreate, TfAbandon, TfRegister,
        EnGoto, EnReturn
  <2>4. ASSUME NEW g \in Paths,
               StOpen(g) \/ UpdateAccess(g) \/ Unregister(g) \/ StRemove(g)
        PROVE  UNCHANGED <<pc[p], want[p], entries[p], roomy[p]>>
    BY <2>4 DEF StOpen, UpdateAccess, Unregister, StRemove, ensureVars
  <2>5. CASE CleanupAllFiles \/ CleanupStaleFiles \/ UNCHANGED vars
    BY <2>5 DEF CleanupAllFiles, CleanupStaleFiles, vars, ensureVars
  <2>6. ASSUME NEW q \in Stagers,
               \/ EnCall(q) \/ EnFirstSpace(q) \/ EnSnapshot(q) \/ EnSpace(q)
               \/ EnCount(q) \/ EnTake(q) \/ EnNotify(q) \/ EnRemove(q)
               \/ EnLastSpace(q) \/ EnLastCount(q)
               \/ TfGiveUp(q) \/ TfCreate(q) \/ TfAbandon(q) \/ TfRegister(q)
        PROVE  \/ UNCHANGED <<pc[p], want[p], entries[p], roomy[p]>>
               \/ EnNotify(p)
               \/ EnRemove(p)
    <3>1. CASE q = p
      BY <2>3, <2>6, <3>1
    <3>2. CASE q # p
      BY <2>1, <2>2, <2>6, <3>2
    <3> QED
      BY <3>1, <3>2
  <2> QED
    BY <1>3, <2>4, <2>5, <2>6 DEF Next
<1> QED
  BY <1>4, <1>5, <1>6, <1>7

(* Only a new process is alive when the one before the step was not.       *)
LEMMA AliveBefore ==
  ASSUME [Next]_vars, Alive', ~CleanupStaleFiles
  PROVE  Alive /\ ~Crash
<1>1. ~Crash
  BY DEF Crash, Alive
<1>2. ASSUME NEW p \in Stagers,
             \/ EnCall(p) \/ EnFirstSpace(p) \/ EnSnapshot(p) \/ EnSpace(p)
             \/ EnCount(p) \/ EnTake(p) \/ EnNotify(p) \/ EnRemove(p)
             \/ EnLastSpace(p) \/ EnLastCount(p)
             \/ TfGiveUp(p) \/ TfCreate(p) \/ TfAbandon(p) \/ TfRegister(p)
      PROVE  Alive
  BY <1>2
  DEF EnCall, EnFirstSpace, EnSnapshot, EnSpace, EnCount, EnTake, EnNotify,
      EnRemove, EnLastSpace, EnLastCount, TfGiveUp, TfCreate, TfAbandon,
      TfRegister, EnReturn, EnGoto
<1>3. ASSUME NEW f \in Paths,
             StOpen(f) \/ UpdateAccess(f) \/ Unregister(f) \/ StRemove(f)
      PROVE  Alive
  BY <1>3 DEF StOpen, UpdateAccess, Unregister, StRemove, StGoto
<1>4. CASE CleanupAllFiles
  BY <1>1, <1>4 DEF CleanupAllFiles
<1>5. CASE UNCHANGED vars
  BY <1>1, <1>5 DEF vars, Alive
<1> QED
  BY <1>1, <1>2, <1>3, <1>4, <1>5 DEF Next

LEMMA EvictionKnownStep == ManagerInv /\ [Next]_vars => EvictionKnown'
<1> SUFFICES ASSUME ManagerInv, [Next]_vars, Alive', NEW f \in Paths,
                    life'[f] \in {"new", "live"}, f \notin Table'
             PROVE  f \in evicted' \/ f \in cleaned' \/ f \in leftover' \/ Evicting(f)'
  BY DEF EvictionKnown
<1>1. /\ ListTypes /\ PlaceTypes /\ Names /\ Dealing /\ EvictionKnown
  BY TypeParts DEF ManagerInv
<1>2. ~CleanupStaleFiles
  BY DEF CleanupStaleFiles, storeVars, ManagerInv, Down
<1>3. Alive /\ up /\ ~Crash
  BY <1>2, AliveBefore DEF Alive
<1>4. life[f] \in {"new", "live"}
  <2>1. ASSUME NEW p \in Stagers, pc[p] = "register", NEW v \in {"none", "new"},
               life' = [life EXCEPT ![want[p]] = v],
               v = "new" => Table' = Table \cup {want[p]}
        PROVE  life'[f] = life[f]
    BY <1>1, <2>1 DEF PlaceTypes, Names
  <2>2. ASSUME NEW p \in Stagers, pc[p] = "granted",
               life' = [life EXCEPT ![want[p]] = "made"]
        PROVE  life'[f] = life[f]
    BY <1>1, <2>2 DEF PlaceTypes, Names
  <2>3. ASSUME NEW g \in Paths, life[g] \in {"live", "closing"},
               NEW v \in {"closing", "none"}, life' = [life EXCEPT ![g] = v]
        PROVE  life'[f] = life[f]
    BY <1>1, <2>3 DEF PlaceTypes
  <2>4. ASSUME NEW g \in Paths, life[g] = "new",
               life' = [life EXCEPT ![g] = "live"]
        PROVE  life[f] \in {"new", "live"}
    BY <1>1, <2>4 DEF PlaceTypes
  <2> QED
    BY <1>3, <2>1, <2>2, <2>3, <2>4, LifeStep
<1>5. CASE f \notin Table
  <2>1. f \in evicted \/ f \in cleaned \/ f \in leftover \/ Evicting(f)
    BY <1>1, <1>3, <1>4, <1>5 DEF EvictionKnown
  <2>2. CASE Evicting(f)
    BY <1>3, <2>2, EvictingGoesOn
  <2> QED
    BY <1>4, <2>1, <2>2, StaysMarked
<1>6. CASE f \in Table
  <2>1. ASSUME NEW p \in Stagers, EnTake(p), pc'[p] = "notify",
               f = Head(entries[p])
        PROVE  Evicting(f)'
    <3>1. UNCHANGED entries
      BY <2>1 DEF EnTake, ensureVars
    <3> QED
      BY <2>1, <3>1 DEF Evicting
  <2>2. ~Unregister(f)
    BY <1>1 DEF Unregister, StGoto, PlaceTypes
  <2>3. CASE CleanupAllFiles
    BY <1>6, <2>3 DEF CleanupAllFiles
  <2> QED
    BY <1>3, <1>6, <2>1, <2>2, <2>3, TableStep
<1> QED
  BY <1>5, <1>6

(* A store that is given up or closed removes its file, or fails to.       *)
LEMMA RemovedAtTheEnd ==
  ASSUME ManagerInv, [Next]_vars, ~Crash, NEW f \in Paths,
         life[f] # "none", life'[f] = "none", f \in disk'
  PROVE  f \in leftover'
<1>1. PlaceTypes /\ Names
  BY TypeParts DEF ManagerInv
<1>2. ASSUME NEW p \in Stagers, TfAbandon(p) PROVE f \in leftover'
  <2>1. want[p] = f
    BY <1>1, <1>2 DEF TfAbandon, PlaceTypes
  <2> QED
    BY <1>2, <2>1 DEF TfAbandon, RemoveFile
<1>3. ASSUME NEW g \in Paths, StRemove(g) PROVE f \in leftover'
  <2>1. g = f
    BY <1>1, <1>3 DEF StRemove, StGoto, PlaceTypes
  <2> QED
    BY <1>3, <2>1 DEF StRemove, RemoveFile
<1>4. ASSUME NEW p \in Stagers, TfCreate(p) \/ TfRegister(p) PROVE FALSE
  BY <1>1, <1>4 DEF TfCreate, TfRegister, PlaceTypes
<1>5. ASSUME NEW g \in Paths, StOpen(g) \/ Unregister(g) PROVE FALSE
  BY <1>1, <1>5 DEF StOpen, Unregister, StGoto, PlaceTypes
<1>6. ~UNCHANGED life
  OBVIOUS
<1>7. ASSUME NEW p \in Stagers,
             \/ EnCall(p) \/ EnFirstSpace(p) \/ EnSnapshot(p) \/ EnSpace(p)
             \/ EnCount(p) \/ EnTake(p) \/ EnNotify(p) \/ EnRemove(p)
             \/ EnLastSpace(p) \/ EnLastCount(p) \/ TfGiveUp(p)
      PROVE  FALSE
  BY <1>6, <1>7 DEF EnCall, EnFirstSpace, EnSnapshot, EnSpace, EnCount, EnTake,
     EnNotify, EnRemove, EnLastSpace, EnLastCount, TfGiveUp, storeVars
<1>8. ASSUME NEW g \in Paths, UpdateAccess(g) PROVE FALSE
  BY <1>6, <1>8 DEF UpdateAccess, storeVars
<1>9. ~CleanupAllFiles /\ ~CleanupStaleFiles /\ ~UNCHANGED vars
  BY <1>6 DEF CleanupAllFiles, CleanupStaleFiles, vars, storeVars
<1> QED
  BY <1>2, <1>3, <1>4, <1>5, <1>7, <1>8, <1>9 DEF Next

(* Without a store a name gets no file, and is left over if it was.        *)
LEMMA NoStoreNoFile ==
  ASSUME ManagerInv, [Next]_vars, ~Crash, ~CleanupStaleFiles, NEW f \in Paths,
         life'[f] = "none"
  PROVE  /\ f \in disk' => f \in disk
         /\ f \in leftover => f \in leftover'
<1>1. PlaceTypes /\ Names
  BY TypeParts DEF ManagerInv
<1>2. ASSUME NEW p \in Stagers, TfCreate(p)
      PROVE  /\ f \in disk' => f \in disk
             /\ f \in leftover => f \in leftover'
  <2>1. want[p] # f
    BY <1>1, <1>2 DEF TfCreate, PlaceTypes
  <2> QED
    BY <1>2, <2>1 DEF TfCreate
<1>3. ASSUME NEW g \in Paths, StOpen(g)
      PROVE  /\ f \in disk' => f \in disk
             /\ f \in leftover => f \in leftover'
  <2>1. g # f
    BY <1>1, <1>3 DEF StOpen, StGoto, PlaceTypes
  <2> QED
    BY <1>3, <2>1 DEF StOpen
<1>4. CASE /\ \A p \in Stagers : ~TfCreate(p)
           /\ \A g \in Paths : ~StOpen(g)
  BY <1>4
  DEF Next, EnCall, EnFirstSpace, EnSnapshot, EnSpace, EnCount, EnTake, EnNotify,
      EnRemove, EnLastSpace, EnLastCount, TfGiveUp, TfAbandon, TfRegister,
      UpdateAccess, Unregister, StRemove, CleanupAllFiles, vars, RemoveFile
<1> QED
  BY <1>2, <1>3, <1>4

LEMMA NoFileLostStep == ManagerInv /\ [Next]_vars => NoFileLost'
<1> SUFFICES ASSUME ManagerInv, [Next]_vars, Alive', NEW f \in disk'
             PROVE  \/ f \in Table'
                    \/ life'[f] \in {"made", "closing"} \/ Evicting(f)'
                    \/ f \in leftover'
                    \/ /\ life'[f] \in {"new", "live"}
                       /\ f \in evicted' \/ f \in cleaned'
  BY DEF NoFileLost
<1>1. PlaceTypes /\ Names /\ NoFileLost
  BY TypeParts DEF ManagerInv
<1>2. f \in Paths /\ life'[f] \in {"none", "made", "new", "live", "closing"}
  BY PlaceStep DEF PlaceTypes
<1>3. CASE CleanupStaleFiles
  BY <1>3 DEF CleanupStaleFiles
<1>4. CASE life'[f] \in {"new", "live"}
  <2>1. EvictionKnown'
    BY EvictionKnownStep
  <2> QED
    BY <1>2, <1>4, <2>1 DEF EvictionKnown
<1>5. CASE ~CleanupStaleFiles /\ life'[f] = "none"
  <2>1. Alive /\ up /\ ~Crash
    BY <1>5, AliveBefore DEF Alive
  <2>2. CASE life[f] # "none"
    BY <1>2, <1>5, <2>1, <2>2, RemovedAtTheEnd
  <2>3. CASE life[f] = "none"
    <3>1. /\ f \in disk
          /\ f \in leftover => f \in leftover'
      BY <1>2, <1>5, <2>1, NoStoreNoFile
    <3>2. f \in leftover \/ Evicting(f)
      BY <1>1, <2>1, <2>3, <3>1 DEF NoFileLost, Names
    <3>3. CASE Evicting(f)
      BY <1>2, <2>1, <3>3, EvictingGoesOn
    <3> QED
      BY <3>1, <3>2, <3>3
  <2> QED
    BY <2>2, <2>3
<1> QED
  BY <1>2, <1>3, <1>4, <1>5

-----------------------------------------------------------------------------
(* The theorems.                                                           *)

(* ManagerInv holds in every state of the manager.                         *)
THEOREM ManagerInvariant == Spec => []ManagerInv
<1>1. Init => ManagerInv
  BY ManagerInitial
<1>2. ManagerInv /\ [Next]_vars => ManagerInv'
  <2> SUFFICES ASSUME ManagerInv, [Next]_vars PROVE ManagerInv'
    OBVIOUS
  <2>1. TypeOK' /\ Names' /\ Dealing' /\ Down' /\ Overrun'
    BY TypeStep, NamesStep, DealingStep, DownStep, OverrunStep
  <2>2. NoFileLost' /\ EvictionKnown'
    BY NoFileLostStep, EvictionKnownStep
  <2> QED
    BY <2>1, <2>2 DEF ManagerInv
<1> QED
  BY <1>1, <1>2, PTL DEF Spec

(* No variable ever holds a value that the code cannot give it, and no     *)
(* eviction goes past the last entry of its snapshot.                      *)
THEOREM ManagerTypeCorrect == Spec => []TypeOK
<1>1. ManagerInv => TypeOK
  BY DEF ManagerInv
<1> QED
  BY <1>1, ManagerInvariant, PTL

(* No temporary file is lost: one on the disk is in the table, or somebody *)
(* will still remove it, or an os.Remove of it failed.                     *)
THEOREM NoTempFileLost == Spec => []NoFileLost
<1>1. ManagerInv => NoFileLost
  BY DEF ManagerInv
<1> QED
  BY <1>1, ManagerInvariant, PTL

(* A store whose file the eviction has removed was told of it first.       *)
THEOREM EvictionsKnown == Spec => []EvictionKnown
<1>1. ManagerInv => EvictionKnown
  BY DEF ManagerInv
<1> QED
  BY <1>1, ManagerInvariant, PTL

(* However the stagings overlap, the table is at most one file over the    *)
(* limit for each other stager.                                            *)
THEOREM OverrunIsBounded == Spec => []OverrunBounded
<1>1. ManagerInv => OverrunBounded
  <2> SUFFICES ASSUME ManagerInv PROVE OverrunBounded
    OBVIOUS
  <2>1. Overrun /\ Len(files) \in Nat
    BY TypeParts, OrderOfFiles DEF ManagerInv, ListTypes
  <2>2. Passed \subseteq Stagers
    BY DEF Passed
  <2>3. Cardinality(Passed) \in Nat /\ Cardinality(Stagers) \in Nat
    BY <2>2, PassedFinite
  <2>4. MaxTempFiles \in Nat
    BY ConstantsAssumption DEF ConstantsAssumption
  <2> QED
    BY <2>1, <2>3, <2>4 DEF Overrun, OverrunBounded
<1> QED
  BY <1>1, ManagerInvariant, PTL
=============================================================================
