------------------------ MODULE CollectionNamesProofs ------------------------
(***************************************************************************)
(* Theorems about the names of collections: where they are written, that   *)
(* they stay, and that a Collection which says it is Ready means the one   *)
(* its config map shows.  Each names the edits by others that it excludes; *)
(* failed requests, lost answers and crashes are never excluded.           *)
(***************************************************************************)
EXTENDS CollectionProofs

Excluded(kinds) == kinds \cap Disruptions = {}

LEMMA ExcludedNeverHappens ==
    ASSUME NEW kinds, Excluded(kinds), NEW kind \in kinds
    PROVE  ~Disrupt(kind)
BY DEF Excluded, Disrupt

-----------------------------------------------------------------------------
(* What the steps that deal with the config map do, to it and to the pass. *)

LEMMA ObserveEffect ==
    ASSUME Parts, Observe
    PROVE  /\ pc = "observe" /\ ReadMap
           /\ pc' = AfterObserving(ObservedStatus)
           /\ w'.key = w.key /\ w'.status = ObservedStatus
           /\ M' = M
           /\ UNCHANGED <<inSolr, collection, collectionCache, collectionHeld,
                          configMap, configMapCache, configMapHeld, owner,
                          dangling>>
<1>1. /\ pc = "observe" /\ ReadMap /\ w \in Work
      /\ GoTo(AfterObserving(ObservedStatus), ObservedStatus)
  BY Zenon DEF Observe, ObservedStatus, Parts, WorkerInv
<1>2. ObservedStatus \in Status
  BY <1>1, ObservedFacts
<1> QED
  BY <1>1, <1>2, GoToType DEF ReadMap, elsewhere, ownerVars, M

(* A step that generates a name: it is one that nobody has.                *)
Generates(st) ==
    /\ pc' = "updateMap"
    /\ w'.status.name \in Fresh
    /\ w'.status.ConfigMapAvailable = st.ConfigMapAvailable

LEMMA GenerateNameEffect ==
    ASSUME Parts, NEW st \in Status, NEW created \in BOOLEAN,
           GenerateName(st, created)
    PROVE  /\ Generates(st)
           /\ w'.key = w.key
           /\ M' = M
           /\ collectionHeld' = collectionHeld
<1>1. Fresh \in SUBSET Names
  BY DEF Fresh
<1>2. PICK n \in Fresh :
        Continue("updateMap",
                 [w EXCEPT !.created = created,
                           !.status = [st EXCEPT !.name = n,
                              !.ConfigMapHasCollection = "GeneratedCollectionName"]])
  BY <1>1, CollectionApiAssumption DEF GenerateName
<1>3. w'.status = [st EXCEPT !.name = n,
                     !.ConfigMapHasCollection = "GeneratedCollectionName"]
  BY <1>2 DEF Continue, Parts, WorkerInv, Work
<1>4. w'.status.name = n /\ w'.status.ConfigMapAvailable = st.ConfigMapAvailable
  BY <1>3 DEF Status
<1> QED
  BY <1>2, <1>4 DEF Continue, Generates, Parts, WorkerInv, Work, M

LEMMA CreateMapEffect ==
    ASSUME Parts, CreateMap
    PROVE  /\ pc = "createMap"
           /\ w'.key = w.key /\ M' = M
           /\ UNCHANGED <<inSolr, collection, collectionCache, collectionHeld,
                          configMapCache, owner, dangling>>
           /\ \/ UNCHANGED configMap
              \/ /\ M \in Maps /\ configMap[M] = NONE
                 /\ configMap' = [configMap EXCEPT ![M] = EmptyMap]
           /\ \/ pc' = "status" /\ w'.status = w.status
              \/ /\ Generates(w.status)
                 /\ M \in Maps
                 /\ configMapHeld' = {M}
                 /\ configMap' = [configMap EXCEPT ![M] = EmptyMap]
<1> DEFINE st == [w.status EXCEPT !.ConfigMapExists = "Created"]
<1>1. PICK o \in Outcomes :
        /\ ApiWrite(M # NONE /\ configMap[M] = NONE, o)
        /\ IF Applied(o) THEN PutMap(M, EmptyMap)
                         ELSE UNCHANGED <<configMap, configMapLag>>
        /\ \/ Failed(o) /\ GoTo("status", w.status)
           \/ /\ ~Failed(o)
              /\ GenerateName(st, TRUE)
              /\ configMapHeld' = {M}
  BY DEF CreateMap
<1>2. /\ pc = "createMap" /\ w \in Work /\ w.status \in Status
      /\ UNCHANGED <<inSolr, collection, collectionCache, configMapCache, owner,
                     dangling>>
  BY DEF CreateMap, elsewhere, ownerVars, Parts, WorkerInv, Work
<1>3. /\ st \in Status
      /\ st.ConfigMapAvailable = w.status.ConfigMapAvailable
  <2>1. st \in Status
    BY <1>2, StatusType DEF Reasons, TrueReasons
  <2>2. st.ConfigMapAvailable = w.status.ConfigMapAvailable
    BY <1>2 DEF Status
  <2> QED
    BY <2>1, <2>2
<1>4. Applied(o) => /\ M \in Maps /\ configMap[M] = NONE
                    /\ configMap' = [configMap EXCEPT ![M] = EmptyMap]
  <2>1. Applied(o) => M # NONE /\ configMap[M] = NONE
    BY <1>1 DEF ApiWrite, Applied
  <2>2. M \in Maps \cup {NONE}
    BY <1>2, CachedMapType
  <2> QED
    BY <1>1, <2>1, <2>2 DEF PutMap
<1>5. UNCHANGED configMap \/ Applied(o)
  BY <1>1
<1>6. CASE Failed(o) /\ GoTo("status", w.status)
  <2>1. /\ pc' = "status" /\ w'.status = w.status /\ w'.key = w.key
        /\ collectionHeld' = collectionHeld
    BY <1>2, <1>6, GoToType
  <2> QED
    BY <1>2, <1>4, <1>5, <2>1 DEF M
<1>7. CASE ~Failed(o) /\ GenerateName(st, TRUE) /\ configMapHeld' = {M}
  <2>1. Applied(o)
    BY <1>1, <1>7 DEF ApiWrite, Failed, Applied
  <2> HIDE DEF st
  <2>2. /\ Generates(st) /\ w'.key = w.key /\ M' = M
        /\ collectionHeld' = collectionHeld
    BY <1>3, <1>7, GenerateNameEffect
  <2> QED
    BY <1>2, <1>3, <1>4, <1>7, <2>1, <2>2 DEF Generates
<1> QED
  BY <1>1, <1>6, <1>7

LEMMA GetMapEffect ==
    ASSUME Parts, GetMap
    PROVE  /\ pc = "getMap" /\ ReadMap
           /\ w'.key = w.key /\ M' = M
           /\ UNCHANGED <<inSolr, collection, collectionCache, collectionHeld,
                          configMap, configMapCache, owner, dangling>>
           /\ \/ pc' = "status" /\ w'.status = w.status
              \/ /\ Generates(w.status)
                 /\ configMapHeld' = {M} \ configMapLag
<1>1. /\ pc = "getMap" /\ ReadMap /\ w \in Work /\ w.status \in Status
      /\ \/ GoTo("status", w.status)
         \/ GenerateName(w.status, FALSE) /\ configMapHeld' = {M} \ configMapLag
      /\ UNCHANGED <<inSolr, collection, collectionCache, configMap,
                     configMapCache, owner, dangling>>
  BY DEF GetMap, ReadMap, elsewhere, ownerVars, Parts, WorkerInv, Work
<1>2. CASE GoTo("status", w.status)
  BY <1>1, <1>2, GoToType DEF M
<1>3. CASE GenerateName(w.status, FALSE) /\ configMapHeld' = {M} \ configMapLag
  BY <1>1, <1>3, GenerateNameEffect
<1> QED
  BY <1>1, <1>2, <1>3

(* The name goes into the config map, if it is as it was read.             *)
PutsName ==
    /\ M \in configMapHeld
    /\ configMap' = [configMap EXCEPT ![M] = [name |-> w.status.name]]
    /\ \/ UNCHANGED <<owner, dangling>>
       \/ /\ owner' = [owner EXCEPT ![M] = w.key]
          /\ dangling' = IF collection[w.key] = NONE THEN dangling \cup {M}
                                                     ELSE dangling

LEMMA UpdateMapEffect ==
    ASSUME Parts, UpdateMap
    PROVE  /\ pc = "updateMap" /\ M \in Maps /\ w.key \in Collections
           /\ pc' = "status"
           /\ w'.key = w.key /\ M' = M
           /\ UNCHANGED <<inSolr, collection, collectionCache, collectionHeld,
                          configMapCache>>
           /\ w'.status.name = w.status.name
           /\ \/ PutsName
              \/ /\ UNCHANGED <<configMap, owner, dangling>>
                 /\ w'.status = w.status
<1>1. PICK o \in Outcomes :
        /\ ApiWrite(M \in configMapHeld, o)
        /\ IF Applied(o) THEN PutMap(M, [name |-> w.status.name])
                         ELSE UNCHANGED <<configMap, configMapLag>>
        /\ IF Applied(o) /\ SetsOwner
             THEN /\ owner' = [owner EXCEPT ![M] = w.key]
                  /\ dangling' = IF collection[w.key] = NONE THEN dangling \cup {M}
                                                             ELSE dangling
             ELSE UNCHANGED ownerVars
        /\ GoTo("status", IF Failed(o) THEN w.status ELSE CheckMapStatus(w.status))
  BY DEF UpdateMap
<1>2. /\ pc = "updateMap" /\ w \in Work /\ w.status \in Status
      /\ M \in Maps /\ w.key \in Collections
      /\ UNCHANGED <<inSolr, collection, collectionCache, configMapCache>>
  BY DEF UpdateMap, elsewhere, Parts, WorkerInv, Work, PassConsistent
<1> DEFINE st == IF Failed(o) THEN w.status ELSE CheckMapStatus(w.status)
<1>3. /\ st \in Status /\ st.name = w.status.name
      /\ Failed(o) => st = w.status
      /\ GoTo("status", st)
  BY <1>1, <1>2, CheckMapStatusType DEF CheckMapStatus, Status
<1> HIDE DEF st
<1>4. /\ pc' = "status" /\ w'.key = w.key /\ w'.status = st
      /\ collectionHeld' = collectionHeld
  BY <1>2, <1>3, GoToType
<1>5. /\ Applied(o) => M \in configMapHeld
      /\ ~Applied(o) => Failed(o)
  BY <1>1 DEF ApiWrite, Applied, Failed
<1>6. CASE Applied(o)
  <2>1. PutsName
    BY <1>1, <1>5, <1>6 DEF PutsName, PutMap, ownerVars
  <2> QED
    BY <1>2, <1>3, <1>4, <2>1 DEF M
<1>7. CASE ~Applied(o)
  <2>1. UNCHANGED <<configMap, owner, dangling>>
    BY <1>1, <1>7 DEF ownerVars
  <2> QED
    BY <1>2, <1>3, <1>4, <1>5, <1>7, <2>1 DEF M
<1> QED
  BY <1>6, <1>7

LEMMA SolrStepsEffect ==
    ASSUME Parts, CheckExists \/ DeleteFromSolr
    PROVE  /\ pc' \in {"idle", "deleteCollection", "removeFinalizer"}
           /\ UNCHANGED <<collection, collectionCache, configMap, configMapCache,
                          owner, dangling>>
<1>1. PassGoesOn
  BY OtherSteps
<1>2. pc \in {"checkExists", "deleteCollection"}
  BY DEF CheckExists, DeleteFromSolr
<1> QED
  BY <1>1, <1>2
     DEF PassGoesOn, EnsureLabels, CheckExists, DeleteFromSolr, kubernetesVars,
         ownerVars

(* A map the worker reads, when caches are never behind.                   *)
LEMMA ReadMapIsCurrent ==
    ASSUME Parts, pc # "idle", ReadMap, ~Disrupt("stale"), CachedMap # NONE
    PROVE  /\ M \in Maps
           /\ M \notin configMapLag
           /\ CachedMap = configMap[M]
BY CachedMapType DEF ReadMap, Parts, MapStored

LEMMA NoMapMissed ==
    ASSUME Parts, pc # "idle", ReadMap, ~Disrupt("stale")
    PROVE  CachedMap = IF M = NONE THEN NONE ELSE configMap[M]
BY CachedMapType DEF ReadMap, Parts, MapStored, CachedMap

-----------------------------------------------------------------------------
(***************************************************************************)
(* A name in a config map stays.  Two things would take it away that the   *)
(* operator cannot see: a person who puts another one in between its       *)
(* reading the map and writing to it, and a cache that is behind.  All the *)
(* rest is covered, dropping the config map included.                      *)
(***************************************************************************)
NamesLeftAlone == Excluded({"stale", "bring", "rename"})

LEMMA LeftAlone ==
    ASSUME NamesLeftAlone
    PROVE  ~Disrupt("stale") /\ ~Disrupt("bring") /\ ~Disrupt("rename")
BY ExcludedNeverHappens DEF NamesLeftAlone

KeepsNames ==
    \A m \in Maps :
      (configMap[m] # NONE /\ configMap[m].name # NONE)
        => configMap'[m] = configMap[m]

LEMMA PassStepNames ==
    ASSUME Parts, MapNameInv, PassStep, NamesLeftAlone
    PROVE  MapNameInv' /\ KeepsNames
<1>1. configMap \in [Maps -> MapObj \cup {NONE}] /\ EmptyMap # NONE
  BY BlankType, ObjectsAreThere DEF Parts, MapStored
<1>2. CASE AddFinalizer \/ InitStatus \/ UpdateStatus \/ RemoveFinalizer
  <2>1. pc' \in {"idle", "initStatus", "observe"} /\ UNCHANGED configMap
    BY <1>2, WritingSteps
  <2> QED
    BY <2>1 DEF MapNameInv, KeepsNames
<1>3. CASE Observe
  <2>1. /\ pc = "observe" /\ ReadMap /\ M' = M /\ UNCHANGED configMap
        /\ pc' = AfterObserving(ObservedStatus)
        /\ pc' \in {"status", "getMap", "createMap"}
        /\ pc' = "getMap" => CachedMap = EmptyMap
    BY <1>3, ObserveEffect, ObservedFacts
  <2>2. pc' = "getMap" => configMap[M] = EmptyMap
    BY <1>1, <2>1, LeftAlone, ReadMapIsCurrent
  <2> QED
    BY <2>1, <2>2 DEF MapNameInv, Nameless, EmptyMap, KeepsNames
<1>4. CASE CreateMap
  <2>1. /\ M' = M
        /\ pc' \in {"status", "updateMap"}
        /\ \/ UNCHANGED configMap
           \/ /\ M \in Maps /\ configMap[M] = NONE
              /\ configMap' = [configMap EXCEPT ![M] = EmptyMap]
        /\ pc' = "updateMap" =>
             M \in Maps /\ configMap' = [configMap EXCEPT ![M] = EmptyMap]
    BY <1>4, CreateMapEffect DEF Generates
  <2> QED
    BY <1>1, <2>1 DEF MapNameInv, Nameless, EmptyMap, KeepsNames
<1>5. CASE GetMap
  <2>1. /\ pc = "getMap" /\ M' = M /\ UNCHANGED configMap
        /\ pc' \in {"status", "updateMap"}
    BY <1>5, GetMapEffect DEF Generates
  <2> QED
    BY <2>1 DEF MapNameInv, Nameless, KeepsNames
<1>6. CASE UpdateMap
  <2>1. /\ pc = "updateMap" /\ pc' = "status"
        /\ \/ UNCHANGED configMap
           \/ /\ M \in configMapHeld
              /\ configMap' = [configMap EXCEPT ![M] = [name |-> w.status.name]]
    BY <1>6, UpdateMapEffect DEF PutsName
  <2> QED
    BY <1>1, <2>1 DEF MapNameInv, Nameless, KeepsNames
<1>7. CASE CheckExists \/ DeleteFromSolr
  BY <1>7, SolrStepsEffect DEF MapNameInv, KeepsNames
<1> QED
  BY <1>2, <1>3, <1>4, <1>5, <1>6, <1>7 DEF PassStep

(* With names left alone, others only take config maps away.               *)
MapGone(m) ==
    /\ EditMap(m, NONE)
    /\ m \in dangling \/ Disrupt("dropMap")

LEMMA OthersAndMaps ==
    ASSUME Environment, NamesLeftAlone
    PROVE  /\ UNCHANGED <<pc, w, M>>
           /\ \/ UNCHANGED <<configMap, configMapHeld>>
              \/ \E m \in Maps : MapGone(m)
<1>1. UNCHANGED <<pc, w, M>>
  BY DEF Environment, workVars, M
<1>2. ASSUME NEW m \in Maps
      PROVE  ~BringMap(m) /\ ~RenameInMap(m)
  BY LeftAlone DEF BringMap, RenameInMap
<1>3. CASE \E m \in Maps : DropMap(m) \/ CollectMap(m)
  BY <1>1, <1>3 DEF DropMap, CollectMap, MapGone
<1>4. CASE ~ \E m \in Maps : DropMap(m) \/ CollectMap(m)
  BY <1>1, <1>2, <1>4
     DEF Environment, Edits, Informers, Apply, RequestDelete, DropForeign,
         ChangePolicy, EditCollection, ApplicationCreates, ApplicationDrops,
         CloudChange, Deliver, Resync, SyncMap, apiVars, configMapVars
<1> QED
  BY <1>3, <1>4

LEMMA NextNames ==
    ASSUME Parts, MapNameInv, [Next]_vars, NamesLeftAlone
    PROVE  /\ MapNameInv'
           /\ WorkerSteps => KeepsNames
<1>1. CASE PassStep
  BY <1>1, PassStepNames
<1>2. CASE TakeKey
  <2>1. /\ UNCHANGED <<configMap, configMapHeld>>
        /\ \/ UNCHANGED <<pc, w>>
           \/ pc' \in {"addFinalizer", "observe", "checkExists", "removeFinalizer"}
    BY <1>2 DEF TakeKey, ObjectGone, CannotDelete, Begin, Route, Retire, vars,
                apiVars, configMapVars, workVars
  <2> QED
    BY <2>1 DEF MapNameInv, Nameless, KeepsNames, M
<1>3. CASE Environment
  <2>1. ~WorkerSteps
    BY <1>3, OthersAndMaps DEF WorkerSteps
  <2>2. CASE UNCHANGED <<configMap, configMapHeld>>
    BY <1>3, <2>1, <2>2, OthersAndMaps DEF MapNameInv, Nameless
  <2>3. CASE \E m \in Maps : MapGone(m)
    <3>1. PICK m \in Maps : MapGone(m)
      BY <2>3
    <3>2. /\ configMap' = [configMap EXCEPT ![m] = NONE]
          /\ configMapHeld' = configMapHeld \ {m}
          /\ configMap \in [Maps -> MapObj \cup {NONE}]
      BY <3>1 DEF MapGone, EditMap, PutMap, Parts, MapStored
    <3>3. /\ pc' = "getMap" \/ pc' = "updateMap" => M \in Maps
          /\ UNCHANGED <<pc, M>>
      BY <1>3, OthersAndMaps DEF Parts, WorkerInv, PassConsistent
    <3> QED
      BY <2>1, <3>2, <3>3 DEF MapNameInv, Nameless
  <2> QED
    BY <1>3, <2>2, <2>3, OthersAndMaps
<1>4. CASE Crash
  BY <1>4 DEF Crash, Relist, MapNameInv, KeepsNames
<1>5. CASE UNCHANGED vars
  BY <1>5 DEF vars, apiVars, configMapVars, workVars, MapNameInv, Nameless, M,
              WorkerSteps
<1> QED
  BY <1>1, <1>2, <1>3, <1>4, <1>5 DEF Next, Worker

LEMMA InitNames == Init => MapNameInv
BY DEF Init, MapNameInv

(***************************************************************************)
(* Spec => NamesAreKept: the operator does not replace a name that is in a *)
(* config map, on any retry and after any crash, as long as nobody else    *)
(* writes names and the cache of config maps is not behind.  What makes it *)
(* so is MapNameInv: a pass that is going to write a name has found none,  *)
(* and its Update is refused if there has been a write in between.         *)
(***************************************************************************)
THEOREM NamesStayAsPublished ==
    ASSUME Excluded({"stale", "bring", "rename"})
    PROVE  Spec => NamesAreKept
<1> USE DEF NamesLeftAlone
<1>1. Init => TypeInv /\ MapNameInv
  BY InitParts, TypeInvIsParts, InitNames
<1>2. TypeInv /\ MapNameInv /\ [Next]_vars => TypeInv' /\ MapNameInv'
  BY NextParts, NextNames, TypeInvIsParts, TypeInvIsPartsNext
<1>3. TypeInv /\ MapNameInv /\ [Next]_vars =>
        [WorkerSteps =>
           \A m \in Maps :
             (configMap[m] # NONE /\ configMap[m].name # NONE)
               => configMap'[m] = configMap[m]]_vars
  BY NextNames, TypeInvIsParts DEF KeepsNames
<1> QED
  BY <1>1, <1>2, <1>3, PTL DEF Spec, NamesAreKept

-----------------------------------------------------------------------------
(***************************************************************************)
(* Being Ready means something.  Beside those of NamesLeftAlone, what      *)
(* others do to a config map behind the operator's back is excluded, and   *)
(* that a Collection is applied again under its old name: the garbage      *)
(* collector may still be about to take its predecessor's config map.      *)
(***************************************************************************)
MapsLeftAlone == Excluded({"stale", "bring", "rename", "dropMap", "apply"})

LEMMA MapsAlone ==
    ASSUME MapsLeftAlone
    PROVE  NamesLeftAlone /\ ~Disrupt("dropMap") /\ ~Disrupt("apply")
BY ExcludedNeverHappens DEF MapsLeftAlone, NamesLeftAlone, Excluded

LEMMA PublishedFacts ==
    ASSUME NEW c \in Collections, NEW m \in Maps, MapOf[c] = m
    PROVE  /\ Published(c) = IF configMap[m] = NONE THEN NONE ELSE configMap[m].name
           /\ Nameless(m) <=> Published(c) = NONE
BY CollectionApiAssumption DEF Published, Nameless

(* Nothing a Collection says depends on more than it and its config map.   *)
LEMMA AgreementKept ==
    ASSUME ReadyNamesAgree, UNCHANGED <<collection, configMap>>
    PROVE  ReadyNamesAgree'
BY DEF ReadyNamesAgree, SaysReady, Published

LEMMA OwnersKept ==
    ASSUME OwnersInv, UNCHANGED <<collection, owner, dangling>>
    PROVE  OwnersInv'
BY DEF OwnersInv

LEMMA AvailabilityOfOtherSteps ==
    ASSUME pc' \notin {"createMap", "getMap", "updateMap", "status"}
    PROVE  AvailabilityInv'
BY DEF AvailabilityInv

(* A config map changes that shows no name before.                         *)
LEMMA NamelessChanges ==
    ASSUME Parts, ReadyNamesAgree, NEW m \in Maps, Nameless(m),
           NEW obj, configMap' = [configMap EXCEPT ![m] = obj],
           UNCHANGED collection
    PROVE  ReadyNamesAgree'
<1>1. \A k \in Maps \ {m} : configMap'[k] = configMap[k]
  BY DEF Parts, MapStored
<1>2. ASSUME NEW c \in Collections, SaysReady(c)'
      PROVE  Published(c)' # NONE /\ Published(c)' = collection'[c].status.name
  <2>1. SaysReady(c) /\ MapOf[c] \in Maps \cup {NONE}
    BY <1>2, CollectionApiAssumption DEF SaysReady
  <2>2. Published(c) # NONE /\ Published(c) = collection[c].status.name
    BY <2>1 DEF ReadyNamesAgree
  <2>3. MapOf[c] \in Maps \ {m}
    BY <2>1, <2>2, PublishedFacts DEF Published
  <2> QED
    BY <1>1, <2>2, <2>3 DEF Published
<1> QED
  BY <1>2 DEF ReadyNamesAgree

LEMMA WritingStepsReady ==
    ASSUME Parts, ReadyInv,
           AddFinalizer \/ InitStatus \/ UpdateStatus \/ RemoveFinalizer
    PROVE  ReadyNamesAgree' /\ OwnersInv' /\ AvailabilityInv'
<1>1. /\ pc' \in {"idle", "initStatus", "observe"}
      /\ DanglingFollows
      /\ UNCHANGED <<configMap, owner>>
  BY WritingSteps
<1>2. AvailabilityInv'
  BY <1>1, AvailabilityOfOtherSteps
<1>3. CASE UNCHANGED collection
  <2>1. ReadyNamesAgree'
    BY <1>1, <1>3, AgreementKept DEF ReadyInv
  <2>2. OwnersInv'
    BY <1>1, <1>3, CollectionApiAssumption
       DEF ReadyInv, OwnersInv, DanglingFollows
  <2> QED
    BY <1>2, <2>1, <2>2
<1>4. CASE ~UNCHANGED collection
  <2>1. PICK obj \in CollectionObj : WriteOf(obj)
    BY <1>4, WriteEffect DEF PassStep
  <2>2. /\ w.key \in Collections /\ w.key \in collectionHeld
        /\ collection[w.key] # NONE
        /\ collection'[w.key] = Reaped(obj)
        /\ \A c \in Collections \ {w.key} : collection'[c] = collection[c]
    BY <2>1, ObjectsAreThere DEF WriteOf
  <2>3. OwnersInv'
    <3>1. \A m \in Maps : owner[m] # NONE => owner[m] \in Collections
      BY DEF Parts, OwnersStored
    <3> QED
      BY <1>1, <2>2, <3>1, CollectionApiAssumption
         DEF ReadyInv, OwnersInv, DanglingFollows
  <2>4. ASSUME NEW c \in Collections, SaysReady(c)'
        PROVE  Published(c)' # NONE /\ Published(c)' = collection'[c].status.name
    <3>1. Published(c)' = Published(c)
      BY <1>1 DEF Published
    <3>2. CASE c # w.key
      BY <2>2, <2>4, <3>1, <3>2 DEF ReadyInv, ReadyNamesAgree, SaysReady
    <3>3. CASE c = w.key
      <4>1. collection'[c] = obj /\ Live(obj) /\ obj.status.Available = "Ready"
        BY <2>2, <2>4, <3>3, ObjectsAreThere DEF SaysReady, Reaped, Live
      <4>2. CASE pc = "initStatus" /\ obj.status = InitialStatus
        <5>1. InitialStatus.Available = "Reconciling"
          BY DEF InitialStatus, Parts, WorkerInv, Work, Status
        <5> QED
          BY <4>1, <4>2, <5>1
      <4>3. CASE pc = "status" /\ obj.status = FinalStatus
        <5>1. /\ FinalStatus.Available =
                   IF IsTrue(w.status.ConfigMapAvailable) THEN "Ready" ELSE "NotReady"
              /\ FinalStatus.name = w.status.name
          BY DEF FinalStatus, Parts, WorkerInv, Work, Status
        <5>2. IsTrue(w.status.ConfigMapAvailable)
          BY <4>1, <4>3, <5>1
        <5>3. Published(w.key) # NONE /\ Published(w.key) = w.status.name
          BY <2>2, <4>3, <5>2 DEF ReadyInv, AvailabilityInv
        <5> QED
          BY <3>1, <3>3, <4>1, <4>3, <5>1, <5>3
      <4>4. CASE obj.status = collection[w.key].status
        <5>1. SaysReady(w.key)
          BY <2>1, <2>2, <4>1, <4>4 DEF SaysReady, Live, WriteOf
        <5> QED
          BY <2>2, <3>1, <3>3, <4>1, <4>4, <5>1 DEF ReadyInv, ReadyNamesAgree
      <4> QED
        BY <2>1, <4>2, <4>3, <4>4 DEF WriteOf
    <3> QED
      BY <3>2, <3>3
  <2>5. ReadyNamesAgree'
    BY <2>4 DEF ReadyNamesAgree
  <2> QED
    BY <1>2, <2>3, <2>5
<1> QED
  BY <1>3, <1>4

LEMMA GeneratedAvailability ==
    ASSUME Generates(w.status), ~IsTrue(w.status.ConfigMapAvailable)
    PROVE  AvailabilityInv'
<1>1. Fresh \in SUBSET Names
  BY DEF Fresh
<1> QED
  BY <1>1, NamesAssumption DEF Generates, AvailabilityInv

LEMMA MapStepsReady ==
    ASSUME Parts, ReadyInv, OwnMaps, MapsLeftAlone,
           Observe \/ CreateMap \/ GetMap \/ UpdateMap
    PROVE  ReadyNamesAgree' /\ OwnersInv' /\ AvailabilityInv'
<1>1. ReadyNamesAgree /\ MapNameInv /\ OwnersInv /\ AvailabilityInv
  BY DEF ReadyInv
<1>2. CASE Observe
  <2>1. /\ pc = "observe" /\ ReadMap /\ M' = M
        /\ pc' = AfterObserving(ObservedStatus)
        /\ w'.key = w.key /\ w'.status = ObservedStatus
        /\ UNCHANGED <<collection, collectionHeld, configMap, owner, dangling>>
    BY <1>2, ObserveEffect
  <2>2. /\ pc' \in {"status", "getMap", "createMap"}
        /\ IsTrue(w'.status.ConfigMapAvailable) <=> pc' = "status"
        /\ pc' = "status" => /\ CachedMap # NONE /\ CachedMap.name # NONE
                             /\ w'.status.name = CachedMap.name
    BY <2>1, ObservedFacts
  <2>3. pc' = "status" => M \in Maps /\ CachedMap = configMap[M]
    BY <2>1, <2>2, MapsAlone, LeftAlone, ReadMapIsCurrent
  <2>4. AvailabilityInv'
    <3>1. CASE pc' = "status"
      <4>1. Published(w.key)' = configMap[M].name
        BY <2>1, <2>2, <2>3, <3>1, CollectionApiAssumption DEF Published, M
      <4> QED
        BY <2>1, <2>2, <2>3, <3>1, <4>1 DEF AvailabilityInv
    <3>2. CASE pc' # "status"
      BY <2>2, <3>2 DEF AvailabilityInv
    <3> QED
      BY <3>1, <3>2
  <2> QED
    BY <1>1, <2>1, <2>4, AgreementKept, OwnersKept
<1>3. CASE CreateMap
  <2>1. /\ pc = "createMap"
        /\ UNCHANGED <<collection, owner, dangling>>
        /\ \/ UNCHANGED configMap
           \/ /\ M \in Maps /\ configMap[M] = NONE
              /\ configMap' = [configMap EXCEPT ![M] = EmptyMap]
        /\ \/ pc' = "status" /\ w'.status = w.status
           \/ Generates(w.status)
    BY <1>3, CreateMapEffect
  <2>2. ~IsTrue(w.status.ConfigMapAvailable)
    BY <1>1, <2>1 DEF AvailabilityInv
  <2>3. AvailabilityInv'
    BY <2>1, <2>2, GeneratedAvailability DEF AvailabilityInv
  <2>4. ReadyNamesAgree'
    BY <1>1, <2>1, AgreementKept, NamelessChanges DEF Nameless
  <2> QED
    BY <1>1, <2>1, <2>3, <2>4, OwnersKept
<1>4. CASE GetMap
  <2>1. /\ pc = "getMap"
        /\ UNCHANGED <<collection, configMap, owner, dangling>>
        /\ \/ pc' = "status" /\ w'.status = w.status
           \/ Generates(w.status)
    BY <1>4, GetMapEffect
  <2>2. ~IsTrue(w.status.ConfigMapAvailable)
    BY <1>1, <2>1 DEF AvailabilityInv
  <2>3. AvailabilityInv'
    BY <2>1, <2>2, GeneratedAvailability DEF AvailabilityInv
  <2> QED
    BY <1>1, <2>1, <2>3, AgreementKept, OwnersKept
<1>5. CASE UpdateMap
  <2>1. /\ pc = "updateMap" /\ M \in Maps /\ w.key \in Collections
        /\ pc' = "status" /\ w'.key = w.key
        /\ UNCHANGED <<collection, collectionHeld>>
        /\ w'.status.name = w.status.name
        /\ \/ PutsName
           \/ /\ UNCHANGED <<configMap, owner, dangling>>
              /\ w'.status = w.status
    BY <1>5, UpdateMapEffect
  <2>2. ~IsTrue(w.status.ConfigMapAvailable) /\ w.status.name # NONE
    BY <1>1, <2>1 DEF AvailabilityInv
  <2>3. CASE PutsName
    <3>1. /\ Nameless(M)
          /\ configMap' = [configMap EXCEPT ![M] = [name |-> w.status.name]]
      BY <1>1, <2>1, <2>3 DEF MapNameInv, PutsName
    <3>2. ReadyNamesAgree'
      BY <1>1, <2>1, <3>1, NamelessChanges
    <3>3. configMap'[M] = [name |-> w.status.name] /\ configMap'[M] # NONE
      <4>1. [name |-> w.status.name] \in MapObj
        BY DEF MapObj, Parts, WorkerInv, Work, Status
      <4> QED
        BY <2>1, <3>1, <4>1, ObjectsAreThere DEF Parts, MapStored
    <3>4. Published(w.key)' = w.status.name
      BY <2>1, <3>3, CollectionApiAssumption DEF Published, M
    <3>5. AvailabilityInv'
      BY <2>1, <2>2, <3>4 DEF AvailabilityInv
    <3>6. OwnersInv'
      <4>1. CASE UNCHANGED <<owner, dangling>>
        BY <1>1, <2>1, <4>1, OwnersKept
      <4>2. CASE /\ owner' = [owner EXCEPT ![M] = w.key]
                 /\ dangling' = IF collection[w.key] = NONE
                                  THEN dangling \cup {M} ELSE dangling
        <5>1. /\ owner'[M] = w.key /\ MapOf[w.key] = M
              /\ \A m \in Maps \ {M} : owner'[m] = owner[m]
          BY <2>1, <4>2 DEF Parts, OwnersStored, M
        <5>2. M \in dangling => collection[w.key] = NONE
          <6>1. M \in dangling =>
                  /\ owner[M] \in Collections /\ collection[owner[M]] = NONE
                  /\ MapOf[owner[M]] = MapOf[w.key] /\ MapOf[w.key] # NONE
            BY <1>1, <2>1, <5>1, CollectionApiAssumption
               DEF OwnersInv, Parts, OwnersStored
          <6> QED
            BY <2>1, <6>1 DEF OwnMaps
        <5>3. \A m \in Maps : m \in dangling' => m = M \/ m \in dangling
          BY <4>2
        <5>4. M \in dangling' => collection[w.key] = NONE
          BY <4>2, <5>2
        <5> QED
          BY <1>1, <2>1, <5>1, <5>3, <5>4, CollectionApiAssumption DEF OwnersInv
      <4> QED
        BY <2>3, <4>1, <4>2 DEF PutsName
    <3> QED
      BY <3>2, <3>5, <3>6
  <2>4. CASE UNCHANGED <<configMap, owner, dangling>> /\ w'.status = w.status
    <3>1. AvailabilityInv'
      BY <2>1, <2>2, <2>4 DEF AvailabilityInv
    <3> QED
      BY <1>1, <2>1, <2>4, <3>1, AgreementKept, OwnersKept
  <2> QED
    BY <2>1, <2>3, <2>4
<1> QED
  BY <1>2, <1>3, <1>4, <1>5

(* What others do, when they leave names and config maps alone: edit a     *)
(* Collection that is there, or collect a config map that is dangling.     *)
QuietEdit(c, obj) ==
    /\ Edited(c, Reaped(obj))
    /\ obj.status = collection[c].status
    /\ collection[c].deleting => obj.deleting

LEMMA OthersAndCollections ==
    ASSUME Parts, Environment, MapsLeftAlone
    PROVE  \/ UNCHANGED <<collection, collectionHeld, configMap, owner, dangling>>
           \/ \E m \in Maps : m \in dangling /\ EditMap(m, NONE)
           \/ \E c \in Collections : \E obj \in CollectionObj : QuietEdit(c, obj)
<1>1. ASSUME NEW c \in Collections
      PROVE  ~Apply(c)
  BY MapsAlone DEF Apply
<1>2. CASE \E c \in Collections : RequestDelete(c) \/ DropForeign(c) \/ ChangePolicy(c)
  BY <1>2, CollectionEdits DEF QuietEdit
<1>3. CASE \E m \in Maps :
             BringMap(m) \/ RenameInMap(m) \/ DropMap(m) \/ CollectMap(m)
  BY <1>3, MapsAlone, LeftAlone DEF BringMap, RenameInMap, DropMap, CollectMap
<1>4. CASE ~ \E c \in Collections : \/ Apply(c) \/ RequestDelete(c)
                                    \/ DropForeign(c) \/ ChangePolicy(c)
  <2>1. UNCHANGED <<collection, collectionHeld>>
    BY <1>4, OtherEnvironment
  <2>2. CASE ~ \E m \in Maps :
               BringMap(m) \/ RenameInMap(m) \/ DropMap(m) \/ CollectMap(m)
    <3>1. UNCHANGED <<configMap, owner, dangling>>
      BY <1>4, <2>2
         DEF Environment, Edits, Informers, ApplicationCreates, ApplicationDrops,
             CloudChange, Deliver, Resync, SyncMap, apiVars, configMapVars,
             ownerVars
    <3> QED
      BY <2>1, <3>1
  <2> QED
    BY <1>3, <2>2
<1> QED
  BY <1>1, <1>2, <1>3, <1>4

LEMMA CollectedReady ==
    ASSUME Parts, ReadyInv, OwnMaps, NEW m \in dangling, EditMap(m, NONE),
           UNCHANGED <<pc, w>>
    PROVE  ReadyNamesAgree' /\ OwnersInv' /\ AvailabilityInv'
<1>1. /\ m \in Maps
      /\ owner[m] \in Collections /\ collection[owner[m]] = NONE
      /\ MapOf[owner[m]] = m
  BY DEF ReadyInv, OwnersInv, Parts, OwnersStored
<1>2. /\ configMap' = [configMap EXCEPT ![m] = NONE]
      /\ owner' = [owner EXCEPT ![m] = NONE]
      /\ dangling' = dangling \ {m}
      /\ UNCHANGED <<collection, collectionHeld>>
  BY DEF EditMap, PutMap, collectionVars
<1>3. ASSUME NEW c \in Collections, collection[c] # NONE
      PROVE  Published(c)' = Published(c)
  <2>1. MapOf[c] # m
    BY <1>1, <1>3, CollectionApiAssumption DEF OwnMaps
  <2>2. MapOf[c] \in Maps => configMap'[MapOf[c]] = configMap[MapOf[c]]
    BY <1>2, <2>1 DEF Parts, MapStored
  <2> QED
    BY <2>2, CollectionApiAssumption DEF Published
<1>4. ReadyNamesAgree'
  BY <1>2, <1>3 DEF ReadyInv, ReadyNamesAgree, SaysReady, Live
<1>5. OwnersInv'
  <2>1. \A k \in Maps \ {m} : owner'[k] = owner[k]
    BY <1>2 DEF Parts, OwnersStored
  <2>2. owner'[m] = NONE
    BY <1>1, <1>2 DEF Parts, OwnersStored
  <2> QED
    BY <1>2, <2>1, <2>2 DEF ReadyInv, OwnersInv
<1>6. AvailabilityInv'
  <2>1. w.key \in collectionHeld => w.key \in Collections /\ collection[w.key] # NONE
    BY DEF Parts, HeldIsThere, WorkerInv
  <2> QED
    BY <1>2, <1>3, <2>1 DEF ReadyInv, AvailabilityInv
<1> QED
  BY <1>4, <1>5, <1>6

LEMMA EditedReady ==
    ASSUME Parts, ReadyInv, NEW c \in Collections, NEW obj \in CollectionObj,
           QuietEdit(c, obj), UNCHANGED <<pc, w>>
    PROVE  ReadyNamesAgree' /\ OwnersInv' /\ AvailabilityInv'
<1>1. /\ collection[c] # NONE
      /\ collection' = [collection EXCEPT ![c] = Reaped(obj)]
      /\ dangling' = IF Reaped(obj) = NONE
                       THEN dangling \cup {m \in Maps : owner[m] = c} ELSE dangling
      /\ collectionHeld' = collectionHeld \ {c}
      /\ UNCHANGED <<configMap, owner>>
  BY DEF QuietEdit, Edited, EditCollection, PutCollection, configMapVars
<1>2. /\ collection'[c] = Reaped(obj)
      /\ \A d \in Collections \ {c} : collection'[d] = collection[d]
  BY <1>1 DEF Parts, CollectionStored
<1>3. \A d \in Collections : Published(d)' = Published(d)
  BY <1>1 DEF Published
<1>4. ASSUME NEW d \in Collections, SaysReady(d)'
      PROVE  SaysReady(d) /\ collection'[d].status.name = collection[d].status.name
  <2>1. CASE d = c
    BY <1>1, <1>2, <1>4, <2>1 DEF QuietEdit, SaysReady, Reaped, Live
  <2>2. CASE d # c
    BY <1>2, <1>4, <2>2 DEF SaysReady
  <2> QED
    BY <2>1, <2>2
<1>5. ReadyNamesAgree'
  BY <1>3, <1>4 DEF ReadyInv, ReadyNamesAgree
<1>6. OwnersInv'
  <2>1. \A m \in Maps : owner[m] # NONE => owner[m] \in Collections
    BY DEF Parts, OwnersStored
  <2> QED
    BY <1>1, <1>2, <2>1, CollectionApiAssumption DEF ReadyInv, OwnersInv
<1>7. AvailabilityInv'
  BY <1>1, <1>3 DEF ReadyInv, AvailabilityInv, Parts, WorkerInv
<1> QED
  BY <1>5, <1>6, <1>7

LEMMA NextReady ==
    ASSUME Parts, ReadyInv, OwnMaps, MapsLeftAlone, [Next]_vars
    PROVE  ReadyInv'
<1>1. MapNameInv'
  BY MapsAlone, NextNames DEF ReadyInv
<1>2. ReadyNamesAgree' /\ OwnersInv' /\ AvailabilityInv'
  <2>1. CASE PassStep
    <3>1. CASE CheckExists \/ DeleteFromSolr
      <4>1. /\ pc' \in {"idle", "deleteCollection", "removeFinalizer"}
            /\ UNCHANGED <<collection, configMap, owner, dangling>>
        BY <3>1, SolrStepsEffect
      <4> QED
        BY <4>1, AgreementKept, OwnersKept, AvailabilityOfOtherSteps DEF ReadyInv
    <3> QED
      BY <2>1, <3>1, WritingStepsReady, MapStepsReady DEF PassStep
  <2>2. CASE \E c \in Collections : Begin(c)
    <3>1. /\ pc' \in {"addFinalizer", "observe", "checkExists", "removeFinalizer"}
          /\ UNCHANGED <<collection, configMap, owner, dangling>>
      BY <2>2 DEF Begin, Route, Retire, configMapVars, ownerVars
    <3> QED
      BY <3>1, AgreementKept, OwnersKept, AvailabilityOfOtherSteps DEF ReadyInv
  <2>3. CASE UNCHANGED <<collection, collectionHeld, configMap, owner, dangling, pc, w>>
    <3>1. AvailabilityInv'
      BY <2>3 DEF ReadyInv, AvailabilityInv, Published
    <3> QED
      BY <2>3, <3>1, AgreementKept, OwnersKept DEF ReadyInv
  <2>4. CASE \/ UNCHANGED vars
             \/ \E c \in Collections : ObjectGone(c) \/ CannotDelete(c)
    BY <2>3, <2>4 DEF ObjectGone, CannotDelete, vars, apiVars, collectionVars,
                      configMapVars, ownerVars, workVars
  <2>5. CASE Environment
    <3>1. UNCHANGED <<pc, w>>
      BY <2>5 DEF Environment, workVars
    <3> QED
      BY <2>3, <2>5, <3>1, OthersAndCollections, CollectedReady, EditedReady
  <2>6. CASE Crash
    <3>1. pc' = "idle" /\ UNCHANGED <<collection, configMap, owner, dangling>>
      BY <2>6 DEF Crash, Relist, ownerVars
    <3> QED
      BY <3>1, AgreementKept, OwnersKept, AvailabilityOfOtherSteps DEF ReadyInv
  <2> QED
    BY <2>1, <2>2, <2>4, <2>5, <2>6 DEF Next, Worker, TakeKey
<1> QED
  BY <1>1, <1>2 DEF ReadyInv

LEMMA InitReady == Init => ReadyInv
<1> SUFFICES ASSUME Init
             PROVE  ReadyInv
  OBVIOUS
<1>1. ReadyNamesAgree
  BY ReasonsAssumption
     DEF Init, ApiInit, ReadyNamesAgree, SaysReady, NewCollection, BlankStatus,
         TrueReasons
<1> QED
  BY <1>1, InitNames DEF Init, ApiInit, ReadyInv, OwnersInv, AvailabilityInv

(***************************************************************************)
(* Spec => []ReadyNamesAgree: a Collection that says it is Ready has a     *)
(* config map that shows the name its status has, through failed requests, *)
(* lost answers and crashes between the two writes.  AvailabilityInv is    *)
(* why: what the pass believes of the config map when it writes the status *)
(* is so, because the config map was read or written in that pass and, by  *)
(* OwnersInv, no config map of a Collection that stays is collected.       *)
(***************************************************************************)
THEOREM ReadyMeansPublished ==
    ASSUME OwnMaps,
           Excluded({"stale", "bring", "rename", "dropMap", "apply"})
    PROVE  Spec => []ReadyNamesAgree
<1> USE DEF MapsLeftAlone
<1>1. Init => TypeInv /\ ReadyInv
  BY InitParts, TypeInvIsParts, InitReady
<1>2. TypeInv /\ ReadyInv /\ [Next]_vars => TypeInv' /\ ReadyInv'
  BY NextParts, NextReady, TypeInvIsParts, TypeInvIsPartsNext
<1>3. ReadyInv => ReadyNamesAgree
  BY DEF ReadyInv
<1> QED
  BY <1>1, <1>2, <1>3, PTL DEF Spec

-----------------------------------------------------------------------------
(***************************************************************************)
(* Every Collection has a name of its own.  A step brings a name to a      *)
(* Collection only if it was there already, in one of the five places, or  *)
(* if nobody had it.                                                       *)
(***************************************************************************)
LEMMA FreshIsUnused ==
    ASSUME NEW n \in Fresh
    PROVE  /\ n \in Names
           /\ \A c \in Collections : ~Uses(c, n)
<1>1. n \in Names /\ ~Mentioned(n) /\ n # w.status.name
  BY DEF Fresh
<1>2. ASSUME NEW c \in Collections
      PROVE  ~Uses(c, n)
  <2>1. MapOf[c] # NONE => MapOf[c] \in Maps
    BY CollectionApiAssumption
  <2> QED
    BY <1>1, <2>1 DEF Uses, InMap, InStatus, Mentioned
<1> QED
  BY <1>1, <1>2

NamesGrow ==
    \A c \in Collections : \A n \in Names :
      Uses(c, n)' => Uses(c, n) \/ (c = w.key /\ n \in Fresh)

MapsGrow ==
    \A m \in Maps : \A n \in Names :
      InMap(m, n)' => InMap(m, n) \/ \E c \in Collections : MapOf[c] = m

LEMMA NamesInvKept ==
    ASSUME NamesInv, NamesGrow, MapsGrow
    PROVE  NamesInv'
<1>1. ASSUME NEW n \in Names, NEW c \in Collections, NEW d \in Collections,
             Uses(c, n)', Uses(d, n)'
      PROVE  c = d
  <2>1. CASE n \in Fresh
    <3>1. ~Uses(c, n) /\ ~Uses(d, n)
      BY <2>1, FreshIsUnused
    <3> QED
      BY <1>1, <3>1 DEF NamesGrow
  <2>2. CASE n \notin Fresh
    BY <1>1, <2>2 DEF NamesGrow, NamesInv
  <2> QED
    BY <2>1, <2>2
<1>2. ASSUME NEW m \in Maps, NEW n \in Names, InMap(m, n)'
      PROVE  \E c \in Collections : MapOf[c] = m
  BY <1>2 DEF MapsGrow, NamesInv
<1> QED
  BY <1>1, <1>2 DEF NamesInv

(* The five places, one by one.                                            *)
WorkGrows ==
    \A n \in Names :
      (w'.key \in Collections /\ w'.status.name = n)
        => Uses(w'.key, n) \/ (w'.key = w.key /\ n \in Fresh)

InMapGrows ==
    \A m \in Maps : \A n \in Names :
      InMap(m, n)' =>
        InMap(m, n) \/ (m = M /\ w.key \in Collections /\ w.status.name = n)

InStatusGrows ==
    \A c \in Collections : \A n \in Names :
      InStatus(c, n)' => InStatus(c, n) \/ (c = w.key /\ w.status.name = n)

LEMMA PlacesGrow ==
    ASSUME OwnMaps, WorkGrows, InMapGrows, InStatusGrows
    PROVE  NamesGrow /\ MapsGrow
<1>1. ASSUME NEW c \in Collections, NEW n \in Names, Uses(c, n)'
      PROVE  Uses(c, n) \/ (c = w.key /\ n \in Fresh)
  <2>1. CASE MapOf[c] # NONE /\ InMap(MapOf[c], n)'
    <3>1. MapOf[c] \in Maps
      BY <2>1, CollectionApiAssumption
    <3>2. CASE InMap(MapOf[c], n)
      BY <2>1, <3>2 DEF Uses
    <3>3. CASE MapOf[c] = M /\ w.key \in Collections /\ w.status.name = n
      BY <2>1, <3>3 DEF Uses, OwnMaps, M
    <3> QED
      BY <2>1, <3>1, <3>2, <3>3 DEF InMapGrows
  <2>2. CASE InStatus(c, n)'
    BY <2>2 DEF InStatusGrows, Uses
  <2>3. CASE c = w'.key /\ w'.status.name = n
    BY <2>3 DEF WorkGrows
  <2> QED
    BY <1>1, <2>1, <2>2, <2>3 DEF Uses
<1>2. ASSUME NEW m \in Maps, NEW n \in Names, InMap(m, n)'
      PROVE  InMap(m, n) \/ \E c \in Collections : MapOf[c] = m
  BY <1>2 DEF InMapGrows, M
<1> QED
  BY <1>1, <1>2 DEF NamesGrow, MapsGrow

(* A status is written to one Collection.                                  *)
LEMMA StatusGrows ==
    ASSUME NEW c \in Collections,
           \A d \in Collections \ {c} : collection'[d] = collection[d],
           UNCHANGED collectionCache,
           collection'[c] # NONE =>
             \/ collection'[c].status.name = NONE
             \/ /\ collection[c] # NONE
                /\ collection'[c].status.name = collection[c].status.name
             \/ c = w.key /\ collection'[c].status.name = w.status.name
    PROVE  InStatusGrows
<1>1. ASSUME NEW d \in Collections, NEW n \in Names, InStatus(d, n)'
      PROVE  InStatus(d, n) \/ (d = w.key /\ w.status.name = n)
  <2>1. CASE d = c
    BY <1>1, <2>1, NamesAssumption DEF InStatus
  <2>2. CASE d # c
    BY <1>1, <2>2 DEF InStatus
  <2> QED
    BY <2>1, <2>2
<1> QED
  BY <1>1 DEF InStatusGrows

LEMMA StatusesStay ==
    ASSUME UNCHANGED <<collection, collectionCache>>
    PROVE  InStatusGrows
BY DEF InStatusGrows, InStatus

LEMMA MapsStay ==
    ASSUME UNCHANGED <<configMap, configMapCache>>
    PROVE  InMapGrows
BY DEF InMapGrows, InMap

LEMMA WorkStays ==
    ASSUME UNCHANGED w
    PROVE  WorkGrows
BY DEF WorkGrows, Uses

(* A config map is written to: emptied, taken away, or named by the pass.  *)
LEMMA MapGrows ==
    ASSUME Parts, NEW m \in Maps, NEW obj,
           configMap' = [configMap EXCEPT ![m] = obj], UNCHANGED configMapCache,
           \/ obj = NONE
           \/ obj = EmptyMap
           \/ m = M /\ w.key \in Collections /\ obj = [name |-> w.status.name]
    PROVE  InMapGrows
<1>1. /\ configMap'[m] = obj
      /\ \A k \in Maps \ {m} : configMap'[k] = configMap[k]
  BY DEF Parts, MapStored
<1>2. ASSUME NEW k \in Maps, NEW n \in Names, InMap(k, n)'
      PROVE  InMap(k, n) \/ (k = M /\ w.key \in Collections /\ w.status.name = n)
  <2>1. CASE k = m
    BY <1>1, <1>2, <2>1, NamesAssumption DEF InMap, EmptyMap
  <2>2. CASE k # m
    BY <1>1, <1>2, <2>2 DEF InMap
  <2> QED
    BY <2>1, <2>2
<1> QED
  BY <1>2 DEF InMapGrows

-----------------------------------------------------------------------------
(* What becomes of the name the pass has.                                  *)
KeepsName == w'.key \in Collections => w'.key = w.key /\ w'.status.name = w.status.name

LEMMA NameKept ==
    ASSUME KeepsName
    PROVE  WorkGrows
BY DEF KeepsName, WorkGrows, Uses

LEMMA GoToKeepsName ==
    ASSUME Parts, NEW st \in Status, NEW label, GoTo(label, st),
           st.name = w.status.name
    PROVE  KeepsName
BY GoToType DEF Parts, WorkerInv, KeepsName

LEMMA EndKeepsName ==
    ASSUME Done \/ Requeue
    PROVE  KeepsName
BY BlankType, CollectionApiAssumption DEF Done, Requeue, LeavePass, KeepsName

LEMMA WritingStepsNames ==
    ASSUME Parts, AddFinalizer \/ InitStatus \/ UpdateStatus \/ RemoveFinalizer
    PROVE  WorkGrows /\ InMapGrows /\ InStatusGrows
<1>1. /\ w.status \in Status /\ InitialStatus \in Status
      /\ InitialStatus.name = w.status.name /\ FinalStatus.name = w.status.name
  BY StatusesType
     DEF Parts, WorkerInv, Work, Status, InitialStatus, FinalStatus
<1>2. KeepsName
  <2>1. CASE AddFinalizer
    BY <1>1, <2>1, GoToKeepsName, EndKeepsName DEF AddFinalizer
  <2>2. CASE InitStatus
    <3>1. Requeue \/ GoTo("observe", InitialStatus)
      BY <2>2, Zenon DEF InitStatus, InitialStatus
    <3> QED
      BY <1>1, <3>1, GoToKeepsName, EndKeepsName
  <2>3. CASE UpdateStatus
    <3>1. Requeue \/ Done
      BY <2>3, Zenon DEF UpdateStatus
    <3> QED
      BY <3>1, EndKeepsName
  <2>4. CASE RemoveFinalizer
    BY <2>4, EndKeepsName DEF RemoveFinalizer
  <2> QED
    BY <2>1, <2>2, <2>3, <2>4
<1>3. UNCHANGED <<collectionCache, configMap, configMapCache>>
  BY WritingSteps
<1>4. InStatusGrows
  <2>1. CASE UNCHANGED collection
    BY <1>3, <2>1, StatusesStay
  <2>2. CASE ~UNCHANGED collection
    <3>1. PICK obj \in CollectionObj : WriteOf(obj)
      BY <2>2, WriteEffect DEF PassStep
    <3>2. /\ w.key \in Collections /\ collection[w.key] # NONE
          /\ collection'[w.key] # NONE => collection'[w.key] = obj
          /\ \A d \in Collections \ {w.key} : collection'[d] = collection[d]
          /\ obj.status \in {InitialStatus, FinalStatus, collection[w.key].status}
      BY <3>1, ObjectsAreThere DEF WriteOf, Reaped
    <3> QED
      BY <1>1, <1>3, <3>2, StatusGrows
  <2> QED
    BY <2>1, <2>2
<1> QED
  BY <1>2, <1>3, <1>4, NameKept, MapsStay

LEMMA MapStepsNames ==
    ASSUME Parts, Observe \/ CreateMap \/ GetMap \/ UpdateMap
    PROVE  WorkGrows /\ InMapGrows /\ InStatusGrows
<1>1. InStatusGrows
  <2>1. UNCHANGED <<collection, collectionCache>>
    BY OtherSteps
  <2> QED
    BY <2>1, StatusesStay
<1>2. ASSUME w'.key = w.key, Generates(w.status)
      PROVE  WorkGrows
  BY <1>2 DEF Generates, WorkGrows
<1>3. CASE Observe
  <2>1. /\ pc = "observe" /\ w'.key = w.key /\ w'.status = ObservedStatus
        /\ AfterObserving(ObservedStatus) \in {"status", "getMap", "createMap"}
        /\ UNCHANGED <<configMap, configMapCache>>
    BY <1>3, ObserveEffect, ObservedFacts
  <2>2. \/ w'.status.name = w.status.name
        \/ CachedMap # NONE /\ w'.status.name = CachedMap.name
    BY <2>1, ObservedFacts
  <2>3. CASE w'.status.name = w.status.name
    BY <1>1, <2>1, <2>3, MapsStay, NameKept DEF KeepsName
  <2>4. CASE CachedMap # NONE /\ w'.status.name = CachedMap.name
    <3>1. M \in Maps /\ CachedMap = configMapCache[M]
      BY <2>1, <2>4, CachedMapType
    <3>2. M # NONE /\ InMap(M, w'.status.name)
      BY <2>4, <3>1, CollectionApiAssumption DEF InMap
    <3>3. WorkGrows
      BY <2>1, <3>2 DEF WorkGrows, Uses, M
    <3> QED
      BY <1>1, <2>1, <3>3, MapsStay
  <2> QED
    BY <2>2, <2>3, <2>4
<1>4. CASE CreateMap
  <2>1. /\ w'.key = w.key /\ UNCHANGED configMapCache
        /\ \/ UNCHANGED configMap
           \/ M \in Maps /\ configMap' = [configMap EXCEPT ![M] = EmptyMap]
        /\ \/ w'.status = w.status
           \/ Generates(w.status)
    BY <1>4, CreateMapEffect
  <2>2. InMapGrows
    BY <2>1, MapsStay, MapGrows
  <2> QED
    BY <1>1, <1>2, <2>1, <2>2, NameKept DEF KeepsName
<1>5. CASE GetMap
  <2>1. /\ w'.key = w.key /\ UNCHANGED <<configMap, configMapCache>>
        /\ \/ w'.status = w.status
           \/ Generates(w.status)
    BY <1>5, GetMapEffect
  <2> QED
    BY <1>1, <1>2, <2>1, MapsStay, NameKept DEF KeepsName
<1>6. CASE UpdateMap
  <2>1. /\ M \in Maps /\ w.key \in Collections
        /\ w'.key = w.key /\ w'.status.name = w.status.name
        /\ UNCHANGED configMapCache
        /\ \/ configMap' = [configMap EXCEPT ![M] = [name |-> w.status.name]]
           \/ UNCHANGED configMap
    BY <1>6, UpdateMapEffect DEF PutsName
  <2>2. InMapGrows
    BY <2>1, MapsStay, MapGrows
  <2> QED
    BY <1>1, <2>1, <2>2, NameKept DEF KeepsName
<1> QED
  BY <1>3, <1>4, <1>5, <1>6

LEMMA SolrStepsNames ==
    ASSUME Parts, CheckExists \/ DeleteFromSolr
    PROVE  WorkGrows /\ InMapGrows /\ InStatusGrows
<1>1. UNCHANGED <<collection, collectionCache, configMap, configMapCache>>
  BY SolrStepsEffect
<1>2. w.status \in Status
  BY DEF Parts, WorkerInv, Work
<1>3. KeepsName
  <2>1. CASE CheckExists
    BY <1>2, <2>1, GoToKeepsName, EndKeepsName DEF CheckExists
  <2>2. CASE DeleteFromSolr
    BY <1>2, <2>2, GoToKeepsName, EndKeepsName DEF DeleteFromSolr
  <2> QED
    BY <2>1, <2>2
<1> QED
  BY <1>1, <1>3, NameKept, MapsStay, StatusesStay

-----------------------------------------------------------------------------
(***************************************************************************)
(* A name is taken to Solr only while it is somebody's.  Excluded are      *)
(* names that people write, and, for what concerns Solr, applications that *)
(* create a collection for a Collection that has been or is being deleted. *)
(***************************************************************************)
NamesUnmixed == Excluded({"bring", "rename"})

NeverLate == Excluded({"lateApplication"})

LEMMA Unmixed ==
    ASSUME NamesUnmixed
    PROVE  ~Disrupt("bring") /\ ~Disrupt("rename")
BY ExcludedNeverHappens DEF NamesUnmixed

LEMMA UnmixedAndNotLate ==
    ASSUME Excluded({"bring", "rename", "lateApplication"})
    PROVE  NamesUnmixed /\ NeverLate
BY DEF Excluded, NamesUnmixed, NeverLate

LEMMA OthersNames ==
    ASSUME Parts, Environment, NamesUnmixed
    PROVE  WorkGrows /\ InMapGrows /\ InStatusGrows
<1>1. UNCHANGED w
  BY DEF Environment, workVars
<1>2. InMapGrows
  <2>1. ASSUME NEW m \in Maps, EditMap(m, NONE)
        PROVE  InMapGrows
    BY <2>1, MapGrows DEF EditMap, PutMap
  <2>2. ASSUME NEW m \in Maps, SyncMap(m)
        PROVE  InMapGrows
    <3>1. /\ configMap' = configMap
          /\ configMapCache' = [configMapCache EXCEPT ![m] = configMap[m]]
          /\ configMapCache \in [Maps -> MapObj \cup {NONE}]
      BY <2>2 DEF SyncMap, Parts, MapStored
    <3>2. \A k \in Maps : configMapCache'[k] \in {configMap[k], configMapCache[k]}
      BY <3>1
    <3> QED
      BY <3>1, <3>2 DEF InMapGrows, InMap
  <2>3. CASE UNCHANGED <<configMap, configMapCache>>
    BY <2>3, MapsStay
  <2>4. \/ UNCHANGED <<configMap, configMapCache>>
        \/ \E m \in Maps : \/ BringMap(m) \/ RenameInMap(m) \/ DropMap(m)
                           \/ CollectMap(m) \/ SyncMap(m)
    BY DEF Environment, Edits, Informers, Apply, RequestDelete, DropForeign,
           ChangePolicy, EditCollection, ApplicationCreates, ApplicationDrops,
           CloudChange, Deliver, Resync, apiVars, configMapVars
  <2>5. \A m \in Maps : ~BringMap(m) /\ ~RenameInMap(m)
    BY Unmixed DEF BringMap, RenameInMap
  <2> QED
    BY <2>1, <2>2, <2>3, <2>4, <2>5 DEF DropMap, CollectMap
<1>3. InStatusGrows
  <2>1. ASSUME NEW c \in Collections, NEW obj, EditCollection(c, obj),
               obj # NONE => \/ obj.status.name = NONE
                             \/ /\ collection[c] # NONE
                                /\ obj.status.name = collection[c].status.name
        PROVE  InStatusGrows
    <3>1. /\ collection' = [collection EXCEPT ![c] = obj]
          /\ UNCHANGED collectionCache
          /\ collection \in [Collections -> CollectionObj \cup {NONE}]
      BY <2>1 DEF EditCollection, PutCollection, Parts, CollectionStored
    <3>2. /\ collection'[c] = obj
          /\ \A d \in Collections \ {c} : collection'[d] = collection[d]
      BY <3>1
    <3> QED
      BY <2>1, <3>1, <3>2, StatusGrows
  <2>2. CASE \E c \in Collections : Apply(c)
    <3>1. PICK c \in Collections : Apply(c)
      BY <2>2
    <3>2. NewCollection(c).status.name = NONE
      BY DEF NewCollection, BlankStatus
    <3> QED
      BY <2>1, <3>1, <3>2 DEF Apply
  <2>3. CASE \E c \in Collections : RequestDelete(c) \/ DropForeign(c) \/ ChangePolicy(c)
    <3>1. PICK c \in Collections, obj \in CollectionObj :
            Edited(c, Reaped(obj)) /\ obj.status = collection[c].status
      BY <2>3, CollectionEdits
    <3> QED
      BY <2>1, <3>1 DEF Edited, Reaped
  <2>4. ASSUME NEW c \in Collections, Deliver(c)
        PROVE  InStatusGrows
    <3>1. /\ collection' = collection
          /\ collectionCache' = [collectionCache EXCEPT ![c] = collection[c]]
          /\ collectionCache \in [Collections -> CollectionObj \cup {NONE}]
      BY <2>4 DEF Deliver, Parts, CollectionStored
    <3>2. \A d \in Collections :
            collectionCache'[d] \in {collection[d], collectionCache[d]}
      BY <3>1
    <3> QED
      BY <3>1, <3>2 DEF InStatusGrows, InStatus
  <2> QED
    BY <2>2, <2>3, <2>4, OtherEnvironment, StatusesStay
<1> QED
  BY <1>1, <1>2, <1>3, WorkStays

LEMMA NextNamesInv ==
    ASSUME Parts, NamesInv, OwnMaps, NamesUnmixed, [Next]_vars
    PROVE  NamesInv'
<1>1. ASSUME WorkGrows, InMapGrows, InStatusGrows
      PROVE  NamesInv'
  BY <1>1, PlacesGrow, NamesInvKept
<1>2. CASE PassStep
  BY <1>1, <1>2, WritingStepsNames, MapStepsNames, SolrStepsNames DEF PassStep
<1>3. CASE \E c \in Collections : Begin(c)
  <2>1. PICK c \in Collections : Begin(c)
    BY <1>3
  <2>2. /\ UNCHANGED <<collection, collectionCache, configMap, configMapCache>>
        /\ w'.key = c /\ w'.status = collectionCache[c].status
        /\ collectionCache[c] # NONE
    BY <2>1, BlankType DEF Begin, Work, NoWork, configMapVars
  <2>3. WorkGrows
    BY <2>2 DEF WorkGrows, Uses, InStatus
  <2> QED
    BY <1>1, <2>2, <2>3, MapsStay, StatusesStay
<1>4. CASE \/ UNCHANGED vars
           \/ \E c \in Collections : ObjectGone(c) \/ CannotDelete(c)
  <2>1. UNCHANGED <<w, collection, collectionCache, configMap, configMapCache>>
    BY <1>4 DEF ObjectGone, CannotDelete, vars, apiVars, collectionVars,
                configMapVars, workVars
  <2> QED
    BY <1>1, <2>1, WorkStays, MapsStay, StatusesStay
<1>5. CASE Environment
  BY <1>1, <1>5, OthersNames
<1>6. CASE Crash
  <2>1. /\ collectionCache' = collection /\ collection' = collection
        /\ configMapCache' = configMap /\ configMap' = configMap
        /\ w' = NoWork
    BY <1>6 DEF Crash, Relist
  <2>2. WorkGrows
    BY <2>1, BlankType, CollectionApiAssumption DEF WorkGrows
  <2> QED
    BY <1>1, <2>1, <2>2 DEF InMapGrows, InMap, InStatusGrows, InStatus
<1> QED
  BY <1>2, <1>3, <1>4, <1>5, <1>6 DEF Next, Worker, TakeKey

-----------------------------------------------------------------------------
(* The finalizer comes off when the collection is gone.                    *)
RemovesWhenGone(c) ==
    (/\ HasFinalizer(collection[c]) /\ ~HasFinalizer(collection'[c])
     /\ collection[c].policy = "delete")
      => collection[c].status.name \notin inSolr

LEMMA PassStepRetires ==
    ASSUME Parts, RetirementInv, PassStep
    PROVE  RetirementInv' /\ \A c \in Collections : RemovesWhenGone(c)
<1>1. CASE AddFinalizer \/ InitStatus \/ UpdateStatus \/ RemoveFinalizer
  <2>1. pc' \in {"idle", "initStatus", "observe"} /\ UNCHANGED inSolr
    BY <1>1, WritingSteps
  <2>2. RetirementInv'
    BY <2>1, LabelsApart DEF RetirementInv
  <2>3. CASE UNCHANGED collection
    BY <2>2, <2>3 DEF RemovesWhenGone
  <2>4. CASE ~UNCHANGED collection
    <3>1. PICK obj \in CollectionObj : WriteOf(obj)
      BY <2>4, WriteEffect
    <3>2. /\ w.key \in collectionHeld
          /\ collection'[w.key] = Reaped(obj)
          /\ \A c \in Collections \ {w.key} : collection'[c] = collection[c]
          /\ collection[w.key] # NONE /\ obj # NONE
      BY <3>1, ObjectsAreThere DEF WriteOf
    <3>3. RemovesWhenGone(w.key)
      <4>1. CASE pc = "removeFinalizer"
        BY <3>2, <4>1, LabelsApart DEF RetirementInv, RemovesWhenGone
      <4>2. CASE pc # "removeFinalizer"
        <5>1. /\ Reaped(obj) = obj
              /\ obj.finalizer \/ obj.finalizer = collection[w.key].finalizer
          BY <3>1, <4>2 DEF WriteOf
        <5> QED
          BY <3>2, <5>1 DEF RemovesWhenGone, HasFinalizer
      <4> QED
        BY <4>1, <4>2
    <3>4. \A c \in Collections \ {w.key} : RemovesWhenGone(c)
      BY <3>2 DEF RemovesWhenGone
    <3> QED
      BY <2>2, <3>3, <3>4
  <2> QED
    BY <2>3, <2>4
<1>2. CASE Observe \/ CreateMap \/ GetMap \/ UpdateMap
  <2>1. PassGoesOn /\ UNCHANGED collection
    BY <1>2, OtherSteps
  <2>2. pc \in EnsureLabels
    BY <1>2, LabelsApart DEF Observe, CreateMap, GetMap, UpdateMap
  <2>3. RetirementInv'
    BY <2>1, <2>2, LabelsApart DEF PassGoesOn, RetirementInv
  <2> QED
    BY <2>1, <2>3 DEF RemovesWhenGone
<1>3. CASE CheckExists \/ DeleteFromSolr
  <2>1. UNCHANGED collection /\ PassGoesOn /\ w \in Work /\ w.status \in Status
    BY <1>3, SolrStepsEffect, OtherSteps DEF Parts, WorkerInv, Work
  <2>2. \A c \in Collections : RemovesWhenGone(c)
    BY <2>1 DEF RemovesWhenGone
  <2>3. CASE pc' = "idle"
    BY <2>2, <2>3, LabelsApart DEF RetirementInv
  <2>4. CASE pc' # "idle"
    <3>1. /\ pc \in DeleteLabels
          /\ w'.key = w.key /\ w'.status = w.status
          /\ collectionHeld' = collectionHeld
          /\ pc' = "removeFinalizer" => w.status.name \notin inSolr'
      <4>1. CASE CheckExists
        <5>1. /\ pc = "checkExists" /\ UNCHANGED inSolr
              /\ GoTo(IF CollectionExists(w.status.name) THEN "deleteCollection"
                      ELSE "removeFinalizer", w.status)
          BY <2>4, <4>1
             DEF CheckExists, ListCollections, Requeue, LeavePass
        <5>2. pc' = "removeFinalizer" => ~CollectionExists(w.status.name)
          BY <2>1, <5>1, GoToType
        <5> QED
          BY <2>1, <5>1, <5>2, GoToType, LabelsApart DEF CollectionExists
      <4>2. CASE DeleteFromSolr
        <5>1. PICK o \in Outcomes :
                /\ DeleteCollection(w.status.name, o)
                /\ GoTo("removeFinalizer", w.status)
                /\ ~Failed(o)
          BY <2>4, <4>2 DEF DeleteFromSolr, Requeue, LeavePass
        <5>2. w.status.name \notin inSolr'
          BY <5>1 DEF DeleteCollection, Failed, Applied
        <5> QED
          BY <2>1, <4>2, <5>1, <5>2, GoToType, LabelsApart DEF DeleteFromSolr
      <4> QED
        BY <1>3, <4>1, <4>2
    <3>2. RetirementInv'
      BY <2>1, <3>1 DEF RetirementInv
    <3> QED
      BY <2>2, <3>2
  <2> QED
    BY <2>3, <2>4
<1> QED
  BY <1>1, <1>2, <1>3 DEF PassStep

LEMMA BeginRetires ==
    ASSUME Parts, NEW c \in Collections, Begin(c)
    PROVE  RetirementInv' /\ UNCHANGED collection
<1>1. /\ UNCHANGED <<inSolr, collection>>
      /\ collectionHeld' = {c} \ collectionLag
      /\ pc' = Route(collectionCache[c])
      /\ w'.key = c /\ w'.status = collectionCache[c].status
  BY BlankType DEF Begin, Work, NoWork
<1>2. c \in collectionHeld' => collectionCache[c] = collection[c]
  BY <1>1 DEF Parts, CollectionStored
<1>3. (pc' = "removeFinalizer" /\ collectionCache[c].policy = "delete")
        => collectionCache[c].status.name = NONE
  BY <1>1 DEF Route, Retire
<1>4. NONE \notin inSolr
  BY NamesAssumption DEF Parts, Elsewhere
<1> QED
  BY <1>1, <1>2, <1>3, <1>4 DEF RetirementInv

(* The collection of a Collection that is being deleted is not created     *)
(* once more: who creates it comes late.                                   *)
LEMMA NotCreatedAgain ==
    ASSUME Parts, OwnMaps, NamesInv, NeverLate, NEW c \in Collections,
           collection[c] # NONE, ~Live(collection[c]),
           NEW m \in Maps, ApplicationCreates(m)
    PROVE  configMap[m].name # collection[c].status.name
<1> SUFFICES ASSUME configMap[m].name = collection[c].status.name
             PROVE  FALSE
  OBVIOUS
<1> DEFINE n == configMap[m].name
<1>1. configMap[m] # NONE /\ n # NONE /\ Wanted(m)
  BY ExcludedNeverHappens DEF ApplicationCreates, NeverLate
<1>2. n \in Names
  BY <1>1 DEF Parts, MapStored, MapObj
<1>3. InMap(m, n)
  BY <1>1 DEF InMap
<1>4. InStatus(c, n)
  BY DEF InStatus
<1>5. PICK d \in Collections : MapOf[d] = m
  BY <1>2, <1>3 DEF NamesInv
<1> HIDE DEF n
<1>6. m # NONE
  BY CollectionApiAssumption
<1>7. Uses(d, n) /\ Uses(c, n)
  BY <1>3, <1>4, <1>5, <1>6 DEF Uses
<1>8. d = c
  BY <1>2, <1>7 DEF NamesInv
<1>9. PICK e \in Collections : MapOf[e] = m /\ Live(collection[e])
  BY <1>1 DEF Wanted
<1>10. e = d
  BY <1>5, <1>6, <1>9 DEF OwnMaps
<1> QED
  BY <1>8, <1>9, <1>10

LEMMA EditedRetires ==
    ASSUME Parts, RetirementInv, NEW c \in Collections, NEW obj,
           EditCollection(c, obj), UNCHANGED <<pc, w>>,
           HasFinalizer(collection[c]) => HasFinalizer(obj)
    PROVE  RetirementInv' /\ \A d \in Collections : RemovesWhenGone(d)
<1>1. /\ collection' = [collection EXCEPT ![c] = obj]
      /\ collectionHeld' = collectionHeld \ {c}
      /\ UNCHANGED inSolr
      /\ collection \in [Collections -> CollectionObj \cup {NONE}]
      /\ collectionHeld \subseteq Collections
  BY DEF EditCollection, PutCollection, Parts, CollectionStored, WorkerInv
<1>2. /\ \A d \in Collections \ {c} : collection'[d] = collection[d]
      /\ collection'[c] = obj
  BY <1>1
<1>3. RetirementInv'
  BY <1>1, <1>2 DEF RetirementInv
<1> QED
  BY <1>2, <1>3 DEF RemovesWhenGone

LEMMA OthersRetire ==
    ASSUME Parts, OwnMaps, NamesInv, DeletionInv, RetirementInv, NeverLate,
           Environment
    PROVE  RetirementInv' /\ \A c \in Collections : RemovesWhenGone(c)
<1>1. UNCHANGED <<pc, w>>
  BY DEF Environment, workVars
<1>2. CASE \E c \in Collections : Apply(c)
  BY <1>1, <1>2, EditedRetires DEF Apply, HasFinalizer
<1>3. CASE \E c \in Collections : RequestDelete(c) \/ DropForeign(c) \/ ChangePolicy(c)
  <2>1. PICK c \in Collections, obj \in CollectionObj :
          Edited(c, Reaped(obj)) /\ obj.finalizer = collection[c].finalizer
    BY <1>3, CollectionEdits
  <2>2. HasFinalizer(collection[c]) => HasFinalizer(Reaped(obj))
    BY <2>1, ObjectsAreThere DEF HasFinalizer, Reaped
  <2> QED
    BY <1>1, <2>1, <2>2, EditedRetires DEF Edited
<1>4. CASE ~ \E c \in Collections : \/ Apply(c) \/ RequestDelete(c)
                                    \/ DropForeign(c) \/ ChangePolicy(c)
  <2>1. UNCHANGED <<collection, collectionHeld>>
    BY <1>4, OtherEnvironment
  <2>2. \A c \in Collections : RemovesWhenGone(c)
    BY <2>1 DEF RemovesWhenGone
  <2>3. CASE \E m \in Maps : ApplicationCreates(m)
    <3>1. PICK m \in Maps : ApplicationCreates(m)
      BY <2>3
    <3>2. inSolr' = inSolr \cup {configMap[m].name}
      BY <3>1 DEF ApplicationCreates
    <3>3. (pc \in DeleteLabels /\ w.key \in collectionHeld) =>
            configMap[m].name # w.status.name
      <4> SUFFICES ASSUME pc \in DeleteLabels, w.key \in collectionHeld
                   PROVE  configMap[m].name # w.status.name
        OBVIOUS
      <4>1. /\ w.key \in Collections /\ collection[w.key] # NONE
            /\ ~Live(collection[w.key])
            /\ collection[w.key].status = w.status
        BY HeldCollection, ObjectsAreThere DEF DeletionInv, RetirementInv, Live
      <4> QED
        BY <3>1, <4>1, NotCreatedAgain
    <3> QED
      BY <1>1, <2>1, <2>2, <3>2, <3>3 DEF RetirementInv
  <2>4. CASE ~ \E m \in Maps : ApplicationCreates(m)
    <3>1. inSolr' \subseteq inSolr
      BY <1>4, <2>4
         DEF Environment, Edits, Informers, BringMap, RenameInMap, DropMap,
             CollectMap, EditMap, ApplicationDrops, CloudChange, Deliver,
             Resync, SyncMap
    <3> QED
      BY <1>1, <2>1, <2>2, <3>1 DEF RetirementInv
  <2> QED
    BY <2>3, <2>4
<1> QED
  BY <1>2, <1>3, <1>4

LEMMA NextRetires ==
    ASSUME Parts, OwnMaps, NamesInv, DeletionInv, RetirementInv, NeverLate,
           [Next]_vars
    PROVE  RetirementInv' /\ \A c \in Collections : RemovesWhenGone(c)
<1>1. CASE PassStep
  BY <1>1, PassStepRetires
<1>2. CASE \E c \in Collections : Begin(c)
  BY <1>2, BeginRetires DEF RemovesWhenGone
<1>3. CASE \/ UNCHANGED vars
           \/ \E c \in Collections : ObjectGone(c) \/ CannotDelete(c)
  <2>1. UNCHANGED <<collection, collectionHeld, inSolr, pc, w>>
    BY <1>3 DEF ObjectGone, CannotDelete, vars, apiVars, collectionVars, workVars
  <2> QED
    BY <2>1 DEF RetirementInv, RemovesWhenGone
<1>4. CASE Environment
  BY <1>4, OthersRetire
<1>5. CASE Crash
  BY <1>5, LabelsApart DEF Crash, Relist, RetirementInv, RemovesWhenGone
<1> QED
  BY <1>1, <1>2, <1>3, <1>4, <1>5 DEF Next, Worker, TakeKey

LEMMA InitRemoval == Init => RemovalInv
<1> SUFFICES ASSUME Init
             PROVE  RemovalInv
  OBVIOUS
<1>1. RetirementInv
  BY LabelsApart DEF Init, RetirementInv
<1>2. \A m \in Maps, n \in Names : ~InMap(m, n)
  BY DEF Init, ApiInit, InMap
<1>3. \A c \in Collections, n \in Names : ~InStatus(c, n)
  BY NamesAssumption DEF Init, ApiInit, InStatus, NewCollection, BlankStatus
<1>4. \A c \in Collections : c # w.key
  BY BlankType, CollectionApiAssumption DEF Init
<1>5. \A c \in Collections, n \in Names : ~Uses(c, n)
  BY <1>2, <1>3, <1>4, CollectionApiAssumption DEF Uses
<1> QED
  BY <1>1, <1>2, <1>5 DEF RemovalInv, NamesInv

(***************************************************************************)
(* Spec => FinalizerRemovalDeletes: when the finalizer comes off a         *)
(* Collection whose policy is delete, the collection its status names is   *)
(* gone from Solr.  Between the check, or the deletion, and the removal of *)
(* the finalizer nobody creates it again, because by NamesInv its name is  *)
(* nobody else's and its Collection is, by DeletionInv, being deleted.     *)
(***************************************************************************)
THEOREM RemovalFollowsDeletion ==
    ASSUME OwnMaps, Excluded({"bring", "rename", "lateApplication"})
    PROVE  Spec => FinalizerRemovalDeletes
<1> USE UnmixedAndNotLate
<1> DEFINE Inv == TypeInv /\ DeletionInv /\ RemovalInv
<1>1. Init => Inv
  BY InitParts, TypeInvIsParts, InitDeletion, InitRemoval
<1>2. Inv /\ [Next]_vars => Inv'
  BY NextParts, NextDeletion, NextNamesInv, NextRetires, TypeInvIsParts,
     TypeInvIsPartsNext DEF RemovalInv
<1>3. Inv /\ [Next]_vars =>
        [\A c \in Collections :
           (/\ HasFinalizer(collection[c]) /\ ~HasFinalizer(collection'[c])
            /\ collection[c].policy = "delete")
             => collection[c].status.name \notin inSolr]_vars
  BY NextRetires, TypeInvIsParts DEF RemovalInv, RemovesWhenGone
<1> HIDE DEF Inv
<1> QED
  BY <1>1, <1>2, <1>3, PTL DEF Spec, FinalizerRemovalDeletes

(***************************************************************************)
(* Spec => []NamesInv: a name never belongs to two Collections, wherever   *)
(* it is written, in stored objects, in copies however old, or in the pass *)
(* at work: what is generated is new, and nothing carries a name over.     *)
(***************************************************************************)
THEOREM NamesAreNotShared ==
    ASSUME OwnMaps, Excluded({"bring", "rename"})
    PROVE  Spec => []NamesInv
<1> USE DEF NamesUnmixed
<1>1. Init => TypeInv /\ NamesInv
  BY InitParts, TypeInvIsParts, InitRemoval DEF RemovalInv
<1>2. TypeInv /\ NamesInv /\ [Next]_vars => TypeInv' /\ NamesInv'
  BY NextParts, NextNamesInv, TypeInvIsParts, TypeInvIsPartsNext
<1> QED
  BY <1>1, <1>2, PTL DEF Spec
=============================================================================
